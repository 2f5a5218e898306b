------------------------ MODULE SchedulerProperties ------------------------
(***************************************************************************)
(* What the scheduler promises: to its queues, to the block pool, to the   *)
(* worker and to the client that reads the output of a request.            *)
(***************************************************************************)
EXTENDS Scheduler

Statuses == {"NEW", "WAITING", "WAITING_FOR_REMOTE_KVS", "RUNNING", "PREEMPTED", "FINISHED"}

\* A scheduler output, as the worker gets it.
Batch == [seq : Nat, tokens : [Req -> Nat], spec : [Req -> Nat], samples : SUBSET Req,
          base : [Req -> Nat], writes : [Req -> SUBSET Blocks], loads : SUBSET Req]

QueueTypes ==
    /\ reqs \subseteq Req /\ status \in [Req -> Statuses]
    /\ waiting \in Seq(Req) /\ skipped \in Seq(Req) /\ running \in Seq(Req)

TokenTypes ==
    /\ computed \in [Req -> Int] /\ out \in [Req -> Seq(Nat)]
    /\ spec \in [Req -> Nat] /\ placeholders \in [Req -> Int]
    /\ inflight \in [Req -> Int] /\ stale \in [Req -> Int]
    /\ dropStale \in [Req -> BOOLEAN] /\ isPrefill \in [Req -> BOOLEAN]
    /\ wasPreempted \in [Req -> BOOLEAN] /\ lastSeq \in [Req -> Nat]

BlockTypes ==
    /\ held \in [Req -> SUBSET Blocks] /\ free \subseteq Blocks
    /\ deferred \in Seq([fence : Nat, blocks : SUBSET Blocks])
    /\ schedSeq \in Nat /\ procSeq \in Nat

SetTypes ==
    /\ finishedIds \subseteq Req /\ preemptedIds \subseteq Req
    /\ inflightPrefills \subseteq Req /\ finishedRecving \subseteq Req

PassTypes ==
    /\ pc \in {"idle", "running", "waiting", "finish", "update", "reset"}
    /\ idx \in Nat \ {0} /\ budget \in Nat /\ restored \in Nat
    /\ sched \in [Req -> Nat] /\ schedSpec \in [Req -> Nat]
    /\ admitted \subseteq Req /\ stepSkipped \in Seq(Req) /\ stepLoads \subseteq Req

WorkerTypes ==
    /\ todo \subseteq Req /\ batches \in Seq(Batch) /\ loading \subseteq Req
    /\ slots \subseteq Req /\ wpos \in [Req -> Nat]

\* Every variable has its type; in particular a pass never gives out more than
\* its budget (token_budget >= 0).
\* The token counters are integers here: that they stay at or above zero is
\* part of CountersAgree.
TypeOK ==
    /\ QueueTypes /\ TokenTypes /\ BlockTypes /\ SetTypes /\ PassTypes /\ WorkerTypes
    /\ preempts \in BOOLEAN /\ resets \in Nat

-----------------------------------------------------------------------------
NoDuplicates(q) == \A i, j \in DOMAIN q : q[i] = q[j] => i = j
Unfinished == {r \in reqs : ~IsFinished(r)}

\* A request the scheduler knows and has not finished is in one queue, once,
\* and the queue fits its status: running requests in running, preempted and
\* waiting ones in waiting or skipped_waiting (or set aside by this pass).
\* A finished request is in none, so no later pass can schedule it, and no
\* block belongs to a request the scheduler forgot.
QueuesMatchStatus ==
    LET all == waiting \o skipped \o stepSkipped \o running
    IN /\ NoDuplicates(all)
       /\ Elems(all) = Unfinished
       /\ \A r \in Unfinished : (r \in Elems(running)) <=> (status[r] = "RUNNING")
       /\ \A r \in Req : held[r] # {} => r \in reqs
       /\ Len(running) <= MaxRunningReqs

Deferred == UNION {deferred[i].blocks : i \in DOMAIN deferred}

\* Blocks are neither lost nor shared: each is in the pool, owned by one
\* request the scheduler knows, or waits behind one fence.
BlocksAccounted ==
    /\ free \cup Deferred \cup UNION {held[r] : r \in Req} = Blocks
    /\ free \cap Deferred = {}
    /\ \A r \in Req : /\ held[r] \cap (free \cup Deferred) = {}
                      /\ \A q \in Req \ {r} : held[r] \cap held[q] = {}
    /\ \A i, j \in DOMAIN deferred : i # j => deferred[i].blocks \cap deferred[j].blocks = {}

\* The steps whose output was not processed; a step that is being processed
\* has completed on the device.
InFlight == IF pc = "update" THEN Tail(batches) ELSE batches

\* With a connector that may fill freed blocks while steps overlap, a block
\* that a step in flight writes is in nobody else's hands: not in the pool,
\* not owned by another request.  The comment on defer_block_free: "a load
\* that isn't ordered against that write".
NoReuseUnderWrite ==
    DeferBlockFree =>
        \A i \in DOMAIN InFlight : \A r \in Req :
            /\ InFlight[i].writes[r] \cap free = {}
            /\ \A q \in Req \ {r} : InFlight[i].writes[r] \cap held[q] = {}

\* Loads the worker was told to run and that were not reported as arrived.
LoadsUnderway == loading \cup UNION {batches[i].loads : i \in DOMAIN batches}

\* A load never targets a block that a step in flight writes, the earlier
\* steps of the request itself included: the load and the step are not
\* ordered on the device.
NoLoadUnderWrite ==
    \A q \in LoadsUnderway : \A i \in DOMAIN InFlight : \A r \in Req :
        InFlight[i].writes[r] \cap held[q] = {}
-----------------------------------------------------------------------------
\* The client sees the token of every position exactly once and in order,
\* whatever was preempted, reset, dropped or delivered late.
OutputInOrder ==
    \A r \in Req : \A i \in DOMAIN out[r] : out[r][i] = PromptLen[r] + i

\* The steps of r in flight that were scheduled before its last preemption:
\* all of them until it is admitted again.
StaleSteps(r) ==
    {i \in DOMAIN batches :
        status[r] # "RUNNING" \/ \E j \in DOMAIN batches : j > i /\ batches[j].base[r] > 0}

TokensIn(r, steps) == SumOver([i \in DOMAIN batches |-> batches[i].tokens[r]], steps)

\* Counting stale tokens names the right steps: between two calls the stale
\* share of a request is what it has in flight from before its preemption,
\* and a request that runs again has only output in flight that is dropped.
StaleNamesOldSteps ==
    pc = "idle" =>
        \A r \in Unfinished :
            /\ inflight[r] = TokensIn(r, DOMAIN batches)
            /\ stale[r] = TokensIn(r, StaleSteps(r))
            /\ status[r] = "RUNNING" /\ stale[r] > 0 => dropStale[r]

\* The scheduler's guess of how far a running request got is exact up to the
\* tokens in flight: a decode has computed all its tokens but the last, plus
\* the placeholders; rejections and preemptions leave no residue.  Draining,
\* rolling back and crediting never take more than was put in (the assertions
\* on num_stale_output_tokens and on the placeholders).
CountersAgree ==
    /\ \A r \in Unfinished :
          /\ computed[r] >= 0 /\ placeholders[r] >= 0
          /\ 0 <= stale[r] /\ stale[r] <= inflight[r]
    /\ pc = "idle" =>
        \A r \in Unfinished :
            /\ status[r] = "RUNNING" /\ inflight[r] = 0 =>
                  placeholders[r] = 0 /\ computed[r] < NumTokens(r)
            /\ AsyncScheduling /\ status[r] = "RUNNING" /\ ~isPrefill[r] =>
                  computed[r] = NumTokens(r) - 1 + placeholders[r]

\* The pass never gives out more tokens than the step may hold, and a
\* preempted victim returns exactly what it was given (the assertions at the
\* end of schedule()).
BudgetKept ==
    pc \in {"running", "waiting", "finish"} =>
        /\ SumOver(sched, Req) + budget = MaxScheduledTokens
        /\ \A r \in Req : sched[r] > 0 => status[r] = "RUNNING"

\* The worker has a row for every request it is given and never more than
\* max_num_seqs of them.
WorkerRows ==
    /\ Cardinality(slots) <= MaxRunningReqs
    /\ pc = "idle" => Elems(running) \subseteq slots
-----------------------------------------------------------------------------
\* A request that was added finishes: the scheduler neither starves it nor
\* lets preemptions, resets or loads keep it waiting forever.
RequestsFinish == \A r \in Req : (status[r] = "WAITING") ~> (status[r] = "FINISHED")

\* What a finished request held is given back: its blocks to the pool, its
\* row to the worker, its entry in the scheduler.
ResourcesReturn ==
    \A r \in Req : (status[r] = "FINISHED") ~> (r \notin reqs \cup slots /\ held[r] = {})

\* A reset with reset_running_requests brings the reference count of all
\* blocks to 0, unless a request waits for a remote load.
ResetFreesBlocks ==
    (pc = "reset" /\ running = <<>> /\ \A r \in Req : held[r] = {}) => ResetSucceeds
=============================================================================

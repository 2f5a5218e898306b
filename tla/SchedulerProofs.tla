--------------------------- MODULE SchedulerProofs ---------------------------
(***************************************************************************)
(* Proofs about the scheduler, for every value of its constants: every     *)
(* variable keeps its type; blocks are neither lost nor shared, and a      *)
(* block that a step in flight writes is in nobody else's hands; each      *)
(* background load is given out once, for a request that waits for it, and *)
(* none targets a block that a step in flight writes.  Then the queues and *)
(* what follows from them: each unfinished request is in the one queue of  *)
(* its status, the worker has a row for each request that runs, and a pass *)
(* gives out its budget.  Last the tokens of a request: the counters of    *)
(* what is in flight name the right steps, the client sees every token     *)
(* once, in order, and the counters of computed tokens are ahead by what   *)
(* is still to come.                                                       *)
(***************************************************************************)
EXTENDS SchedulerProperties, SequenceTheorems, FiniteSetTheorems, TLAPS

-----------------------------------------------------------------------------
(* Helpers.                                                                *)

\* A queue without one of its entries (list.remove, queue.remove) is the
\* queue of the others.
LEMMA WithoutFacts ==
    ASSUME NEW q \in Seq(Req), NEW r
    PROVE  /\ Without(q, r) \in Seq(Req)
           /\ NoDuplicates(q) =>
                 /\ NoDuplicates(Without(q, r))
                 /\ Elems(Without(q, r)) = Elems(q) \ {r}
<1>1. CASE r \notin Elems(q)
  BY <1>1 DEF Without
<1>2. CASE r \in Elems(q)
  <2> DEFINE i == IndexOf(q, r)
             n == Len(q)
             d == DropAt(q, i)
  <2>1. i \in 1 .. n /\ q[i] = r
    BY <1>2 DEF IndexOf, Elems
  <2> HIDE DEF i
  <2> DEFINE front == SubSeq(q, 1, i - 1)
             back  == SubSeq(q, i + 1, n)
  <2>2. /\ front \in Seq(Req) /\ back \in Seq(Req)
        /\ Len(front) = i - 1 /\ Len(back) = n - i
        /\ \A j \in 1 .. i - 1 : front[j] = q[j]
        /\ \A j \in 1 .. n - i : back[j] = q[i + j]
    BY <2>1, SubSeqProperties
  <2>3. /\ d \in Seq(Req) /\ Len(d) = n - 1
        /\ \A j \in 1 .. n - 1 : d[j] = IF j < i THEN q[j] ELSE q[j + 1]
    <3>1. d = front \o back
      BY DEF DropAt
    <3> HIDE DEF front, back, d
    <3>2. /\ d \in Seq(Req) /\ Len(d) = n - 1
          /\ \A j \in 1 .. n - 1 : d[j] = IF j <= i - 1 THEN front[j] ELSE back[j - (i - 1)]
      BY <2>1, <2>2, <3>1, ConcatProperties, SMTT(60)
    <3>3. ASSUME NEW j \in 1 .. n - 1, ~(j < i) PROVE d[j] = q[j + 1]
      <4>1. j - (i - 1) \in 1 .. n - i
        BY <2>1, <3>3
      <4> QED
        BY <2>1, <2>2, <3>2, <3>3, <4>1
    <3> QED
      BY <2>1, <2>2, <3>2, <3>3
  <2> HIDE DEF d
  <2>4. NoDuplicates(q) => NoDuplicates(d)
    BY <2>1, <2>3 DEF NoDuplicates
  <2>5. ASSUME NoDuplicates(q) PROVE Elems(d) = Elems(q) \ {r}
    <3>1. Elems(d) \subseteq Elems(q) \ {r}
      BY <2>1, <2>3, <2>5 DEF NoDuplicates, Elems
    <3>2. ASSUME NEW x \in Elems(q) \ {r} PROVE x \in Elems(d)
      <4>1. PICK k \in 1 .. n : q[k] = x
        BY DEF Elems
      <4>2. k < i => d[k] = x /\ k \in 1 .. n - 1
        BY <4>1, <2>1, <2>3
      <4>3. k > i => d[k - 1] = x /\ k - 1 \in 1 .. n - 1
        BY <4>1, <2>1, <2>3
      <4>4. k # i
        BY <4>1, <2>1
      <4>5. DOMAIN d = 1 .. n - 1
        BY <2>3
      <4> QED
        BY <4>2, <4>3, <4>4, <4>5, <2>1 DEF Elems
    <3> QED
      BY <3>1, <3>2
  <2>6. Without(q, r) = d
    BY <1>2 DEF Without, d, i
  <2> QED
    BY <2>3, <2>4, <2>5, <2>6
<1> QED
  BY <1>1, <1>2

\* A queue with a new entry at its end, or at its front.
LEMMA AppendFacts ==
    ASSUME NEW q \in Seq(Req), NEW r \in Req
    PROVE  /\ Append(q, r) \in Seq(Req) /\ <<r>> \o q \in Seq(Req)
           /\ NoDuplicates(q) /\ r \notin Elems(q) => NoDuplicates(Append(q, r))
           /\ Elems(Append(q, r)) = Elems(q) \cup {r}
<1>1. /\ Append(q, r) \in Seq(Req) /\ <<r>> \o q \in Seq(Req)
      /\ DOMAIN Append(q, r) = 1 .. Len(q) + 1
      /\ \A j \in 1 .. Len(q) : Append(q, r)[j] = q[j]
      /\ Append(q, r)[Len(q) + 1] = r
  OBVIOUS
<1>2. NoDuplicates(q) /\ r \notin Elems(q) => NoDuplicates(Append(q, r))
  BY <1>1 DEF NoDuplicates, Elems
<1>3. Elems(Append(q, r)) = Elems(q) \cup {r}
  BY <1>1 DEF Elems
<1> QED
  BY <1>1, <1>2, <1>3

\* The position of a member of a queue is one of its positions.
LEMMA IndexOfType ==
    ASSUME NEW q \in Seq(Req), NEW r \in Elems(q)
    PROVE  IndexOf(q, r) \in 1 .. Len(q)
  BY DEF IndexOf, Elems

\* What the assumption on the constants gives a leaf that needs only their types.
LEMMA Constants ==
    /\ \A r \in Req : PromptLen[r] \in Nat /\ PromptLen[r] > 0 /\ MaxTokens[r] \in Nat
    /\ MaxModelLen \in Nat /\ MaxScheduledTokens \in Nat /\ LongPrefill \in Nat /\ NumSpec \in Nat
    /\ MaxScheduledTokens > 0 /\ ExtHits \subseteq Nat
  BY ConstantsAssumption DEF ConstantsAssumption

\* request.num_tokens is a positive number: a prompt is not empty.
LEMMA NumTokensType ==
    ASSUME NEW r \in Req, TypeOK
    PROVE  NumTokens(r) \in Nat /\ NumTokens(r) > 0
<1>1. Len(out[r]) \in Nat
  BY DEF TypeOK, TokenTypes
<1> QED
  BY <1>1, Constants DEF NumTokens

\* What a running request is given in a pass fits the budget
\* (num_new_tokens in the running loop).
LEMMA NumNewTokensType ==
    ASSUME NEW r \in Req, TypeOK
    PROVE  /\ NumNewTokens(r) \in Int
           /\ budget > 0 => NumNewTokens(r) <= budget
<1>1. /\ computed[r] \in Int /\ spec[r] \in Nat /\ placeholders[r] \in Int
      /\ budget \in Nat /\ restored \in Nat /\ NumTokens(r) \in Nat
  BY NumTokensType DEF TypeOK, TokenTypes, PassTypes
<1> QED
  BY <1>1, Constants DEF NumNewTokens, MaxOf, MinOf, LongPrefillCap

\* What an admitted request is given fits the budget and is not empty when
\* it has tokens left (num_new_tokens in the waiting loop).
LEMMA AdmitTokensType ==
    ASSUME NEW r \in Req, TypeOK, budget > 0, computed[r] < NumTokens(r)
    PROVE  AdmitTokens(r) \in 1 .. budget
<1>1. /\ computed[r] \in Int /\ budget \in Nat /\ NumTokens(r) \in Nat
  BY NumTokensType DEF TypeOK, TokenTypes, PassTypes
<1> QED
  BY <1>1, Constants DEF AdmitTokens, MinOf, LongPrefillCap

-----------------------------------------------------------------------------
(* The invariant that carries the types.  That a chunk is a positive       *)
(* number of tokens (the assertions on num_new_tokens) depends on the      *)
(* requests a pass may pick: what waits has tokens left to compute, and    *)
(* what was given tokens is running.                                       *)

UpdateHasStep == pc = "update" => batches # <<>>

RunningQueue ==
    /\ NoDuplicates(running)
    /\ \A r \in Elems(running) : status[r] = "RUNNING"

OnlyRunningScheduled ==
    \A r \in Req : sched[r] > 0 =>
        status[r] = "RUNNING" /\ pc \in {"running", "waiting", "finish"}

TokensLeft ==
    \A r \in Req :
        /\ status[r] \in {"NEW", "WAITING", "PREEMPTED"} => computed[r] < NumTokens(r)
        /\ status[r] = "WAITING_FOR_REMOTE_KVS" => computed[r] <= NumTokens(r)

PassInv == TypeOK /\ UpdateHasStep /\ RunningQueue /\ OnlyRunningScheduled /\ TokensLeft

\* The scheduler starts with the invariant of its passes.
LEMMA PassInit == Init => PassInv
<1> SUFFICES ASSUME Init PROVE PassInv
  OBVIOUS
<1> USE DEF Init
<1>1. TypeOK
  <2>1. QueueTypes /\ TokenTypes /\ BlockTypes
    BY DEF QueueTypes, TokenTypes, BlockTypes, Statuses
  <2>2. SetTypes /\ PassTypes /\ WorkerTypes
    BY DEF SetTypes, PassTypes, WorkerTypes
  <2>3. preempts \in BOOLEAN
    OBVIOUS
  <2>4. resets \in Nat
    OBVIOUS
  <2> QED
    BY <2>1, <2>2, <2>3, <2>4 DEF TypeOK
<1>2. UpdateHasStep /\ RunningQueue /\ OnlyRunningScheduled
  BY DEF UpdateHasStep, RunningQueue, NoDuplicates, Elems, OnlyRunningScheduled
<1>3. TokensLeft
  BY Constants DEF TokensLeft, NumTokens
<1> QED
  BY <1>1, <1>2, <1>3 DEF PassInv

\* Freed blocks go to the pool or behind a fence; nothing leaves the types.
LEMMA FreeBlocksTypes ==
    ASSUME BlockTypes, NEW r \in Req, FreeRequestBlocks(r)
    PROVE  held' \in [Req -> SUBSET Blocks] /\ free' \subseteq Blocks
           /\ deferred' \in Seq([fence : Nat, blocks : SUBSET Blocks])
<1> USE DEF BlockTypes
<1>1. held' \in [Req -> SUBSET Blocks]
  BY DEF FreeRequestBlocks, Release
<1>2. free' \subseteq Blocks
  BY DEF FreeRequestBlocks
<1>3. deferred' \in Seq([fence : Nat, blocks : SUBSET Blocks])
  <2>1. [fence |-> schedSeq, blocks |-> held[r]] \in [fence : Nat, blocks : SUBSET Blocks]
    OBVIOUS
  <2>2. Append(deferred, [fence |-> schedSeq, blocks |-> held[r]])
            \in Seq([fence : Nat, blocks : SUBSET Blocks])
    BY <2>1, AppendProperties
  <2> QED
    BY <2>2 DEF FreeRequestBlocks
<1> QED
  BY <1>1, <1>2, <1>3

\* A preempted request leaves running and waits again from token 0.
LEMMA PreemptFacts ==
    ASSUME PassInv, NEW v \in Req, NEW drop \in BOOLEAN, Preempt(v, drop)
    PROVE  /\ QueueTypes' /\ TokenTypes' /\ BlockTypes' /\ SetTypes' /\ WorkerTypes'
           /\ (pc' = "update" => pc = "update") => UpdateHasStep'
           /\ RunningQueue' /\ TokensLeft'
           /\ \A r \in Req \ {v} : status'[r] = status[r]
<1> USE DEF PassInv, TypeOK, Preempt
<1>1. QueueTypes'
  BY WithoutFacts, AppendFacts DEF QueueTypes, Statuses
<1>2. TokenTypes'
  BY DEF TokenTypes, StaleAfterPreempt
<1>3. BlockTypes'
  BY FreeBlocksTypes DEF BlockTypes, seqVars
<1>4. SetTypes' /\ WorkerTypes'
  BY DEF SetTypes, WorkerTypes, workerVars
<1>5. (pc' = "update" => pc = "update") => UpdateHasStep'
  BY DEF UpdateHasStep, workerVars
<1>6. RunningQueue'
  BY WithoutFacts DEF RunningQueue, QueueTypes
<1>7. TokensLeft'
  BY NumTokensType DEF TokensLeft, NumTokens, QueueTypes, TokenTypes
<1>8. \A r \in Req \ {v} : status'[r] = status[r]
  BY DEF QueueTypes
<1> QED
  BY <1>1, <1>2, <1>3, <1>4, <1>5, <1>6, <1>7, <1>8

\* A request that is finished leaves every queue.
LEMMA DequeueFacts ==
    ASSUME PassInv, NEW r \in Req, Dequeue(r)
    PROVE  /\ status' \in [Req -> Statuses]
           /\ waiting' \in Seq(Req) /\ skipped' \in Seq(Req) /\ running' \in Seq(Req)
           /\ RunningQueue'
           /\ status'[r] = "FINISHED" /\ \A q \in Req \ {r} : status'[q] = status[q]
<1> USE DEF PassInv, TypeOK, QueueTypes, Dequeue
<1>1. /\ status' \in [Req -> Statuses]
      /\ status'[r] = "FINISHED" /\ \A q \in Req \ {r} : status'[q] = status[q]
  BY DEF Statuses
<1>2. waiting' \in Seq(Req) /\ skipped' \in Seq(Req) /\ running' \in Seq(Req)
  BY WithoutFacts
<1>3. RunningQueue'
  BY WithoutFacts DEF RunningQueue
<1> QED
  BY <1>1, <1>2, <1>3

\* Draining keeps the counters integers.
LEMMA DrainedTypes ==
    ASSUME TokenTypes, NEW r \in Req, NEW n \in Int, Drained(r, n)
    PROVE  inflight' \in [Req -> Int] /\ stale' \in [Req -> Int]
  BY DEF TokenTypes, Drained

\* Allocated blocks move from the pool to the request.
LEMMA AllocateTypes ==
    ASSUME BlockTypes, NEW r \in Req, NEW n, Allocate(r, n)
    PROVE  held' \in [Req -> SUBSET Blocks] /\ free' \subseteq Blocks
  BY DEF BlockTypes, Allocate

-----------------------------------------------------------------------------
(* Every action preserves the invariant.                                   *)

\* A step that changes nothing keeps the invariant.
LEMMA PassStutter ==
    ASSUME PassInv, UNCHANGED vars
    PROVE  PassInv'
<1> USE DEF PassInv, TypeOK, vars, queueVars, tokenVars, blockVars, seqVars, setVars, passVars,
            workerVars
<1>1. TypeOK'
  BY DEF QueueTypes, TokenTypes, BlockTypes, SetTypes, PassTypes, WorkerTypes
<1>2. UpdateHasStep' /\ RunningQueue' /\ OnlyRunningScheduled' /\ TokensLeft'
  BY DEF UpdateHasStep, RunningQueue, NoDuplicates, Elems, OnlyRunningScheduled, TokensLeft,
         NumTokens
<1> QED
  BY <1>1, <1>2

\* Steps that change only the cursors of the pass, pc and the reset count.
LEMMA PassCursors ==
    ASSUME PassInv, PassTypes', preempts' \in BOOLEAN, resets' \in Nat,
           UNCHANGED <<queueVars, tokenVars, blockVars, seqVars, setVars, todo, workerVars>>,
           pc' = "update" => pc = "update", OnlyRunningScheduled'
    PROVE  PassInv'
<1> USE DEF PassInv, TypeOK, queueVars, tokenVars, blockVars, seqVars, setVars, workerVars
<1>1. TypeOK'
  BY DEF QueueTypes, TokenTypes, BlockTypes, SetTypes, WorkerTypes
<1>2. UpdateHasStep' /\ RunningQueue' /\ TokensLeft'
  BY DEF UpdateHasStep, RunningQueue, NoDuplicates, Elems, TokensLeft, NumTokens
<1> QED
  BY <1>1, <1>2

\* The actions that only move the cursor of schedule() keep the invariant.
LEMMA PassCursorActions ==
    ASSUME PassInv,
           \/ ScheduleStart \/ RunningSkip \/ RunningEnd \/ WaitingEnd
           \/ \E r \in Req : WaitingBlocked(r)
           \/ ResetStart \/ ResetEnd
    PROVE  PassInv'
<1> USE DEF PassInv, TypeOK, PassTypes, OnlyRunningScheduled
<1>1. CASE ScheduleStart
  <2>1. preempts' \in BOOLEAN
    BY <1>1 DEF ScheduleStart
  <2>2. PassTypes' /\ resets' \in Nat /\ OnlyRunningScheduled'
    BY <1>1, Constants DEF ScheduleStart
  <2> QED
    BY <1>1, <2>1, <2>2, PassCursors DEF ScheduleStart
<1>2. CASE RunningSkip
  <2>1. preempts' \in BOOLEAN
    BY <1>2 DEF RunningSkip
  <2>2. PassTypes' /\ resets' \in Nat
    BY <1>2 DEF RunningSkip
  <2>3. OnlyRunningScheduled'
    BY <1>2 DEF RunningSkip, queueVars
  <2> QED
    BY <1>2, <2>1, <2>2, <2>3, PassCursors DEF RunningSkip
<1>3. CASE RunningEnd \/ WaitingEnd \/ \E r \in Req : WaitingBlocked(r)
  <2>1. /\ pc \in {"running", "waiting"} /\ pc' \in {"waiting", "finish"}
        /\ UNCHANGED <<queueVars, tokenVars, blockVars, seqVars, setVars, passVars, todo,
                       workerVars, resets>>
    BY <1>3 DEF RunningEnd, WaitingEnd, WaitingBlocked, Considers, InWaitingLoop
  <2>2. PassTypes' /\ preempts' \in BOOLEAN /\ resets' \in Nat /\ OnlyRunningScheduled'
    BY <2>1 DEF passVars, queueVars
  <2> QED
    BY <2>1, <2>2, PassCursors
<1>4. CASE ResetStart \/ ResetEnd
  <2>1. /\ pc \in {"idle", "reset"} /\ pc' \in {"idle", "reset"} /\ resets' \in Nat
        /\ UNCHANGED <<queueVars, tokenVars, blockVars, seqVars, setVars, passVars, todo,
                       workerVars>>
    BY <1>4 DEF ResetStart, ResetEnd
  <2>2. PassTypes' /\ preempts' \in BOOLEAN /\ OnlyRunningScheduled'
    BY <2>1 DEF passVars, queueVars
  <2> QED
    BY <2>1, <2>2, PassCursors
<1> QED
  BY <1>1, <1>2, <1>3, <1>4

\* RunningSchedule: the tokens fit the budget, the request is running.
LEMMA PassRunningSchedule ==
    ASSUME PassInv, RunningSchedule
    PROVE  PassInv'
<1> DEFINE r == running[idx]
           n == NumNewTokens(r)
<1> USE DEF PassInv, TypeOK
<1>1. r \in Req /\ r \in Elems(running) /\ budget > 0 /\ pc = "running"
  BY DEF RunningSchedule, InRunningLoop, QueueTypes, PassTypes, Elems
<1>2. n \in Nat /\ n <= budget
  BY <1>1, NumNewTokensType DEF RunningSchedule, WantsTokens
<1> HIDE DEF n
<1>3. QueueTypes' /\ SetTypes' /\ WorkerTypes' /\ preempts' \in BOOLEAN /\ resets' \in Nat
  BY DEF RunningSchedule, QueueTypes, SetTypes, WorkerTypes, queueVars, setVars, workerVars
<1>4. TokenTypes'
  BY <1>1 DEF RunningSchedule, TokenTypes
<1>5. BlockTypes'
  BY <1>1, AllocateTypes DEF RunningSchedule, BlockTypes, seqVars, r
<1>6. PassTypes'
  <2>1. /\ sched' = [sched EXCEPT ![r] = n] /\ budget' = budget - n /\ idx' = idx + 1
    BY DEF RunningSchedule, n
  <2>2. schedSpec' \in [Req -> Nat]
    <3>1. n + computed[r] - NumTokens(r) - placeholders[r] \in Int /\ spec[r] \in Nat
      <4> HIDE DEF r
      <4>1. computed[r] \in Int /\ placeholders[r] \in Int /\ spec[r] \in Nat
        BY <1>1 DEF TokenTypes
      <4>2. NumTokens(r) \in Nat
        BY <1>1, NumTokensType
      <4> QED
        BY <1>2, <4>1, <4>2
    <3> QED
      BY <3>1, <1>1 DEF RunningSchedule, PassTypes, MaxOf, MinOf, n
  <2> QED
    BY <2>1, <2>2, <1>1, <1>2 DEF RunningSchedule, PassTypes
<1>7. UpdateHasStep' /\ RunningQueue'
  BY DEF RunningSchedule, UpdateHasStep, RunningQueue, NoDuplicates, Elems, queueVars, workerVars
<1>8. OnlyRunningScheduled'
  BY <1>1 DEF RunningSchedule, OnlyRunningScheduled, RunningQueue, queueVars, PassTypes
<1>9. TokensLeft'
  BY DEF RunningSchedule, TokensLeft, NumTokens, queueVars
<1> QED
  BY <1>3, <1>4, <1>5, <1>6, <1>7, <1>8, <1>9

\* RunningPreempt: the victim gives its tokens back to the budget.
LEMMA PassRunningPreempt ==
    ASSUME PassInv, NEW v \in Req, RunningPreempt(v)
    PROVE  PassInv'
<1> USE DEF PassInv, TypeOK
<1>1. RequiresKVDelivery \in BOOLEAN
  BY ConstantsAssumption DEF ConstantsAssumption
<1>2. Preempt(v, RequiresKVDelivery) /\ pc = "running" /\ pc' \in {"running", "waiting"}
  BY DEF RunningPreempt, InRunningLoop
<1>3. /\ QueueTypes' /\ TokenTypes' /\ BlockTypes' /\ SetTypes' /\ WorkerTypes'
      /\ UpdateHasStep' /\ RunningQueue' /\ TokensLeft'
      /\ \A r \in Req \ {v} : status'[r] = status[r]
  BY <1>1, <1>2, PreemptFacts
<1>4. v \in Elems(running)
  <2>1. Len(running) \in 1 .. Len(running)
    BY DEF RunningPreempt, InRunningLoop, QueueTypes, PassTypes
  <2> QED
    BY <2>1 DEF RunningPreempt, IsVictim, Elems, QueueTypes
<1>5. IndexOf(running, v) \in 1 .. Len(running)
  BY <1>4, IndexOfType DEF QueueTypes
<1>6. PassTypes'
  <2>1. restored' \in Nat
    BY DEF RunningPreempt, PassTypes
  <2> QED
    BY <1>2, <1>5, <2>1 DEF RunningPreempt, PassTypes, BudgetAfterPreempt
<1>7. preempts' \in BOOLEAN /\ resets' \in Nat
  BY DEF RunningPreempt
<1>8. OnlyRunningScheduled'
  <2>1. sched' = [sched EXCEPT ![v] = 0] /\ sched \in [Req -> Nat]
    BY DEF RunningPreempt, PassTypes
  <2>2. ASSUME NEW r \in Req, sched'[r] > 0 PROVE status'[r] = "RUNNING"
    <3>1. r # v /\ sched[r] > 0
      BY <2>1, <2>2
    <3> QED
      BY <1>3, <3>1 DEF OnlyRunningScheduled
  <2> QED
    BY <1>2, <2>2 DEF OnlyRunningScheduled
<1> QED
  BY <1>3, <1>6, <1>7, <1>8

\* WaitingSkip: the request is set aside.
LEMMA PassWaitingSkip ==
    ASSUME PassInv, NEW r \in Req, WaitingSkip(r)
    PROVE  PassInv'
<1> USE DEF PassInv, TypeOK
<1>1. QueueTypes' /\ stepSkipped' \in Seq(Req)
  BY WithoutFacts, AppendFacts DEF WaitingSkip, Pop, QueueTypes, PassTypes
<1>2. TokenTypes' /\ BlockTypes' /\ SetTypes' /\ WorkerTypes'
  BY DEF WaitingSkip, TokenTypes, BlockTypes, SetTypes, WorkerTypes, tokenVars, blockVars,
         seqVars, setVars, workerVars
<1>3. preempts' \in BOOLEAN /\ resets' \in Nat
  BY DEF WaitingSkip
<1>4. PassTypes'
  BY <1>1 DEF WaitingSkip, PassTypes
<1>5. UpdateHasStep' /\ RunningQueue' /\ OnlyRunningScheduled' /\ TokensLeft'
  BY DEF WaitingSkip, UpdateHasStep, RunningQueue, NoDuplicates, Elems, OnlyRunningScheduled,
         TokensLeft, NumTokens, tokenVars, workerVars
<1> QED
  BY <1>1, <1>2, <1>3, <1>4, <1>5

\* WaitingPromote: a full hit leaves one token to compute.
LEMMA PassWaitingPromote ==
    ASSUME PassInv, NEW r \in Req, WaitingPromote(r)
    PROVE  PassInv'
<1> USE DEF PassInv, TypeOK
<1>1. QueueTypes'
  BY DEF WaitingPromote, QueueTypes, Statuses
<1>2. TokenTypes'
  BY DEF WaitingPromote, TokenTypes
<1>3. BlockTypes' /\ SetTypes' /\ WorkerTypes'
  BY DEF WaitingPromote, BlockTypes, SetTypes, WorkerTypes, blockVars, seqVars, workerVars
<1>4. preempts' \in BOOLEAN /\ resets' \in Nat
  BY DEF WaitingPromote, passVars
<1>5. PassTypes' /\ UpdateHasStep'
  BY DEF WaitingPromote, PassTypes, UpdateHasStep, passVars, workerVars
<1>6. RunningQueue' /\ OnlyRunningScheduled'
  BY DEF WaitingPromote, RunningQueue, NoDuplicates, Elems, OnlyRunningScheduled, QueueTypes,
         passVars
<1>7. TokensLeft'
  <2>1. /\ computed' = [computed EXCEPT ![r] = IF @ = NumTokens(r) THEN @ - 1 ELSE @]
        /\ \A q \in Req : NumTokens(q)' = NumTokens(q)
        /\ \A q \in Req \ {r} : status'[q] = status[q]
        /\ status[r] = "WAITING_FOR_REMOTE_KVS" /\ status'[r] \in {"PREEMPTED", "WAITING"}
    BY DEF WaitingPromote, NumTokens, QueueTypes
  <2>2. computed[r] \in Int /\ NumTokens(r) \in Nat /\ computed[r] <= NumTokens(r)
    BY <2>1, NumTokensType DEF TokensLeft, TokenTypes
  <2>3. computed'[r] < NumTokens(r)'
    BY <2>1, <2>2 DEF TokenTypes
  <2>4. \A q \in Req \ {r} : computed'[q] = computed[q]
    BY <2>1 DEF TokenTypes
  <2> QED
    BY <2>1, <2>3, <2>4 DEF TokensLeft
<1> QED
  BY <1>1, <1>2, <1>3, <1>4, <1>5, <1>6, <1>7

\* WaitingAdmit: the request has tokens left, so its chunk is not empty.
LEMMA PassWaitingAdmit ==
    ASSUME PassInv, NEW r \in Req, WaitingAdmit(r)
    PROVE  PassInv'
<1> DEFINE n == AdmitTokens(r)
<1> USE DEF PassInv, TypeOK
<1>1. /\ status[r] \in {"WAITING", "PREEMPTED"} /\ budget > 0 /\ pc = "waiting"
  BY DEF WaitingAdmit, Schedulable, Considers, InWaitingLoop
<1>2. n \in 1 .. budget
  BY <1>1, AdmitTokensType DEF TokensLeft
<1>3. /\ sched' = [sched EXCEPT ![r] = n] /\ budget' = budget - n
      /\ status' = [status EXCEPT ![r] = "RUNNING"] /\ running' = Append(running, r)
      /\ schedSpec' = [schedSpec EXCEPT ![r] = IF Pads(r) THEN NumSpec ELSE 0]
  BY DEF WaitingAdmit
<1> HIDE DEF n
<1>4. QueueTypes'
  BY <1>3, WithoutFacts, AppendFacts DEF WaitingAdmit, Pop, QueueTypes, Statuses
<1>5. TokenTypes' /\ SetTypes' /\ WorkerTypes'
  BY DEF WaitingAdmit, TokenTypes, SetTypes, WorkerTypes, tokenVars, workerVars
<1>6. BlockTypes'
  BY AllocateTypes DEF WaitingAdmit, BlockTypes, seqVars
<1>7. preempts' \in BOOLEAN /\ resets' \in Nat
  BY DEF WaitingAdmit
<1>8. PassTypes'
  <2>1. schedSpec' \in [Req -> Nat]
    BY <1>3, Constants DEF PassTypes
  <2> QED
    BY <2>1, <1>2, <1>3 DEF WaitingAdmit, PassTypes
<1>9. UpdateHasStep' /\ OnlyRunningScheduled' /\ TokensLeft'
  <2>1. UpdateHasStep'
    BY DEF WaitingAdmit, UpdateHasStep, workerVars
  <2>2. OnlyRunningScheduled'
    BY <1>1, <1>3 DEF WaitingAdmit, OnlyRunningScheduled, QueueTypes, PassTypes
  <2>3. TokensLeft'
    BY <1>3 DEF WaitingAdmit, TokensLeft, NumTokens, tokenVars, QueueTypes
  <2> QED
    BY <2>1, <2>2, <2>3
<1>10. RunningQueue'
  <2>1. r \notin Elems(running)
    BY <1>1 DEF RunningQueue
  <2>2. NoDuplicates(running') /\ Elems(running') = Elems(running) \cup {r}
    BY <2>1, <1>3, AppendFacts DEF RunningQueue, QueueTypes
  <2>3. Elems(running) \subseteq Req
    BY DEF QueueTypes, Elems
  <2> QED
    BY <2>2, <2>3, <1>3 DEF RunningQueue, QueueTypes
<1> QED
  BY <1>4, <1>5, <1>6, <1>7, <1>8, <1>9, <1>10

\* WaitingLoadRemote: the hit is no longer than the request.
LEMMA PassWaitingLoadRemote ==
    ASSUME PassInv, NEW r \in Req, WaitingLoadRemote(r)
    PROVE  PassInv'
<1> USE DEF PassInv, TypeOK
<1>1. PICK hit \in ExtHits : /\ hit <= NumTokens(r) /\ Allocate(r, hit)
                             /\ computed' = [computed EXCEPT ![r] = hit]
  BY DEF WaitingLoadRemote
<1>2. /\ status[r] \in {"WAITING", "PREEMPTED"} /\ pc = "waiting" /\ pc' = "waiting"
      /\ status' = [status EXCEPT ![r] = "WAITING_FOR_REMOTE_KVS"] /\ running' = running
  BY DEF WaitingLoadRemote, Schedulable, Considers, InWaitingLoop
<1>3. QueueTypes' /\ stepSkipped' \in Seq(Req)
  BY WithoutFacts, AppendFacts DEF WaitingLoadRemote, Pop, QueueTypes, PassTypes, Statuses
<1>4. TokenTypes' /\ SetTypes' /\ WorkerTypes'
  <2>1. hit \in Nat
    BY Constants
  <2> QED
    BY <2>1, <1>1 DEF WaitingLoadRemote, TokenTypes, SetTypes, WorkerTypes, workerVars
<1>5. BlockTypes'
  BY <1>1, AllocateTypes DEF WaitingLoadRemote, BlockTypes, seqVars
<1>6. preempts' \in BOOLEAN /\ resets' \in Nat
  BY DEF WaitingLoadRemote
<1>7. PassTypes'
  BY <1>3 DEF WaitingLoadRemote, PassTypes
<1>8. UpdateHasStep'
  BY <1>2 DEF UpdateHasStep
<1>9. RunningQueue'
  BY <1>2 DEF RunningQueue, NoDuplicates, Elems, QueueTypes
<1>10. OnlyRunningScheduled'
  BY <1>2 DEF WaitingLoadRemote, OnlyRunningScheduled, QueueTypes
<1>11. TokensLeft'
  BY <1>1, <1>2 DEF WaitingLoadRemote, TokensLeft, NumTokens, QueueTypes, TokenTypes
<1> QED
  BY <1>3, <1>4, <1>5, <1>6, <1>7, <1>8, <1>9, <1>10, <1>11

\* ScheduleFinish: the output has its type, and nothing is scheduled any more.
LEMMA PassScheduleFinish ==
    ASSUME PassInv, ScheduleFinish
    PROVE  PassInv'
<1> USE DEF PassInv, TypeOK
<1> DEFINE seq == IF DeferBlockFree /\ Scheduled # {} THEN schedSeq + 1 ELSE schedSeq
           samples == {r \in Scheduled : ~ChunkAfter(r)}
           b == [seq |-> seq, tokens |-> sched, spec |-> schedSpec, samples |-> samples,
                 base |-> [r \in Req |-> IF r \in admitted /\ r \in Scheduled
                                         THEN NumTokens(r) ELSE 0],
                 writes |-> [r \in Req |-> IF r \in Scheduled THEN held[r] ELSE {}],
                 loads |-> stepLoads]
<1>1. seq \in Nat /\ samples \subseteq Req /\ Scheduled \subseteq Req
  BY DEF BlockTypes, Scheduled
<1>2. b \in Batch
  <2>1. \A r \in Req : NumTokens(r) \in Nat
    BY NumTokensType
  <2>2. [r \in Req |-> IF r \in admitted /\ r \in Scheduled THEN NumTokens(r) ELSE 0]
            \in [Req -> Nat]
    BY <2>1
  <2>3. [r \in Req |-> IF r \in Scheduled THEN held[r] ELSE {}] \in [Req -> SUBSET Blocks]
    BY DEF BlockTypes
  <2> QED
    BY <1>1, <2>2, <2>3 DEF Batch, PassTypes
<1>3. batches' = Append(batches, b) /\ schedSeq' = seq
  BY DEF ScheduleFinish
<1> HIDE DEF b, seq
<1>4. QueueTypes'
  BY ConcatProperties DEF ScheduleFinish, QueueTypes, PassTypes, RequeueSkipped
<1>5. TokenTypes'
  <2>1. /\ computed' = [r \in Req |-> computed[r] + sched[r]]
        /\ inflight' = [r \in Req |-> inflight[r] + sched[r]]
        /\ lastSeq' = [r \in Req |-> IF DeferBlockFree /\ r \in Scheduled THEN seq ELSE lastSeq[r]]
        /\ isPrefill' = [r \in Req |-> IF r \in Scheduled THEN ChunkAfter(r) ELSE isPrefill[r]]
        /\ placeholders' = [r \in Req |-> IF AsyncScheduling /\ r \in samples
                                          THEN placeholders[r] + 1 + schedSpec[r]
                                          ELSE placeholders[r]]
        /\ spec' = [r \in Req |-> IF AsyncScheduling /\ r \in samples THEN NumSpec ELSE spec[r]]
        /\ UNCHANGED <<out, stale, dropStale, wasPreempted>>
    BY DEF ScheduleFinish, seq
  <2> HIDE DEF samples
  <2>2. computed' \in [Req -> Int] /\ inflight' \in [Req -> Int]
    BY <2>1, SMTT(60) DEF TokenTypes, PassTypes
  <2>3. lastSeq' \in [Req -> Nat] /\ spec' \in [Req -> Nat]
    BY <1>1, <2>1, Constants DEF TokenTypes
  <2>4. isPrefill' \in [Req -> BOOLEAN]
    <3>1. \A r \in Req : ChunkAfter(r) \in BOOLEAN
      BY DEF ChunkAfter
    <3> QED
      BY <2>1, <3>1, Zenon DEF TokenTypes
  <2>5. placeholders' \in [Req -> Int]
    BY <2>1 DEF TokenTypes, PassTypes
  <2> QED
    BY <2>1, <2>2, <2>3, <2>4, <2>5 DEF TokenTypes
<1>6. BlockTypes'
  BY <1>1, <1>3 DEF ScheduleFinish, BlockTypes, blockVars
<1>7. SetTypes'
  BY DEF ScheduleFinish, SetTypes
<1>8. WorkerTypes'
  <2>1. batches' \in Seq(Batch)
    BY <1>2, <1>3, AppendProperties DEF WorkerTypes
  <2>2. slots' \subseteq Req
    BY DEF ScheduleFinish, RowsAfter, WorkerTypes, PassTypes
  <2> QED
    BY <2>1, <2>2 DEF ScheduleFinish, WorkerTypes
<1>9. preempts' \in BOOLEAN
  BY DEF ScheduleFinish
<1>10. PassTypes' /\ resets' \in Nat
  BY DEF ScheduleFinish, PassTypes
<1>11. UpdateHasStep' /\ OnlyRunningScheduled'
  BY DEF ScheduleFinish, UpdateHasStep, OnlyRunningScheduled
<1>12. RunningQueue'
  BY DEF ScheduleFinish, RunningQueue, NoDuplicates, Elems
<1>13. TokensLeft'
  <2>1. /\ \A r \in Req : computed'[r] = computed[r] + sched[r]
        /\ status' = status /\ \A r \in Req : NumTokens(r)' = NumTokens(r)
    BY DEF ScheduleFinish, NumTokens
  <2>2. \A r \in Req : status[r] # "RUNNING" => sched[r] = 0
    BY DEF OnlyRunningScheduled, PassTypes
  <2>3. \A r \in Req : computed[r] \in Int
    BY DEF TokenTypes
  <2> QED
    BY <2>1, <2>2, <2>3 DEF TokensLeft
<1> QED
  BY <1>4, <1>5, <1>6, <1>7, <1>8, <1>9, <1>10, <1>11, <1>12, <1>13

\* UpdateStart: the drained blocks return to the pool.
LEMMA PassUpdateStart ==
    ASSUME PassInv, UpdateStart
    PROVE  PassInv'
<1> USE DEF PassInv, TypeOK
<1>1. pc = "idle" /\ pc' = "update" /\ batches # <<>> /\ batches' = batches
  BY DEF UpdateStart
<1>2. Head(batches) \in Batch
  BY <1>1, HeadTailProperties DEF WorkerTypes
<1>3. QueueTypes' /\ TokenTypes' /\ SetTypes'
  BY DEF UpdateStart, QueueTypes, TokenTypes, SetTypes, queueVars, tokenVars, setVars
<1>4. BlockTypes'
  <2>1. ASSUME NEW k \in 0 .. Len(deferred)
        PROVE  /\ UNION {deferred[i].blocks : i \in 1 .. k} \subseteq Blocks
               /\ SubSeq(deferred, k + 1, Len(deferred))
                      \in Seq([fence : Nat, blocks : SUBSET Blocks])
    <3>1. \A i \in 1 .. Len(deferred) : deferred[i] \in [fence : Nat, blocks : SUBSET Blocks]
      BY ElementOfSeq DEF BlockTypes
    <3> QED
      BY <2>1, <3>1, SubSeqProperties DEF BlockTypes
  <2>2. CASE UNCHANGED <<procSeq, free, deferred>>
    BY <2>2 DEF UpdateStart, BlockTypes
  <2>3. CASE ~UNCHANGED <<procSeq, free, deferred>>
    <3>1. PICK k \in 0 .. Len(deferred) :
              /\ procSeq' = procSeq + 1
              /\ free' = free \cup UNION {deferred[i].blocks : i \in 1 .. k}
              /\ deferred' = SubSeq(deferred, k + 1, Len(deferred))
      BY <2>3 DEF UpdateStart
    <3> QED
      BY <2>1, <3>1, SMTT(60) DEF UpdateStart, BlockTypes
  <2> QED
    BY <2>2, <2>3
<1>5. WorkerTypes' /\ PassTypes' /\ resets' \in Nat
  BY <1>1, <1>2 DEF UpdateStart, WorkerTypes, PassTypes, Batch, passVars
<1>6. preempts' \in BOOLEAN
  BY DEF UpdateStart, passVars
<1>7. UpdateHasStep' /\ RunningQueue' /\ OnlyRunningScheduled' /\ TokensLeft'
  BY <1>1 DEF UpdateStart, UpdateHasStep, RunningQueue, NoDuplicates, Elems,
         OnlyRunningScheduled, TokensLeft, NumTokens, queueVars, tokenVars, passVars
<1> QED
  BY <1>3, <1>4, <1>5, <1>6, <1>7

\* UpdateDiscard: only the counts in flight and the worker's position move.
LEMMA PassUpdateDiscard ==
    ASSUME PassInv, NEW r \in Req, UpdateDiscard(r)
    PROVE  PassInv'
<1> USE DEF PassInv, TypeOK
<1>1. pc = "update" /\ Head(batches) \in Batch
  BY HeadTailProperties DEF UpdateDiscard, UpdateHasStep, WorkerTypes
<1>2. QueueTypes' /\ BlockTypes' /\ SetTypes' /\ PassTypes' /\ resets' \in Nat
  BY DEF UpdateDiscard, QueueTypes, BlockTypes, SetTypes, PassTypes, queueVars, blockVars,
         seqVars, setVars, passVars
<1>3. TokenTypes'
  <2>1. inflight' \in [Req -> Int] /\ stale' \in [Req -> Int]
    <3>1. Head(batches).tokens[r] \in Int
      BY <1>1 DEF Batch
    <3>2. CASE r \in reqs
      BY <3>1, <3>2, DrainedTypes DEF UpdateDiscard
    <3>3. CASE r \notin reqs
      BY <3>3 DEF UpdateDiscard, TokenTypes
    <3> QED
      BY <3>2, <3>3
  <2> QED
    BY <2>1 DEF UpdateDiscard, TokenTypes
<1>4. WorkerTypes'
  <2>1. WorkerStart(r) \in Nat
    BY <1>1 DEF WorkerStart, Batch, WorkerTypes
  <2> QED
    BY <2>1 DEF UpdateDiscard, WorkerTypes
<1>5. preempts' \in BOOLEAN
  BY DEF UpdateDiscard, passVars
<1>6. UpdateHasStep' /\ RunningQueue' /\ OnlyRunningScheduled' /\ TokensLeft'
  BY DEF UpdateDiscard, UpdateHasStep, RunningQueue, NoDuplicates, Elems, OnlyRunningScheduled,
         TokensLeft, NumTokens, queueVars, passVars
<1> QED
  BY <1>2, <1>3, <1>4, <1>5, <1>6

\* UpdateDeliver: appended tokens leave more to compute, a rollback too.
LEMMA PassUpdateDeliver ==
    ASSUME PassInv, NEW r \in Req, UpdateDeliver(r)
    PROVE  PassInv'
<1> DEFINE b == Head(batches)
           start == WorkerStart(r)
<1> USE DEF PassInv, TypeOK
<1>1. pc = "update" /\ b \in Batch /\ start \in Nat
  <2>1. pc = "update" /\ b \in Batch
    BY HeadTailProperties DEF UpdateDeliver, UpdateHasStep, WorkerTypes
  <2> QED
    BY <2>1 DEF WorkerStart, Batch, WorkerTypes
<1> DEFINE Delivers(accepted, k, stopped) ==
             /\ wpos' = [wpos EXCEPT ![r] = start + 1 + accepted]
             /\ Drained(r, b.tokens[r])
             /\ computed' = [computed EXCEPT ![r] = RolledBack(r, Rejected(r, b.spec[r], accepted))]
             /\ out' = [out EXCEPT ![r] = @ \o [i \in 1 .. k |-> start + i]]
             /\ placeholders' = [placeholders EXCEPT ![r] =
                   (IF @ > 0 THEN @ - Rejected(r, b.spec[r], accepted) ELSE @) - Credited(r, k)]
             /\ IF stopped
                THEN Dequeue(r) /\ FreeRequest(r, FALSE)
                ELSE UNCHANGED <<queueVars, blockVars, finishedIds, inflightPrefills>>
<1>2. PICK accepted \in 0 .. b.spec[r] :
          \E k \in 1 .. MinOf(1 + accepted, RoomFor(r)), stopped \in BOOLEAN :
              Delivers(accepted, k, stopped)
  BY DEF UpdateDeliver
<1>3. PICK k \in 1 .. MinOf(1 + accepted, RoomFor(r)), stopped \in BOOLEAN :
          Delivers(accepted, k, stopped)
  BY <1>2
<1> HIDE DEF b, start
<1>4. /\ b.spec[r] \in Nat /\ b.tokens[r] \in Nat /\ accepted \in Nat /\ k \in Nat
      /\ Rejected(r, b.spec[r], accepted) \in Nat
      /\ Credited(r, k) \in Nat
  BY <1>1, <1>3 DEF Batch, Rejected, Credited
<1>5. /\ pc' = "update" /\ batches' = batches /\ sched' = sched /\ resets' = resets
      /\ UNCHANGED passVars
      /\ UNCHANGED <<spec, dropStale, isPrefill, wasPreempted, lastSeq, schedSeq, procSeq,
                     preemptedIds, finishedRecving, loading, slots>>
      /\ todo' \subseteq todo
  BY <1>1 DEF UpdateDeliver, passVars, seqVars
<1>6. QueueTypes' /\ RunningQueue'
  <2>1. CASE stopped
    BY <1>3, <2>1, DequeueFacts DEF QueueTypes, FreeRequest
  <2>2. CASE ~stopped
    BY <1>3, <2>2 DEF queueVars, QueueTypes, RunningQueue, NoDuplicates, Elems
  <2> QED
    BY <2>1, <2>2
<1>7. TokenTypes'
  <2>1. computed' \in [Req -> Int] /\ placeholders' \in [Req -> Int]
    BY <1>3, <1>4, SMTT(60) DEF TokenTypes, RolledBack
  <2>2. out' \in [Req -> Seq(Nat)]
    <3>1. [i \in 1 .. k |-> start + i] \in Seq(Nat)
      BY <1>1, <1>4
    <3> QED
      BY <1>3, <3>1, ConcatProperties DEF TokenTypes
  <2>3. inflight' \in [Req -> Int] /\ stale' \in [Req -> Int]
    BY <1>3, <1>4, DrainedTypes
  <2> QED
    BY <1>5, <2>1, <2>2, <2>3 DEF TokenTypes
<1>8. BlockTypes'
  <2>1. CASE stopped
    BY <1>3, <1>5, <2>1, FreeBlocksTypes DEF FreeRequest, BlockTypes
  <2>2. CASE ~stopped
    BY <1>3, <1>5, <2>2 DEF blockVars, BlockTypes
  <2> QED
    BY <2>1, <2>2
<1>9. SetTypes' /\ WorkerTypes'
  BY <1>1, <1>3, <1>4, <1>5 DEF SetTypes, WorkerTypes, FreeRequest
<1>10. PassTypes' /\ UpdateHasStep'
  BY <1>1, <1>5 DEF PassTypes, UpdateHasStep, passVars
<1>11. preempts' \in BOOLEAN /\ resets' \in Nat
  BY <1>5 DEF passVars
<1>12. OnlyRunningScheduled'
  BY <1>1, <1>5 DEF OnlyRunningScheduled, PassTypes
<1>13. TokensLeft'
  <2>1. /\ \A q \in Req \ {r} : computed'[q] = computed[q] /\ NumTokens(q)' = NumTokens(q)
        /\ \A q \in Req \ {r} : status'[q] = status[q]
        /\ status'[r] \in {status[r], "FINISHED"}
    <3>1. \A q \in Req \ {r} : computed'[q] = computed[q] /\ NumTokens(q)' = NumTokens(q)
      BY <1>3 DEF TokenTypes, NumTokens
    <3>2. CASE stopped
      BY <1>3, <3>1, <3>2, DequeueFacts
    <3>3. CASE ~stopped
      BY <1>3, <3>1, <3>3 DEF queueVars
    <3> QED
      BY <3>2, <3>3
  <2>2. computed'[r] <= computed[r] /\ computed'[r] \in Int /\ computed[r] \in Int
    BY <1>3, <1>4, SMTT(60) DEF TokenTypes, RolledBack
  <2>3. NumTokens(r)' >= NumTokens(r) /\ NumTokens(r) \in Nat /\ NumTokens(r)' \in Nat
    <3> DEFINE new == [i \in 1 .. k |-> start + i]
    <3>0. new \in Seq(Nat)
      BY <1>1, <1>4, SMTT(60)
    <3>1. out[r] \in Seq(Nat)
      BY DEF TokenTypes
    <3>2. out'[r] = out[r] \o new
      BY <1>3 DEF TokenTypes
    <3> HIDE DEF new
    <3>3. Len(out'[r]) = Len(out[r]) + Len(new) /\ Len(new) \in Nat /\ Len(out[r]) \in Nat
      BY <3>0, <3>1, <3>2, ConcatProperties, LenProperties
    <3>4. PromptLen[r] \in Nat
      BY Constants
    <3>5. NumTokens(r) = PromptLen[r] + Len(out[r]) /\ NumTokens(r)' = PromptLen[r] + Len(out'[r])
      BY DEF NumTokens
    <3> QED
      BY <3>3, <3>4, <3>5
  <2> QED
    BY <2>1, <2>2, <2>3 DEF TokensLeft
<1> QED
  BY <1>6, <1>7, <1>8, <1>9, <1>10, <1>11, <1>12, <1>13

\* KVXferFinished: the load's request wakes up, or its blocks are released.
LEMMA PassKVXferFinished ==
    ASSUME PassInv, NEW r \in Req, KVXferFinished(r)
    PROVE  PassInv'
<1> USE DEF PassInv, TypeOK
<1>1. QueueTypes' /\ SetTypes'
  BY DEF KVXferFinished, QueueTypes, SetTypes
<1>2. BlockTypes'
  BY FreeBlocksTypes DEF KVXferFinished, BlockTypes, blockVars, seqVars
<1>3. TokenTypes' /\ WorkerTypes' /\ PassTypes' /\ resets' \in Nat
  BY DEF KVXferFinished, TokenTypes, WorkerTypes, PassTypes, tokenVars, passVars
<1>4. preempts' \in BOOLEAN
  BY DEF KVXferFinished, passVars
<1>5. UpdateHasStep' /\ RunningQueue' /\ OnlyRunningScheduled' /\ TokensLeft'
  BY DEF KVXferFinished, UpdateHasStep, RunningQueue, NoDuplicates, Elems, OnlyRunningScheduled,
         TokensLeft, NumTokens, tokenVars, passVars
<1> QED
  BY <1>1, <1>2, <1>3, <1>4, <1>5

\* UpdateFinish: the oldest output is gone.
LEMMA PassUpdateFinish ==
    ASSUME PassInv, UpdateFinish
    PROVE  PassInv'
<1> USE DEF PassInv, TypeOK
<1>1. batches' = Tail(batches) /\ Tail(batches) \in Seq(Batch) /\ pc = "update" /\ pc' = "idle"
  BY HeadTailProperties DEF UpdateFinish, UpdateHasStep, WorkerTypes
<1>2. spec' \in [Req -> Nat]
  <2>1. CASE AsyncScheduling
    BY <2>1 DEF UpdateFinish, TokenTypes
  <2>2. CASE ~AsyncScheduling
    <3>1. PICK drafts \in 0 .. NumSpec :
              spec' = [r \in Req |->
                  IF Head(batches).tokens[r] = 0 \/ r \notin reqs \/ IsFinished(r) THEN spec[r]
                  ELSE IF isPrefill[r] THEN 0 ELSE drafts]
      BY <2>2 DEF UpdateFinish
    <3> QED
      BY <3>1, Constants DEF TokenTypes
  <2> QED
    BY <2>1, <2>2
<1>3. QueueTypes' /\ TokenTypes' /\ BlockTypes' /\ SetTypes' /\ WorkerTypes'
  BY <1>1, <1>2 DEF UpdateFinish, QueueTypes, TokenTypes, BlockTypes, SetTypes, WorkerTypes,
         queueVars, blockVars, seqVars, setVars
<1>4. PassTypes' /\ resets' \in Nat
  BY DEF UpdateFinish, PassTypes, passVars
<1>5. preempts' \in BOOLEAN
  BY DEF UpdateFinish, passVars
<1>6. UpdateHasStep' /\ RunningQueue' /\ OnlyRunningScheduled' /\ TokensLeft'
  BY <1>1 DEF UpdateFinish, UpdateHasStep, RunningQueue, NoDuplicates, Elems,
         OnlyRunningScheduled, TokensLeft, NumTokens, queueVars, passVars
<1> QED
  BY <1>3, <1>4, <1>5, <1>6

\* AddRequest: a new request has its prompt to compute.
LEMMA PassAddRequest ==
    ASSUME PassInv, NEW r \in Req, AddRequest(r)
    PROVE  PassInv'
<1> USE DEF PassInv, TypeOK
<1>1. QueueTypes'
  BY AppendFacts DEF AddRequest, QueueTypes, Statuses
<1>2. TokenTypes' /\ BlockTypes' /\ SetTypes' /\ WorkerTypes' /\ PassTypes' /\ resets' \in Nat
  BY DEF AddRequest, TokenTypes, BlockTypes, SetTypes, WorkerTypes, PassTypes, tokenVars,
         blockVars, seqVars, setVars, passVars, workerVars
<1>3. preempts' \in BOOLEAN
  BY DEF AddRequest, passVars
<1>4. UpdateHasStep' /\ RunningQueue' /\ OnlyRunningScheduled' /\ TokensLeft'
  BY DEF AddRequest, UpdateHasStep, RunningQueue, NoDuplicates, Elems, OnlyRunningScheduled,
         TokensLeft, NumTokens, QueueTypes, tokenVars, passVars, workerVars
<1> QED
  BY <1>1, <1>2, <1>3, <1>4

\* AbortRequest, in any queue or waiting for a load.
LEMMA PassAbortRequest ==
    ASSUME PassInv, NEW r \in Req, AbortRequest(r)
    PROVE  PassInv'
<1> USE DEF PassInv, TypeOK
<1>1. QueueTypes' /\ RunningQueue'
  BY DequeueFacts DEF AbortRequest, FreeRequest, QueueTypes
<1>2. TokenTypes' /\ SetTypes' /\ WorkerTypes' /\ PassTypes' /\ resets' \in Nat
  BY DEF AbortRequest, FreeRequest, TokenTypes, SetTypes, WorkerTypes, PassTypes, tokenVars,
         passVars, workerVars
<1>3. BlockTypes'
  BY FreeBlocksTypes DEF AbortRequest, FreeRequest, BlockTypes, blockVars, seqVars
<1>4. preempts' \in BOOLEAN
  BY DEF AbortRequest, passVars
<1>5. UpdateHasStep' /\ OnlyRunningScheduled'
  BY DEF AbortRequest, UpdateHasStep, OnlyRunningScheduled, PassTypes, passVars, workerVars
<1>6. TokensLeft'
  BY DequeueFacts DEF AbortRequest, TokensLeft, NumTokens, tokenVars
<1> QED
  BY <1>1, <1>2, <1>3, <1>4, <1>5, <1>6

\* ResetPreempt: the same preemption, with nothing scheduled.
LEMMA PassResetPreempt ==
    ASSUME PassInv, ResetPreempt
    PROVE  PassInv'
<1> DEFINE v == running[Len(running)]
<1> USE DEF PassInv, TypeOK
<1>1. v \in Req /\ pc = "reset" /\ pc' = "reset" /\ Preempt(v, TRUE)
  <2>1. running \in Seq(Req) /\ running # <<>>
    BY DEF ResetPreempt, QueueTypes
  <2>2. v \in Req
    BY <2>1
  <2> QED
    BY <2>2 DEF ResetPreempt
<1> HIDE DEF v
<1>2. /\ QueueTypes' /\ TokenTypes' /\ BlockTypes' /\ SetTypes' /\ WorkerTypes'
      /\ UpdateHasStep' /\ RunningQueue' /\ TokensLeft'
  BY <1>1, PreemptFacts
<1>3. PassTypes' /\ resets' \in Nat
  BY <1>1 DEF ResetPreempt, PassTypes, passVars
<1>4. preempts' \in BOOLEAN
  BY DEF ResetPreempt, passVars
<1>5. OnlyRunningScheduled'
  BY <1>1 DEF ResetPreempt, OnlyRunningScheduled, PassTypes, passVars
<1> QED
  BY <1>2, <1>3, <1>4, <1>5

\* Every action of the scheduler keeps the invariant of its passes.
LEMMA PassStep == PassInv /\ [Next]_vars => PassInv'
<1> SUFFICES ASSUME PassInv, Next \/ UNCHANGED vars PROVE PassInv'
  OBVIOUS
<1>1. CASE ScheduleStart \/ ScheduleStep
  BY <1>1, PassCursorActions, PassRunningSchedule, PassRunningPreempt, PassWaitingSkip,
     PassWaitingPromote, PassWaitingAdmit, PassWaitingLoadRemote, PassScheduleFinish
  DEF ScheduleStep
<1>2. CASE UpdateStart \/ UpdateStep
  BY <1>2, PassUpdateStart, PassUpdateDiscard, PassUpdateDeliver, PassUpdateFinish
  DEF UpdateStep
<1>3. CASE \E r \in Req : KVXferFinished(r) \/ AddRequest(r) \/ AbortRequest(r)
  BY <1>3, PassKVXferFinished, PassAddRequest, PassAbortRequest
<1>4. CASE ResetStart \/ ResetPreempt \/ ResetEnd
  BY <1>4, PassCursorActions, PassResetPreempt
<1>5. CASE Quiescent \/ UNCHANGED vars
  BY <1>5, PassStutter DEF Quiescent
<1> QED
  BY <1>1, <1>2, <1>3, <1>4, <1>5 DEF Next

\* The invariant of the passes holds in every reachable state: types, a step to
\* process while update_from_output runs, a running queue of running requests,
\* tokens only for those, and tokens left for every step that was scheduled.
THEOREM PassInvariant == Spec => []PassInv
  BY PassInit, PassStep, PTL DEF Spec

\* Every variable keeps its type.  The part that needs the invariant: a pass
\* gives each request a number of tokens that is positive and within the
\* budget, as the assertions in schedule() claim.
THEOREM TypeCorrect == Spec => []TypeOK
<1>1. PassInv => TypeOK
  BY DEF PassInv
<1> QED
  BY <1>1, PassInvariant, PTL
-----------------------------------------------------------------------------
(* Blocks are accounted for.                                               *)

\* The three ways blocks change hands.
LEMMA FreedBlocksAccounted ==
    ASSUME BlockTypes, BlocksAccounted, NEW r \in Req, FreeRequestBlocks(r)
    PROVE  BlocksAccounted'
<1> USE DEF BlockTypes
<1>1. /\ held'[r] = {} /\ \A q \in Req \ {r} : held'[q] = held[q]
  BY DEF FreeRequestBlocks, Release
<1>2. CASE free' = free \cup held[r] /\ deferred' = deferred
  BY <1>1, <1>2 DEF BlocksAccounted, Deferred
<1>3. CASE free' = free /\ deferred' = deferred /\ held[r] = {}
  BY <1>1, <1>3 DEF BlocksAccounted, Deferred
<1>4. CASE /\ free' = free
           /\ deferred' = Append(deferred, [fence |-> schedSeq, blocks |-> held[r]])
  <2> DEFINE n == Len(deferred)
  <2>1. /\ n \in Nat /\ DOMAIN deferred = 1 .. n /\ DOMAIN deferred' = 1 .. n + 1
        /\ \A i \in 1 .. n : deferred'[i] = deferred[i]
        /\ deferred'[n + 1].blocks = held[r]
    BY <1>4
  <2> HIDE DEF n
  <2>2. Deferred' = Deferred \cup held[r]
    BY <2>1 DEF Deferred
  <2>3. held[r] \cap Deferred = {}
    BY DEF BlocksAccounted
  <2>4. \A i, j \in DOMAIN deferred' :
            i # j => deferred'[i].blocks \cap deferred'[j].blocks = {}
    <3>1. \A i \in 1 .. n : deferred[i].blocks \subseteq Deferred
      BY <2>1 DEF Deferred
    <3> QED
      BY <2>1, <2>3, <3>1 DEF BlocksAccounted
  <2>5. free' \cup Deferred' \cup UNION {held'[q] : q \in Req} = Blocks
    <3>1. UNION {held[q] : q \in Req} = held[r] \cup UNION {held'[q] : q \in Req}
      BY <1>1
    <3> QED
      BY <1>4, <2>2, <3>1 DEF BlocksAccounted
  <2>6. free' \cap Deferred' = {}
    BY <1>4, <2>2 DEF BlocksAccounted
  <2>7. ASSUME NEW q \in Req
        PROVE  /\ held'[q] \cap (free' \cup Deferred') = {}
               /\ \A p \in Req \ {q} : held'[q] \cap held'[p] = {}
    BY <1>1, <1>4, <2>2 DEF BlocksAccounted
  <2> QED
    BY <2>4, <2>5, <2>6, <2>7 DEF BlocksAccounted
<1> QED
  BY <1>2, <1>3, <1>4 DEF FreeRequestBlocks

\* Blocks that allocate_slots moves from the pool to one request stay accounted.
LEMMA AllocatedBlocksAccounted ==
    ASSUME BlockTypes, BlocksAccounted, NEW r \in Req, NEW n, Allocate(r, n), deferred' = deferred
    PROVE  BlocksAccounted'
<1>1. PICK S \in SUBSET free : /\ held' = [held EXCEPT ![r] = @ \cup S]
                               /\ free' = free \ S
  BY DEF Allocate
<1>2. held'[r] = held[r] \cup S /\ \A q \in Req \ {r} : held'[q] = held[q]
  BY <1>1 DEF BlockTypes
<1> QED
  BY <1>1, <1>2 DEF BlocksAccounted, Deferred

\* Blocks that _drain_deferred_frees moves from the fences to the pool stay
\* accounted.
LEMMA DrainedBlocksAccounted ==
    ASSUME BlockTypes, BlocksAccounted, held' = held, NEW k \in 0 .. Len(deferred),
           free' = free \cup UNION {deferred[i].blocks : i \in 1 .. k},
           deferred' = SubSeq(deferred, k + 1, Len(deferred))
    PROVE  BlocksAccounted'
<1> DEFINE n == Len(deferred)
           gone == UNION {deferred[i].blocks : i \in 1 .. k}
<1>1. n \in Nat /\ k \in 0 .. n /\ DOMAIN deferred = 1 .. n
  BY DEF BlockTypes
<1>2. /\ DOMAIN deferred' = 1 .. n - k
      /\ \A i \in 1 .. n - k : deferred'[i] = deferred[i + k]
  <2>1. ASSUME NEW i \in k + 1 .. n PROVE deferred[i] \in [fence : Nat, blocks : SUBSET Blocks]
    <3>1. i \in 1 .. Len(deferred)
      BY <1>1
    <3>2. deferred \in Seq([fence : Nat, blocks : SUBSET Blocks])
      BY DEF BlockTypes
    <3> QED
      BY <3>1, <3>2, ElementOfSeq
  <2> QED
    BY <1>1, <2>1, SubSeqProperties
<1> HIDE DEF n
<1>3. \A i, j \in 1 .. n : i # j => deferred[i].blocks \cap deferred[j].blocks = {}
  BY <1>1 DEF BlocksAccounted
<1>4. Deferred = gone \cup Deferred'
  <2>1. ASSUME NEW i \in 1 .. n, ~(i <= k) PROVE deferred[i].blocks \subseteq Deferred'
    <3>1. i - k \in 1 .. n - k /\ deferred'[i - k] = deferred[i]
      BY <1>1, <1>2, <2>1
    <3> QED
      BY <1>2, <3>1 DEF Deferred
  <2>2. \A i \in 1 .. n - k : deferred'[i].blocks \subseteq Deferred
    BY <1>1, <1>2 DEF Deferred
  <2>3. gone \subseteq Deferred
    BY <1>1 DEF Deferred
  <2>4. Deferred \subseteq gone \cup Deferred'
    BY <1>1, <2>1 DEF Deferred
  <2>5. Deferred' \subseteq Deferred
    BY <1>2, <2>2 DEF Deferred
  <2> QED
    BY <2>3, <2>4, <2>5
<1>5. gone \cap Deferred' = {}
  <2>1. ASSUME NEW i \in 1 .. k, NEW j \in 1 .. n - k
        PROVE  deferred[i].blocks \cap deferred'[j].blocks = {}
    BY <1>1, <1>2, <1>3
  <2>2. ASSUME NEW x \in gone, x \in Deferred' PROVE FALSE
    <3>1. PICK i \in 1 .. k : x \in deferred[i].blocks
      OBVIOUS
    <3>2. PICK j \in 1 .. n - k : x \in deferred'[j].blocks
      BY <1>2, <2>2 DEF Deferred
    <3> QED
      BY <2>1, <3>1, <3>2
  <2> QED
    BY <2>2
<1>6. \A i, j \in DOMAIN deferred' : i # j => deferred'[i].blocks \cap deferred'[j].blocks = {}
  BY <1>1, <1>2, <1>3
<1>7. free' = free \cup gone
  OBVIOUS
<1> HIDE DEF gone
<1>8. /\ free' \cup Deferred' \cup UNION {held'[q] : q \in Req} = Blocks
      /\ free' \cap Deferred' = {}
  BY <1>4, <1>5, <1>7 DEF BlocksAccounted
<1>9. ASSUME NEW q \in Req
      PROVE  /\ held'[q] \cap (free' \cup Deferred') = {}
             /\ \A p \in Req \ {q} : held'[q] \cap held'[p] = {}
  BY <1>4, <1>7 DEF BlocksAccounted
<1> QED
  BY <1>6, <1>8, <1>9 DEF BlocksAccounted

\* At the start all blocks are in the pool.
LEMMA BlocksInit == Init => BlocksAccounted
  BY DEF Init, BlocksAccounted, Deferred

\* No action of the scheduler loses a block or gives it to a second owner.
LEMMA BlocksStep == PassInv /\ BlocksAccounted /\ [Next]_vars => BlocksAccounted'
<1> SUFFICES ASSUME PassInv, BlocksAccounted, Next \/ UNCHANGED vars PROVE BlocksAccounted'
  OBVIOUS
<1> USE DEF PassInv, TypeOK, blockVars
<1>1. CASE UNCHANGED blockVars
  BY <1>1 DEF BlocksAccounted, Deferred
<1>2. CASE RunningSchedule
  <2>1. running[idx] \in Req
    BY <1>2 DEF RunningSchedule, InRunningLoop, QueueTypes, PassTypes
  <2> QED
    BY <1>2, <2>1, AllocatedBlocksAccounted DEF RunningSchedule
<1>3. ASSUME NEW v \in Req, RunningPreempt(v) PROVE BlocksAccounted'
  BY <1>3, FreedBlocksAccounted DEF RunningPreempt, Preempt
<1>4. ASSUME NEW r \in Req, WaitingAdmit(r) \/ WaitingLoadRemote(r) PROVE BlocksAccounted'
  BY <1>4, AllocatedBlocksAccounted DEF WaitingAdmit, WaitingLoadRemote
<1>5. CASE UpdateStart
  <2>1. CASE UNCHANGED <<procSeq, free, deferred>>
    BY <1>1, <1>5, <2>1 DEF UpdateStart
  <2>2. CASE ~UNCHANGED <<procSeq, free, deferred>>
    BY <1>5, <2>2, DrainedBlocksAccounted DEF UpdateStart
  <2> QED
    BY <2>1, <2>2
<1>6. ASSUME NEW r \in Req, UpdateDeliver(r) PROVE BlocksAccounted'
  <2>1. FreeRequestBlocks(r) \/ UNCHANGED blockVars
    BY <1>6 DEF UpdateDeliver, FreeRequest
  <2> QED
    BY <1>1, <2>1, FreedBlocksAccounted
<1>7. ASSUME NEW r \in Req, KVXferFinished(r) \/ AbortRequest(r) PROVE BlocksAccounted'
  <2>1. FreeRequestBlocks(r) \/ UNCHANGED blockVars
    BY <1>7 DEF KVXferFinished, AbortRequest, FreeRequest
  <2> QED
    BY <1>1, <2>1, FreedBlocksAccounted
<1>8. CASE ResetPreempt
  <2>1. running[Len(running)] \in Req
    <3>1. running \in Seq(Req) /\ running # <<>>
      BY <1>8 DEF ResetPreempt, QueueTypes
    <3> QED
      BY <3>1
  <2> QED
    BY <1>8, <2>1, FreedBlocksAccounted DEF ResetPreempt, Preempt
<1>9. CASE \/ ScheduleStart \/ RunningSkip \/ RunningEnd
           \/ \E r \in Req : WaitingSkip(r) \/ WaitingPromote(r) \/ WaitingBlocked(r)
           \/ WaitingEnd \/ ScheduleFinish
  BY <1>1, <1>9 DEF ScheduleStart, RunningSkip, RunningEnd, WaitingSkip, WaitingPromote,
         WaitingBlocked, WaitingEnd, ScheduleFinish
<1>10. CASE \/ \E r \in Req : UpdateDiscard(r) \/ AddRequest(r)
            \/ UpdateFinish \/ ResetStart \/ ResetEnd \/ Quiescent \/ UNCHANGED vars
  BY <1>1, <1>10 DEF UpdateDiscard, AddRequest, UpdateFinish, ResetStart, ResetEnd, Quiescent,
         vars
<1> QED
  BY <1>2, <1>3, <1>4, <1>5, <1>6, <1>7, <1>8, <1>9, <1>10 DEF Next, ScheduleStep, UpdateStep

\* Whatever is preempted, aborted, reset or loaded, no block is lost or has
\* two owners: _free_request_blocks, _drain_deferred_frees and allocate_slots
\* hand each block from one place to exactly one other.
THEOREM BlocksNeitherLostNorShared == Spec => []BlocksAccounted
<1>1. PassInv /\ PassInv' /\ BlocksAccounted /\ [Next]_vars => BlocksAccounted'
  BY BlocksStep
<1> QED
  BY <1>1, BlocksInit, PassInvariant, PTL DEF Spec
-----------------------------------------------------------------------------
(* The fence of a deferred free outlasts the steps that write the block.   *)

Stepped(b) == \E r \in Req : b.tokens[r] > 0

\* Non-empty steps carry increasing numbers, the steps in flight larger ones
\* than the last processed step ("update_from_output is called once per
\* scheduled step in FIFO order, so these stay in sync").
FenceOrder ==
    /\ procSeq <= schedSeq
    /\ \A i \in DOMAIN batches : batches[i].seq <= schedSeq
    /\ \A i, j \in DOMAIN batches :
          i < j /\ Stepped(batches[j]) => batches[i].seq < batches[j].seq
    /\ \A i \in DOMAIN InFlight : Stepped(InFlight[i]) => procSeq < InFlight[i].seq
    /\ \A i \in DOMAIN batches : \A r \in Req :
          batches[i].writes[r] # {} => batches[i].tokens[r] > 0

\* A block that step b writes for r is still r's, which was scheduled by that
\* step or a later one, or it waits behind a fence that is not before b.
Covered(b, r, x) ==
    \/ x \in held[r] /\ b.seq <= lastSeq[r]
    \/ \E d \in DOMAIN deferred : x \in deferred[d].blocks /\ b.seq <= deferred[d].fence

WritesCovered ==
    \A i \in DOMAIN InFlight : \A r \in Req : \A x \in InFlight[i].writes[r] :
        Covered(InFlight[i], r, x)

FenceInv == DeferBlockFree => FenceOrder /\ WritesCovered

\* The steps in flight are the batches, without the first one while its output
\* is processed.
LEMMA InFlightFacts ==
    ASSUME PassInv
    PROVE  /\ InFlight \in Seq(Batch)
           /\ \A i \in DOMAIN InFlight :
                 /\ InFlight[i] \in Batch
                 /\ \E j \in DOMAIN batches : InFlight[i] = batches[j]
                 /\ pc # "update" => i \in DOMAIN batches /\ InFlight[i] = batches[i]
                 /\ pc = "update" => /\ i + 1 \in DOMAIN batches
                                     /\ InFlight[i] = batches[i + 1]
<1> USE DEF PassInv, TypeOK, WorkerTypes
<1>1. CASE pc # "update"
  BY <1>1, ElementOfSeq DEF InFlight
<1>2. CASE pc = "update"
  <2>1. /\ Tail(batches) \in Seq(Batch) /\ DOMAIN Tail(batches) = 1 .. Len(batches) - 1
        /\ \A i \in 1 .. Len(batches) - 1 : Tail(batches)[i] = batches[i + 1]
    BY <1>2, HeadTailProperties, LenProperties DEF UpdateHasStep
  <2>2. DOMAIN batches = 1 .. Len(batches) /\ Len(batches) \in Nat
    OBVIOUS
  <2>3. \A i \in 1 .. Len(batches) : batches[i] \in Batch
    BY ElementOfSeq
  <2> QED
    BY <1>2, <2>1, <2>2, <2>3 DEF InFlight
<1> QED
  BY <1>1, <1>2

\* The promise follows from the invariant and from BlocksAccounted.
LEMMA FenceProtects ==
    ASSUME PassInv, BlocksAccounted, FenceInv
    PROVE  NoReuseUnderWrite
<1> SUFFICES ASSUME DeferBlockFree, NEW i \in DOMAIN InFlight, NEW r \in Req,
                    NEW x \in InFlight[i].writes[r]
             PROVE  x \notin free /\ \A q \in Req \ {r} : x \notin held[q]
  BY DEF NoReuseUnderWrite
<1>1. Covered(InFlight[i], r, x)
  BY DEF FenceInv, WritesCovered
<1>2. CASE x \in held[r]
  BY <1>2 DEF BlocksAccounted
<1>3. CASE x \in Deferred
  BY <1>3 DEF BlocksAccounted
<1> QED
  BY <1>1, <1>2, <1>3 DEF Covered, Deferred

\* What the steps in flight need does not change when blocks are allocated.
LEMMA FenceAllocated ==
    ASSUME FenceInv, BlockTypes, NEW r \in Req, NEW n, Allocate(r, n),
           UNCHANGED <<deferred, batches, schedSeq, procSeq, lastSeq, InFlight>>
    PROVE  FenceInv'
<1>1. \A q \in Req : held[q] \subseteq held'[q]
  BY DEF Allocate, BlockTypes
<1>2. DeferBlockFree => FenceOrder'
  BY DEF FenceInv, FenceOrder, Stepped
<1>3. DeferBlockFree => WritesCovered'
  BY <1>1 DEF FenceInv, WritesCovered, Covered
<1> QED
  BY <1>2, <1>3 DEF FenceInv, DeferBlockFree

\* An action that leaves the blocks, the fences and the batches alone keeps the
\* fence invariant.
LEMMA FenceUnchanged ==
    ASSUME FenceInv,
           UNCHANGED <<held, deferred, batches, schedSeq, procSeq, lastSeq, InFlight>>
    PROVE  FenceInv'
  BY DEF FenceInv, FenceOrder, Stepped, WritesCovered, Covered, DeferBlockFree

\* A freed block that a step in flight writes is deferred: its owner was
\* scheduled after the last processed step.
LEMMA FenceFreed ==
    ASSUME PassInv, FenceInv, NEW r \in Req, FreeRequestBlocks(r),
           UNCHANGED <<batches, schedSeq, procSeq, lastSeq, InFlight>>
    PROVE  FenceInv'
<1> SUFFICES ASSUME DeferBlockFree PROVE FenceOrder' /\ WritesCovered'
  BY DEF FenceInv, DeferBlockFree
<1>1. FenceOrder'
  BY DEF FenceInv, FenceOrder, Stepped
<1>2. ASSUME NEW i \in DOMAIN InFlight, NEW q \in Req, NEW x \in InFlight[i].writes[q]
      PROVE  Covered(InFlight[i], q, x)'
  <2> DEFINE b == InFlight[i]
  <2>1. b \in Batch /\ (\E j \in DOMAIN batches : b = batches[j])
    BY InFlightFacts
  <2>2. procSeq < b.seq /\ b.seq <= schedSeq /\ b.seq \in Nat
    BY <2>1 DEF FenceInv, FenceOrder, Stepped, Batch
  <2>3. Covered(b, q, x)
    BY DEF FenceInv, WritesCovered
  <2> SUFFICES \/ x \in held'[q] /\ b.seq <= lastSeq[q]
               \/ \E d \in DOMAIN deferred' :
                     x \in deferred'[d].blocks /\ b.seq <= deferred'[d].fence
    BY DEF Covered
  <2> HIDE DEF b
  <2>4. /\ held'[r] = {} /\ \A p \in Req \ {r} : held'[p] = held[p]
    BY DEF FreeRequestBlocks, Release, PassInv, TypeOK, BlockTypes
  <2>5. /\ \A d \in DOMAIN deferred : d \in DOMAIN deferred' /\ deferred'[d] = deferred[d]
    BY DEF FreeRequestBlocks, PassInv, TypeOK, BlockTypes
  <2>6. CASE \E d \in DOMAIN deferred : x \in deferred[d].blocks /\ b.seq <= deferred[d].fence
    BY <2>5, <2>6
  <2>7. CASE x \in held[q] /\ b.seq <= lastSeq[q] /\ q # r
    BY <2>4, <2>7
  <2>8. CASE x \in held[q] /\ b.seq <= lastSeq[q] /\ q = r
    <3>1. ~WritesDone(r) /\ held[r] # {}
      BY <2>2, <2>8 DEF WritesDone, PassInv, TypeOK, BlockTypes, TokenTypes
    <3>2. deferred' = Append(deferred, [fence |-> schedSeq, blocks |-> held[r]])
      BY <3>1 DEF FreeRequestBlocks
    <3>3. /\ Len(deferred) + 1 \in DOMAIN deferred'
          /\ deferred'[Len(deferred) + 1] = [fence |-> schedSeq, blocks |-> held[r]]
      BY <3>2 DEF PassInv, TypeOK, BlockTypes
    <3> QED
      BY <2>2, <2>8, <3>3
  <2> QED
    BY <2>3, <2>6, <2>7, <2>8 DEF Covered
<1> QED
  BY <1>1, <1>2 DEF WritesCovered

\* The step that is processed now is older than the others in flight, so the
\* drain stops before the fence of every block they write.
LEMMA FenceUpdateStart ==
    ASSUME PassInv, FenceInv, UpdateStart
    PROVE  FenceInv'
<1> SUFFICES ASSUME DeferBlockFree PROVE FenceOrder' /\ WritesCovered'
  BY DEF FenceInv, DeferBlockFree
<1> DEFINE n == Len(batches)
<1>1. /\ pc = "idle" /\ pc' = "update" /\ batches # <<>> /\ batches' = batches
      /\ schedSeq' = schedSeq /\ held' = held /\ lastSeq' = lastSeq
  BY DEF UpdateStart, tokenVars
<1>2. /\ n \in Nat /\ n > 0 /\ DOMAIN batches = 1 .. n
      /\ \A i \in 1 .. n : batches[i] \in Batch
  BY <1>1, ElementOfSeq, LenProperties DEF PassInv, TypeOK, WorkerTypes
<1>3. InFlight = batches /\ Head(batches) = batches[1]
  BY <1>1 DEF InFlight, PassInv, TypeOK, WorkerTypes
<1>4. /\ DOMAIN InFlight' = 1 .. n - 1
      /\ \A i \in 1 .. n - 1 : InFlight'[i] = batches[i + 1]
  BY <1>1, HeadTailProperties, LenProperties DEF InFlight, PassInv, TypeOK, WorkerTypes
<1> HIDE DEF n
<1>5. procSeq \in Nat /\ schedSeq \in Nat
  BY DEF PassInv, TypeOK, BlockTypes
<1>6. CASE ~Stepped(batches[1])
  <2>1. procSeq' = procSeq /\ deferred' = deferred
    BY <1>3, <1>6 DEF UpdateStart, Stepped
  <2>2. FenceOrder'
    <3>1. ASSUME NEW i \in DOMAIN InFlight', Stepped(InFlight'[i])
          PROVE  procSeq < InFlight'[i].seq
      <4>1. i + 1 \in DOMAIN InFlight /\ InFlight'[i] = InFlight[i + 1]
        BY <1>2, <1>3, <1>4
      <4> QED
        BY <3>1, <4>1 DEF FenceInv, FenceOrder
    <3> QED
      BY <1>1, <2>1, <3>1 DEF FenceInv, FenceOrder, Stepped
  <2>3. WritesCovered'
    BY <1>1, <1>2, <1>3, <1>4, <2>1 DEF FenceInv, WritesCovered, Covered
  <2> QED
    BY <2>2, <2>3
<1>7. CASE Stepped(batches[1])
  <2>1. PICK k \in 0 .. Len(deferred) :
            /\ procSeq' = procSeq + 1
            /\ \A i \in 1 .. k : deferred[i].fence <= procSeq'
            /\ deferred' = SubSeq(deferred, k + 1, Len(deferred))
    BY <1>3, <1>7 DEF UpdateStart, Stepped, Drainable
  <2>2. procSeq < batches[1].seq /\ batches[1].seq <= schedSeq /\ batches[1].seq \in Nat
    BY <1>2, <1>3, <1>7, SMTT(60) DEF FenceInv, FenceOrder, Batch
  <2>3. ASSUME NEW i \in 1 .. n - 1, Stepped(batches[i + 1])
        PROVE  procSeq + 1 < batches[i + 1].seq
    <3>1. 1 \in DOMAIN batches /\ i + 1 \in DOMAIN batches /\ 1 < i + 1
      BY <1>2
    <3>2. batches[1].seq < batches[i + 1].seq
      BY <2>3, <3>1 DEF FenceInv, FenceOrder
    <3>3. batches[i + 1].seq \in Nat
      BY <1>2, <3>1 DEF Batch
    <3> QED
      BY <1>5, <2>2, <3>2, <3>3
  <2>4. FenceOrder'
    <3>1. procSeq' <= schedSeq'
      BY <1>1, <1>5, <2>1, <2>2
    <3>2. \A i \in DOMAIN InFlight' : Stepped(InFlight'[i]) => procSeq' < InFlight'[i].seq
      BY <1>4, <2>1, <2>3
    <3> QED
      BY <1>1, <3>1, <3>2 DEF FenceInv, FenceOrder, Stepped
  <2>5. ASSUME NEW i \in 1 .. n - 1, NEW r \in Req, NEW x \in batches[i + 1].writes[r]
        PROVE  \/ x \in held[r] /\ batches[i + 1].seq <= lastSeq[r]
               \/ \E d \in DOMAIN deferred' :
                     x \in deferred'[d].blocks /\ batches[i + 1].seq <= deferred'[d].fence
    <3>1. i + 1 \in DOMAIN batches /\ batches[i + 1] \in Batch
      BY <1>2
    <3>2. Stepped(batches[i + 1])
      BY <2>5, <3>1 DEF FenceInv, FenceOrder, Stepped
    <3>3. procSeq + 1 < batches[i + 1].seq /\ batches[i + 1].seq \in Nat
      BY <2>3, <3>1, <3>2 DEF Batch
    <3>4. Covered(batches[i + 1], r, x)
      BY <1>3, <2>5, <3>1 DEF FenceInv, WritesCovered
    <3>5. ASSUME NEW d \in DOMAIN deferred, x \in deferred[d].blocks,
                 batches[i + 1].seq <= deferred[d].fence
          PROVE  \E e \in DOMAIN deferred' :
                     x \in deferred'[e].blocks /\ batches[i + 1].seq <= deferred'[e].fence
      <4> DEFINE m == Len(deferred)
      <4>1. /\ m \in Nat /\ DOMAIN deferred = 1 .. m
            /\ \A j \in 1 .. m : deferred[j] \in [fence : Nat, blocks : SUBSET Blocks]
        BY ElementOfSeq, LenProperties DEF PassInv, TypeOK, BlockTypes
      <4>2. d > k
        <5>1. procSeq + 1 < deferred[d].fence
          <6>1. d \in 1 .. m /\ deferred[d].fence \in Nat
            BY <3>5, <4>1
          <6>2. procSeq + 1 < batches[i + 1].seq /\ batches[i + 1].seq <= deferred[d].fence
            BY <3>3, <3>5
          <6> QED
            BY ONLY <1>5, <3>3, <6>1, <6>2
        <5>2. d \in 1 .. k => deferred[d].fence <= procSeq + 1
          BY ONLY <2>1
        <5>3. d \in 1 .. m /\ deferred[d].fence \in Nat
          BY ONLY <3>5, <4>1
        <5> QED
          BY ONLY <1>5, <2>1, <4>1, <5>1, <5>2, <5>3
      <4>3. /\ DOMAIN deferred' = 1 .. m - k
            /\ \A j \in 1 .. m - k : deferred'[j] = deferred[j + k]
        BY <2>1, <4>1, SubSeqProperties
      <4> HIDE DEF m
      <4>4. d - k \in 1 .. m - k /\ deferred'[d - k] = deferred[d]
        BY <2>1, <4>1, <4>2, <4>3, SMTT(60)
      <4> QED
        BY <3>5, <4>3, <4>4
    <3> QED
      BY <3>4, <3>5 DEF Covered
  <2>6. WritesCovered'
    BY <1>1, <1>4, <2>5 DEF WritesCovered, Covered
  <2> QED
    BY <2>4, <2>6
<1> QED
  BY <1>6, <1>7

\* The new step gets a number of its own and its blocks are held.
LEMMA FenceScheduleFinish ==
    ASSUME PassInv, FenceInv, ScheduleFinish
    PROVE  FenceInv'
<1> SUFFICES ASSUME DeferBlockFree PROVE FenceOrder' /\ WritesCovered'
  BY DEF FenceInv, DeferBlockFree
<1> DEFINE seq == IF Scheduled # {} THEN schedSeq + 1 ELSE schedSeq
           n == Len(batches)
<1>1. /\ pc = "finish" /\ pc' = "idle" /\ procSeq' = procSeq /\ schedSeq' = seq
      /\ held' = held /\ deferred' = deferred
      /\ lastSeq' = [r \in Req |-> IF r \in Scheduled THEN seq ELSE lastSeq[r]]
  BY DEF ScheduleFinish, blockVars
<1>2. PICK b : /\ batches' = Append(batches, b) /\ b.seq = seq /\ b.tokens = sched
               /\ b.writes = [r \in Req |-> IF r \in Scheduled THEN held[r] ELSE {}]
  <2> DEFINE b == [seq |-> seq, tokens |-> sched, spec |-> schedSpec,
                   samples |-> {r \in Scheduled : ~ChunkAfter(r)},
                   base |-> [r \in Req |-> IF r \in admitted /\ r \in Scheduled
                                           THEN NumTokens(r) ELSE 0],
                   writes |-> [r \in Req |-> IF r \in Scheduled THEN held[r] ELSE {}],
                   loads |-> stepLoads]
  <2>1. batches' = Append(batches, b)
    BY DEF ScheduleFinish
  <2>2. /\ b.seq = seq /\ b.tokens = sched
        /\ b.writes = [r \in Req |-> IF r \in Scheduled THEN held[r] ELSE {}]
    OBVIOUS
  <2> HIDE DEF b
  <2> QED
    BY <2>1, <2>2
<1>3. InFlight = batches /\ InFlight' = batches'
  BY <1>1 DEF InFlight
<1>4. /\ n \in Nat /\ DOMAIN batches = 1 .. n /\ DOMAIN batches' = 1 .. n + 1
      /\ \A i \in 1 .. n : batches'[i] = batches[i] /\ batches[i] \in Batch
      /\ batches'[n + 1] = b
  BY <1>2, ElementOfSeq, LenProperties, AppendProperties DEF PassInv, TypeOK, WorkerTypes
<1>5. /\ procSeq \in Nat /\ schedSeq \in Nat /\ seq \in Nat /\ schedSeq <= seq
      /\ Scheduled # {} => seq = schedSeq + 1
  BY DEF PassInv, TypeOK, BlockTypes
<1> HIDE DEF seq, n
<1>6. Stepped(b) <=> Scheduled # {}
  BY <1>2 DEF Stepped, Scheduled
<1>7. \A i \in 1 .. n : batches[i].seq <= schedSeq /\ batches[i].seq \in Nat
  BY <1>4 DEF FenceInv, FenceOrder, Batch
<1>8. FenceOrder'
  <2>1. procSeq' <= schedSeq'
    BY <1>1, <1>5 DEF FenceInv, FenceOrder
  <2>2. \A i \in DOMAIN batches' : batches'[i].seq <= schedSeq'
    BY <1>1, <1>2, <1>4, <1>5, <1>7
  <2>3. ASSUME NEW i \in DOMAIN batches', NEW j \in DOMAIN batches', i < j, Stepped(batches'[j])
        PROVE  batches'[i].seq < batches'[j].seq
    <3>1. CASE j = n + 1
      <4>1. i \in 1 .. n
        BY <1>4, <2>3, <3>1
      <4>2. batches'[j].seq = schedSeq + 1
        BY <1>2, <1>4, <1>5, <1>6, <2>3, <3>1
      <4> QED
        BY <1>4, <1>5, <1>7, <4>1, <4>2
    <3>2. CASE j \in 1 .. n
      <4>1. i \in 1 .. n
        BY <1>4, <2>3, <3>2
      <4> QED
        BY <1>4, <2>3, <3>2, <4>1 DEF FenceInv, FenceOrder
    <3> QED
      BY <1>4, <3>1, <3>2
  <2>4. ASSUME NEW i \in DOMAIN batches', Stepped(batches'[i])
        PROVE  procSeq' < batches'[i].seq
    <3>1. CASE i = n + 1
      BY <1>1, <1>2, <1>4, <1>5, <1>6, <2>4, <3>1 DEF FenceInv, FenceOrder
    <3>2. CASE i \in 1 .. n
      BY <1>1, <1>3, <1>4, <2>4, <3>2 DEF FenceInv, FenceOrder
    <3> QED
      BY <1>4, <3>1, <3>2
  <2>5. ASSUME NEW i \in DOMAIN batches', NEW r \in Req, batches'[i].writes[r] # {}
        PROVE  batches'[i].tokens[r] > 0
    <3>1. CASE i = n + 1
      BY <1>2, <1>4, <2>5, <3>1 DEF Scheduled
    <3>2. CASE i \in 1 .. n
      BY <1>4, <2>5, <3>2 DEF FenceInv, FenceOrder
    <3> QED
      BY <1>4, <3>1, <3>2
  <2> QED
    BY <1>3, <2>1, <2>2, <2>3, <2>4, <2>5 DEF FenceOrder, Stepped
<1>9. WritesCovered'
  <2>1. ASSUME NEW i \in DOMAIN batches', NEW r \in Req, NEW x \in batches'[i].writes[r]
        PROVE  \/ x \in held[r] /\ batches'[i].seq <= lastSeq'[r]
               \/ \E d \in DOMAIN deferred :
                     x \in deferred[d].blocks /\ batches'[i].seq <= deferred[d].fence
    <3>1. CASE i = n + 1
      BY <1>1, <1>2, <1>4, <1>5, <2>1, <3>1
    <3>2. CASE i \in 1 .. n
      <4>1. Covered(batches[i], r, x)
        BY <1>3, <1>4, <2>1, <3>2 DEF FenceInv, WritesCovered
      <4>2. batches[i].seq <= lastSeq[r] => batches[i].seq <= lastSeq'[r]
        BY <1>1, <1>5, <1>7, <3>2
      <4> QED
        BY <1>4, <3>2, <4>1, <4>2 DEF Covered
    <3> QED
      BY <1>4, <3>1, <3>2
  <2> QED
    BY <1>1, <1>3, <2>1 DEF WritesCovered, Covered
<1> QED
  BY <1>8, <1>9

\* The processed step leaves the front of the batches.
LEMMA FenceUpdateFinish ==
    ASSUME PassInv, FenceInv, UpdateFinish
    PROVE  FenceInv'
<1> SUFFICES ASSUME DeferBlockFree PROVE FenceOrder' /\ WritesCovered'
  BY DEF FenceInv, DeferBlockFree
<1>1. /\ pc = "update" /\ pc' = "idle" /\ batches' = Tail(batches) /\ InFlight' = InFlight
      /\ UNCHANGED <<held, deferred, schedSeq, procSeq, lastSeq>>
  BY DEF UpdateFinish, InFlight, blockVars, seqVars
<1>2. /\ DOMAIN batches = 1 .. Len(batches) /\ Len(batches) \in Nat
      /\ DOMAIN batches' = 1 .. Len(batches) - 1
      /\ \A i \in 1 .. Len(batches) - 1 : batches'[i] = batches[i + 1]
  BY <1>1, HeadTailProperties, LenProperties DEF PassInv, TypeOK, WorkerTypes, UpdateHasStep
<1>3. FenceOrder'
  BY <1>1, <1>2 DEF FenceInv, FenceOrder, Stepped
<1>4. WritesCovered'
  BY <1>1 DEF FenceInv, WritesCovered, Covered
<1> QED
  BY <1>3, <1>4

\* At the start no step is in flight and nothing is deferred.
LEMMA FenceInit == Init => FenceInv
  BY DEF Init, FenceInv, FenceOrder, WritesCovered, Covered, InFlight, Stepped

\* Every action of the scheduler keeps the fence invariant.
LEMMA FenceStep == PassInv /\ FenceInv /\ [Next]_vars => FenceInv'
<1> SUFFICES ASSUME PassInv, FenceInv, Next \/ UNCHANGED vars PROVE FenceInv'
  OBVIOUS
<1>1. ASSUME UNCHANGED <<held, deferred, batches, schedSeq, procSeq, lastSeq>>,
             pc = "update" <=> pc' = "update"
      PROVE  FenceInv'
  BY <1>1, FenceUnchanged DEF InFlight
<1>2. ASSUME NEW r \in Req, FreeRequestBlocks(r),
             UNCHANGED <<batches, schedSeq, procSeq, lastSeq>>, pc = "update" <=> pc' = "update"
      PROVE  FenceInv'
  BY <1>2, FenceFreed DEF InFlight
<1>3. ASSUME NEW r \in Req, NEW n, Allocate(r, n),
             UNCHANGED <<deferred, batches, schedSeq, procSeq, lastSeq>>,
             pc = "update" <=> pc' = "update"
      PROVE  FenceInv'
  BY <1>3, FenceAllocated DEF InFlight, PassInv, TypeOK
<1> USE DEF tokenVars, blockVars, seqVars, workerVars
<1>4. CASE RunningSchedule
  <2>1. running[idx] \in Req
    BY <1>4 DEF RunningSchedule, InRunningLoop, PassInv, TypeOK, QueueTypes, PassTypes
  <2> QED
    BY <1>3, <1>4, <2>1 DEF RunningSchedule
<1>5. ASSUME NEW v \in Req, RunningPreempt(v) PROVE FenceInv'
  <2>1. /\ FreeRequestBlocks(v) /\ UNCHANGED <<batches, schedSeq, procSeq, lastSeq>>
        /\ pc = "running" /\ pc' \in {"running", "waiting"}
    BY <1>5 DEF RunningPreempt, InRunningLoop, Preempt
  <2> QED
    BY <1>2, <2>1
<1>6. ASSUME NEW r \in Req, WaitingAdmit(r) \/ WaitingLoadRemote(r) PROVE FenceInv'
  BY <1>3, <1>6 DEF WaitingAdmit, WaitingLoadRemote
<1>7. ASSUME NEW r \in Req, UpdateDeliver(r) \/ KVXferFinished(r) \/ AbortRequest(r)
      PROVE  FenceInv'
  <2>1. /\ FreeRequestBlocks(r) \/ UNCHANGED <<held, deferred>>
        /\ UNCHANGED <<batches, schedSeq, procSeq, lastSeq, pc>>
    BY <1>7 DEF UpdateDeliver, KVXferFinished, AbortRequest, FreeRequest
  <2> QED
    BY <1>1, <1>2, <2>1
<1>8. CASE ResetPreempt
  <2>1. running[Len(running)] \in Req
    <3>1. running \in Seq(Req) /\ running # <<>>
      BY <1>8 DEF ResetPreempt, PassInv, TypeOK, QueueTypes
    <3> QED
      BY <3>1
  <2> QED
    BY <1>2, <1>8, <2>1 DEF ResetPreempt, Preempt
<1>9. CASE ScheduleStart \/ RunningSkip \/ RunningEnd \/ WaitingEnd
  BY <1>1, <1>9 DEF ScheduleStart, RunningSkip, RunningEnd, WaitingEnd
<1>10. ASSUME NEW r \in Req, WaitingSkip(r) \/ WaitingPromote(r) \/ WaitingBlocked(r)
       PROVE  FenceInv'
  BY <1>1, <1>10 DEF WaitingSkip, WaitingPromote, WaitingBlocked, Considers, InWaitingLoop
<1>11. CASE \/ \E r \in Req : UpdateDiscard(r) \/ AddRequest(r)
            \/ ResetStart \/ ResetEnd \/ Quiescent \/ UNCHANGED vars
  BY <1>1, <1>11 DEF UpdateDiscard, AddRequest, ResetStart, ResetEnd, Quiescent, vars
<1>12. CASE UpdateStart \/ ScheduleFinish \/ UpdateFinish
  BY <1>12, FenceUpdateStart, FenceScheduleFinish, FenceUpdateFinish
<1> QED
  BY <1>4, <1>5, <1>6, <1>7, <1>8, <1>9, <1>10, <1>11, <1>12 DEF Next, ScheduleStep, UpdateStep

\* With a connector that fills freed blocks and steps that overlap, a block a
\* step in flight writes is neither in the pool nor another request's: what
\* defer_block_free promises, for any number of requests, blocks and steps.
THEOREM NoBlockReusedUnderWrite == Spec => []NoReuseUnderWrite
<1>1. Spec => []FenceInv
  <2>1. PassInv /\ FenceInv /\ [Next]_vars => FenceInv'
    BY FenceStep
  <2> QED
    BY <2>1, FenceInit, PassInvariant, PTL DEF Spec
<1>2. PassInv /\ BlocksAccounted /\ FenceInv => NoReuseUnderWrite
  BY FenceProtects
<1> QED
  BY <1>1, <1>2, PassInvariant, BlocksNeitherLostNorShared, PTL
-----------------------------------------------------------------------------
(* Background loads.                                                       *)

\* A request whose load was given out waits for it, or was finished meanwhile;
\* only a connector gives out loads.
AwaitsLoad(q) == KVConsumer /\ status[q] \in {"WAITING_FOR_REMOTE_KVS", "FINISHED"}

LoadStates ==
    /\ \A q \in loading \cup stepLoads \cup finishedRecving : AwaitsLoad(q)
    /\ \A i \in DOMAIN batches : \A q \in batches[i].loads : AwaitsLoad(q)

\* A load is given out by this pass, in one step, with the worker or arrived.
LoadsOnce ==
    /\ \A i, j \in DOMAIN InFlight : i # j => InFlight[i].loads \cap InFlight[j].loads = {}
    /\ \A i \in DOMAIN InFlight :
          InFlight[i].loads \cap (loading \cup finishedRecving \cup stepLoads) = {}
    /\ loading \cap finishedRecving = {}
    /\ stepLoads \cap (loading \cup finishedRecving) = {}

LoadInv == LoadStates /\ LoadsOnce

\* The scheduler starts without loads.
LEMMA LoadInit == Init => LoadInv
  BY DEF Init, LoadInv, LoadStates, LoadsOnce, InFlight

\* What the steps of a pass, or a call from outside, may do to the loads when
\* they start none: forget one that arrived, and change the status of requests
\* that await no load, or are finished.
LEMMA LoadsKept ==
    ASSUME LoadInv, UNCHANGED <<batches, loading, InFlight>>,
           stepLoads' \subseteq stepLoads, finishedRecving' \subseteq finishedRecving,
           \A q \in loading' \cup stepLoads' \cup finishedRecving' : AwaitsLoad(q) => AwaitsLoad(q)',
           \A i \in DOMAIN batches : \A q \in batches[i].loads : AwaitsLoad(q) => AwaitsLoad(q)'
    PROVE  LoadInv'
<1>1. LoadStates'
  BY DEF LoadInv, LoadStates
<1>2. LoadsOnce'
  BY DEF LoadInv, LoadsOnce
<1> QED
  BY <1>1, <1>2 DEF LoadInv

\* A load that a pass starts is new: its request was schedulable.
LEMMA LoadStarted ==
    ASSUME PassInv, LoadInv, NEW r \in Req, WaitingLoadRemote(r)
    PROVE  LoadInv'
<1>1. /\ UNCHANGED <<batches, loading, finishedRecving, InFlight>>
      /\ stepLoads' = stepLoads \cup {r}
      /\ status' = [status EXCEPT ![r] = "WAITING_FOR_REMOTE_KVS"]
  BY DEF WaitingLoadRemote, workerVars, InFlight
<1>2. ~AwaitsLoad(r)
  BY DEF WaitingLoadRemote, Schedulable, AwaitsLoad
<1>3. \A q : AwaitsLoad(q) => AwaitsLoad(q)'
  BY <1>1, <1>2 DEF AwaitsLoad
<1>4. AwaitsLoad(r)'
  BY <1>1 DEF WaitingLoadRemote, AwaitsLoad, PassInv, TypeOK, QueueTypes
<1>5. LoadStates'
  BY <1>1, <1>3, <1>4 DEF LoadInv, LoadStates
<1>6. \A i \in DOMAIN InFlight : r \notin InFlight[i].loads
  <2>1. \A i \in DOMAIN InFlight : \E j \in DOMAIN batches : InFlight[i] = batches[j]
    BY InFlightFacts
  <2> QED
    BY <1>2, <2>1 DEF LoadInv, LoadStates
<1>7. r \notin loading \cup finishedRecving
  BY <1>2 DEF LoadInv, LoadStates
<1>8. LoadsOnce'
  BY <1>1, <1>6, <1>7 DEF LoadInv, LoadsOnce
<1> QED
  BY <1>5, <1>8 DEF LoadInv

\* The loads of a pass go out with its step.
LEMMA LoadsGivenOut ==
    ASSUME PassInv, LoadInv, ScheduleFinish
    PROVE  LoadInv'
<1> DEFINE n == Len(batches)
<1>1. /\ UNCHANGED <<status, loading, finishedRecving>> /\ stepLoads' = {}
      /\ InFlight = batches /\ InFlight' = batches'
  BY DEF ScheduleFinish, InFlight
<1>2. PICK b : batches' = Append(batches, b) /\ b.loads = stepLoads
  <2> DEFINE b == [seq |-> IF DeferBlockFree /\ Scheduled # {} THEN schedSeq + 1 ELSE schedSeq,
                   tokens |-> sched, spec |-> schedSpec,
                   samples |-> {r \in Scheduled : ~ChunkAfter(r)},
                   base |-> [r \in Req |-> IF r \in admitted /\ r \in Scheduled
                                           THEN NumTokens(r) ELSE 0],
                   writes |-> [r \in Req |-> IF r \in Scheduled THEN held[r] ELSE {}],
                   loads |-> stepLoads]
  <2>1. batches' = Append(batches, b) /\ b.loads = stepLoads
    BY DEF ScheduleFinish
  <2> HIDE DEF b
  <2> QED
    BY <2>1
<1>3. /\ n \in Nat /\ DOMAIN batches = 1 .. n /\ DOMAIN batches' = 1 .. n + 1
      /\ \A i \in 1 .. n : batches'[i] = batches[i]
      /\ batches'[n + 1] = b
  BY <1>2, AppendProperties, LenProperties DEF PassInv, TypeOK, WorkerTypes
<1> HIDE DEF n
<1>4. \A i \in 1 .. n + 1 : i \in 1 .. n \/ i = n + 1
  BY <1>3
<1>5. LoadStates'
  BY <1>1, <1>2, <1>3, <1>4 DEF LoadInv, LoadStates, AwaitsLoad
<1>6. LoadsOnce'
  BY <1>1, <1>2, <1>3, <1>4 DEF LoadInv, LoadsOnce
<1> QED
  BY <1>5, <1>6 DEF LoadInv

\* The worker takes the loads of the step that is processed.
LEMMA LoadsTaken ==
    ASSUME PassInv, LoadInv, UpdateStart
    PROVE  LoadInv'
<1> DEFINE n == Len(batches)
<1>1. /\ UNCHANGED <<status, batches, finishedRecving, stepLoads>> /\ batches # <<>>
      /\ loading' = loading \cup Head(batches).loads
      /\ InFlight = batches /\ InFlight' = Tail(batches)
  BY DEF UpdateStart, InFlight, queueVars, setVars, passVars
<1>2. /\ n \in Nat /\ n > 0 /\ DOMAIN batches = 1 .. n /\ DOMAIN Tail(batches) = 1 .. n - 1
      /\ \A i \in 1 .. n - 1 : Tail(batches)[i] = batches[i + 1]
      /\ Head(batches) = batches[1]
  BY <1>1, HeadTailProperties, LenProperties DEF PassInv, TypeOK, WorkerTypes
<1> HIDE DEF n
<1>3. 1 \in 1 .. n /\ \A i \in 1 .. n - 1 : i + 1 \in 1 .. n /\ i + 1 # 1
  BY <1>2
<1>4. \A i, j \in 1 .. n - 1 : i # j => i + 1 # j + 1
  BY <1>2
<1>5. LoadStates'
  BY <1>1, <1>2, <1>3 DEF LoadInv, LoadStates, AwaitsLoad
<1>6. LoadsOnce'
  <2>1. /\ \A i, j \in 1 .. n : i # j => batches[i].loads \cap batches[j].loads = {}
        /\ \A i \in 1 .. n :
              batches[i].loads \cap (loading \cup finishedRecving \cup stepLoads) = {}
        /\ loading \cap finishedRecving = {} /\ stepLoads \cap (loading \cup finishedRecving) = {}
    BY <1>1, <1>2 DEF LoadInv, LoadsOnce
  <2>2. \A i, j \in 1 .. n - 1 : i # j => Tail(batches)[i].loads \cap Tail(batches)[j].loads = {}
    BY <1>2, <1>3, <1>4, <2>1
  <2>3. \A i \in 1 .. n - 1 :
            Tail(batches)[i].loads \cap (loading' \cup finishedRecving' \cup stepLoads') = {}
    BY <1>1, <1>2, <1>3, <2>1
  <2>4. loading' \cap finishedRecving' = {} /\ stepLoads' \cap (loading' \cup finishedRecving') = {}
    BY <1>1, <1>2, <1>3, <2>1
  <2> QED
    BY <1>1, <1>2, <2>2, <2>3, <2>4 DEF LoadsOnce
<1> QED
  BY <1>5, <1>6 DEF LoadInv

\* A load arrives.
LEMMA LoadArrives ==
    ASSUME PassInv, LoadInv, NEW r \in Req, KVXferFinished(r)
    PROVE  LoadInv'
<1>1. /\ UNCHANGED <<status, batches, stepLoads, InFlight>> /\ r \in loading
      /\ loading' = loading \ {r} /\ finishedRecving' \subseteq finishedRecving \cup {r}
  BY DEF KVXferFinished, InFlight, passVars
<1>2. LoadStates'
  BY <1>1 DEF LoadInv, LoadStates, AwaitsLoad
<1>3. LoadsOnce'
  BY <1>1 DEF LoadInv, LoadsOnce
<1> QED
  BY <1>2, <1>3 DEF LoadInv

\* The processed step leaves; its loads are with the worker or arrived.
LEMMA LoadsProcessed ==
    ASSUME PassInv, LoadInv, UpdateFinish
    PROVE  LoadInv'
<1>1. /\ UNCHANGED <<status, loading, finishedRecving, stepLoads, InFlight>>
      /\ batches # <<>> /\ batches' = Tail(batches)
  BY DEF UpdateFinish, InFlight, queueVars, setVars, passVars, PassInv, UpdateHasStep
<1>2. \A i \in DOMAIN batches' : i + 1 \in DOMAIN batches /\ batches'[i] = batches[i + 1]
  BY <1>1, HeadTailProperties, LenProperties DEF PassInv, TypeOK, WorkerTypes
<1>3. LoadStates'
  BY <1>1, <1>2 DEF LoadInv, LoadStates, AwaitsLoad
<1>4. LoadsOnce'
  BY <1>1 DEF LoadInv, LoadsOnce
<1> QED
  BY <1>3, <1>4 DEF LoadInv

\* A request whose load arrived is promoted; no other load of it is underway.
LEMMA LoadPromoted ==
    ASSUME PassInv, LoadInv, NEW r \in Req, WaitingPromote(r)
    PROVE  LoadInv'
<1>1. /\ UNCHANGED <<batches, loading, stepLoads, InFlight>> /\ InFlight = batches
      /\ r \in finishedRecving /\ finishedRecving' = finishedRecving \ {r}
      /\ \A q : q # r => status'[q] = status[q]
  BY DEF WaitingPromote, Considers, InWaitingLoop, InFlight, passVars, workerVars, PassInv,
         TypeOK, QueueTypes
<1>2. r \notin loading \cup stepLoads /\ \A i \in DOMAIN batches : r \notin batches[i].loads
  BY <1>1 DEF LoadInv, LoadsOnce
<1>3. \A q : q # r /\ AwaitsLoad(q) => AwaitsLoad(q)'
  BY <1>1 DEF AwaitsLoad
<1> QED
  BY <1>1, <1>2, <1>3, LoadsKept

\* The other actions start, hand out and end no load.
LEMMA LoadStep == PassInv /\ LoadInv /\ [Next]_vars => LoadInv'
<1> SUFFICES ASSUME PassInv, LoadInv, Next \/ UNCHANGED vars PROVE LoadInv'
  OBVIOUS
<1> USE DEF queueVars, setVars, passVars, workerVars
<1>1. ASSUME UNCHANGED <<status, batches, loading, finishedRecving>>,
             stepLoads' \subseteq stepLoads, pc = "update" <=> pc' = "update"
      PROVE  LoadInv'
  BY <1>1, LoadsKept DEF AwaitsLoad, InFlight
<1>2. ASSUME NEW r \in Req, ~AwaitsLoad(r), \E s \in Statuses : status' = [status EXCEPT ![r] = s],
             UNCHANGED <<batches, loading, finishedRecving, stepLoads>>,
             pc = "update" <=> pc' = "update"
      PROVE  LoadInv'
  <2>1. \A q : AwaitsLoad(q) => AwaitsLoad(q)'
    BY <1>2 DEF AwaitsLoad
  <2> QED
    BY <1>2, <2>1, LoadsKept DEF InFlight
<1>3. ASSUME NEW v \in Req, v \in Elems(running), NEW drop, Preempt(v, drop), stepLoads' = stepLoads,
             pc = "update" <=> pc' = "update"
      PROVE  LoadInv'
  <2>1. ~AwaitsLoad(v)
    BY <1>3 DEF AwaitsLoad, PassInv, RunningQueue
  <2> QED
    BY <1>2, <1>3, <2>1 DEF Preempt, Statuses
<1>4. ASSUME NEW r \in Req, Dequeue(r), UNCHANGED <<batches, loading, stepLoads, pc>>,
             finishedRecving' \subseteq finishedRecving
      PROVE  LoadInv'
  <2>1. \A q : AwaitsLoad(q) => AwaitsLoad(q)'
    BY <1>4 DEF Dequeue, AwaitsLoad, PassInv, TypeOK, QueueTypes
  <2> QED
    BY <1>4, <2>1, LoadsKept DEF InFlight
<1>5. CASE ScheduleStart \/ RunningSkip \/ RunningSchedule \/ RunningEnd \/ WaitingEnd
  BY <1>1, <1>5 DEF ScheduleStart, RunningSkip, RunningSchedule, RunningEnd, WaitingEnd,
         InRunningLoop
<1>6. ASSUME NEW v \in Req, RunningPreempt(v) PROVE LoadInv'
  <2>1. v \in Elems(running)
    <3>1. Len(running) \in DOMAIN running
      BY <1>6 DEF RunningPreempt, InRunningLoop, PassInv, TypeOK, QueueTypes, PassTypes
    <3> QED
      BY <1>6, <3>1 DEF RunningPreempt, IsVictim, Elems
  <2> QED
    BY <1>3, <1>6, <2>1 DEF RunningPreempt, InRunningLoop
<1>7. CASE ResetPreempt
  <2> DEFINE v == running[Len(running)]
  <2>1. v \in Req /\ v \in Elems(running)
    <3>1. running \in Seq(Req) /\ running # <<>>
      BY <1>7 DEF ResetPreempt, PassInv, TypeOK, QueueTypes
    <3>2. Len(running) \in DOMAIN running /\ v \in Req
      BY <3>1
    <3> QED
      BY <3>2 DEF Elems
  <2> QED
    BY <1>3, <1>7, <2>1 DEF ResetPreempt
<1>8. ASSUME NEW r \in Req, WaitingSkip(r) \/ WaitingBlocked(r) PROVE LoadInv'
  BY <1>1, <1>8 DEF WaitingSkip, WaitingBlocked, Considers, InWaitingLoop
<1>9. ASSUME NEW r \in Req, WaitingAdmit(r) PROVE LoadInv'
  BY <1>2, <1>9 DEF WaitingAdmit, Schedulable, AwaitsLoad, Statuses
<1>10. ASSUME NEW r \in Req, UpdateDiscard(r) PROVE LoadInv'
  BY <1>1, <1>10 DEF UpdateDiscard
<1>11. ASSUME NEW r \in Req, UpdateDeliver(r) PROVE LoadInv'
  <2>1. Dequeue(r) \/ UNCHANGED status
    BY <1>11 DEF UpdateDeliver
  <2> QED
    BY <1>1, <1>4, <1>11, <2>1 DEF UpdateDeliver
<1>12. ASSUME NEW r \in Req, AbortRequest(r) PROVE LoadInv'
  BY <1>4, <1>12 DEF AbortRequest
<1>13. ASSUME NEW r \in Req, AddRequest(r) PROVE LoadInv'
  BY <1>2, <1>13 DEF AddRequest, AwaitsLoad, Statuses
<1>14. CASE ResetStart \/ ResetEnd \/ Quiescent \/ UNCHANGED vars
  BY <1>1, <1>14 DEF ResetStart, ResetEnd, Quiescent, vars
<1> QED
  BY <1>5, <1>6, <1>7, <1>8, <1>9, <1>10, <1>11, <1>12, <1>13, <1>14, LoadStarted, LoadsGivenOut,
     LoadsTaken, LoadArrives, LoadsProcessed, LoadPromoted DEF Next, ScheduleStep, UpdateStep

-----------------------------------------------------------------------------
(* A load never targets a block that a step in flight writes.              *)

\* A request that does not run owns no block that a step in flight writes: its
\* own earlier steps write what it gave up.
NoSelfWrite ==
    DeferBlockFree =>
        \A r \in Req : status[r] # "RUNNING" =>
            \A i \in DOMAIN InFlight : InFlight[i].writes[r] \cap held[r] = {}

\* Without overlapping steps nothing is in flight while blocks are handed out.
SingleStep ==
    MaxBatches = 1 =>
        /\ Len(batches) <= 1
        /\ pc \in {"running", "waiting", "finish"} => batches = <<>>
        /\ NoLoadUnderWrite

WriteInv == NoSelfWrite /\ SingleStep

\* What the promise rests on.
Ordered == PassInv /\ BlocksAccounted /\ NoReuseUnderWrite /\ LoadInv

\* The loads underway are requests.
LEMMA LoadsUnderwayType ==
    ASSUME PassInv
    PROVE  LoadsUnderway \subseteq Req
<1>1. \A i \in DOMAIN batches : batches[i] \in Batch
  BY ElementOfSeq, LenProperties DEF PassInv, TypeOK, WorkerTypes
<1> QED
  BY <1>1 DEF LoadsUnderway, PassInv, TypeOK, WorkerTypes, Batch

\* The promise follows in each of the three configurations.
LEMMA LoadsProtected ==
    ASSUME Ordered, WriteInv
    PROVE  NoLoadUnderWrite
<1>1. CASE MaxBatches = 1
  BY <1>1 DEF WriteInv, SingleStep
<1>2. CASE DeferBlockFree
  <2> SUFFICES ASSUME NEW q \in LoadsUnderway, NEW i \in DOMAIN InFlight, NEW r \in Req
               PROVE  InFlight[i].writes[r] \cap held[q] = {}
    BY DEF NoLoadUnderWrite
  <2>1. q \in Req /\ status[q] # "RUNNING"
    BY LoadsUnderwayType DEF LoadsUnderway, Ordered, LoadInv, LoadStates, AwaitsLoad
  <2>2. CASE q = r
    BY <1>2, <2>1, <2>2 DEF WriteInv, NoSelfWrite
  <2>3. CASE q # r
    BY <1>2, <2>1, <2>3 DEF Ordered, NoReuseUnderWrite
  <2> QED
    BY <2>2, <2>3
<1>3. CASE ~KVConsumer
  BY <1>3 DEF Ordered, LoadInv, LoadStates, AwaitsLoad, NoLoadUnderWrite, LoadsUnderway
<1>4. MaxBatches \in Nat \ {0}
  BY ConstantsAssumption DEF ConstantsAssumption
<1> QED
  BY <1>1, <1>2, <1>3, <1>4 DEF DeferBlockFree

\* At the start nothing is in flight.
LEMMA WriteInit == Init => WriteInv
  BY DEF Init, WriteInv, NoSelfWrite, SingleStep, NoLoadUnderWrite, InFlight

\* An action that gives no block away, and starts no load, keeps both parts.
LEMMA WritesKept ==
    ASSUME WriteInv, \A r \in Req : held'[r] \subseteq held[r],
           \A r \in Req : status'[r] # "RUNNING" => status[r] # "RUNNING" \/ held'[r] = {},
           UNCHANGED <<batches, loading, InFlight>>,
           pc' \in {"running", "waiting", "finish"} => pc \in {"running", "waiting", "finish"},
           LoadsUnderway \subseteq Req
    PROVE  WriteInv'
<1>1. NoSelfWrite'
  BY DEF WriteInv, NoSelfWrite, DeferBlockFree
<1>2. SingleStep'
  BY DEF WriteInv, SingleStep, NoLoadUnderWrite, LoadsUnderway
<1> QED
  BY <1>1, <1>2 DEF WriteInv

\* A pass hands out blocks from the pool, where no step in flight writes.
LEMMA WritesAllocated ==
    ASSUME Ordered, WriteInv, NEW r \in Req, NEW n, Allocate(r, n),
           pc \in {"running", "waiting"}, pc' = pc, UNCHANGED batches,
           \A q \in Req \ {r} : status'[q] = status[q],
           status'[r] # "RUNNING" => status[r] # "RUNNING"
    PROVE  WriteInv'
<1>1. PICK S \in SUBSET free : held' = [held EXCEPT ![r] = @ \cup S]
  BY DEF Allocate
<1>2. held'[r] = held[r] \cup S /\ \A q \in Req \ {r} : held'[q] = held[q]
  BY <1>1 DEF Ordered, PassInv, TypeOK, BlockTypes
<1>3. InFlight = batches /\ InFlight' = batches'
  BY DEF InFlight
<1>4. NoSelfWrite'
  BY <1>2, <1>3 DEF Ordered, NoReuseUnderWrite, WriteInv, NoSelfWrite, DeferBlockFree
<1>5. SingleStep'
  BY <1>3 DEF WriteInv, SingleStep, NoLoadUnderWrite
<1> QED
  BY <1>4, <1>5 DEF WriteInv

\* The step of a pass writes the blocks of running requests, the loads given
\* out with it are for others.
LEMMA WritesScheduled ==
    ASSUME Ordered, LoadInv', WriteInv, ScheduleFinish
    PROVE  WriteInv'
<1> DEFINE n == Len(batches)
<1>1. /\ UNCHANGED <<status, held, loading>> /\ pc = "finish" /\ pc' = "idle"
      /\ InFlight = batches /\ InFlight' = batches'
  BY DEF ScheduleFinish, InFlight, blockVars
<1>2. PICK b : /\ batches' = Append(batches, b) /\ b.loads = stepLoads
               /\ b.writes = [r \in Req |-> IF r \in Scheduled THEN held[r] ELSE {}]
  <2> DEFINE b == [seq |-> IF DeferBlockFree /\ Scheduled # {} THEN schedSeq + 1 ELSE schedSeq,
                   tokens |-> sched, spec |-> schedSpec,
                   samples |-> {r \in Scheduled : ~ChunkAfter(r)},
                   base |-> [r \in Req |-> IF r \in admitted /\ r \in Scheduled
                                           THEN NumTokens(r) ELSE 0],
                   writes |-> [r \in Req |-> IF r \in Scheduled THEN held[r] ELSE {}],
                   loads |-> stepLoads]
  <2>1. batches' = Append(batches, b)
    BY DEF ScheduleFinish
  <2>2. /\ b.loads = stepLoads
        /\ b.writes = [r \in Req |-> IF r \in Scheduled THEN held[r] ELSE {}]
    OBVIOUS
  <2> HIDE DEF b
  <2> QED
    BY <2>1, <2>2
<1>3. /\ n \in Nat /\ DOMAIN batches = 1 .. n /\ DOMAIN batches' = 1 .. n + 1
      /\ \A i \in 1 .. n : batches'[i] = batches[i]
      /\ batches'[n + 1] = b
      /\ (batches = <<>> => n = 0)
  BY <1>2, AppendProperties, LenProperties DEF Ordered, PassInv, TypeOK, WorkerTypes
<1>4. Len(batches') = n + 1
  BY <1>2, AppendProperties DEF Ordered, PassInv, TypeOK, WorkerTypes
<1> HIDE DEF n
<1>5. \A r \in Req : b.writes[r] # {} => status[r] = "RUNNING" /\ b.writes[r] = held[r]
  BY <1>2 DEF Ordered, PassInv, OnlyRunningScheduled, Scheduled
<1>6. \A i \in 1 .. n + 1 : i \in 1 .. n \/ i = n + 1
  BY <1>3
<1>7. NoSelfWrite'
  BY <1>1, <1>3, <1>5, <1>6 DEF WriteInv, NoSelfWrite, DeferBlockFree
<1>8. ASSUME MaxBatches = 1 PROVE NoLoadUnderWrite'
  <2>1. n = 0
    BY <1>1, <1>3, <1>8 DEF WriteInv, SingleStep
  <2>2. ASSUME NEW q \in LoadsUnderway', NEW r \in Req
        PROVE  b.writes[r] \cap held[q] = {}
    <3>1. q \in loading \cup stepLoads
      BY <1>1, <1>2, <1>3, <2>1 DEF LoadsUnderway
    <3>2. q \in Req
      BY <3>1 DEF Ordered, PassInv, TypeOK, WorkerTypes, PassTypes
    <3>3. status[q] # "RUNNING"
      BY <1>1 DEF LoadsUnderway, LoadInv, LoadStates, AwaitsLoad
    <3> QED
      BY <1>5, <3>2, <3>3 DEF Ordered, BlocksAccounted
  <2> QED
    BY <1>1, <1>3, <2>1, <2>2 DEF NoLoadUnderWrite
<1>9. SingleStep'
  BY <1>1, <1>3, <1>4, <1>8 DEF WriteInv, SingleStep
<1> QED
  BY <1>7, <1>9 DEF WriteInv

\* The step that is processed leaves the steps in flight.
LEMMA WritesUpdateStart ==
    ASSUME Ordered, WriteInv, UpdateStart
    PROVE  WriteInv'
<1> DEFINE n == Len(batches)
<1>1. /\ UNCHANGED <<status, held, batches>> /\ batches # <<>> /\ pc' = "update"
      /\ InFlight = batches /\ InFlight' = Tail(batches)
  BY DEF UpdateStart, InFlight, queueVars
<1>2. /\ n \in Nat /\ n > 0 /\ DOMAIN batches = 1 .. n /\ DOMAIN Tail(batches) = 1 .. n - 1
      /\ \A i \in 1 .. n - 1 : i + 1 \in 1 .. n /\ Tail(batches)[i] = batches[i + 1]
  BY <1>1, HeadTailProperties, LenProperties DEF Ordered, PassInv, TypeOK, WorkerTypes
<1> HIDE DEF n
<1>3. NoSelfWrite'
  BY <1>1, <1>2 DEF WriteInv, NoSelfWrite, DeferBlockFree
<1>4. n <= 1 => 1 .. n - 1 = {}
  BY <1>2
<1>5. MaxBatches = 1 => n <= 1
  BY DEF WriteInv, SingleStep, n
<1>6. SingleStep'
  BY <1>1, <1>2, <1>4, <1>5 DEF WriteInv, SingleStep, NoLoadUnderWrite
<1> QED
  BY <1>3, <1>6 DEF WriteInv

\* The processed step is dropped.
LEMMA WritesUpdateFinish ==
    ASSUME Ordered, WriteInv, UpdateFinish
    PROVE  WriteInv'
<1>1. /\ UNCHANGED <<status, held, InFlight>> /\ batches # <<>> /\ batches' = Tail(batches)
      /\ pc' = "idle" /\ InFlight' = batches'
  BY DEF UpdateFinish, InFlight, queueVars, blockVars, Ordered, PassInv, UpdateHasStep
<1>2. Len(batches') = Len(batches) - 1 /\ Len(batches) \in Nat /\ DOMAIN batches' = 1 .. Len(batches')
  BY <1>1, HeadTailProperties, LenProperties DEF Ordered, PassInv, TypeOK, WorkerTypes
<1>3. NoSelfWrite'
  BY <1>1 DEF WriteInv, NoSelfWrite, DeferBlockFree
<1>4. Len(batches) <= 1 => DOMAIN batches' = {}
  BY <1>2
<1>5. SingleStep'
  BY <1>1, <1>2, <1>4 DEF WriteInv, SingleStep, NoLoadUnderWrite
<1> QED
  BY <1>3, <1>5 DEF WriteInv

\* Every action keeps loads and writes apart.
LEMMA WriteStep == Ordered /\ LoadInv' /\ WriteInv /\ [Next]_vars => WriteInv'
<1> SUFFICES ASSUME Ordered, LoadInv', WriteInv, Next \/ UNCHANGED vars PROVE WriteInv'
  OBVIOUS
<1> USE DEF queueVars, blockVars, passVars, workerVars
<1>1. ASSUME UNCHANGED <<status, held, batches, loading>>, pc' \in {"idle", "reset"} \/ pc' = pc,
             pc = "update" <=> pc' = "update"
      PROVE  WriteInv'
  BY <1>1, WritesKept, LoadsUnderwayType DEF InFlight, Ordered
<1>2. ASSUME NEW r \in Req, FreeRequestBlocks(r), \A q \in Req \ {r} : status'[q] = status[q],
             UNCHANGED <<batches, loading>>,
             pc' \in {"running", "waiting"} => pc \in {"running", "waiting"},
             pc = "update" <=> pc' = "update", pc' # "finish"
      PROVE  WriteInv'
  <2>1. held'[r] = {} /\ \A q \in Req \ {r} : held'[q] = held[q]
    BY <1>2 DEF FreeRequestBlocks, Release, Ordered, PassInv, TypeOK, BlockTypes
  <2>2. \A q \in Req : held'[q] \subseteq held[q]
    BY <2>1
  <2>3. \A q \in Req : status'[q] # "RUNNING" => status[q] # "RUNNING" \/ held'[q] = {}
    BY <1>2, <2>1
  <2>4. InFlight' = InFlight
    BY <1>2 DEF InFlight
  <2> QED
    BY <1>2, <2>2, <2>3, <2>4, WritesKept, LoadsUnderwayType DEF Ordered
<1>3. CASE ScheduleStart
  <2>1. /\ UNCHANGED <<status, held, batches, loading>> /\ pc = "idle" /\ pc' = "running"
        /\ Len(batches) < MaxBatches
    BY <1>3 DEF ScheduleStart
  <2>2. MaxBatches = 1 => batches = <<>>
    BY <2>1, EmptySeq, LenProperties DEF Ordered, PassInv, TypeOK, WorkerTypes
  <2>3. NoSelfWrite'
    BY <2>1 DEF WriteInv, NoSelfWrite, InFlight, DeferBlockFree
  <2>4. SingleStep'
    BY <2>1, <2>2 DEF WriteInv, SingleStep, NoLoadUnderWrite, LoadsUnderway, InFlight
  <2> QED
    BY <2>3, <2>4 DEF WriteInv
<1>4. CASE RunningSkip
  BY <1>1, <1>4 DEF RunningSkip
<1>5. CASE RunningSchedule
  <2>1. running[idx] \in Req /\ status[running[idx]] = "RUNNING" /\ pc = "running"
    BY <1>5 DEF RunningSchedule, InRunningLoop, Ordered, PassInv, TypeOK, QueueTypes, PassTypes,
           RunningQueue, Elems
  <2> QED
    BY <1>5, <2>1, WritesAllocated DEF RunningSchedule
<1>6. ASSUME NEW v \in Req, RunningPreempt(v) PROVE WriteInv'
  <2>1. /\ FreeRequestBlocks(v) /\ \A q \in Req \ {v} : status'[q] = status[q]
        /\ UNCHANGED <<batches, loading>> /\ pc = "running" /\ pc' \in {"running", "waiting"}
    BY <1>6 DEF RunningPreempt, InRunningLoop, Preempt, Ordered, PassInv, TypeOK, QueueTypes
  <2> QED
    BY <1>2, <2>1
<1>7. CASE RunningEnd \/ WaitingEnd \/ \E r \in Req : WaitingBlocked(r)
  <2>1. /\ UNCHANGED <<status, held, batches, loading>>
        /\ pc \in {"running", "waiting"} /\ pc' \in {"waiting", "finish"}
    BY <1>7 DEF RunningEnd, WaitingEnd, WaitingBlocked, Considers, InWaitingLoop
  <2>2. InFlight' = InFlight
    BY <2>1 DEF InFlight
  <2> QED
    BY <2>1, <2>2, WritesKept, LoadsUnderwayType DEF Ordered
<1>8. ASSUME NEW r \in Req, WaitingSkip(r) PROVE WriteInv'
  BY <1>1, <1>8 DEF WaitingSkip
<1>9. ASSUME NEW r \in Req, WaitingPromote(r) PROVE WriteInv'
  <2>1. /\ UNCHANGED <<held, batches, loading, pc>>
        /\ \A q \in Req : status'[q] # "RUNNING" => status[q] # "RUNNING"
    BY <1>9 DEF WaitingPromote, Ordered, PassInv, TypeOK, QueueTypes
  <2>2. InFlight' = InFlight
    BY <2>1 DEF InFlight
  <2> QED
    BY <2>1, <2>2, WritesKept, LoadsUnderwayType DEF Ordered
<1>10. ASSUME NEW r \in Req, WaitingAdmit(r) PROVE WriteInv'
  <2>1. /\ pc = "waiting" /\ pc' = pc /\ UNCHANGED batches
        /\ status' = [status EXCEPT ![r] = "RUNNING"]
        /\ Allocate(r, computed[r] + AdmitTokens(r) + NumSpec)
    BY <1>10 DEF WaitingAdmit, Considers, InWaitingLoop
  <2>2. status'[r] = "RUNNING" /\ \A q \in Req \ {r} : status'[q] = status[q]
    BY <2>1 DEF Ordered, PassInv, TypeOK, QueueTypes
  <2> QED
    BY <2>1, <2>2, WritesAllocated
<1>11. ASSUME NEW r \in Req, WaitingLoadRemote(r) PROVE WriteInv'
  <2>1. PICK hit \in ExtHits : Allocate(r, hit)
    BY <1>11 DEF WaitingLoadRemote
  <2>2. /\ pc = "waiting" /\ pc' = pc /\ UNCHANGED batches /\ status[r] # "RUNNING"
        /\ \A q \in Req \ {r} : status'[q] = status[q]
    BY <1>11 DEF WaitingLoadRemote, Considers, InWaitingLoop, Schedulable, Ordered, PassInv, TypeOK,
           QueueTypes
  <2> QED
    BY <2>1, <2>2, WritesAllocated
<1>12. ASSUME NEW r \in Req, UpdateDiscard(r) PROVE WriteInv'
  BY <1>1, <1>12 DEF UpdateDiscard
<1>13. ASSUME NEW r \in Req, UpdateDeliver(r) PROVE WriteInv'
  <2>1. /\ UNCHANGED <<batches, loading, pc>> /\ pc = "update"
        /\ \/ UNCHANGED <<status, held>>
           \/ FreeRequestBlocks(r) /\ Dequeue(r)
    BY <1>13 DEF UpdateDeliver, FreeRequest
  <2>2. Dequeue(r) => \A q \in Req \ {r} : status'[q] = status[q]
    BY DequeueFacts DEF Ordered
  <2> QED
    BY <1>1, <1>2, <2>1, <2>2
<1>14. ASSUME NEW r \in Req, KVXferFinished(r) PROVE WriteInv'
  <2>1. /\ UNCHANGED <<batches, status, pc, stepLoads>> /\ pc = "update"
        /\ loading' \subseteq loading
        /\ \A q \in Req : held'[q] \subseteq held[q]
    BY <1>14 DEF KVXferFinished, FreeRequestBlocks, Release, Ordered, PassInv, TypeOK, BlockTypes
  <2>2. InFlight' = InFlight /\ LoadsUnderway' \subseteq LoadsUnderway
    BY <2>1 DEF InFlight, LoadsUnderway
  <2>3. NoSelfWrite'
    BY <2>1, <2>2 DEF WriteInv, NoSelfWrite, DeferBlockFree
  <2>4. SingleStep'
    BY <2>1, <2>2, LoadsUnderwayType DEF Ordered, WriteInv, SingleStep, NoLoadUnderWrite
  <2> QED
    BY <2>3, <2>4 DEF WriteInv
<1>15. ASSUME NEW r \in Req, AddRequest(r) PROVE WriteInv'
  <2>1. /\ UNCHANGED <<held, batches, loading, pc>>
        /\ \A q \in Req : status'[q] # "RUNNING" => status[q] # "RUNNING"
    BY <1>15 DEF AddRequest, Ordered, PassInv, TypeOK, QueueTypes
  <2>2. InFlight' = InFlight
    BY <2>1 DEF InFlight
  <2> QED
    BY <2>1, <2>2, WritesKept, LoadsUnderwayType DEF Ordered
<1>16. ASSUME NEW r \in Req, AbortRequest(r) PROVE WriteInv'
  <2>1. /\ UNCHANGED <<batches, loading, pc>> /\ pc = "idle" /\ Dequeue(r)
        /\ (LoadPending(r) /\ UNCHANGED held) \/ FreeRequestBlocks(r)
    BY <1>16 DEF AbortRequest, FreeRequest
  <2>2. \A q \in Req \ {r} : status'[q] = status[q]
    BY <2>1, DequeueFacts DEF Ordered
  <2>3. CASE LoadPending(r) /\ UNCHANGED held
    <3>1. \A q \in Req : status'[q] # "RUNNING" => status[q] # "RUNNING"
      BY <2>2, <2>3 DEF LoadPending
    <3>2. InFlight' = InFlight
      BY <2>1 DEF InFlight
    <3> QED
      BY <2>1, <2>3, <3>1, <3>2, WritesKept, LoadsUnderwayType DEF Ordered
  <2> QED
    BY <1>2, <2>1, <2>2, <2>3
<1>17. CASE ResetPreempt
  <2> DEFINE v == running[Len(running)]
  <2>1. v \in Req
    <3>1. running \in Seq(Req) /\ running # <<>>
      BY <1>17 DEF ResetPreempt, Ordered, PassInv, TypeOK, QueueTypes
    <3> QED
      BY <3>1
  <2> HIDE DEF v
  <2>2. Preempt(v, TRUE) /\ pc' = pc /\ pc = "reset"
    BY <1>17 DEF ResetPreempt, v
  <2>3. \A q \in Req \ {v} : status'[q] = status[q]
    BY <2>2 DEF Preempt, Ordered, PassInv, TypeOK, QueueTypes
  <2> QED
    BY <1>2, <2>1, <2>2, <2>3 DEF Preempt
<1>18. CASE ResetStart \/ ResetEnd \/ Quiescent \/ UNCHANGED vars
  BY <1>1, <1>18 DEF ResetStart, ResetEnd, Quiescent, vars
<1> QED
  BY <1>3, <1>4, <1>5, <1>6, <1>7, <1>8, <1>9, <1>10, <1>11, <1>12, <1>13, <1>14, <1>15, <1>16,
     <1>17, <1>18, WritesScheduled, WritesUpdateStart, WritesUpdateFinish
  DEF Next, ScheduleStep, UpdateStep

\* Loads are started once and only for requests that wait for them.
THEOREM LoadInvariant == Spec => []LoadInv
<1>1. PassInv /\ LoadInv /\ [Next]_vars => LoadInv'
  BY LoadStep
<1> QED
  BY <1>1, LoadInit, PassInvariant, PTL DEF Spec

\* What the requests give up stays behind the fence, or nothing is in flight.
THEOREM WriteInvariant == Spec => []WriteInv
<1>1. Ordered /\ LoadInv' /\ WriteInv /\ [Next]_vars => WriteInv'
  BY WriteStep
<1>2. PassInv /\ BlocksAccounted /\ NoReuseUnderWrite /\ LoadInv => Ordered
  BY DEF Ordered
<1> QED
  BY <1>1, <1>2, WriteInit, PassInvariant, BlocksNeitherLostNorShared, NoBlockReusedUnderWrite,
     LoadInvariant, PTL DEF Spec

\* A background load never targets a block that a step in flight writes,
\* whether steps overlap (then the fence keeps the block out of the pool, and
\* a request gives up what its earlier steps write before it may load) or not
\* (then nothing is in flight while blocks are handed out).
THEOREM LoadsAvoidWrites == Spec => []NoLoadUnderWrite
<1>1. PassInv /\ BlocksAccounted /\ NoReuseUnderWrite /\ LoadInv => Ordered
  BY DEF Ordered
<1>2. Ordered /\ WriteInv => NoLoadUnderWrite
  BY LoadsProtected
<1> QED
  BY <1>1, <1>2, WriteInvariant, PassInvariant, BlocksNeitherLostNorShared,
     NoBlockReusedUnderWrite, LoadInvariant, PTL
-----------------------------------------------------------------------------
(* Queues: helpers.                                                        *)

\* Two queues one after the other hold what either holds; without duplicates
\* they hold each request once if they share none.
LEMMA ConcatFacts ==
    ASSUME NEW p \in Seq(Req), NEW q \in Seq(Req)
    PROVE  /\ p \o q \in Seq(Req)
           /\ Elems(p \o q) = Elems(p) \cup Elems(q)
           /\ NoDuplicates(p) /\ NoDuplicates(q) /\ Elems(p) \cap Elems(q) = {}
                 => NoDuplicates(p \o q)
<1> DEFINE n == Len(p)
           m == Len(q)
           c == p \o q
<1>1. /\ n \in Nat /\ m \in Nat /\ c \in Seq(Req)
      /\ DOMAIN p = 1 .. n /\ DOMAIN q = 1 .. m /\ DOMAIN c = 1 .. n + m
      /\ \A i \in 1 .. n + m : c[i] = IF i <= n THEN p[i] ELSE q[i - n]
  BY ConcatProperties, LenProperties
<1>2. /\ \A i \in 1 .. n : i \in 1 .. n + m /\ c[i] = p[i]
      /\ \A i \in 1 .. m : i + n \in 1 .. n + m /\ c[i + n] = q[i]
      /\ \A i \in 1 .. n + m : i \in 1 .. n \/ (i - n \in 1 .. m /\ c[i] = q[i - n])
  BY <1>1
<1> HIDE DEF n, m, c
<1>3. Elems(c) = Elems(p) \cup Elems(q)
  <2>1. Elems(c) \subseteq Elems(p) \cup Elems(q)
    BY <1>1, <1>2 DEF Elems
  <2>2. Elems(p) \subseteq Elems(c)
    BY <1>1, <1>2 DEF Elems
  <2>3. ASSUME NEW i \in 1 .. m PROVE q[i] \in Elems(c)
    <3>1. i + n \in DOMAIN c /\ c[i + n] = q[i]
      BY <1>1, <1>2
    <3> QED
      BY <3>1 DEF Elems
  <2> QED
    BY <1>1, <2>1, <2>2, <2>3 DEF Elems
<1>4. ASSUME NoDuplicates(p), NoDuplicates(q), Elems(p) \cap Elems(q) = {}
      PROVE  NoDuplicates(c)
  <2> SUFFICES ASSUME NEW i \in 1 .. n + m, NEW j \in 1 .. n + m, c[i] = c[j] PROVE i = j
    BY <1>1 DEF NoDuplicates
  <2>1. CASE i \in 1 .. n /\ j \in 1 .. n
    BY <1>1, <1>2, <1>4, <2>1 DEF NoDuplicates
  <2>2. CASE i - n \in 1 .. m /\ j - n \in 1 .. m /\ c[i] = q[i - n] /\ c[j] = q[j - n]
    <3>1. i - n = j - n
      BY <1>1, <1>4, <2>2 DEF NoDuplicates
    <3> QED
      BY <1>1, <3>1
  <2>3. ASSUME NEW a \in 1 .. n, NEW b \in 1 .. m PROVE p[a] # q[b]
    BY <1>1, <1>4 DEF Elems
  <2> QED
    BY <1>1, <1>2, <2>1, <2>2, <2>3
<1> QED
  BY <1>1, <1>3, <1>4 DEF c

\* A queue holds no more requests than its length.
LEMMA ElemsBounded ==
    ASSUME NEW q \in Seq(Req)
    PROVE  /\ IsFiniteSet(Elems(q)) /\ Cardinality(Elems(q)) <= Len(q)
           /\ Cardinality(Elems(q)) \in Nat
<1>1. Len(q) \in Nat /\ DOMAIN q = 1 .. Len(q) /\ q \in [1 .. Len(q) -> Elems(q)]
  BY LenProperties DEF Elems
<1>2. q \in Surjection(1 .. Len(q), Elems(q))
  BY <1>1 DEF Surjection, Elems
<1>3. IsFiniteSet(1 .. Len(q)) /\ Cardinality(1 .. Len(q)) = Len(q)
  BY <1>1, FS_Interval
<1> QED
  BY <1>2, <1>3, FS_Surjection, FS_CardinalityType

\* A queue without one entry is no longer than before.
LEMMA WithoutLength ==
    ASSUME NEW q \in Seq(Req), NEW r
    PROVE  Len(Without(q, r)) <= Len(q) /\ Len(Without(q, r)) \in Nat
<1>1. CASE r \notin Elems(q)
  BY <1>1, LenProperties DEF Without
<1>2. CASE r \in Elems(q)
  <2> DEFINE i == IndexOf(q, r)
             n == Len(q)
             front == SubSeq(q, 1, i - 1)
             back  == SubSeq(q, i + 1, n)
  <2>1. i \in 1 .. n /\ n \in Nat
    BY <1>2, LenProperties DEF IndexOf, Elems
  <2> HIDE DEF i
  <2>2. /\ front \in Seq(Req) /\ back \in Seq(Req)
        /\ Len(front) = i - 1 /\ Len(back) = n - i
    BY <2>1, SubSeqProperties
  <2>3. Without(q, r) = front \o back
    BY <1>2 DEF Without, DropAt, i
  <2> HIDE DEF front, back
  <2>4. Len(Without(q, r)) = Len(front) + Len(back)
    BY <2>2, <2>3, ConcatProperties
  <2> QED
    BY <2>1, <2>2, <2>4
<1> QED
  BY <1>1, <1>2
-----------------------------------------------------------------------------
(* Each unfinished request is in the queue of its status.                  *)

QueueSets ==
    /\ NoDuplicates(waiting) /\ NoDuplicates(skipped) /\ NoDuplicates(stepSkipped)
    /\ Elems(waiting) \cap Elems(skipped) = {}
    /\ (Elems(waiting) \cup Elems(skipped)) \cap Elems(stepSkipped) = {}
    /\ Elems(waiting) \cup Elems(skipped) \cup Elems(stepSkipped)
          = {r \in reqs : status[r] \notin {"RUNNING", "FINISHED"}}
    /\ Elems(running) = {r \in reqs : status[r] = "RUNNING"}
    /\ Len(running) <= MaxRunningReqs

\* The waiting loop sets requests aside and admits them; nothing of that is
\* left outside it.
OnlyInPass ==
    pc \notin {"waiting", "finish"} => stepSkipped = <<>> /\ admitted = {}

\* What the scheduler does not know is new or finished, and owns no block.
Known ==
    /\ \A r \in reqs : status[r] # "NEW"
    /\ \A r \in Req \ reqs : status[r] \in {"NEW", "FINISHED"} /\ held[r] = {}

QueueInv == QueueSets /\ OnlyInPass /\ Known

\* The promise follows from the invariant.
LEMMA QueuesPromise ==
    ASSUME PassInv, QueueInv
    PROVE  QueuesMatchStatus
<1> USE DEF QueueInv, QueueSets, PassInv, TypeOK
<1>1. /\ waiting \in Seq(Req) /\ skipped \in Seq(Req) /\ stepSkipped \in Seq(Req)
      /\ running \in Seq(Req) /\ NoDuplicates(running)
  BY DEF QueueTypes, PassTypes, RunningQueue
<1> DEFINE ws  == waiting \o skipped
           wss == ws \o stepSkipped
           all == wss \o running
<1>2. /\ ws \in Seq(Req) /\ Elems(ws) = Elems(waiting) \cup Elems(skipped) /\ NoDuplicates(ws)
  BY <1>1, ConcatFacts
<1> HIDE DEF ws
<1>3. /\ wss \in Seq(Req) /\ Elems(wss) = Elems(ws) \cup Elems(stepSkipped) /\ NoDuplicates(wss)
  BY <1>1, <1>2, ConcatFacts
<1> HIDE DEF wss
<1>4. Elems(wss) \cap Elems(running) = {}
  BY <1>2, <1>3
<1>5. Elems(all) = Elems(wss) \cup Elems(running) /\ NoDuplicates(all)
  BY <1>1, <1>3, <1>4, ConcatFacts
<1> HIDE DEF all
<1>6. Elems(all) = Unfinished
  BY <1>2, <1>3, <1>5 DEF Unfinished, IsFinished
<1>7. \A r \in Unfinished : (r \in Elems(running)) <=> (status[r] = "RUNNING")
  BY DEF Unfinished
<1>8. \A r \in Req : held[r] # {} => r \in reqs
  BY DEF Known
<1>9. all = waiting \o skipped \o stepSkipped \o running
  BY DEF all, wss, ws
<1> QED
  BY <1>5, <1>6, <1>7, <1>8, <1>9 DEF QueuesMatchStatus

\* The scheduler starts with empty queues and knows no request.
LEMMA QueueInit == Init => QueueInv
<1> SUFFICES ASSUME Init PROVE QueueInv
  OBVIOUS
<1>1. Len(running) <= MaxRunningReqs
  BY ConstantsAssumption DEF Init, ConstantsAssumption
<1> QED
  BY <1>1 DEF Init, QueueInv, QueueSets, OnlyInPass, Known, NoDuplicates, Elems

\* Steps of a loop that leave the queues and the requests alone.
LEMMA QueuesKept ==
    ASSUME QueueInv, UNCHANGED <<queueVars, stepSkipped>>
    PROVE  QueueSets'
  BY DEF QueueInv, QueueSets, queueVars, NoDuplicates, Elems

\* A candidate of the waiting loop is in one of the two waiting queues.
LEMMA CandidateFacts ==
    ASSUME PassInv, QueueInv, NEW r \in Req, Considers(r)
    PROVE  /\ r \in Elems(waiting) \cup Elems(skipped)
           /\ r \in reqs /\ status[r] \notin {"RUNNING", "FINISHED"}
           /\ r \notin Elems(running) /\ r \notin Elems(stepSkipped)
           /\ pc = "waiting" /\ Len(running) < MaxRunningReqs
<1>1. r \in Elems(waiting) \cup Elems(skipped)
  <2>1. IsCandidate(r) /\ (waiting # <<>> \/ skipped # <<>>)
    BY DEF Considers, InWaitingLoop
  <2>2. /\ skipped # <<>> => 1 \in DOMAIN skipped
        /\ waiting # <<>> => 1 \in DOMAIN waiting
    BY EmptySeq, LenProperties DEF PassInv, TypeOK, QueueTypes
  <2> QED
    BY <2>1, <2>2 DEF IsCandidate, Elems
<1> QED
  BY <1>1 DEF QueueInv, QueueSets, Considers, InWaitingLoop

\* Popping the candidate takes it out of both queues.
LEMMA PopFacts ==
    ASSUME PassInv, QueueInv, NEW r \in Req, Considers(r), Pop(r)
    PROVE  /\ NoDuplicates(waiting') /\ NoDuplicates(skipped')
           /\ Elems(waiting') = Elems(waiting) \ {r} /\ Elems(skipped') = Elems(skipped) \ {r}
  BY WithoutFacts DEF PassInv, TypeOK, QueueTypes, QueueInv, QueueSets, Pop

\* WaitingSkip and WaitingLoadRemote: from a waiting queue to those set aside.
LEMMA QueuesSetAside ==
    ASSUME PassInv, QueueInv, NEW r \in Req, Considers(r), Pop(r),
           stepSkipped' = Append(stepSkipped, r), UNCHANGED <<reqs, running>>,
           \E s \in Statuses \ {"RUNNING", "FINISHED"} : status' = [status EXCEPT ![r] = s]
    PROVE  QueueSets'
<1>1. /\ r \in reqs /\ r \in Elems(waiting) \cup Elems(skipped)
      /\ status[r] \notin {"RUNNING", "FINISHED"}
      /\ r \notin Elems(stepSkipped) /\ r \notin Elems(running)
  BY CandidateFacts
<1>2. /\ NoDuplicates(waiting') /\ NoDuplicates(skipped')
      /\ Elems(waiting') = Elems(waiting) \ {r} /\ Elems(skipped') = Elems(skipped) \ {r}
  BY PopFacts
<1>3. NoDuplicates(stepSkipped') /\ Elems(stepSkipped') = Elems(stepSkipped) \cup {r}
  BY <1>1, AppendFacts DEF PassInv, TypeOK, PassTypes, QueueInv, QueueSets
<1>4. /\ status'[r] \notin {"RUNNING", "FINISHED"}
      /\ \A q \in Req \ {r} : status'[q] = status[q]
  BY DEF PassInv, TypeOK, QueueTypes
<1>5. Elems(running') = Elems(running) /\ reqs \subseteq Req
  BY DEF Elems, PassInv, TypeOK, QueueTypes
<1>6. {q \in reqs' : status'[q] = "RUNNING"} = {q \in reqs : status[q] = "RUNNING"}
  BY <1>1, <1>4, <1>5
<1>7. {q \in reqs' : status'[q] \notin {"RUNNING", "FINISHED"}}
          = {q \in reqs : status[q] \notin {"RUNNING", "FINISHED"}}
  BY <1>1, <1>4, <1>5
<1> QED
  BY <1>1, <1>2, <1>3, <1>5, <1>6, <1>7 DEF QueueInv, QueueSets

\* WaitingAdmit: from a waiting queue to running.
LEMMA QueuesAdmit ==
    ASSUME PassInv, QueueInv, NEW r \in Req, WaitingAdmit(r)
    PROVE  QueueSets'
<1>1. /\ Considers(r) /\ Pop(r) /\ running' = Append(running, r)
      /\ status' = [status EXCEPT ![r] = "RUNNING"] /\ UNCHANGED <<reqs, stepSkipped>>
  BY DEF WaitingAdmit
<1>2. /\ r \in reqs /\ r \in Elems(waiting) \cup Elems(skipped)
      /\ status[r] \notin {"RUNNING", "FINISHED"}
      /\ r \notin Elems(stepSkipped) /\ r \notin Elems(running) /\ Len(running) < MaxRunningReqs
  BY <1>1, CandidateFacts
<1>3. /\ NoDuplicates(waiting') /\ NoDuplicates(skipped')
      /\ Elems(waiting') = Elems(waiting) \ {r} /\ Elems(skipped') = Elems(skipped) \ {r}
  BY <1>1, PopFacts
<1>4. Elems(running') = Elems(running) \cup {r}
  BY <1>1, AppendFacts DEF PassInv, TypeOK, QueueTypes
<1>5. Len(running') <= MaxRunningReqs
  <2>1. Len(running') = Len(running) + 1 /\ Len(running) \in Nat
    BY <1>1, AppendProperties, LenProperties DEF PassInv, TypeOK, QueueTypes
  <2>2. MaxRunningReqs \in Nat
    BY ConstantsAssumption DEF ConstantsAssumption
  <2> QED
    BY <1>2, <2>1, <2>2
<1>6. status'[r] = "RUNNING" /\ \A q \in Req \ {r} : status'[q] = status[q]
  BY <1>1 DEF PassInv, TypeOK, QueueTypes
<1>7. reqs \subseteq Req /\ Elems(stepSkipped') = Elems(stepSkipped)
  BY <1>1 DEF Elems, PassInv, TypeOK, QueueTypes
<1>8. {q \in reqs' : status'[q] = "RUNNING"} = {q \in reqs : status[q] = "RUNNING"} \cup {r}
  BY <1>1, <1>2, <1>6, <1>7
<1>9. {q \in reqs' : status'[q] \notin {"RUNNING", "FINISHED"}}
          = {q \in reqs : status[q] \notin {"RUNNING", "FINISHED"}} \ {r}
  BY <1>1, <1>2, <1>6, <1>7
<1> QED
  BY <1>1, <1>2, <1>3, <1>4, <1>5, <1>7, <1>8, <1>9 DEF QueueInv, QueueSets

\* A preempted request goes from running to the head of waiting.
LEMMA QueuesPreempt ==
    ASSUME PassInv, QueueInv, NEW v \in Req, v \in Elems(running), NEW drop, Preempt(v, drop),
           stepSkipped' = stepSkipped
    PROVE  QueueSets'
<1>1. /\ waiting' = <<v>> \o waiting /\ running' = Without(running, v)
      /\ status' = [status EXCEPT ![v] = "PREEMPTED"] /\ UNCHANGED <<reqs, skipped>>
  BY DEF Preempt
<1>2. /\ v \in reqs /\ status[v] = "RUNNING"
      /\ v \notin Elems(waiting) /\ v \notin Elems(skipped) /\ v \notin Elems(stepSkipped)
  BY DEF QueueInv, QueueSets
<1>3. <<v>> \in Seq(Req) /\ Elems(<<v>>) = {v} /\ NoDuplicates(<<v>>)
  BY DEF Elems, NoDuplicates
<1>4. NoDuplicates(waiting') /\ Elems(waiting') = Elems(waiting) \cup {v}
  <2>1. waiting \in Seq(Req) /\ NoDuplicates(waiting) /\ Elems(<<v>>) \cap Elems(waiting) = {}
    BY <1>2, <1>3 DEF PassInv, TypeOK, QueueTypes, QueueInv, QueueSets
  <2>2. NoDuplicates(<<v>> \o waiting) /\ Elems(<<v>> \o waiting) = {v} \cup Elems(waiting)
    BY <1>3, <2>1, ConcatFacts
  <2> QED
    BY <1>1, <2>2
<1>5. Elems(running') = Elems(running) \ {v}
  BY <1>1, WithoutFacts DEF PassInv, TypeOK, QueueTypes, RunningQueue
<1>6. Len(running') <= MaxRunningReqs
  <2>1. Len(running') <= Len(running) /\ Len(running') \in Nat /\ Len(running) \in Nat
    BY <1>1, WithoutLength, LenProperties DEF PassInv, TypeOK, QueueTypes
  <2>2. MaxRunningReqs \in Nat /\ Len(running) <= MaxRunningReqs
    BY ConstantsAssumption DEF ConstantsAssumption, QueueInv, QueueSets
  <2> QED
    BY <2>1, <2>2
<1>7. status'[v] = "PREEMPTED" /\ \A q \in Req \ {v} : status'[q] = status[q]
  BY <1>1 DEF PassInv, TypeOK, QueueTypes
<1>8. reqs \subseteq Req /\ Elems(skipped') = Elems(skipped)
      /\ Elems(stepSkipped') = Elems(stepSkipped)
  BY <1>1 DEF Elems, PassInv, TypeOK, QueueTypes
<1>9. {q \in reqs' : status'[q] = "RUNNING"} = {q \in reqs : status[q] = "RUNNING"} \ {v}
  BY <1>1, <1>2, <1>7, <1>8
<1>10. {q \in reqs' : status'[q] \notin {"RUNNING", "FINISHED"}}
          = {q \in reqs : status[q] \notin {"RUNNING", "FINISHED"}} \cup {v}
  BY <1>1, <1>2, <1>7, <1>8
<1> QED
  BY <1>1, <1>2, <1>4, <1>5, <1>6, <1>8, <1>9, <1>10 DEF QueueInv, QueueSets

\* A finished request leaves the queue it is in, and may leave the scheduler.
LEMMA QueuesDequeue ==
    ASSUME PassInv, QueueInv, NEW r \in Req, Dequeue(r), stepSkipped' = stepSkipped,
           r \notin Elems(stepSkipped), reqs' = reqs \/ reqs' = reqs \ {r}
    PROVE  QueueSets'
<1>1. /\ NoDuplicates(waiting') /\ NoDuplicates(skipped')
      /\ Elems(waiting') = Elems(waiting) \ {r} /\ Elems(skipped') = Elems(skipped) \ {r}
      /\ Elems(running') = Elems(running) \ {r}
  BY WithoutFacts DEF Dequeue, PassInv, TypeOK, QueueTypes, RunningQueue, QueueInv, QueueSets
<1>2. Len(running') <= MaxRunningReqs
  <2>1. Len(running') <= Len(running) /\ Len(running') \in Nat /\ Len(running) \in Nat
    BY WithoutLength, LenProperties DEF Dequeue, PassInv, TypeOK, QueueTypes
  <2>2. MaxRunningReqs \in Nat /\ Len(running) <= MaxRunningReqs
    BY ConstantsAssumption DEF ConstantsAssumption, QueueInv, QueueSets
  <2> QED
    BY <2>1, <2>2
<1>3. status'[r] = "FINISHED" /\ \A q \in Req \ {r} : status'[q] = status[q]
  BY DequeueFacts
<1>4. reqs \subseteq Req /\ Elems(stepSkipped') = Elems(stepSkipped)
  BY DEF Elems, PassInv, TypeOK, QueueTypes
<1>5. {q \in reqs' : status'[q] = "RUNNING"} = {q \in reqs : status[q] = "RUNNING"} \ {r}
  BY <1>3, <1>4
<1>6. {q \in reqs' : status'[q] \notin {"RUNNING", "FINISHED"}}
          = {q \in reqs : status[q] \notin {"RUNNING", "FINISHED"}} \ {r}
  BY <1>3, <1>4
<1> QED
  BY <1>1, <1>2, <1>4, <1>5, <1>6 DEF QueueInv, QueueSets

\* ScheduleFinish: what the pass set aside goes before skipped_waiting.
LEMMA QueuesRequeued ==
    ASSUME PassInv, QueueInv, ScheduleFinish
    PROVE  QueueSets'
<1>1. /\ skipped' = stepSkipped \o skipped /\ stepSkipped' = <<>>
      /\ UNCHANGED <<reqs, status, waiting, running>>
  BY DEF ScheduleFinish, RequeueSkipped
<1>2. /\ stepSkipped \in Seq(Req) /\ skipped \in Seq(Req)
      /\ NoDuplicates(stepSkipped) /\ NoDuplicates(skipped)
      /\ Elems(stepSkipped) \cap Elems(skipped) = {}
  BY DEF PassInv, TypeOK, QueueTypes, PassTypes, QueueInv, QueueSets
<1>3. NoDuplicates(skipped') /\ Elems(skipped') = Elems(stepSkipped) \cup Elems(skipped)
  BY <1>1, <1>2, ConcatFacts
<1>4. NoDuplicates(stepSkipped') /\ Elems(stepSkipped') = {}
  BY <1>1 DEF NoDuplicates, Elems
<1>5. /\ NoDuplicates(waiting') /\ Elems(waiting') = Elems(waiting)
      /\ Elems(running') = Elems(running) /\ Len(running') = Len(running)
  BY <1>1 DEF QueueInv, QueueSets
<1> QED
  BY <1>1, <1>3, <1>4, <1>5 DEF QueueInv, QueueSets

\* AddRequest: a new request joins waiting.
LEMMA QueuesAdd ==
    ASSUME PassInv, QueueInv, NEW r \in Req, AddRequest(r)
    PROVE  QueueSets'
<1>1. /\ status[r] = "NEW" /\ reqs' = reqs \cup {r}
      /\ status' = [status EXCEPT ![r] = "WAITING"] /\ waiting' = Append(waiting, r)
      /\ UNCHANGED <<skipped, running, stepSkipped>>
  BY DEF AddRequest, passVars
<1>2. r \notin reqs
  BY <1>1 DEF QueueInv, Known
<1>3. /\ r \notin Elems(waiting) /\ r \notin Elems(skipped) /\ r \notin Elems(stepSkipped)
      /\ r \notin Elems(running)
  BY <1>2 DEF QueueInv, QueueSets
<1>4. NoDuplicates(waiting') /\ Elems(waiting') = Elems(waiting) \cup {r}
  BY <1>1, <1>3, AppendFacts DEF PassInv, TypeOK, QueueTypes, QueueInv, QueueSets
<1>5. status'[r] = "WAITING" /\ \A q \in Req \ {r} : status'[q] = status[q]
  BY <1>1 DEF PassInv, TypeOK, QueueTypes
<1>6. reqs \subseteq Req
  BY DEF PassInv, TypeOK, QueueTypes
<1>7. {q \in reqs' : status'[q] = "RUNNING"} = {q \in reqs : status[q] = "RUNNING"}
  BY <1>1, <1>2, <1>5, <1>6
<1>8. {q \in reqs' : status'[q] \notin {"RUNNING", "FINISHED"}}
          = {q \in reqs : status[q] \notin {"RUNNING", "FINISHED"}} \cup {r}
  BY <1>1, <1>2, <1>5, <1>6
<1>9. /\ Elems(skipped') = Elems(skipped) /\ Elems(stepSkipped') = Elems(stepSkipped)
      /\ Elems(running') = Elems(running) /\ Len(running') = Len(running)
      /\ NoDuplicates(skipped') /\ NoDuplicates(stepSkipped')
  BY <1>1 DEF QueueInv, QueueSets
<1> QED
  BY <1>3, <1>4, <1>7, <1>8, <1>9 DEF QueueInv, QueueSets

\* A request may change from one waiting status to another, and a finished one
\* may leave the scheduler, without a change of the queues.
LEMMA QueuesRelabelled ==
    ASSUME PassInv, QueueInv, NEW r \in Req, UNCHANGED <<waiting, skipped, running, stepSkipped>>,
           \/ /\ reqs' = reqs /\ status[r] \notin {"RUNNING", "FINISHED"}
              /\ \E s \in Statuses \ {"RUNNING", "FINISHED"} : status' = [status EXCEPT ![r] = s]
           \/ status' = status /\ status[r] = "FINISHED" /\ reqs' = reqs \ {r}
    PROVE  QueueSets'
<1>1. reqs \subseteq Req /\ \A q \in Req \ {r} : status'[q] = status[q]
  BY DEF PassInv, TypeOK, QueueTypes
<1>2. \/ reqs' = reqs /\ {status[r], status'[r]} \cap {"RUNNING", "FINISHED"} = {}
      \/ reqs' = reqs \ {r} /\ status[r] = "FINISHED" /\ status'[r] = "FINISHED"
  BY DEF PassInv, TypeOK, QueueTypes
<1>3. {q \in reqs' : status'[q] = "RUNNING"} = {q \in reqs : status[q] = "RUNNING"}
  BY <1>1, <1>2
<1>4. {q \in reqs' : status'[q] \notin {"RUNNING", "FINISHED"}}
          = {q \in reqs : status[q] \notin {"RUNNING", "FINISHED"}}
  BY <1>1, <1>2
<1>5. /\ Elems(waiting') = Elems(waiting) /\ Elems(skipped') = Elems(skipped)
      /\ Elems(stepSkipped') = Elems(stepSkipped) /\ Elems(running') = Elems(running)
      /\ NoDuplicates(waiting') /\ NoDuplicates(skipped') /\ NoDuplicates(stepSkipped')
      /\ Len(running') <= MaxRunningReqs
  BY DEF QueueInv, QueueSets
<1> QED
  BY <1>3, <1>4, <1>5 DEF QueueInv, QueueSets

\* A request that gains blocks is known, and one that leaves has none.
LEMMA HeldByKnown ==
    ASSUME PassInv, QueueInv, NEW r \in Req,
           \/ (\E n : Allocate(r, n)) /\ r \in reqs /\ reqs' = reqs
           \/ FreeRequestBlocks(r) /\ (reqs' = reqs \/ reqs' = reqs \ {r})
           \/ UNCHANGED held /\ reqs \subseteq reqs'
    PROVE  \A q \in Req \ reqs' : held'[q] = {}
<1>1. held \in [Req -> SUBSET Blocks] /\ \A q \in Req \ reqs : held[q] = {}
  BY DEF PassInv, TypeOK, BlockTypes, QueueInv, Known
<1>2. CASE (\E n : Allocate(r, n)) /\ r \in reqs /\ reqs' = reqs
  BY <1>1, <1>2 DEF Allocate
<1>3. CASE FreeRequestBlocks(r) /\ (reqs' = reqs \/ reqs' = reqs \ {r})
  BY <1>1, <1>3 DEF FreeRequestBlocks, Release
<1>4. CASE UNCHANGED held /\ reqs \subseteq reqs'
  BY <1>1, <1>4
<1> QED
  BY <1>2, <1>3, <1>4

\* Known is kept when a status changes only of a known request and never back
\* to NEW, and only finished requests leave.
LEMMA KnownKept ==
    ASSUME QueueInv,
           \A q \in Req \ reqs' : held'[q] = {},
           \A q \in Req : status'[q] # status[q] =>
                            status'[q] # "NEW" /\ (q \in reqs' \/ status'[q] = "FINISHED"),
           \A q \in reqs' : q \in reqs \/ status'[q] # "NEW",
           \A q \in reqs \ reqs' : status'[q] = "FINISHED", reqs' \subseteq Req
    PROVE  Known'
  BY DEF QueueInv, Known

\* The request a pass preempts, or a reset takes, is running.
LEMMA VictimRuns ==
    ASSUME PassInv, NEW v, running # <<>>,
           v = running[Len(running)] \/ IsVictim(v)
    PROVE  v \in Elems(running) /\ v \in Req
<1>1. running \in Seq(Req) /\ Len(running) \in DOMAIN running
  BY EmptySeq, LenProperties DEF PassInv, TypeOK, QueueTypes
<1>2. v \in Elems(running)
  BY <1>1 DEF IsVictim, Elems
<1> QED
  BY <1>1, <1>2 DEF Elems

\* Every action keeps the queues in step with the statuses.
LEMMA QueueStep == PassInv /\ LoadInv /\ QueueInv /\ [Next]_vars => QueueInv'
<1> SUFFICES ASSUME PassInv, LoadInv, QueueInv, Next \/ UNCHANGED vars PROVE QueueInv'
  OBVIOUS
<1>0. reqs \subseteq Req /\ status \in [Req -> Statuses] /\ OnlyInPass
  BY DEF PassInv, TypeOK, QueueTypes, QueueInv
<1> USE DEF queueVars, blockVars
<1>1. ASSUME UNCHANGED <<queueVars, held>>, stepSkipped' = stepSkipped,
             admitted' = admitted \/ admitted' = {}, pc = pc' \/ pc' \in {"waiting", "finish"}
                                  \/ pc \notin {"waiting", "finish"}
      PROVE  QueueInv'
  <2>1. QueueSets'
    BY <1>1, QueuesKept
  <2>2. Known'
    BY <1>1 DEF QueueInv, Known
  <2> QED
    BY <1>0, <1>1, <2>1, <2>2 DEF QueueInv, OnlyInPass
<1>2. ASSUME NEW v, v \in Elems(running), v \in Req, NEW drop, Preempt(v, drop),
             UNCHANGED <<admitted, stepSkipped>>, pc' = pc \/ pc' = "waiting"
      PROVE  QueueInv'
  <2>1. QueueSets'
    BY <1>2, QueuesPreempt
  <2>2. /\ FreeRequestBlocks(v) /\ reqs' = reqs /\ status' = [status EXCEPT ![v] = "PREEMPTED"]
        /\ v \in reqs
    BY <1>2 DEF Preempt, QueueInv, QueueSets
  <2>3. \A q \in Req \ reqs' : held'[q] = {}
    BY <1>2, <2>2, HeldByKnown
  <2>4. Known'
    BY <1>0, <2>2, <2>3, KnownKept DEF QueueInv, Known
  <2> QED
    BY <1>0, <1>2, <2>1, <2>4 DEF QueueInv, OnlyInPass
<1>3. ASSUME NEW r \in Req, Dequeue(r), UNCHANGED <<admitted, stepSkipped, pc>>,
             pc \notin {"waiting", "finish"},
             \/ FreeRequestBlocks(r) /\ reqs' = reqs \ {r}
             \/ UNCHANGED <<held, reqs>>
      PROVE  QueueInv'
  <2>1. r \notin Elems(stepSkipped)
    BY <1>0, <1>3 DEF OnlyInPass, Elems
  <2>2. QueueSets'
    BY <1>3, <2>1, QueuesDequeue
  <2>3. \A q \in Req \ reqs' : held'[q] = {}
    BY <1>3, HeldByKnown
  <2>4. status'[r] = "FINISHED" /\ \A q \in Req \ {r} : status'[q] = status[q]
    BY <1>3, DequeueFacts
  <2>5. Known'
    BY <1>0, <1>3, <2>3, <2>4, KnownKept DEF QueueInv, Known
  <2> QED
    BY <1>0, <1>3, <2>2, <2>5 DEF QueueInv, OnlyInPass
<1>4. CASE ScheduleStart
  <2>1. stepSkipped' = stepSkipped /\ admitted' = {} /\ pc = "idle"
    BY <1>0, <1>4 DEF ScheduleStart, OnlyInPass
  <2> QED
    BY <1>1, <1>4, <2>1 DEF ScheduleStart
<1>5. CASE RunningSkip \/ RunningEnd \/ WaitingEnd \/ \E r \in Req : WaitingBlocked(r)
  BY <1>1, <1>5 DEF RunningSkip, RunningEnd, WaitingEnd, WaitingBlocked, InRunningLoop, Considers,
         InWaitingLoop, passVars
<1>6. CASE RunningSchedule
  <2> DEFINE r == running[idx]
  <2>1. r \in Elems(running) /\ r \in Req
    BY <1>6, ElementOfSeq, LenProperties
    DEF RunningSchedule, InRunningLoop, Elems, PassInv, TypeOK, QueueTypes, PassTypes
  <2> HIDE DEF r
  <2>2. r \in reqs
    BY <2>1 DEF QueueInv, QueueSets
  <2>3. (\E n : Allocate(r, n)) /\ UNCHANGED <<queueVars, admitted, stepSkipped, pc>>
    BY <1>6 DEF RunningSchedule, r
  <2>4. QueueSets'
    BY <2>3, QueuesKept
  <2>5. \A q \in Req \ reqs' : held'[q] = {}
    BY <2>1, <2>2, <2>3, HeldByKnown
  <2>6. Known'
    BY <2>3, <2>5 DEF QueueInv, Known
  <2> QED
    BY <1>0, <2>3, <2>4, <2>6 DEF QueueInv, OnlyInPass
<1>7. ASSUME NEW v \in Req, RunningPreempt(v) PROVE QueueInv'
  <2>1. running # <<>>
    BY <1>7 DEF RunningPreempt, InRunningLoop, PassInv, TypeOK, PassTypes
  <2>2. v \in Elems(running)
    BY <1>7, <2>1, VictimRuns DEF RunningPreempt
  <2> QED
    BY <1>2, <1>7, <2>2 DEF RunningPreempt
<1>8. CASE ResetPreempt
  <2>1. running[Len(running)] \in Elems(running) /\ running[Len(running)] \in Req
    BY <1>8, VictimRuns DEF ResetPreempt
  <2> QED
    BY <1>2, <1>8, <2>1 DEF ResetPreempt, passVars
<1>9. ASSUME NEW r \in Req, WaitingSkip(r) PROVE QueueInv'
  <2>1. r \in reqs /\ status[r] \notin {"RUNNING", "FINISHED"} /\ pc = "waiting"
    BY <1>9, CandidateFacts DEF WaitingSkip
  <2>2. status' = [status EXCEPT ![r] = status[r]] /\ status[r] \in Statuses
    BY <1>0, <1>9 DEF WaitingSkip
  <2>3. QueueSets'
    BY <1>9, <2>1, <2>2, QueuesSetAside DEF WaitingSkip
  <2> QED
    BY <1>9, <2>1, <2>3 DEF WaitingSkip, QueueInv, OnlyInPass, Known
<1>10. ASSUME NEW r \in Req, WaitingLoadRemote(r) PROVE QueueInv'
  <2>1. r \in reqs /\ pc = "waiting"
    BY <1>10, CandidateFacts DEF WaitingLoadRemote
  <2>2. /\ status' = [status EXCEPT ![r] = "WAITING_FOR_REMOTE_KVS"] /\ UNCHANGED <<reqs, pc>>
        /\ \E n : Allocate(r, n)
    BY <1>10 DEF WaitingLoadRemote
  <2>3. QueueSets'
    BY <1>10, <2>2, QueuesSetAside DEF WaitingLoadRemote, Statuses
  <2>4. \A q \in Req \ reqs' : held'[q] = {}
    BY <2>1, <2>2, HeldByKnown
  <2>5. Known'
    BY <1>0, <2>1, <2>2, <2>4, KnownKept DEF QueueInv, Known
  <2> QED
    BY <2>1, <2>2, <2>3, <2>5 DEF QueueInv, OnlyInPass
<1>11. ASSUME NEW r \in Req, WaitingAdmit(r) PROVE QueueInv'
  <2>1. r \in reqs /\ pc = "waiting"
    BY <1>11, CandidateFacts DEF WaitingAdmit
  <2>2. /\ status' = [status EXCEPT ![r] = "RUNNING"] /\ UNCHANGED <<reqs, pc>>
        /\ \E n : Allocate(r, n)
    BY <1>11 DEF WaitingAdmit
  <2>3. \A q \in Req \ reqs' : held'[q] = {}
    BY <2>1, <2>2, HeldByKnown
  <2>4. Known'
    BY <1>0, <2>1, <2>2, <2>3, KnownKept DEF QueueInv, Known
  <2> QED
    BY <1>11, <2>1, <2>2, <2>4, QueuesAdmit DEF QueueInv, OnlyInPass
<1>12. ASSUME NEW r \in Req, WaitingPromote(r) PROVE QueueInv'
  <2>1. r \in reqs /\ pc = "waiting"
    BY <1>12, CandidateFacts DEF WaitingPromote
  <2>2. /\ \E s \in {"PREEMPTED", "WAITING"} : status' = [status EXCEPT ![r] = s]
        /\ UNCHANGED <<reqs, waiting, skipped, running, stepSkipped, held, pc>>
        /\ status[r] = "WAITING_FOR_REMOTE_KVS"
    BY <1>12 DEF WaitingPromote, passVars
  <2>3. QueueSets'
    BY <2>2, QueuesRelabelled DEF Statuses
  <2>4. Known'
    BY <1>0, <2>1, <2>2 DEF QueueInv, Known
  <2> QED
    BY <2>1, <2>2, <2>3, <2>4 DEF QueueInv, OnlyInPass
<1>13. CASE ScheduleFinish
  <2>1. UNCHANGED <<reqs, status, held>> /\ stepSkipped' = <<>> /\ admitted' = {}
    BY <1>13 DEF ScheduleFinish
  <2> QED
    BY <1>13, <2>1, QueuesRequeued DEF QueueInv, OnlyInPass, Known
<1>14. CASE UpdateStart \/ UpdateFinish \/ \E r \in Req : UpdateDiscard(r)
  BY <1>1, <1>14 DEF UpdateStart, UpdateFinish, UpdateDiscard, passVars
<1>15. ASSUME NEW r \in Req, UpdateDeliver(r) PROVE QueueInv'
  <2>1. UNCHANGED <<pc, stepSkipped, admitted>> /\ pc = "update"
    BY <1>15 DEF UpdateDeliver, passVars
  <2>2. \/ Dequeue(r) /\ FreeRequest(r, FALSE)
        \/ UNCHANGED <<queueVars, blockVars>>
    BY <1>15 DEF UpdateDeliver
  <2>3. CASE Dequeue(r) /\ FreeRequest(r, FALSE)
    BY <1>3, <2>1, <2>3 DEF FreeRequest
  <2>4. CASE UNCHANGED <<queueVars, blockVars>>
    BY <1>1, <2>1, <2>4
  <2> QED
    BY <2>2, <2>3, <2>4
<1>16. ASSUME NEW r \in Req, KVXferFinished(r) PROVE QueueInv'
  <2>1. /\ UNCHANGED <<status, waiting, skipped, running, pc, stepSkipped, admitted>>
        /\ r \in loading
    BY <1>16 DEF KVXferFinished, passVars
  <2>2. CASE UNCHANGED <<reqs, blockVars>>
    BY <1>1, <2>1, <2>2
  <2>3. CASE /\ status[r] # "WAITING_FOR_REMOTE_KVS" /\ reqs' = reqs \ {r} /\ FreeRequestBlocks(r)
    <3>1. status[r] = "FINISHED"
      BY <2>1, <2>3 DEF LoadInv, LoadStates, AwaitsLoad
    <3>2. QueueSets'
      BY <2>1, <2>3, <3>1, QueuesRelabelled
    <3>3. \A q \in Req \ reqs' : held'[q] = {}
      BY <2>3, HeldByKnown
    <3>4. Known'
      BY <1>0, <2>1, <2>3, <3>1, <3>3, KnownKept DEF QueueInv, Known
    <3> QED
      BY <1>0, <2>1, <3>2, <3>4 DEF QueueInv, OnlyInPass
  <2> QED
    BY <1>16, <2>2, <2>3 DEF KVXferFinished
<1>17. ASSUME NEW r \in Req, AddRequest(r) PROVE QueueInv'
  <2>1. /\ reqs' = reqs \cup {r} /\ status' = [status EXCEPT ![r] = "WAITING"]
        /\ UNCHANGED <<held, pc, stepSkipped, admitted>>
    BY <1>17 DEF AddRequest, passVars
  <2>2. \A q \in Req \ reqs' : held'[q] = {}
    BY <2>1, HeldByKnown
  <2>3. Known'
    BY <1>0, <2>1, <2>2, KnownKept DEF QueueInv, Known
  <2> QED
    BY <1>0, <1>17, <2>1, <2>3, QueuesAdd DEF QueueInv, OnlyInPass
<1>18. ASSUME NEW r \in Req, AbortRequest(r) PROVE QueueInv'
  <2>1. /\ Dequeue(r) /\ UNCHANGED <<pc, stepSkipped, admitted>> /\ pc = "idle"
        /\ \/ FreeRequestBlocks(r) /\ reqs' = reqs \ {r}
           \/ UNCHANGED <<held, reqs>>
    BY <1>18 DEF AbortRequest, FreeRequest, passVars
  <2> QED
    BY <1>3, <2>1
<1>19. CASE ResetStart \/ ResetEnd \/ Quiescent \/ UNCHANGED vars
  BY <1>1, <1>19 DEF ResetStart, ResetEnd, Quiescent, vars, passVars
<1> QED
  BY <1>4, <1>5, <1>6, <1>7, <1>8, <1>9, <1>10, <1>11, <1>12, <1>13, <1>14, <1>15, <1>16, <1>17,
     <1>18, <1>19 DEF Next, ScheduleStep, UpdateStep

\* The queues hold the requests of their statuses in every reachable state.
THEOREM QueueInvariant == Spec => []QueueInv
<1>1. PassInv /\ LoadInv /\ QueueInv /\ [Next]_vars => QueueInv'
  BY QueueStep
<1> QED
  BY <1>1, QueueInit, PassInvariant, LoadInvariant, PTL DEF Spec

\* A request the scheduler knows and has not finished is in one queue, once,
\* the queue fits its status, and no block belongs to a request the scheduler
\* forgot, through every preemption, load, reset and abort.
THEOREM QueuesFitStatus == Spec => []QueuesMatchStatus
<1>1. PassInv /\ QueueInv => QueuesMatchStatus
  BY QueuesPromise
<1> QED
  BY <1>1, PassInvariant, QueueInvariant, PTL

-----------------------------------------------------------------------------
(* The worker has a row for each request that runs.                        *)

\* A row belongs to a request that runs, or that the worker is about to be
\* told is finished or preempted.  A request that runs has its row, unless this
\* pass admitted it: then it is given tokens, and the row with them, even when
\* it was preempted since the last output.
RowInv ==
    /\ slots \subseteq Elems(running) \cup finishedIds \cup preemptedIds
    /\ Elems(running) \subseteq slots \cup admitted
    /\ Elems(running) \cap preemptedIds \subseteq admitted
    /\ admitted \subseteq Elems(running) \cap Scheduled
    /\ \A r \in finishedIds : status[r] = "FINISHED"
    /\ Cardinality(slots) <= MaxRunningReqs

\* The worker starts without rows.
LEMMA RowInit == Init => RowInv
<1> SUFFICES ASSUME Init PROVE RowInv
  OBVIOUS
<1>1. Cardinality(slots) <= MaxRunningReqs
  BY FS_EmptySet, ConstantsAssumption DEF Init, ConstantsAssumption
<1> QED
  BY <1>1 DEF Init, RowInv, Elems

\* ScheduleFinish: the rows become those of the running requests.
LEMMA RowsAtFinish ==
    ASSUME PassInv, QueueInv, RowInv, ScheduleFinish
    PROVE  RowInv'
<1>1. /\ slots' = (slots \ (finishedIds \cup preemptedIds)) \cup (admitted \cap Scheduled)
      /\ UNCHANGED <<status, running>> /\ finishedIds' = {} /\ preemptedIds' = {}
      /\ admitted' = {}
  BY DEF ScheduleFinish, RowsAfter
<1>2. \A r \in Elems(running) : status[r] = "RUNNING"
  BY DEF PassInv, RunningQueue
<1>3. slots' = Elems(running)
  BY <1>1, <1>2 DEF RowInv
<1>4. Elems(running') = Elems(running)
  BY <1>1
<1>5. Cardinality(slots') <= MaxRunningReqs
  <2>1. running \in Seq(Req) /\ Len(running) <= MaxRunningReqs /\ Len(running) \in Nat
    BY LenProperties DEF PassInv, TypeOK, QueueTypes, QueueInv, QueueSets
  <2>2. Cardinality(Elems(running)) <= Len(running) /\ Cardinality(Elems(running)) \in Nat
    BY <2>1, ElemsBounded
  <2>3. MaxRunningReqs \in Nat
    BY ConstantsAssumption DEF ConstantsAssumption
  <2> QED
    BY <1>3, <2>1, <2>2, <2>3
<1> QED
  BY <1>1, <1>3, <1>4, <1>5 DEF RowInv

\* Every action keeps the rows in step with the running queue.
LEMMA RowStep == PassInv /\ QueueInv /\ RowInv /\ [Next]_vars => RowInv'
<1> SUFFICES ASSUME PassInv, QueueInv, RowInv, Next \/ UNCHANGED vars PROVE RowInv'
  OBVIOUS
<1>0. /\ status \in [Req -> Statuses] /\ sched \in [Req -> Nat]
      /\ pc \notin {"waiting", "finish"} => admitted = {}
      /\ \A r \in finishedIds : status[r] = "FINISHED"
  BY DEF PassInv, TypeOK, QueueTypes, PassTypes, QueueInv, OnlyInPass, RowInv
<1> USE DEF queueVars, setVars, workerVars, passVars
<1>1. ASSUME UNCHANGED <<running, slots, finishedIds, preemptedIds>>,
             admitted' = admitted \/ (admitted = {} /\ admitted' = {}),
             admitted = {} \/ sched' = sched,
             \A r \in Req : status[r] = "FINISHED" => status'[r] = "FINISHED",
             finishedIds \subseteq Req
      PROVE  RowInv'
  BY <1>1 DEF RowInv, Scheduled
<1>2. finishedIds \subseteq Req
  BY DEF PassInv, TypeOK, SetTypes
<1>3. ASSUME NEW v, v \in Elems(running), v \in Req, NEW drop, Preempt(v, drop), admitted' = {},
             admitted = {}
      PROVE  RowInv'
  <2>1. /\ running' = Without(running, v) /\ status' = [status EXCEPT ![v] = "PREEMPTED"]
        /\ preemptedIds' = preemptedIds \cup {v} /\ UNCHANGED <<finishedIds, slots>>
    BY <1>3 DEF Preempt
  <2>2. Elems(running') = Elems(running) \ {v} /\ status[v] = "RUNNING"
    BY <1>3, <2>1, WithoutFacts DEF PassInv, TypeOK, QueueTypes, RunningQueue
  <2> QED
    BY <1>0, <1>3, <2>1, <2>2 DEF RowInv
<1>4. ASSUME NEW r \in Req, Dequeue(r), admitted' = {}, admitted = {},
             finishedIds' = finishedIds \cup {r}, UNCHANGED <<preemptedIds, slots>>
      PROVE  RowInv'
  <2>1. Elems(running') = Elems(running) \ {r}
    BY <1>4, WithoutFacts DEF Dequeue, PassInv, TypeOK, QueueTypes, RunningQueue
  <2>2. status'[r] = "FINISHED" /\ \A q \in Req \ {r} : status'[q] = status[q]
    BY <1>4, DequeueFacts
  <2> QED
    BY <1>0, <1>2, <1>4, <2>1, <2>2 DEF RowInv
<1>5. ASSUME NEW r \in Req, status[r] # "FINISHED",
             \E s \in Statuses : status' = [status EXCEPT ![r] = s],
             UNCHANGED <<running, slots, finishedIds, preemptedIds, admitted, sched>>
      PROVE  RowInv'
  BY <1>0, <1>1, <1>2, <1>5
<1>6. CASE ScheduleStart \/ RunningSchedule
  BY <1>0, <1>1, <1>2, <1>6 DEF ScheduleStart, RunningSchedule, InRunningLoop
<1>7. CASE RunningSkip \/ RunningEnd \/ WaitingEnd \/ ResetStart \/ ResetEnd \/ Quiescent
           \/ UNCHANGED vars
  BY <1>1, <1>2, <1>7 DEF RunningSkip, RunningEnd, WaitingEnd, ResetStart, ResetEnd, Quiescent, vars
<1>8. ASSUME NEW v \in Req, RunningPreempt(v) PROVE RowInv'
  <2>1. running # <<>> /\ pc = "running"
    BY <1>8 DEF RunningPreempt, InRunningLoop, PassInv, TypeOK, PassTypes
  <2>2. v \in Elems(running)
    BY <1>8, <2>1, VictimRuns DEF RunningPreempt
  <2> QED
    BY <1>0, <1>3, <1>8, <2>1, <2>2 DEF RunningPreempt
<1>9. CASE ResetPreempt
  <2>1. running[Len(running)] \in Elems(running) /\ running[Len(running)] \in Req
    BY <1>9, VictimRuns DEF ResetPreempt
  <2> QED
    BY <1>0, <1>3, <1>9, <2>1 DEF ResetPreempt
<1>10. ASSUME NEW r \in Req, WaitingSkip(r) \/ WaitingBlocked(r) PROVE RowInv'
  BY <1>1, <1>2, <1>10 DEF WaitingSkip, WaitingBlocked
<1>11. ASSUME NEW r \in Req, WaitingLoadRemote(r) \/ WaitingPromote(r) PROVE RowInv'
  BY <1>5, <1>11 DEF WaitingLoadRemote, WaitingPromote, Schedulable, Statuses
<1>12. ASSUME NEW r \in Req, WaitingAdmit(r) PROVE RowInv'
  <2>1. /\ running' = Append(running, r) /\ status' = [status EXCEPT ![r] = "RUNNING"]
        /\ admitted' = admitted \cup {r} /\ sched' = [sched EXCEPT ![r] = AdmitTokens(r)]
        /\ UNCHANGED <<finishedIds, preemptedIds, slots>>
        /\ status[r] \in {"WAITING", "PREEMPTED"} /\ budget > 0
    BY <1>12 DEF WaitingAdmit, Schedulable, Considers, InWaitingLoop
  <2>2. Elems(running') = Elems(running) \cup {r}
    BY <2>1, AppendFacts DEF PassInv, TypeOK, QueueTypes
  <2>3. AdmitTokens(r) \in 1 .. budget
    BY <2>1, AdmitTokensType DEF PassInv, TokensLeft
  <2>4. budget \in Nat
    BY DEF PassInv, TypeOK, PassTypes
  <2>5. sched'[r] > 0 /\ \A q \in Req \ {r} : sched'[q] = sched[q]
    BY <1>0, <2>1, <2>3, <2>4
  <2>6. admitted' \subseteq Elems(running') \cap Scheduled'
    BY <2>1, <2>2, <2>5 DEF RowInv, Scheduled
  <2>7. \A q \in finishedIds' : status'[q] = "FINISHED"
    BY <1>0, <1>2, <2>1
  <2> QED
    BY <2>1, <2>2, <2>6, <2>7 DEF RowInv
<1>13. CASE UpdateStart \/ UpdateFinish \/ \E r \in Req : UpdateDiscard(r)
  BY <1>1, <1>2, <1>13 DEF UpdateStart, UpdateFinish, UpdateDiscard
<1>14. ASSUME NEW r \in Req, UpdateDeliver(r) PROVE RowInv'
  <2>1. UNCHANGED <<passVars, preemptedIds, slots>> /\ pc = "update"
    BY <1>14 DEF UpdateDeliver
  <2>2. (Dequeue(r) /\ FreeRequest(r, FALSE)) \/ UNCHANGED <<queueVars, finishedIds>>
    BY <1>14 DEF UpdateDeliver
  <2> QED
    BY <1>0, <1>1, <1>2, <1>4, <2>1, <2>2 DEF FreeRequest
<1>15. ASSUME NEW r \in Req, KVXferFinished(r) PROVE RowInv'
  BY <1>1, <1>2, <1>15 DEF KVXferFinished
<1>16. ASSUME NEW r \in Req, AddRequest(r) PROVE RowInv'
  BY <1>5, <1>16 DEF AddRequest, Statuses
<1>17. ASSUME NEW r \in Req, AbortRequest(r) PROVE RowInv'
  BY <1>0, <1>4, <1>17 DEF AbortRequest, FreeRequest
<1> QED
  BY <1>6, <1>7, <1>8, <1>9, <1>10, <1>11, <1>12, <1>13, <1>14, <1>15, <1>16, <1>17, RowsAtFinish
  DEF Next, ScheduleStep, UpdateStep

\* The rows follow the running queue in every reachable state.
THEOREM RowInvariant == Spec => []RowInv
<1>1. PassInv /\ QueueInv /\ RowInv /\ [Next]_vars => RowInv'
  BY RowStep
<1> QED
  BY <1>1, RowInit, PassInvariant, QueueInvariant, PTL DEF Spec

\* The worker has a row for every request it is given and never more than
\* max_num_seqs of them, though it is told of finished, preempted and admitted
\* requests only with the next output.
THEOREM RowsFollowQueue == Spec => []WorkerRows
<1>1. QueueInv /\ RowInv => WorkerRows
  BY DEF QueueInv, OnlyInPass, RowInv, WorkerRows
<1> QED
  BY <1>1, QueueInvariant, RowInvariant, PTL
-----------------------------------------------------------------------------
(* Sums: SumOver counts the pairs (x, k) with 1 <= k <= f[x].              *)

Pairs(f, S) == UNION {{x} \X (1 .. f[x]) : x \in S}

\* There are finitely many pairs over a finite set, so the sum is a number.
LEMMA SumType ==
    ASSUME NEW S, IsFiniteSet(S), NEW f, \A x \in S : f[x] \in Nat
    PROVE  IsFiniteSet(Pairs(f, S)) /\ SumOver(f, S) \in Nat /\ SumOver(f, S) = Cardinality(Pairs(f, S))
<1> DEFINE column == [x \in S |-> {x} \X (1 .. f[x])]
           columns == {{x} \X (1 .. f[x]) : x \in S}
<1>1. ASSUME NEW x \in S PROVE IsFiniteSet({x} \X (1 .. f[x]))
  <2>1. f[x] \in Int /\ 1 \in Int
    OBVIOUS
  <2>2. IsFiniteSet(1 .. f[x])
    BY <2>1, FS_Interval
  <2>3. IsFiniteSet({x})
    BY FS_Singleton
  <2> QED
    BY <2>2, <2>3, FS_Product
<1>2. column \in Surjection(S, columns)
  BY DEF Surjection
<1>3. IsFiniteSet(columns)
  BY <1>2, FS_Surjection
<1>4. \A c \in columns : IsFiniteSet(c)
  BY <1>1
<1> HIDE DEF columns
<1>5. IsFiniteSet(UNION columns)
  BY <1>3, <1>4, FS_UNION
<1> QED
  BY <1>5, FS_CardinalityType DEF Pairs, SumOver, columns

\* Only the values over the set count.
LEMMA SumSame ==
    ASSUME NEW S, NEW f, NEW g, \A x \in S : f[x] = g[x]
    PROVE  SumOver(f, S) = SumOver(g, S)
<1>1. {{x} \X (1 .. f[x]) : x \in S} = {{x} \X (1 .. g[x]) : x \in S}
  OBVIOUS
<1> QED
  BY <1>1 DEF SumOver

\* Nothing adds up to nothing.
LEMMA SumZero ==
    ASSUME NEW S, NEW f, \A x \in S : f[x] = 0
    PROVE  SumOver(f, S) = 0
<1>1. \A x \in S : {x} \X (1 .. f[x]) = {}
  <2>1. 1 .. 0 = {}
    OBVIOUS
  <2> QED
    BY <2>1
<1>2. UNION {{x} \X (1 .. f[x]) : x \in S} = {}
  BY <1>1
<1> QED
  BY <1>2, FS_EmptySet DEF SumOver

\* The sum over one element is its value.
LEMMA SumSingle ==
    ASSUME NEW x, NEW f, f[x] \in Nat
    PROVE  SumOver(f, {x}) = f[x]
<1> DEFINE n == f[x]
           up == [k \in 1 .. n |-> <<x, k>>]
<1>1. UNION {{y} \X (1 .. f[y]) : y \in {x}} = {x} \X (1 .. n)
  OBVIOUS
<1>2. up \in Bijection(1 .. n, {x} \X (1 .. n))
  <2>1. up \in [1 .. n -> {x} \X (1 .. n)]
    OBVIOUS
  <2>2. \A j, k \in 1 .. n : up[j] = up[k] => j = k
    OBVIOUS
  <2>3. \A p \in {x} \X (1 .. n) : \E k \in 1 .. n : up[k] = p
    OBVIOUS
  <2> HIDE DEF up, n
  <2> QED
    BY <2>1, <2>2, <2>3 DEF Bijection, Injection, Surjection, IsInjective
<1>3. IsFiniteSet(1 .. n) /\ Cardinality(1 .. n) = n
  BY FS_Interval
<1>4. Cardinality({x} \X (1 .. n)) = n
  BY <1>2, <1>3, FS_Bijection DEF ExistsBijection
<1> QED
  BY <1>1, <1>4 DEF SumOver

\* The sum over two disjoint sets is the sum of the sums.
LEMMA SumSplit ==
    ASSUME NEW S, NEW T, IsFiniteSet(S), IsFiniteSet(T), S \cap T = {},
           NEW f, \A x \in S \cup T : f[x] \in Nat
    PROVE  /\ SumOver(f, S \cup T) = SumOver(f, S) + SumOver(f, T)
           /\ SumOver(f, S) \in Nat /\ SumOver(f, T) \in Nat
<1>1. /\ IsFiniteSet(Pairs(f, S)) /\ IsFiniteSet(Pairs(f, T))
      /\ SumOver(f, S) = Cardinality(Pairs(f, S)) /\ SumOver(f, T) = Cardinality(Pairs(f, T))
      /\ SumOver(f, S) \in Nat /\ SumOver(f, T) \in Nat
  BY SumType
<1>2. Pairs(f, S \cup T) = Pairs(f, S) \cup Pairs(f, T)
  BY DEF Pairs
<1>3. Pairs(f, S) \cap Pairs(f, T) = {}
  BY DEF Pairs
<1>4. SumOver(f, S \cup T) = Cardinality(Pairs(f, S) \cup Pairs(f, T))
  BY <1>2 DEF SumOver, Pairs
<1> QED
  BY <1>1, <1>3, <1>4, FS_Union, FS_EmptySet

\* One element more, or one element less.
LEMMA SumElement ==
    ASSUME NEW S, IsFiniteSet(S), NEW x \in S, NEW f, \A y \in S : f[y] \in Nat
    PROVE  SumOver(f, S) = SumOver(f, S \ {x}) + f[x] /\ SumOver(f, S \ {x}) \in Nat
<1>1. IsFiniteSet(S \ {x}) /\ IsFiniteSet({x}) /\ S = (S \ {x}) \cup {x}
  BY FS_Subset, FS_Singleton
<1>2. SumOver(f, (S \ {x}) \cup {x}) = SumOver(f, S \ {x}) + SumOver(f, {x})
      /\ SumOver(f, S \ {x}) \in Nat
  BY <1>1, SumSplit
<1>3. SumOver(f, {x}) = f[x]
  BY SumSingle
<1> QED
  BY <1>1, <1>2, <1>3

\* Changing the value of one element changes the sum by the difference.
LEMMA SumChanged ==
    ASSUME NEW S, IsFiniteSet(S), NEW x \in S, NEW f, NEW g,
           \A y \in S : f[y] \in Nat /\ g[y] \in Nat,
           \A y \in S \ {x} : f[y] = g[y]
    PROVE  SumOver(g, S) = SumOver(f, S) - f[x] + g[x] /\ SumOver(f, S) \in Nat
<1>1. SumOver(f, S) = SumOver(f, S \ {x}) + f[x] /\ SumOver(f, S \ {x}) \in Nat
  BY SumElement
<1>2. SumOver(g, S) = SumOver(g, S \ {x}) + g[x]
  BY SumElement
<1>3. SumOver(f, S \ {x}) = SumOver(g, S \ {x})
  BY SumSame
<1>4. SumOver(f, S) \in Nat
  BY SumType
<1> HIDE DEF SumOver
<1> QED
  BY <1>1, <1>2, <1>3, <1>4

\* A sum over a part is no more than the sum over the whole.
LEMMA SumMonotone ==
    ASSUME NEW S, IsFiniteSet(S), NEW T \in SUBSET S, NEW f, \A x \in S : f[x] \in Nat
    PROVE  SumOver(f, T) <= SumOver(f, S) /\ SumOver(f, T) \in Nat /\ SumOver(f, S) \in Nat
<1>1. IsFiniteSet(T) /\ IsFiniteSet(S \ T) /\ S = T \cup (S \ T)
  BY FS_Subset
<1> DEFINE D == S \ T
<1>2. /\ SumOver(f, T \cup D) = SumOver(f, T) + SumOver(f, D)
      /\ SumOver(f, T) \in Nat /\ SumOver(f, D) \in Nat
  BY <1>1, SumSplit
<1>3. S = T \cup D
  OBVIOUS
<1> HIDE DEF D
<1>4. SumOver(f, S) = SumOver(f, T) + SumOver(f, D)
  BY <1>2, <1>3
<1> QED
  BY <1>2, <1>4

\* No value exceeds the sum.
LEMMA SumPositive ==
    ASSUME NEW S, IsFiniteSet(S), NEW x \in S, NEW f, \A y \in S : f[y] \in Nat
    PROVE  f[x] <= SumOver(f, S) /\ SumOver(f, S) \in Nat
<1>1. /\ SumOver(f, S) = SumOver(f, S \ {x}) + f[x] /\ SumOver(f, S \ {x}) \in Nat
      /\ f[x] \in Nat
  BY SumElement
<1> HIDE DEF SumOver
<1> QED
  BY <1>1

\* Renumbering: when the first step leaves the queue of steps, each value moves
\* down one place.
LEMMA SumShift ==
    ASSUME NEW S \in SUBSET Nat, IsFiniteSet(S), NEW f, NEW g,
           \A i \in S : g[i - 1] = f[i] /\ f[i] \in Nat
    PROVE  SumOver(g, {i - 1 : i \in S}) = SumOver(f, S)
<1> DEFINE T == {i - 1 : i \in S}
           down == [p \in Pairs(f, S) |-> <<p[1] - 1, p[2]>>]
<1>1. \A p : p \in Pairs(f, S) <=> \E i \in S : \E k \in 1 .. f[i] : p = <<i, k>>
  BY DEF Pairs
<1>2. \A p : p \in Pairs(g, T) <=> \E i \in S : \E k \in 1 .. f[i] : p = <<i - 1, k>>
  BY DEF Pairs
<1>3. down \in [Pairs(f, S) -> Pairs(g, T)]
  BY <1>1, <1>2
<1>4. ASSUME NEW p \in Pairs(f, S), NEW q \in Pairs(f, S), down[p] = down[q] PROVE p = q
  BY <1>1, <1>4
<1>5. ASSUME NEW p \in Pairs(g, T) PROVE \E q \in Pairs(f, S) : down[q] = p
  <2>1. PICK i \in S : \E k \in 1 .. f[i] : p = <<i - 1, k>>
    BY <1>2
  <2>2. PICK k \in 1 .. f[i] : p = <<i - 1, k>>
    BY <2>1
  <2>3. <<i, k>> \in Pairs(f, S) /\ down[<<i, k>>] = p
    BY <1>1, <2>2
  <2> QED
    BY <2>3
<1> HIDE DEF down, T
<1>6. down \in Bijection(Pairs(f, S), Pairs(g, T))
  BY <1>3, <1>4, <1>5 DEF Bijection, Injection, Surjection, IsInjective
<1>7. IsFiniteSet(Pairs(f, S)) /\ SumOver(f, S) = Cardinality(Pairs(f, S))
  BY SumType
<1>8. Cardinality(Pairs(g, T)) = Cardinality(Pairs(f, S))
  BY <1>6, <1>7, FS_Bijection DEF ExistsBijection
<1> QED
  BY <1>7, <1>8 DEF SumOver, Pairs, T

-----------------------------------------------------------------------------
(* A pass gives out its budget, no more and no less.                       *)

\* What follows the entry that leaves a queue moves up one place.
LEMMA WithoutIndex ==
    ASSUME NEW q \in Seq(Req), NEW r \in Elems(q)
    PROVE  /\ IndexOf(q, r) \in 1 .. Len(q) /\ Len(q) \in Nat
           /\ DOMAIN Without(q, r) = 1 .. Len(q) - 1
           /\ \A i \in 1 .. Len(q) - 1 :
                 Without(q, r)[i] = IF i < IndexOf(q, r) THEN q[i] ELSE q[i + 1]
<1> DEFINE x == IndexOf(q, r)
           n == Len(q)
           front == SubSeq(q, 1, x - 1)
           back  == SubSeq(q, x + 1, n)
<1>1. x \in 1 .. n /\ n \in Nat
  BY IndexOfType, LenProperties
<1> HIDE DEF x, n
<1>2. /\ front \in Seq(Req) /\ back \in Seq(Req)
      /\ Len(front) = x - 1 /\ Len(back) = n - x
      /\ \A i \in 1 .. x - 1 : front[i] = q[i]
      /\ \A i \in 1 .. n - x : back[i] = q[i + x]
  BY <1>1, SubSeqProperties DEF n
<1>3. Without(q, r) = front \o back
  BY DEF Without, DropAt, x, n
<1> HIDE DEF front, back
<1>4. /\ DOMAIN Without(q, r) = 1 .. n - 1
      /\ \A i \in 1 .. n - 1 : Without(q, r)[i] = IF i <= x - 1 THEN front[i] ELSE back[i - (x - 1)]
  <2>1. /\ Without(q, r) \in Seq(Req)
        /\ Len(Without(q, r)) = (x - 1) + (n - x)
        /\ \A i \in 1 .. (x - 1) + (n - x) :
              Without(q, r)[i] = IF i <= x - 1 THEN front[i] ELSE back[i - (x - 1)]
    BY <1>2, <1>3, ConcatProperties
  <2>2. (x - 1) + (n - x) = n - 1
    BY <1>1
  <2>3. DOMAIN Without(q, r) = 1 .. Len(Without(q, r))
    BY <2>1, LenProperties
  <2> QED
    BY <2>1, <2>2, <2>3
<1>5. ASSUME NEW i \in 1 .. n - 1 PROVE Without(q, r)[i] = IF i < x THEN q[i] ELSE q[i + 1]
  <2>1. CASE i < x
    BY <1>1, <1>2, <1>4, <2>1
  <2>2. CASE ~(i < x)
    <3>1. i - (x - 1) \in 1 .. n - x /\ (i - (x - 1)) + x = i + 1 /\ ~(i <= x - 1)
      BY <1>1, <2>2
    <3> QED
      BY <1>2, <1>4, <2>2, <3>1
  <2> QED
    BY <2>1, <2>2
<1> QED
  BY <1>1, <1>4, <1>5 DEF x, n

\* While a pass runs, what it gave out and what is left make up its budget; the
\* running loop has given nothing to the requests it has still to visit.
BudgetInv ==
    /\ pc \in {"running", "waiting", "finish"} => SumOver(sched, Req) + budget = MaxScheduledTokens
    /\ pc = "running" => \A i \in DOMAIN running : idx <= i => sched[running[i]] = 0

\* Giving tokens to a request that has none, or taking back those of a victim,
\* moves them between the budget and the request.
LEMMA BudgetMoved ==
    ASSUME PassInv, BudgetInv, pc \in {"running", "waiting", "finish"}, NEW r \in Req,
           \A q \in Req \ {r} : sched'[q] = sched[q], sched'[r] \in Nat,
           budget' = budget + sched[r] - sched'[r]
    PROVE  SumOver(sched', Req) + budget' = MaxScheduledTokens
<1>1. IsFiniteSet(Req) /\ budget \in Nat /\ \A q \in Req : sched[q] \in Nat /\ sched'[q] \in Nat
  BY ConstantsAssumption DEF ConstantsAssumption, PassInv, TypeOK, PassTypes
<1>2. SumOver(sched', Req) = SumOver(sched, Req) - sched[r] + sched'[r]
      /\ SumOver(sched, Req) \in Nat
  BY <1>1, SumChanged
<1>3. SumOver(sched, Req) + budget = MaxScheduledTokens
  BY DEF BudgetInv
<1> HIDE DEF BudgetInv
<1> QED
  BY <1>1, <1>2, <1>3

\* The scheduler starts outside a pass.
LEMMA BudgetInit == Init => BudgetInv
  BY DEF Init, BudgetInv

\* ScheduleStart: nothing is given out yet.
LEMMA BudgetAtStart ==
    ASSUME PassInv, ScheduleStart
    PROVE  BudgetInv'
<1>1. sched' = [r \in Req |-> 0] /\ budget' = MaxScheduledTokens /\ running' = running
  BY DEF ScheduleStart, queueVars
<1>2. SumOver(sched', Req) = 0
  BY <1>1, SumZero
<1>3. \A i \in DOMAIN running : running[i] \in Req
  BY ElementOfSeq, LenProperties DEF PassInv, TypeOK, QueueTypes
<1> QED
  BY <1>1, <1>2, <1>3, Constants DEF BudgetInv

\* RunningSchedule: the request at idx gets its tokens.
LEMMA BudgetGiven ==
    ASSUME PassInv, BudgetInv, RunningSchedule
    PROVE  BudgetInv'
<1> DEFINE r == running[idx]
           n == NumNewTokens(r)
<1>1. /\ running \in Seq(Req) /\ idx \in DOMAIN running /\ idx \in Nat /\ pc = "running"
      /\ sched \in [Req -> Nat] /\ NoDuplicates(running) /\ budget \in Nat
  BY LenProperties DEF RunningSchedule, InRunningLoop, PassInv, TypeOK, QueueTypes, PassTypes,
                       RunningQueue
<1>2. r \in Req
  BY <1>1, ElementOfSeq, LenProperties
<1>3. n \in Int
  BY <1>2, NumNewTokensType DEF PassInv
<1>4. /\ sched' = [sched EXCEPT ![r] = n] /\ budget' = budget - n /\ idx' = idx + 1
      /\ UNCHANGED <<running, pc>> /\ n > 0
  BY DEF RunningSchedule, WantsTokens, queueVars
<1>5. sched[r] = 0
  BY <1>1 DEF BudgetInv
<1> HIDE DEF r, n
<1>6. /\ sched'[r] \in Nat /\ budget' = budget + sched[r] - sched'[r]
      /\ \A q \in Req \ {r} : sched'[q] = sched[q]
  BY <1>1, <1>2, <1>3, <1>4, <1>5
<1>7. SumOver(sched', Req) + budget' = MaxScheduledTokens
  BY <1>1, <1>2, <1>6, BudgetMoved
<1>8. ASSUME NEW i \in DOMAIN running, idx' <= i PROVE sched'[running[i]] = 0
  <2>1. i \in Nat /\ running[i] \in Req
    BY <1>1, ElementOfSeq, LenProperties
  <2>2. idx <= i /\ i # idx
    BY <1>1, <1>4, <1>8, <2>1
  <2>3. running[i] # r
    BY <1>1, <2>2 DEF NoDuplicates, r
  <2>4. sched[running[i]] = 0
    BY <1>1, <2>2 DEF BudgetInv
  <2> QED
    BY <1>1, <1>4, <2>1, <2>3, <2>4
<1> QED
  BY <1>4, <1>7, <1>8 DEF BudgetInv

\* RunningPreempt: the victim returns what it was given.
LEMMA BudgetReturned ==
    ASSUME PassInv, BudgetInv, NEW v \in Req, v \in Elems(running), RunningPreempt(v)
    PROVE  BudgetInv'
<1>1. /\ sched' = [sched EXCEPT ![v] = 0] /\ budget' = budget + sched[v]
      /\ running' = Without(running, v) /\ pc = "running"
      /\ idx' = IF IndexOf(running, v) < idx THEN idx - 1 ELSE idx
  BY DEF RunningPreempt, BudgetAfterPreempt, Preempt, InRunningLoop
<1>2. /\ running \in Seq(Req) /\ idx \in Nat /\ sched \in [Req -> Nat] /\ budget \in Nat
      /\ sched[v] \in Nat
  BY DEF PassInv, TypeOK, QueueTypes, PassTypes
<1>3. /\ sched'[v] \in Nat /\ budget' = budget + sched[v] - sched'[v]
      /\ \A q \in Req \ {v} : sched'[q] = sched[q]
  BY <1>1, <1>2
<1>4. SumOver(sched', Req) + budget' = MaxScheduledTokens
  BY <1>1, <1>3, BudgetMoved
<1>5. ASSUME NEW i \in DOMAIN running', idx' <= i PROVE sched'[running'[i]] = 0
  <2>1. /\ IndexOf(running, v) \in 1 .. Len(running) /\ Len(running) \in Nat
        /\ i \in 1 .. Len(running) - 1
        /\ running'[i] = IF i < IndexOf(running, v) THEN running[i] ELSE running[i + 1]
    BY <1>1, <1>2, WithoutIndex
  <2>2. PICK j \in 1 .. Len(running) : idx <= j /\ running'[i] = running[j]
    <3>1. CASE i < IndexOf(running, v)
      <4>1. idx <= i /\ i \in 1 .. Len(running)
        BY <1>1, <1>2, <1>5, <2>1, <3>1
      <4> QED
        BY <2>1, <3>1, <4>1
    <3>2. CASE ~(i < IndexOf(running, v))
      <4>1. idx <= i + 1 /\ i + 1 \in 1 .. Len(running)
        <5>1. i \in Nat /\ IndexOf(running, v) \in Nat /\ IndexOf(running, v) <= i
          BY <2>1, <3>2
        <5>2. idx <= i + 1
          BY <1>1, <1>2, <1>5, <5>1
        <5> QED
          BY <2>1, <5>2
      <4> QED
        BY <2>1, <3>2, <4>1
    <3> QED
      BY <3>1, <3>2
  <2>3. sched[running[j]] = 0 /\ running[j] \in Req
    BY <1>1, <1>2, <2>2, ElementOfSeq, LenProperties DEF BudgetInv
  <2> QED
    BY <1>1, <1>2, <2>2, <2>3
<1> QED
  BY <1>4, <1>5 DEF BudgetInv

\* WaitingAdmit: an admitted request had no tokens in this pass, since it did
\* not run.
LEMMA BudgetAdmitted ==
    ASSUME PassInv, BudgetInv, NEW r \in Req, WaitingAdmit(r)
    PROVE  BudgetInv'
<1>1. /\ sched' = [sched EXCEPT ![r] = AdmitTokens(r)] /\ budget' = budget - AdmitTokens(r)
      /\ pc = "waiting" /\ pc' = pc /\ status[r] \in {"WAITING", "PREEMPTED"} /\ budget > 0
  BY DEF WaitingAdmit, Schedulable, Considers, InWaitingLoop
<1>2. sched[r] = 0 /\ budget \in Nat
  <2>1. sched[r] \in Nat /\ budget \in Nat
    BY DEF PassInv, TypeOK, PassTypes
  <2>2. ~(sched[r] > 0)
    BY <1>1 DEF PassInv, OnlyRunningScheduled
  <2> QED
    BY <2>1, <2>2
<1>3. AdmitTokens(r) \in 1 .. budget
  BY <1>1, AdmitTokensType DEF PassInv, TokensLeft
<1>4. /\ sched'[r] \in Nat /\ budget' = budget + sched[r] - sched'[r]
      /\ \A q \in Req \ {r} : sched'[q] = sched[q]
  <2>1. sched \in [Req -> Nat]
    BY DEF PassInv, TypeOK, PassTypes
  <2> QED
    BY <1>1, <1>2, <1>3, <2>1
<1>5. SumOver(sched', Req) + budget' = MaxScheduledTokens
  BY <1>1, <1>4, BudgetMoved
<1> QED
  BY <1>1, <1>5 DEF BudgetInv

\* Every action keeps the budget.
LEMMA BudgetStep == PassInv /\ BudgetInv /\ [Next]_vars => BudgetInv'
<1> SUFFICES ASSUME PassInv, BudgetInv, Next \/ UNCHANGED vars PROVE BudgetInv'
  OBVIOUS
<1> USE DEF queueVars, passVars
<1>1. ASSUME pc' \notin {"running", "waiting", "finish"} PROVE BudgetInv'
  BY <1>1 DEF BudgetInv
<1>2. ASSUME UNCHANGED <<sched, budget>>, pc \in {"running", "waiting", "finish"},
             pc' # "running" \/ (pc' = pc /\ running' = running /\ (idx' = idx \/ idx' = idx + 1))
      PROVE  BudgetInv'
  <2>1. \A i \in DOMAIN running : i \in Nat
    BY LenProperties DEF PassInv, TypeOK, QueueTypes
  <2>2. idx \in Nat
    BY DEF PassInv, TypeOK, PassTypes
  <2>3. pc' = "running" => \A i \in DOMAIN running : idx' <= i => idx <= i
    BY <1>2, <2>1, <2>2
  <2> HIDE DEF SumOver
  <2> QED
    BY <1>2, <2>3 DEF BudgetInv
<1>3. CASE RunningSkip \/ RunningEnd \/ WaitingEnd \/ \E r \in Req : WaitingBlocked(r)
  BY <1>2, <1>3 DEF RunningSkip, RunningEnd, WaitingEnd, WaitingBlocked, InRunningLoop, Considers,
         InWaitingLoop
<1>4. ASSUME NEW v \in Req, RunningPreempt(v) PROVE BudgetInv'
  <2>1. running # <<>>
    BY <1>4 DEF RunningPreempt, InRunningLoop, PassInv, TypeOK, PassTypes
  <2>2. v \in Elems(running)
    BY <1>4, <2>1, VictimRuns DEF RunningPreempt
  <2> QED
    BY <1>4, <2>2, BudgetReturned
<1>5. ASSUME NEW r \in Req, WaitingSkip(r) \/ WaitingPromote(r) \/ WaitingLoadRemote(r)
      PROVE  BudgetInv'
  BY <1>2, <1>5 DEF WaitingSkip, WaitingPromote, WaitingLoadRemote, Considers, InWaitingLoop
<1>6. CASE ScheduleFinish \/ UpdateStart \/ UpdateFinish \/ ResetStart \/ ResetPreempt \/ ResetEnd
  BY <1>1, <1>6 DEF ScheduleFinish, UpdateStart, UpdateFinish, ResetStart, ResetPreempt, ResetEnd
<1>7. ASSUME NEW r \in Req, UpdateDiscard(r) \/ UpdateDeliver(r) \/ KVXferFinished(r)
                           \/ AddRequest(r) \/ AbortRequest(r)
      PROVE  BudgetInv'
  BY <1>1, <1>7 DEF UpdateDiscard, UpdateDeliver, KVXferFinished, AddRequest, AbortRequest
<1>8. CASE Quiescent \/ UNCHANGED vars
  BY <1>1, <1>2, <1>8 DEF Quiescent, vars
<1> QED
  BY <1>3, <1>4, <1>5, <1>6, <1>7, <1>8, BudgetAtStart, BudgetGiven, BudgetAdmitted
  DEF Next, ScheduleStep, UpdateStep

\* A pass gives out exactly what its budget lost, only to running requests, and
\* a preempted victim returns exactly what it was given (the assertions at the
\* end of schedule()).
THEOREM PassKeepsBudget == Spec => []BudgetKept
<1>1. PassInv /\ BudgetInv /\ [Next]_vars => BudgetInv'
  BY BudgetStep
<1>2. PassInv /\ BudgetInv => BudgetKept
  BY DEF PassInv, OnlyRunningScheduled, BudgetInv, BudgetKept
<1> QED
  BY <1>1, <1>2, BudgetInit, PassInvariant, PTL DEF Spec
-----------------------------------------------------------------------------
(* The steps in flight, as one request sees them.                          *)

StepTokens(r) == [i \in DOMAIN batches |-> batches[i].tokens[r]]

\* The steps whose share of r was not drained yet.
Active(r) == IF pc = "update" /\ r \notin todo THEN DOMAIN batches \ {1} ELSE DOMAIN batches

\* The steps of r from before its last preemption: all of them until the step
\* that admits it again is handed to the worker.
Old(r) ==
    {i \in DOMAIN batches :
        \/ status[r] # "RUNNING" \/ r \in admitted
        \/ \E j \in DOMAIN batches : j > i /\ batches[j].base[r] > 0}

\* What a step is given: a base or a sample only for a request with tokens in
\* it, tokens for no request that was not added yet, and to be processed is
\* only what has tokens in the step.
StepShape ==
    /\ \A i \in DOMAIN batches : \A r \in Req :
          /\ batches[i].base[r] > 0 => batches[i].tokens[r] > 0
          /\ r \in batches[i].samples => batches[i].tokens[r] > 0
          /\ status[r] = "NEW" => batches[i].tokens[r] = 0
    /\ pc = "update" => \A r \in todo : Head(batches).tokens[r] > 0

\* The counters of r are the tokens of those steps.
Drain(r) ==
    /\ inflight[r] = SumOver(StepTokens(r), Active(r))
    /\ stale[r] = SumOver(StepTokens(r), Old(r) \cap Active(r))
    /\ status[r] = "RUNNING" /\ stale[r] > 0 => dropStale[r]

\* The step that gave r to the worker last carried all its tokens; output from
\* before a step that gave r to the worker is dropped; and once no such step is
\* in flight the worker has seen all tokens of r, if r runs or if the output
\* that is still in flight will be delivered.
Position(r) ==
    /\ \A i \in Active(r) :
          batches[i].base[r] > 0 /\ (\A j \in Active(r) : j > i => batches[j].base[r] = 0)
             => batches[i].base[r] = NumTokens(r)
    /\ \A i, j \in Active(r) :
          i < j /\ batches[i].tokens[r] > 0 /\ batches[j].base[r] > 0 => dropStale[r]
    /\ /\ \A i \in Active(r) : batches[i].base[r] = 0
       /\ \/ status[r] = "RUNNING" /\ r \notin admitted
          \/ stale[r] > 0 /\ ~dropStale[r]
       => wpos[r] = NumTokens(r)

TokenInv ==
    /\ StepShape
    /\ \A r \in Req : status[r] # "FINISHED" => Drain(r) /\ Position(r)

\* The steps in flight are numbered from 1, and hold numbers of tokens.
LEMMA StepFacts ==
    ASSUME PassInv
    PROVE  /\ Len(batches) \in Nat /\ DOMAIN batches = 1 .. Len(batches)
           /\ IsFiniteSet(DOMAIN batches) /\ DOMAIN batches \subseteq Nat
           /\ \A i \in DOMAIN batches : batches[i] \in Batch
           /\ \A i \in DOMAIN batches : \A r \in Req :
                 /\ StepTokens(r)[i] = batches[i].tokens[r]
                 /\ batches[i].tokens[r] \in Nat /\ batches[i].base[r] \in Nat
                 /\ batches[i].spec[r] \in Nat
<1>1. batches \in Seq(Batch)
  BY DEF PassInv, TypeOK, WorkerTypes
<1>2. /\ Len(batches) \in Nat /\ DOMAIN batches = 1 .. Len(batches)
      /\ \A i \in DOMAIN batches : batches[i] \in Batch
  BY <1>1, LenProperties, ElementOfSeq
<1>3. IsFiniteSet(1 .. Len(batches))
  BY <1>2, FS_Interval
<1> QED
  BY <1>2, <1>3 DEF StepTokens, Batch

\* The tokens of r in some of the steps.
LEMMA PartFacts ==
    ASSUME PassInv, NEW r \in Req, NEW S \in SUBSET DOMAIN batches
    PROVE  /\ IsFiniteSet(S) /\ SumOver(StepTokens(r), S) \in Nat
           /\ \A i \in S : /\ SumOver(StepTokens(r), S)
                                 = SumOver(StepTokens(r), S \ {i}) + batches[i].tokens[r]
                           /\ SumOver(StepTokens(r), S \ {i}) \in Nat
           /\ SumOver(StepTokens(r), S) > 0 => \E i \in S : batches[i].tokens[r] > 0
<1>1. IsFiniteSet(S) /\ \A i \in S : StepTokens(r)[i] = batches[i].tokens[r] /\ StepTokens(r)[i] \in Nat
  BY StepFacts, FS_Subset
<1>2. SumOver(StepTokens(r), S) \in Nat
  BY <1>1, SumType
<1>3. ASSUME NEW i \in S
      PROVE  /\ SumOver(StepTokens(r), S) = SumOver(StepTokens(r), S \ {i}) + batches[i].tokens[r]
             /\ SumOver(StepTokens(r), S \ {i}) \in Nat
  BY <1>1, SumElement
<1>4. (\A i \in S : StepTokens(r)[i] = 0) => SumOver(StepTokens(r), S) = 0
  BY SumZero
<1> HIDE DEF StepTokens
<1> QED
  BY <1>1, <1>2, <1>3, <1>4

\* The stale share of r is positive exactly when the oldest active step that
\* has tokens of r is an old one.
LEMMA StaleMeansOld ==
    ASSUME PassInv, NEW r \in Req, Drain(r), NEW i \in Active(r), batches[i].tokens[r] > 0
    PROVE  /\ i \in Old(r) => stale[r] > 0
           /\ stale[r] > 0 /\ (\A j \in Active(r) : i <= j) => i \in Old(r)
<1> DEFINE S == Old(r) \cap Active(r)
<1>1. /\ S \in SUBSET DOMAIN batches /\ Active(r) \subseteq DOMAIN batches
      /\ DOMAIN batches \subseteq Nat /\ batches[i].tokens[r] \in Nat
  BY StepFacts DEF Active
<1>2. stale[r] = SumOver(StepTokens(r), S)
  BY DEF Drain
<1>3. ASSUME i \in Old(r) PROVE stale[r] > 0
  <2>1. i \in S
    BY <1>3
  <2> HIDE DEF S
  <2>2. SumOver(StepTokens(r), S) = SumOver(StepTokens(r), S \ {i}) + batches[i].tokens[r]
        /\ SumOver(StepTokens(r), S \ {i}) \in Nat
    BY <1>1, <2>1, PartFacts
  <2> QED
    BY <1>1, <1>2, <2>2
<1>4. ASSUME stale[r] > 0, \A j \in Active(r) : i <= j PROVE i \in Old(r)
  <2>1. PICK k \in S : batches[k].tokens[r] > 0
    <3> HIDE DEF S
    <3> QED
      BY <1>1, <1>2, <1>4, PartFacts
  <2>2. k \in Old(r) /\ k \in Nat /\ i \in Nat /\ i <= k /\ i \in DOMAIN batches
    BY <1>1, <1>4, <2>1
  <2> QED
    BY <1>1, <2>2 DEF Old
<1> QED
  BY <1>3, <1>4

\* The scheduler starts with no step in flight.
LEMMA TokenInit == Init => TokenInv
<1> SUFFICES ASSUME Init PROVE TokenInv
  OBVIOUS
<1>1. StepShape
  BY DEF Init, StepShape
<1>2. ASSUME NEW r \in Req PROVE Drain(r) /\ Position(r)
  <2>1. DOMAIN batches = {} /\ Active(r) = {} /\ Old(r) = {}
    BY DEF Init, Active, Old
  <2>2. SumOver(StepTokens(r), {}) = 0
    BY SumZero
  <2>3. /\ inflight[r] = 0 /\ stale[r] = 0 /\ status[r] = "NEW" /\ Old(r) \cap Active(r) = {}
    BY <2>1 DEF Init
  <2> QED
    BY <2>1, <2>2, <2>3 DEF Drain, Position
<1> QED
  BY <1>1, <1>2 DEF TokenInv

\* Steps that neither hand out nor process tokens of r.
LEMMA TokensKept ==
    ASSUME NEW r \in Req, Drain(r), Position(r), batches' = batches, Active(r)' = Active(r),
           inflight'[r] = inflight[r], stale'[r] = stale[r], dropStale'[r] = dropStale[r],
           out'[r] = out[r], wpos'[r] = wpos[r],
           status'[r] = "RUNNING" <=> status[r] = "RUNNING", r \in admitted' <=> r \in admitted
    PROVE  Drain(r)' /\ Position(r)'
<1>1. StepTokens(r)' = StepTokens(r) /\ Old(r)' = Old(r) /\ NumTokens(r)' = NumTokens(r)
  BY DEF StepTokens, Old, NumTokens
<1>2. Drain(r)'
  BY <1>1 DEF Drain
<1>3. Position(r)'
  BY <1>1 DEF Position
<1> QED
  BY <1>2, <1>3

\* The same steps are active while no step is handed out, begun or ended.
LEMMA ActiveKept ==
    ASSUME NEW r \in Req, batches' = batches, pc' = "update" <=> pc = "update",
           pc = "update" => (r \in todo' <=> r \in todo)
    PROVE  Active(r)' = Active(r)
  BY DEF Active

\* Preempt: everything in flight is stale from now on.  If it was to be
\* dropped before, some of it still was in flight.
LEMMA TokensPreempt ==
    ASSUME PassInv, NEW v \in Req, Drain(v), Position(v), status[v] = "RUNNING", v \notin admitted,
           NEW drop \in BOOLEAN, Preempt(v, drop), admitted' = admitted,
           pc' = "update" <=> pc = "update"
    PROVE  Drain(v)' /\ Position(v)'
<1>1. /\ status' = [status EXCEPT ![v] = "PREEMPTED"]
      /\ dropStale' = [dropStale EXCEPT ![v] = drop \/ (dropStale[v] /\ stale[v] > 0)]
      /\ stale' = [stale EXCEPT ![v] = inflight[v]]
      /\ UNCHANGED <<out, inflight, batches, todo, wpos>>
  BY DEF Preempt, StaleAfterPreempt, workerVars
<1>2. /\ status'[v] = "PREEMPTED" /\ stale'[v] = inflight[v]
      /\ dropStale'[v] = (drop \/ (dropStale[v] /\ stale[v] > 0))
  BY <1>1 DEF PassInv, TypeOK, QueueTypes, TokenTypes
<1>3. /\ Active(v)' = Active(v) /\ StepTokens(v)' = StepTokens(v) /\ NumTokens(v)' = NumTokens(v)
      /\ Old(v)' = DOMAIN batches /\ Active(v) \subseteq DOMAIN batches
  BY <1>1, <1>2, ActiveKept DEF Active, StepTokens, NumTokens, Old
<1>4. (Old(v) \cap Active(v))' = Active(v)'
  BY <1>3
<1>5. Drain(v)'
  BY <1>1, <1>2, <1>3, <1>4 DEF Drain
<1>6. ASSUME NEW i \in Active(v), NEW j \in Active(v), i < j, batches[i].tokens[v] > 0,
             batches[j].base[v] > 0
      PROVE  dropStale'[v]
  <2>1. dropStale[v]
    BY <1>6 DEF Position
  <2>2. i \in Old(v)
    <3>1. i \in Nat /\ j \in Nat /\ i \in DOMAIN batches /\ j \in DOMAIN batches
      BY StepFacts DEF Active
    <3> QED
      BY <1>6, <3>1 DEF Old
  <2>3. stale[v] > 0
    BY <1>6, <2>2, StaleMeansOld
  <2> QED
    BY <1>2, <2>1, <2>3
<1>7. Position(v)'
  BY <1>1, <1>2, <1>3, <1>6 DEF Position
<1> QED
  BY <1>5, <1>7

\* WaitingAdmit: what is in flight stays stale and is to be dropped.
LEMMA TokensAdmit ==
    ASSUME PassInv, NEW r \in Req, Drain(r), Position(r), WaitingAdmit(r)
    PROVE  Drain(r)' /\ Position(r)'
<1>1. /\ status' = [status EXCEPT ![r] = "RUNNING"] /\ admitted' = admitted \cup {r}
      /\ UNCHANGED <<out, inflight, stale, dropStale, batches, todo, wpos, pc>>
      /\ status[r] # "RUNNING" /\ ~(stale[r] > 0 /\ ~dropStale[r])
  BY DEF WaitingAdmit, Schedulable, DeliversStale, tokenVars, workerVars
<1>2. /\ Active(r)' = Active(r) /\ StepTokens(r)' = StepTokens(r) /\ NumTokens(r)' = NumTokens(r)
      /\ Old(r)' = DOMAIN batches /\ Old(r) = DOMAIN batches
  BY <1>1, ActiveKept DEF StepTokens, NumTokens, Old
<1>3. Drain(r)'
  BY <1>1, <1>2 DEF Drain
<1>4. Position(r)'
  BY <1>1, <1>2 DEF Position
<1> QED
  BY <1>3, <1>4

\* The step ScheduleFinish hands to the worker.
LEMMA StepHandedOut ==
    ASSUME ScheduleFinish
    PROVE  \E b : /\ batches' = Append(batches, b) /\ b.tokens = sched /\ b.spec = schedSpec
                 /\ b.samples = {q \in Scheduled : ~ChunkAfter(q)}
                 /\ b.base = [q \in Req |-> IF q \in admitted /\ q \in Scheduled
                                            THEN NumTokens(q) ELSE 0]
<1> DEFINE b == [seq |-> IF DeferBlockFree /\ Scheduled # {} THEN schedSeq + 1 ELSE schedSeq,
                 tokens |-> sched, spec |-> schedSpec,
                 samples |-> {q \in Scheduled : ~ChunkAfter(q)},
                 base |-> [q \in Req |-> IF q \in admitted /\ q \in Scheduled
                                         THEN NumTokens(q) ELSE 0],
                 writes |-> [q \in Req |-> IF q \in Scheduled THEN held[q] ELSE {}],
                 loads |-> stepLoads]
<1>1. batches' = Append(batches, b)
  BY DEF ScheduleFinish
<1>2. /\ b.tokens = sched /\ b.spec = schedSpec
      /\ b.samples = {q \in Scheduled : ~ChunkAfter(q)}
      /\ b.base = [q \in Req |-> IF q \in admitted /\ q \in Scheduled THEN NumTokens(q) ELSE 0]
  OBVIOUS
<1> HIDE DEF b
<1> QED
  BY <1>1, <1>2

\* ScheduleFinish adds one step, which is none of the old ones of a request that
\* runs; which of the others are old does not change.
LEMMA StepsHandedOut ==
    ASSUME PassInv, RowInv, NEW r \in Req, ScheduleFinish, NEW n, n = Len(batches)
    PROVE  /\ n \in Nat /\ DOMAIN batches = 1 .. n /\ DOMAIN batches' = 1 .. n + 1
           /\ DOMAIN batches \subseteq Nat
           /\ \A i \in 1 .. n : batches'[i] = batches[i] /\ i < n + 1
           /\ n + 1 \notin 1 .. n /\ 1 .. n + 1 = (1 .. n) \cup {n + 1}
           /\ Active(r) = 1 .. n /\ Active(r)' = 1 .. n + 1
           /\ batches'[n + 1].tokens = sched /\ batches'[n + 1].spec = schedSpec
           /\ batches'[n + 1].samples = {q \in Scheduled : ~ChunkAfter(q)}
           /\ batches'[n + 1].base[r] = IF r \in admitted THEN NumTokens(r) ELSE 0
           /\ \A i \in 1 .. n : i \in Old(r)' <=> i \in Old(r)
           /\ status[r] = "RUNNING" => n + 1 \notin Old(r)'
<1>1. PICK b : /\ batches' = Append(batches, b) /\ b.tokens = sched /\ b.spec = schedSpec
               /\ b.samples = {q \in Scheduled : ~ChunkAfter(q)}
               /\ b.base = [q \in Req |-> IF q \in admitted /\ q \in Scheduled THEN NumTokens(q) ELSE 0]
  BY StepHandedOut
<1>2. admitted' = {} /\ status' = status /\ pc = "finish" /\ pc' = "idle"
  BY DEF ScheduleFinish
<1>3. /\ n \in Nat /\ DOMAIN batches = 1 .. n /\ DOMAIN batches' = 1 .. n + 1
      /\ DOMAIN batches \subseteq Nat
      /\ \A i \in 1 .. n : batches'[i] = batches[i] /\ i < n + 1
      /\ batches'[n + 1] = b /\ n + 1 \notin 1 .. n /\ 1 .. n + 1 = (1 .. n) \cup {n + 1}
  <2>1. n \in Nat /\ DOMAIN batches = 1 .. n /\ batches \in Seq(Batch)
    BY StepFacts DEF PassInv, TypeOK, WorkerTypes
  <2> QED
    BY <1>1, <2>1
<1>4. Active(r) = 1 .. n /\ Active(r)' = 1 .. n + 1
  BY <1>2, <1>3 DEF Active
<1>5. b.base[r] = IF r \in admitted THEN NumTokens(r) ELSE 0
  <2>1. r \in admitted => r \in Scheduled
    BY DEF RowInv
  <2> QED
    BY <1>1, <2>1
<1>6. NumTokens(r) > 0
  BY NumTokensType DEF PassInv
<1>7. /\ \A i \in 1 .. n : i \in Old(r)' <=> i \in Old(r)
      /\ status[r] = "RUNNING" => n + 1 \notin Old(r)'
  <2>1. ASSUME NEW i \in 1 .. n
        PROVE  (\E j \in 1 .. n + 1 : j > i /\ batches'[j].base[r] > 0)
                  <=> r \in admitted \/ \E j \in 1 .. n : j > i /\ batches[j].base[r] > 0
    BY <1>3, <1>5, <1>6
  <2>2. \A i \in 1 .. n : i \in Old(r)' <=> i \in Old(r)
    BY <1>2, <1>3, <2>1 DEF Old
  <2>3. \A j \in 1 .. n + 1 : ~(j > n + 1)
    BY <1>3
  <2> QED
    BY <1>2, <1>3, <2>2, <2>3 DEF Old
<1>8. /\ batches'[n + 1].tokens = sched /\ batches'[n + 1].spec = schedSpec
      /\ batches'[n + 1].samples = {q \in Scheduled : ~ChunkAfter(q)}
      /\ batches'[n + 1].base[r] = IF r \in admitted THEN NumTokens(r) ELSE 0
  BY <1>1, <1>3, <1>5
<1> QED
  BY <1>3, <1>4, <1>7, <1>8

\* ScheduleFinish: a new step.  Only an admitted request is given a base, and
\* what it has in flight was stale already.
LEMMA TokensHandedOut ==
    ASSUME PassInv, RowInv, NEW r \in Req, Drain(r), Position(r), ScheduleFinish
    PROVE  Drain(r)' /\ Position(r)'
<1> DEFINE n == Len(batches)
           b == batches'[n + 1]
<1>1. /\ inflight' = [q \in Req |-> inflight[q] + sched[q]] /\ admitted' = {}
      /\ UNCHANGED <<status, stale, dropStale, out, wpos, todo>>
  BY DEF ScheduleFinish
<1> HIDE DEF n
<1>2. /\ n \in Nat /\ DOMAIN batches = 1 .. n /\ DOMAIN batches' = 1 .. n + 1
      /\ DOMAIN batches \subseteq Nat
      /\ \A i \in 1 .. n : batches'[i] = batches[i] /\ i < n + 1
      /\ batches'[n + 1] = b /\ n + 1 \notin 1 .. n /\ 1 .. n + 1 = (1 .. n) \cup {n + 1}
  BY StepsHandedOut DEF n
<1>3. Active(r) = 1 .. n /\ Active(r)' = 1 .. n + 1
  BY StepsHandedOut DEF n
<1>4. /\ sched[r] \in Nat /\ (sched[r] > 0 => status[r] = "RUNNING")
      /\ (r \in admitted => sched[r] > 0)
  BY DEF PassInv, TypeOK, PassTypes, OnlyRunningScheduled, RowInv, Scheduled
<1>5. /\ b.tokens[r] = sched[r]
      /\ b.base[r] = IF r \in admitted THEN NumTokens(r) ELSE 0
      /\ NumTokens(r)' = NumTokens(r) /\ NumTokens(r) > 0 /\ NumTokens(r) \in Nat
  <2>1. b.tokens = sched /\ b.base[r] = IF r \in admitted THEN NumTokens(r) ELSE 0
    BY StepsHandedOut DEF n
  <2>2. NumTokens(r) > 0 /\ NumTokens(r) \in Nat
    BY NumTokensType DEF PassInv
  <2> QED
    BY <1>1, <2>1, <2>2 DEF NumTokens
<1>6. /\ \A i \in 1 .. n : i \in Old(r)' <=> i \in Old(r)
      /\ status[r] = "RUNNING" => n + 1 \notin Old(r)'
  BY StepsHandedOut DEF n
<1> HIDE DEF b
<1>7. StepTokens(r)' = [i \in 1 .. n + 1 |-> IF i \in 1 .. n THEN StepTokens(r)[i] ELSE sched[r]]
  BY <1>2, <1>5 DEF StepTokens
<1> DEFINE f == StepTokens(r)
           g == StepTokens(r)'
<1>8. /\ \A i \in 1 .. n : g[i] = f[i] /\ g[i] \in Nat
      /\ g[n + 1] = sched[r]
  <2>1. \A i \in 1 .. n : f[i] \in Nat
    BY <1>2, StepFacts
  <2> HIDE DEF f
  <2> QED
    BY <1>2, <1>7, <2>1 DEF f
<1>9. \A S \in SUBSET (1 .. n) : SumOver(g, S) = SumOver(f, S) /\ SumOver(g, S) \in Nat
  <2> SUFFICES ASSUME NEW S \in SUBSET (1 .. n) PROVE SumOver(g, S) = SumOver(f, S) /\ SumOver(g, S) \in Nat
    OBVIOUS
  <2>1. SumOver(f, S) \in Nat
    BY <1>2, PartFacts
  <2>2. \A i \in S : g[i] = f[i]
    BY <1>8
  <2> HIDE DEF f, g
  <2> QED
    BY <2>1, <2>2, SumSame
<1>10. \A S \in SUBSET (1 .. n) : SumOver(g, S \cup {n + 1}) = SumOver(g, S) + sched[r]
  <2> SUFFICES ASSUME NEW S \in SUBSET (1 .. n)
               PROVE  SumOver(g, S \cup {n + 1}) = SumOver(g, S) + sched[r]
    OBVIOUS
  <2> HIDE DEF f, g
  <2>1. IsFiniteSet(S \cup {n + 1})
    <3>1. IsFiniteSet(S)
      BY <1>2, FS_Interval, FS_Subset, PartFacts
    <3> QED
      BY <3>1, FS_AddElement
  <2>2. (S \cup {n + 1}) \ {n + 1} = S
    BY <1>2
  <2>3. \A i \in S \cup {n + 1} : g[i] \in Nat
    BY <1>4, <1>8
  <2>4. SumOver(g, S \cup {n + 1}) = SumOver(g, (S \cup {n + 1}) \ {n + 1}) + g[n + 1]
    BY <2>1, <2>3, SumElement
  <2> QED
    BY <1>8, <2>2, <2>4
<1> HIDE DEF f, g
<1>11. inflight'[r] = SumOver(g, 1 .. n + 1)
  BY <1>1, <1>2, <1>3, <1>9, <1>10 DEF Drain, f
<1>12. stale'[r] = SumOver(g, Old(r)' \cap 1 .. n + 1)
  <2> DEFINE S == Old(r) \cap 1 .. n
  <2>1. stale'[r] = SumOver(g, S)
    BY <1>1, <1>3, <1>9 DEF Drain, f
  <2>2. CASE n + 1 \notin Old(r)'
    <3>1. Old(r)' \cap 1 .. n + 1 = S
      BY <1>2, <1>6, <2>2
    <3> QED
      BY <2>1, <3>1
  <2>3. CASE n + 1 \in Old(r)'
    <3>1. Old(r)' \cap 1 .. n + 1 = S \cup {n + 1}
      BY <1>2, <1>6, <2>3
    <3>2. sched[r] = 0
      BY <1>4, <1>6, <2>3
    <3>3. SumOver(g, S \cup {n + 1}) = SumOver(g, S) + sched[r] /\ SumOver(g, S) \in Nat
      BY <1>9, <1>10
    <3> QED
      BY <2>1, <3>1, <3>2, <3>3
  <2> QED
    BY <2>2, <2>3
<1>13. Drain(r)'
  BY <1>1, <1>3, <1>11, <1>12 DEF Drain, g
<1>14. ASSUME NEW i \in 1 .. n, batches[i].tokens[r] > 0, r \in admitted PROVE dropStale[r]
  <2>1. status[r] = "RUNNING"
    BY <1>4, <1>14
  <2>2. i \in Old(r)
    BY <1>2, <1>14 DEF Old
  <2>3. stale[r] > 0
    BY <1>3, <1>14, <2>2, StaleMeansOld
  <2> QED
    BY <2>1, <2>3 DEF Drain
<1>15. Position(r)'
  <2>1. CASE r \in admitted
    <3>1. b.base[r] > 0 /\ b.base[r] = NumTokens(r)
      BY <1>5, <2>1
    <3>2. ASSUME NEW i \in 1 .. n + 1, \A j \in 1 .. n + 1 : j > i => batches'[j].base[r] = 0
          PROVE  i = n + 1
      BY <1>2, <3>1, <3>2
    <3>3. ASSUME NEW i \in 1 .. n + 1, NEW j \in 1 .. n + 1, i < j, batches'[i].tokens[r] > 0
          PROVE  dropStale[r]
      <4>1. i \in 1 .. n
        BY <1>2, <3>3
      <4> QED
        BY <1>2, <1>14, <2>1, <3>3, <4>1
    <3>4. ~(\A i \in 1 .. n + 1 : batches'[i].base[r] = 0)
      BY <1>2, <3>1
    <3> QED
      BY <1>1, <1>2, <1>3, <1>5, <3>1, <3>2, <3>3, <3>4, SMTT(30) DEF Position
  <2>2. CASE r \notin admitted
    <3>1. b.base[r] = 0
      BY <1>5, <2>2
    <3>2. ASSUME NEW i \in 1 .. n + 1, batches'[i].base[r] > 0
          PROVE  i \in 1 .. n /\ batches[i].base[r] > 0
      BY <1>2, <3>1, <3>2
    <3>3. ASSUME NEW i \in 1 .. n + 1, batches'[i].base[r] > 0,
                 \A j \in 1 .. n + 1 : j > i => batches'[j].base[r] = 0
          PROVE  batches'[i].base[r] = NumTokens(r)'
      <4>1. i \in 1 .. n /\ batches[i].base[r] > 0
        BY <3>2, <3>3
      <4>2. \A j \in 1 .. n : j > i => batches[j].base[r] = 0
        BY <1>2, <3>3
      <4> QED
        BY <1>2, <1>3, <1>5, <4>1, <4>2 DEF Position
    <3>4. ASSUME NEW i \in 1 .. n + 1, NEW j \in 1 .. n + 1, i < j, batches'[i].tokens[r] > 0,
                 batches'[j].base[r] > 0
          PROVE  dropStale[r]
      <4>1. j \in 1 .. n /\ batches[j].base[r] > 0
        BY <3>2, <3>4
      <4>2. i \in 1 .. n
        BY <1>2, <3>4, <4>1
      <4> QED
        BY <1>2, <1>3, <3>4, <4>1, <4>2 DEF Position
    <3>5. (\A i \in 1 .. n + 1 : batches'[i].base[r] = 0) => \A i \in 1 .. n : batches[i].base[r] = 0
      BY <1>2
    <3> QED
      BY <1>1, <1>3, <1>5, <2>2, <3>3, <3>4, <3>5 DEF Position
  <2> QED
    BY <2>1, <2>2
<1> QED
  BY <1>13, <1>15

\* UpdateStart: a request without tokens in the step that is processed has
\* nothing to drain from it.
LEMMA TokensBegin ==
    ASSUME PassInv, StepShape, NEW r \in Req, Drain(r), Position(r), UpdateStart
    PROVE  Drain(r)' /\ Position(r)'
<1>1. /\ pc = "idle" /\ pc' = "update" /\ batches # <<>>
      /\ todo' = {q \in Req : Head(batches).tokens[q] > 0}
      /\ UNCHANGED <<batches, status, admitted, inflight, stale, dropStale, out, wpos>>
  BY DEF UpdateStart, queueVars, tokenVars, passVars
<1>2. 1 \in DOMAIN batches /\ Head(batches) = batches[1] /\ DOMAIN batches \subseteq Nat
  BY <1>1, StepFacts, EmptySeq DEF PassInv, TypeOK, WorkerTypes
<1>3. Active(r) = DOMAIN batches
  BY <1>1 DEF Active
<1>4. CASE r \in todo'
  <2>1. Active(r)' = Active(r)
    BY <1>1, <1>3, <1>4 DEF Active
  <2> QED
    BY <1>1, <2>1, TokensKept
<1>5. CASE r \notin todo'
  <2>1. batches[1].tokens[r] = 0 /\ batches[1].base[r] = 0
    <3>1. batches[1].tokens[r] \in Nat /\ batches[1].base[r] \in Nat
      BY <1>2, StepFacts
    <3>2. ~(batches[1].tokens[r] > 0)
      BY <1>1, <1>2, <1>5
    <3> QED
      BY <1>2, <3>1, <3>2 DEF StepShape
  <2>2. Active(r)' = Active(r) \ {1} /\ 1 \in Active(r)
    BY <1>1, <1>2, <1>3, <1>5 DEF Active
  <2>3. /\ StepTokens(r)' = StepTokens(r) /\ Old(r)' = Old(r) /\ NumTokens(r)' = NumTokens(r)
    BY <1>1 DEF StepTokens, Old, NumTokens
  <2> DEFINE f == StepTokens(r)
  <2>4. \A S \in SUBSET DOMAIN batches : SumOver(f, S \ {1}) = SumOver(f, S)
    <3> SUFFICES ASSUME NEW S \in SUBSET DOMAIN batches PROVE SumOver(f, S \ {1}) = SumOver(f, S)
      OBVIOUS
    <3>1. CASE 1 \notin S
      <4>1. S \ {1} = S
        BY <3>1
      <4> QED
        BY <4>1
    <3>2. CASE 1 \in S
      <4>1. SumOver(f, S) = SumOver(f, S \ {1}) + batches[1].tokens[r] /\ SumOver(f, S \ {1}) \in Nat
        BY <3>2, PartFacts
      <4> HIDE DEF f
      <4> QED
        BY <2>1, <4>1
    <3> QED
      BY <3>1, <3>2
  <2>5. /\ Old(r)' \cap Active(r)' = (Old(r) \cap Active(r)) \ {1}
        /\ Old(r) \cap Active(r) \in SUBSET DOMAIN batches /\ Active(r) \in SUBSET DOMAIN batches
    BY <1>3, <2>2, <2>3
  <2>6. Drain(r)'
    <3>1. inflight'[r] = SumOver(f, Active(r)')
      BY <1>1, <2>2, <2>4, <2>5 DEF Drain
    <3>2. stale'[r] = SumOver(f, Old(r)' \cap Active(r)')
      BY <1>1, <2>4, <2>5 DEF Drain
    <3> QED
      BY <1>1, <2>3, <3>1, <3>2 DEF Drain
  <2>7. /\ \A j \in Active(r) : j > 1 \/ j = 1
        /\ \A i \in Active(r)' : i \in Active(r) /\ i > 1
    BY <1>2, <1>3, <2>2, StepFacts
  <2>8. \A i \in Active(r)' : (\A j \in Active(r)' : j > i => batches[j].base[r] = 0)
            => \A j \in Active(r) : j > i => batches[j].base[r] = 0
    BY <2>1, <2>2
  <2>9. (\A i \in Active(r)' : batches[i].base[r] = 0) => \A i \in Active(r) : batches[i].base[r] = 0
    BY <2>1, <2>2
  <2>10. Position(r)'
    BY <1>1, <2>3, <2>7, <2>8, <2>9 DEF Position
  <2> QED
    BY <2>6, <2>10
<1> QED
  BY <1>4, <1>5

\* What update_from_output drains of r in the step it processes: the step is
\* the oldest active one, and is stale if anything is.
LEMMA Processed ==
    ASSUME PassInv, StepShape, NEW r \in Req, Drain(r), pc = "update", r \in todo,
           pc' = pc, todo' = todo \ {r}, UNCHANGED <<batches, admitted>>, status'[r] = status[r],
           Drained(r, Head(batches).tokens[r]), dropStale'[r] = dropStale[r]
    PROVE  /\ Drain(r)'
           /\ 1 \in Active(r) /\ Active(r) = DOMAIN batches /\ Active(r)' = Active(r) \ {1}
           /\ Head(batches) = batches[1] /\ batches[1].tokens[r] > 0
           /\ \A j \in Active(r) : 1 <= j
           /\ stale'[r] > 0 => stale[r] > 0
<1>1. batches # <<>>
  BY DEF PassInv, UpdateHasStep
<1>2. /\ 1 \in DOMAIN batches /\ Head(batches) = batches[1] /\ DOMAIN batches \subseteq Nat
      /\ \A j \in DOMAIN batches : 1 <= j
  BY <1>1, StepFacts, EmptySeq DEF PassInv, TypeOK, WorkerTypes
<1>3. Active(r) = DOMAIN batches /\ Active(r)' = Active(r) \ {1}
  BY DEF Active
<1>4. batches[1].tokens[r] > 0 /\ batches[1].tokens[r] \in Nat
  BY <1>2, StepFacts DEF StepShape
<1> DEFINE n == batches[1].tokens[r]
           f == StepTokens(r)
           S == Old(r) \cap Active(r)
<1>5. /\ inflight'[r] = inflight[r] - n
      /\ stale'[r] = IF stale[r] > 0 THEN stale[r] - n ELSE stale[r]
  BY <1>2 DEF Drained, StaleShare, PassInv, TypeOK, TokenTypes
<1>6. StepTokens(r)' = StepTokens(r) /\ Old(r)' = Old(r)
  BY DEF StepTokens, Old
<1>7. /\ SumOver(f, Active(r)) = SumOver(f, Active(r) \ {1}) + n
      /\ SumOver(f, Active(r) \ {1}) \in Nat
  BY <1>2, <1>3, PartFacts
<1>8. stale[r] > 0 => 1 \in S
  BY <1>2, <1>3, <1>4, StaleMeansOld
<1>9. 1 \in S => /\ SumOver(f, S) = SumOver(f, S \ {1}) + n
                 /\ SumOver(f, S \ {1}) \in Nat
  BY <1>3, PartFacts
<1>10. 1 \in S => stale[r] > 0
  BY <1>2, <1>3, <1>4, StaleMeansOld
<1>11. inflight[r] = SumOver(f, Active(r)) /\ stale[r] = SumOver(f, S)
  BY DEF Drain
<1>12. (S \ {1}) = Old(r)' \cap Active(r)' /\ (1 \notin S => S \ {1} = S)
  BY <1>3, <1>6
<1> HIDE DEF f, n, S
<1>13. inflight'[r] = SumOver(f, Active(r)')
  BY <1>3, <1>4, <1>5, <1>7, <1>11 DEF n
<1>14. stale'[r] = SumOver(f, S \ {1}) /\ (stale'[r] > 0 => stale[r] > 0)
  <2>1. CASE 1 \in S
    BY <1>4, <1>5, <1>9, <1>10, <1>11, <2>1 DEF n
  <2>2. CASE 1 \notin S
    BY <1>5, <1>8, <1>11, <1>12, <2>2
  <2> QED
    BY <2>1, <2>2
<1>15. Drain(r)'
  BY <1>6, <1>12, <1>13, <1>14 DEF Drain, f
<1> QED
  BY <1>2, <1>3, <1>4, <1>14, <1>15

\* Unless its output is dropped, the step that is processed is younger than any
\* other step that gave r to the worker: such a later one would make it stale.
LEMMA NoneReadmitted ==
    ASSUME PassInv, NEW r \in Req, Drain(r), Position(r), 1 \in Active(r),
           batches[1].tokens[r] > 0, ~(stale[r] > 0 /\ dropStale[r])
    PROVE  \A j \in Active(r) : j > 1 => batches[j].base[r] = 0
<1> SUFFICES ASSUME NEW j \in Active(r), j > 1, batches[j].base[r] # 0 PROVE FALSE
  OBVIOUS
<1>1. 1 \in DOMAIN batches /\ j \in DOMAIN batches
  BY DEF Active
<1>2. batches[j].base[r] > 0
  <2>1. batches[j].base[r] \in Nat
    BY <1>1, StepFacts
  <2> QED
    BY <2>1
<1>3. dropStale[r]
  BY <1>2 DEF Position
<1>4. 1 \in Old(r)
  BY <1>1, <1>2 DEF Old
<1>5. stale[r] > 0
  BY <1>4, StaleMeansOld
<1> QED
  BY <1>3, <1>5

\* The worker continues after the last token of r, if the step brings r or the
\* output of r still counts.
LEMMA WorkerInStep ==
    ASSUME PassInv, NEW r \in Req, Position(r), 1 \in Active(r), Head(batches) = batches[1],
           \A j \in Active(r) : 1 <= j, \A j \in Active(r) : j > 1 => batches[j].base[r] = 0,
           \/ batches[1].base[r] > 0
           \/ status[r] = "RUNNING" /\ r \notin admitted
           \/ stale[r] > 0 /\ ~dropStale[r]
    PROVE  WorkerStart(r) = NumTokens(r)
<1>1. 1 \in DOMAIN batches
  BY DEF Active
<1>2. batches[1].base[r] \in Nat
  BY <1>1, StepFacts
<1>3. CASE batches[1].base[r] > 0
  BY <1>3 DEF Position, WorkerStart
<1>4. CASE batches[1].base[r] = 0
  <2>1. Active(r) \subseteq Nat
    BY StepFacts DEF Active
  <2>2. \A j \in Active(r) : j = 1 \/ j > 1
    BY <2>1
  <2>3. \A j \in Active(r) : batches[j].base[r] = 0
    BY <1>4, <2>2
  <2>4. wpos[r] = NumTokens(r)
    BY <1>4, <2>3 DEF Position
  <2> QED
    BY <1>4, <2>4 DEF WorkerStart
<1> QED
  BY <1>2, <1>3, <1>4

\* A request with tokens in the step that is processed is known, or finished.
LEMMA ProcessedIsKnown ==
    ASSUME PassInv, QueueInv, StepShape, pc = "update", NEW r \in Req, r \in todo
    PROVE  r \in reqs \/ status[r] = "FINISHED"
<1>1. batches # <<>>
  BY DEF PassInv, UpdateHasStep
<1>2. 1 \in DOMAIN batches /\ Head(batches) = batches[1]
  BY <1>1, StepFacts, EmptySeq DEF PassInv, TypeOK, WorkerTypes
<1>3. batches[1].tokens[r] > 0
  BY <1>2 DEF StepShape
<1>4. status[r] # "NEW"
  BY <1>2, <1>3 DEF StepShape
<1> QED
  BY <1>4 DEF QueueInv, Known

\* UpdateDiscard: dropped output leaves the worker behind, but then r is given
\* to it again before anything of r counts.
LEMMA TokensDiscard ==
    ASSUME PassInv, QueueInv, StepShape, NEW r \in Req, Drain(r), Position(r),
           status[r] # "FINISHED", UpdateDiscard(r)
    PROVE  Drain(r)' /\ Position(r)'
<1>1. /\ pc = "update" /\ r \in todo /\ pc' = pc /\ todo' = todo \ {r}
      /\ UNCHANGED <<batches, admitted, status, dropStale, out>>
      /\ Discards(r) \/ r \notin Head(batches).samples
      /\ r \in reqs => Drained(r, Head(batches).tokens[r])
  BY DEF UpdateDiscard, queueVars, passVars
<1>2. r \in reqs
  BY <1>1, ProcessedIsKnown
<1>3. /\ Drain(r)'
      /\ 1 \in Active(r) /\ Active(r) = DOMAIN batches /\ Active(r)' = Active(r) \ {1}
      /\ Head(batches) = batches[1] /\ batches[1].tokens[r] > 0
      /\ \A j \in Active(r) : 1 <= j
      /\ stale'[r] > 0 => stale[r] > 0
  BY <1>1, <1>2, Processed
<1>4. NumTokens(r)' = NumTokens(r)
  BY <1>1 DEF NumTokens
<1>5. Active(r) \subseteq Nat /\ \A j \in Active(r)' : j \in Active(r) /\ j > 1
  BY <1>3, StepFacts
<1>6. \A i \in Active(r)' : (\A j \in Active(r)' : j > i => batches[j].base[r] = 0)
          => \A j \in Active(r) : j > i => batches[j].base[r] = 0
  BY <1>3, <1>5
<1>7. ASSUME \A i \in Active(r)' : batches[i].base[r] = 0,
             \/ status[r] = "RUNNING" /\ r \notin admitted
             \/ stale'[r] > 0 /\ ~dropStale[r]
      PROVE  wpos'[r] = NumTokens(r)
  <2>1. \A j \in Active(r) : j > 1 => batches[j].base[r] = 0
    BY <1>3, <1>5, <1>7
  <2>2. ~(stale[r] > 0 /\ dropStale[r])
    <3> SUFFICES ASSUME stale[r] > 0, dropStale[r] PROVE FALSE
      OBVIOUS
    <3>1. status[r] = "RUNNING" /\ r \notin admitted
      BY <1>7
    <3>2. 1 \in Old(r)
      BY <1>3, StaleMeansOld
    <3>3. PICK j \in DOMAIN batches : j > 1 /\ batches[j].base[r] > 0
      BY <3>1, <3>2 DEF Old
    <3> QED
      BY <1>3, <2>1, <3>3
  <2>3. r \notin Head(batches).samples
    BY <1>1, <1>2, <2>2 DEF Discards, IsFinished, StaleShare
  <2>4. \/ status[r] = "RUNNING" /\ r \notin admitted
        \/ stale[r] > 0 /\ ~dropStale[r]
    BY <1>3, <1>7
  <2>5. WorkerStart(r) = NumTokens(r)
    BY <1>3, <2>1, <2>4, WorkerInStep
  <2>6. wpos'[r] = WorkerStart(r) + 0
    BY <2>3 DEF UpdateDiscard, PassInv, TypeOK, WorkerTypes
  <2> QED
    BY <2>5, <2>6, NumTokensType DEF PassInv
<1>8. Position(r)'
  BY <1>1, <1>3, <1>4, <1>5, <1>6, <1>7 DEF Position
<1> QED
  BY <1>3, <1>8

\* UpdateDeliver: the tokens that are delivered follow the ones r has, and if r
\* goes on the worker has seen exactly those.
LEMMA TokensDeliver ==
    ASSUME PassInv, QueueInv, StepShape, NEW r \in Req, Drain(r), Position(r), UpdateDeliver(r)
    PROVE  /\ WorkerStart(r) = NumTokens(r)
           /\ status'[r] # "FINISHED" => Drain(r)' /\ Position(r)'
<1>1. /\ pc = "update" /\ r \in todo /\ pc' = pc /\ todo' = todo \ {r}
      /\ UNCHANGED <<batches, admitted, dropStale>>
      /\ Drained(r, Head(batches).tokens[r]) /\ status[r] # "FINISHED"
      /\ ~(stale[r] > 0 /\ dropStale[r])
  BY DEF UpdateDeliver, Discards, IsFinished, StaleShare, passVars
<1>2. r \notin admitted
  BY <1>1 DEF QueueInv, OnlyInPass
<1>3. batches # <<>>
  BY <1>1 DEF PassInv, UpdateHasStep
<1>4. /\ 1 \in DOMAIN batches /\ Head(batches) = batches[1] /\ Active(r) = DOMAIN batches
      /\ batches[1].tokens[r] > 0 /\ \A j \in Active(r) : 1 <= j
  <2>1. 1 \in DOMAIN batches /\ Head(batches) = batches[1] /\ \A j \in DOMAIN batches : 1 <= j
    BY <1>3, StepFacts, EmptySeq DEF PassInv, TypeOK, WorkerTypes
  <2> QED
    BY <1>1, <2>1 DEF Active, StepShape
<1>5. \A j \in Active(r) : j > 1 => batches[j].base[r] = 0
  BY <1>1, <1>4, NoneReadmitted
<1>6. status[r] = "RUNNING" \/ (stale[r] > 0 /\ ~dropStale[r])
  <2>1. status[r] # "RUNNING" => 1 \in Old(r)
    BY <1>4 DEF Old
  <2>2. 1 \in Old(r) => stale[r] > 0
    BY <1>4, StaleMeansOld
  <2> QED
    BY <1>1, <2>1, <2>2
<1>7. WorkerStart(r) = NumTokens(r)
  BY <1>2, <1>4, <1>5, <1>6, WorkerInStep
<1>8. ASSUME status'[r] # "FINISHED" PROVE Drain(r)' /\ Position(r)'
  <2>1. PICK accepted \in 0 .. Head(batches).spec[r] :
           LET limit == MinOf(1 + accepted, RoomFor(r))
           IN /\ wpos' = [wpos EXCEPT ![r] = WorkerStart(r) + 1 + accepted]
              /\ \E k \in 1 .. limit, stopped \in BOOLEAN :
                    /\ k < limit \/ k = RoomFor(r) => stopped
                    /\ out' = [out EXCEPT ![r] = @ \o [i \in 1 .. k |-> WorkerStart(r) + i]]
                    /\ IF stopped THEN Dequeue(r) ELSE UNCHANGED queueVars
    BY DEF UpdateDeliver
  <2> DEFINE limit == MinOf(1 + accepted, RoomFor(r))
  <2>2. PICK k \in 1 .. limit, stopped \in BOOLEAN :
           /\ k < limit \/ k = RoomFor(r) => stopped
           /\ out' = [out EXCEPT ![r] = @ \o [i \in 1 .. k |-> WorkerStart(r) + i]]
           /\ IF stopped THEN Dequeue(r) ELSE UNCHANGED queueVars
    BY <2>1
  <2>3. ~stopped
    BY <1>8, <2>2, DequeueFacts
  <2>4. status' = status
    BY <2>2, <2>3 DEF queueVars
  <2>5. /\ Drain(r)' /\ Active(r)' = Active(r) \ {1} /\ (stale'[r] > 0 => stale[r] > 0)
    BY <1>1, <2>4, Processed
  <2>6. accepted \in Nat /\ RoomFor(r) \in Int /\ Len(out[r]) \in Nat /\ out[r] \in Seq(Nat)
        /\ NumTokens(r) \in Nat /\ PromptLen[r] \in Nat /\ wpos \in [Req -> Nat]
        /\ out \in [Req -> Seq(Nat)]
    <3>1. Len(out[r]) \in Nat /\ out[r] \in Seq(Nat) /\ wpos \in [Req -> Nat]
          /\ out \in [Req -> Seq(Nat)]
      BY LenProperties DEF PassInv, TypeOK, TokenTypes, WorkerTypes
    <3>2. NumTokens(r) \in Nat
      BY NumTokensType DEF PassInv
    <3>3. MaxTokens[r] - Len(out[r]) \in Int /\ MaxModelLen - NumTokens(r) \in Int
      BY <3>1, <3>2, Constants
    <3>4. RoomFor(r) \in Int
      BY <3>3 DEF RoomFor, MinOf
    <3>5. PromptLen[r] \in Nat /\ accepted \in Nat
      BY Constants
    <3> QED
      BY <3>1, <3>2, <3>4, <3>5
  <2>7. k = 1 + accepted /\ k \in Nat
    BY <2>2, <2>3, <2>6 DEF MinOf
  <2>8. Len(out'[r]) = Len(out[r]) + k
    <3> DEFINE more == [i \in 1 .. k |-> WorkerStart(r) + i]
    <3>1. more \in Seq(Nat) /\ Len(more) = k
      BY <1>7, <2>6, <2>7
    <3> HIDE DEF more
    <3>2. out'[r] = out[r] \o more
      BY <2>2, <2>6 DEF more
    <3> QED
      BY <2>6, <3>1, <3>2, ConcatProperties
  <2>9. NumTokens(r)' = NumTokens(r) + k
    <3>1. NumTokens(r) = PromptLen[r] + Len(out[r]) /\ NumTokens(r)' = PromptLen[r] + Len(out'[r])
      BY DEF NumTokens
    <3>2. PromptLen[r] \in Nat /\ Len(out[r]) \in Nat /\ k \in Nat
      BY <2>6, <2>7
    <3> QED
      BY <2>8, <3>1, <3>2
  <2>10. wpos'[r] = NumTokens(r)'
    <3>1. wpos'[r] = NumTokens(r) + 1 + accepted
      BY <1>7, <2>1, <2>6
    <3> QED
      BY <2>6, <2>7, <2>9, <3>1
  <2>11. \A j \in Active(r)' : j \in Active(r) /\ batches[j].base[r] = 0
    <3>1. \A j \in Active(r)' : j \in Active(r) /\ j > 1
      BY <1>4, <2>5, StepFacts
    <3> QED
      BY <1>5, <3>1
  <2>12. Position(r)'
    <3>1. \A j \in Active(r)' : ~(batches'[j].base[r] > 0)
      BY <1>1, <2>11
    <3> QED
      BY <2>10, <3>1 DEF Position
  <2> QED
    BY <2>5, <2>12
<1> QED
  BY <1>7, <1>8

\* UpdateFinish drops the first step, which is drained; the others move up.
LEMMA StepsEnded ==
    ASSUME PassInv, NEW r \in Req, UpdateFinish, NEW n, n = Len(batches)
    PROVE  /\ n \in Nat /\ n > 0 /\ DOMAIN batches = 1 .. n /\ DOMAIN batches' = 1 .. n - 1
           /\ \A i \in 1 .. n - 1 : batches'[i] = batches[i + 1] /\ i \in 1 .. n /\ i + 1 \in 1 .. n
           /\ Active(r) = (1 .. n) \ {1} /\ Active(r)' = 1 .. n - 1
           /\ \A i \in 1 .. n - 1 : i \in Old(r)' <=> i + 1 \in Old(r)
<1>1. /\ pc = "update" /\ todo = {} /\ pc' = "idle" /\ batches' = Tail(batches)
      /\ UNCHANGED <<status, admitted>>
  BY DEF UpdateFinish, queueVars, passVars
<1>2. batches # <<>> /\ batches \in Seq(Batch)
  BY <1>1 DEF PassInv, UpdateHasStep, TypeOK, WorkerTypes
<1>3. /\ n \in Nat /\ n > 0 /\ DOMAIN batches = 1 .. n /\ DOMAIN batches' = 1 .. n - 1
      /\ \A i \in 1 .. n - 1 : batches'[i] = batches[i + 1] /\ i \in 1 .. n /\ i + 1 \in 1 .. n
  <2>1. n \in Nat /\ n # 0 /\ DOMAIN batches = 1 .. n
    BY <1>2, StepFacts, EmptySeq
  <2>2. DOMAIN batches' = 1 .. n - 1 /\ \A i \in 1 .. n - 1 : batches'[i] = batches[i + 1]
    BY <1>1, <1>2, <2>1
  <2> QED
    BY <2>1, <2>2
<1>4. Active(r) = (1 .. n) \ {1} /\ Active(r)' = 1 .. n - 1
  BY <1>1, <1>3 DEF Active
<1>6. \A i \in 1 .. n - 1 : i \in Old(r)' <=> i + 1 \in Old(r)
  <2> SUFFICES ASSUME NEW i \in 1 .. n - 1
               PROVE  (\E j \in 1 .. n - 1 : j > i /\ batches'[j].base[r] > 0)
                         <=> \E j \in 1 .. n : j > i + 1 /\ batches[j].base[r] > 0
    BY <1>1, <1>3 DEF Old
  <2>1. ASSUME NEW j \in 1 .. n - 1, j > i, batches'[j].base[r] > 0
        PROVE  \E k \in 1 .. n : k > i + 1 /\ batches[k].base[r] > 0
    <3>1. j + 1 \in 1 .. n /\ j + 1 > i + 1 /\ batches[j + 1].base[r] > 0
      BY <1>3, <2>1
    <3> QED
      BY <3>1
  <2>2. ASSUME NEW j \in 1 .. n, j > i + 1, batches[j].base[r] > 0
        PROVE  \E k \in 1 .. n - 1 : k > i /\ batches'[k].base[r] > 0
    <3>1. j - 1 \in 1 .. n - 1 /\ j - 1 > i /\ (j - 1) + 1 = j
      BY <1>3, <2>2
    <3>2. batches'[j - 1] = batches[j]
      BY <1>3, <3>1
    <3> QED
      BY <2>2, <3>1, <3>2
  <2> QED
    BY <2>1, <2>2
<1> QED
  BY <1>3, <1>4, <1>6

\* UpdateFinish: what is in flight of r is the steps that move up.
LEMMA TokensEnd ==
    ASSUME PassInv, NEW r \in Req, Drain(r), Position(r), UpdateFinish
    PROVE  Drain(r)' /\ Position(r)'
<1> DEFINE n == Len(batches)
<1>1. UNCHANGED <<status, admitted, inflight, stale, dropStale, out, wpos>>
  BY DEF UpdateFinish, queueVars, passVars
<1> HIDE DEF n
<1>2. /\ n \in Nat /\ n > 0 /\ DOMAIN batches = 1 .. n /\ DOMAIN batches' = 1 .. n - 1
      /\ \A i \in 1 .. n - 1 : batches'[i] = batches[i + 1] /\ i \in 1 .. n /\ i + 1 \in 1 .. n
  BY StepsEnded DEF n
<1>3. Active(r) = (1 .. n) \ {1} /\ Active(r)' = 1 .. n - 1
  BY StepsEnded DEF n
<1>4. NumTokens(r)' = NumTokens(r)
  BY <1>1 DEF NumTokens
<1>5. \A i \in 1 .. n - 1 : i \in Old(r)' <=> i + 1 \in Old(r)
  BY StepsEnded DEF n
<1> DEFINE f == StepTokens(r)
           g == StepTokens(r)'
<1>6. \A i \in Active(r) : i \in Nat /\ i - 1 \in 1 .. n - 1 /\ g[i - 1] = f[i] /\ f[i] \in Nat
  <2> SUFFICES ASSUME NEW i \in (1 .. n) \ {1}
               PROVE  i \in Nat /\ i - 1 \in 1 .. n - 1 /\ g[i - 1] = f[i] /\ f[i] \in Nat
    BY <1>3
  <2>1. i \in Nat /\ i - 1 \in 1 .. n - 1 /\ (i - 1) + 1 = i /\ i \in 1 .. n
    BY <1>2
  <2>2. g[i - 1] = batches'[i - 1].tokens[r] /\ f[i] = batches[i].tokens[r]
    BY <1>2, <2>1 DEF StepTokens
  <2>3. f[i] \in Nat
    BY <1>2, <2>1, <2>2, StepFacts
  <2> QED
    BY <1>2, <2>1, <2>2, <2>3
<1> HIDE DEF f, g
<1>7. \A S \in SUBSET Active(r) : SumOver(g, {i - 1 : i \in S}) = SumOver(f, S)
  <2> SUFFICES ASSUME NEW S \in SUBSET Active(r) PROVE SumOver(g, {i - 1 : i \in S}) = SumOver(f, S)
    OBVIOUS
  <2>1. S \in SUBSET Nat /\ \A i \in S : g[i - 1] = f[i] /\ f[i] \in Nat
    BY <1>6
  <2>2. IsFiniteSet(S)
    <3>1. S \in SUBSET DOMAIN batches
      BY <1>2, <1>3
    <3> QED
      BY <3>1, PartFacts
  <2> QED
    BY <2>1, <2>2, SumShift
<1>8. {i - 1 : i \in Active(r)} = Active(r)'
  <2>1. ASSUME NEW i \in 1 .. n - 1 PROVE i \in {j - 1 : j \in (1 .. n) \ {1}}
    <3>1. i + 1 \in (1 .. n) \ {1} /\ i = (i + 1) - 1
      BY <1>2
    <3> QED
      BY <3>1
  <2> QED
    BY <1>3, <1>6, <2>1
<1>9. {i - 1 : i \in Old(r) \cap Active(r)} = Old(r)' \cap Active(r)'
  <2>1. ASSUME NEW i \in Old(r) \cap Active(r) PROVE i - 1 \in Old(r)' \cap Active(r)'
    <3>1. i - 1 \in 1 .. n - 1 /\ (i - 1) + 1 = i
      BY <1>6
    <3> QED
      BY <1>3, <1>5, <2>1, <3>1
  <2>2. ASSUME NEW i \in Old(r)' \cap Active(r)' PROVE i \in {j - 1 : j \in Old(r) \cap Active(r)}
    <3>1. i \in 1 .. n - 1 /\ i + 1 \in Old(r)
      BY <1>3, <1>5, <2>2
    <3>2. i + 1 \in Active(r) /\ i = (i + 1) - 1
      BY <1>2, <1>3, <3>1
    <3> QED
      BY <3>1, <3>2
  <2> QED
    BY <2>1, <2>2
<1>10. Drain(r)'
  <2>1. inflight'[r] = SumOver(g, Active(r)')
    BY <1>1, <1>7, <1>8 DEF Drain, f
  <2>2. stale'[r] = SumOver(g, Old(r)' \cap Active(r)')
    <3>1. stale[r] = SumOver(f, Old(r) \cap Active(r)) /\ Old(r) \cap Active(r) \in SUBSET Active(r)
      BY DEF Drain, f
    <3> QED
      BY <1>1, <1>7, <1>9, <3>1
  <2> QED
    BY <1>1, <2>1, <2>2 DEF Drain, g
<1>11. \A i \in Active(r)' : /\ i + 1 \in Active(r) /\ batches'[i] = batches[i + 1] /\ i \in Nat
  BY <1>2, <1>3
<1>12. \A i \in Active(r) : /\ i - 1 \in Active(r)' /\ batches'[i - 1] = batches[i] /\ i \in Nat
  <2> SUFFICES ASSUME NEW i \in Active(r)
               PROVE  i - 1 \in Active(r)' /\ batches'[i - 1] = batches[i] /\ i \in Nat
    OBVIOUS
  <2>1. i \in Nat /\ i - 1 \in 1 .. n - 1 /\ (i - 1) + 1 = i
    BY <1>6
  <2> QED
    BY <1>2, <1>3, <2>1
<1>13. ASSUME NEW i \in Active(r)', batches'[i].base[r] > 0,
              \A j \in Active(r)' : j > i => batches'[j].base[r] = 0
       PROVE  batches'[i].base[r] = NumTokens(r)'
  <2>1. i + 1 \in Active(r) /\ batches'[i] = batches[i + 1] /\ i \in Nat
    BY <1>11
  <2>2. ASSUME NEW j \in Active(r), j > i + 1 PROVE batches[j].base[r] = 0
    <3>1. j - 1 \in Active(r)' /\ batches'[j - 1] = batches[j] /\ j \in Nat
      BY <1>12
    <3>2. j - 1 > i
      BY <2>1, <2>2, <3>1
    <3> QED
      BY <1>13, <3>1, <3>2
  <2> QED
    BY <1>4, <1>13, <2>1, <2>2 DEF Position
<1>14. ASSUME NEW i \in Active(r)', NEW j \in Active(r)', i < j, batches'[i].tokens[r] > 0,
              batches'[j].base[r] > 0
       PROVE  dropStale[r]
  <2>1. /\ i + 1 \in Active(r) /\ batches'[i] = batches[i + 1] /\ i \in Nat
        /\ j + 1 \in Active(r) /\ batches'[j] = batches[j + 1] /\ j \in Nat
    BY <1>11
  <2>2. i + 1 < j + 1
    BY <1>14, <2>1
  <2> QED
    BY <1>14, <2>1, <2>2 DEF Position
<1>15. (\A i \in Active(r)' : batches'[i].base[r] = 0) => \A i \in Active(r) : batches[i].base[r] = 0
  BY <1>12
<1>16. Position(r)'
  <2>1. /\ \A i \in Active(r)' : batches'[i].base[r] = 0
        /\ \/ status[r] = "RUNNING" /\ r \notin admitted
           \/ stale[r] > 0 /\ ~dropStale[r]
        => wpos[r] = NumTokens(r)
    BY <1>15 DEF Position
  <2>2. /\ \A i \in Active(r)' : batches'[i].base[r] = 0
        /\ \/ status'[r] = "RUNNING" /\ r \notin admitted'
           \/ stale'[r] > 0 /\ ~dropStale'[r]
        => wpos'[r] = NumTokens(r)'
    BY <1>1, <1>4, <2>1
  <2>3. \A i, j \in Active(r)' : i < j /\ batches'[i].tokens[r] > 0 /\ batches'[j].base[r] > 0
                                 => dropStale'[r]
    BY <1>1, <1>14
  <2> QED
    BY <1>13, <2>2, <2>3 DEF Position
<1> QED
  BY <1>10, <1>16

\* ScheduleFinish: the new step has the shape of a step.
LEMMA ShapeHandedOut ==
    ASSUME PassInv, StepShape, ScheduleFinish
    PROVE  StepShape'
<1>1. PICK b : /\ batches' = Append(batches, b) /\ b.tokens = sched
               /\ b.samples = {q \in Scheduled : ~ChunkAfter(q)}
               /\ b.base = [q \in Req |-> IF q \in admitted /\ q \in Scheduled THEN NumTokens(q) ELSE 0]
  BY StepHandedOut
<1>2. status' = status /\ pc' = "idle"
  BY DEF ScheduleFinish
<1>3. /\ DOMAIN batches' = DOMAIN batches \cup {Len(batches) + 1}
      /\ \A i \in DOMAIN batches : batches'[i] = batches[i]
      /\ batches'[Len(batches) + 1] = b
  <2>1. Len(batches) \in Nat /\ DOMAIN batches = 1 .. Len(batches) /\ batches \in Seq(Batch)
    BY StepFacts DEF PassInv, TypeOK, WorkerTypes
  <2> QED
    BY <1>1, <2>1
<1>4. ASSUME NEW q \in Req
      PROVE  /\ b.base[q] > 0 => b.tokens[q] > 0
             /\ q \in b.samples => b.tokens[q] > 0
             /\ status'[q] = "NEW" => b.tokens[q] = 0
  <2>1. sched[q] \in Nat /\ (q \in Scheduled <=> sched[q] > 0)
    BY DEF PassInv, TypeOK, PassTypes, Scheduled
  <2>2. status[q] = "NEW" => ~(sched[q] > 0)
    BY DEF PassInv, OnlyRunningScheduled
  <2>3. b.base[q] > 0 => q \in Scheduled
    BY <1>1
  <2> QED
    BY <1>1, <1>2, <2>1, <2>2, <2>3
<1>5. \A i \in DOMAIN batches' : \A q \in Req :
          /\ batches'[i].base[q] > 0 => batches'[i].tokens[q] > 0
          /\ q \in batches'[i].samples => batches'[i].tokens[q] > 0
          /\ status'[q] = "NEW" => batches'[i].tokens[q] = 0
  BY <1>2, <1>3, <1>4 DEF StepShape
<1> QED
  BY <1>2, <1>5 DEF StepShape

\* The other actions leave the steps in flight as they are, or drop the first.
LEMMA ShapeStep == PassInv /\ StepShape /\ [Next]_vars => StepShape'
<1> SUFFICES ASSUME PassInv, StepShape, Next \/ UNCHANGED vars PROVE StepShape'
  OBVIOUS
<1> USE DEF queueVars, workerVars
<1>0. status \in [Req -> Statuses]
  BY DEF PassInv, TypeOK, QueueTypes
<1>1. ASSUME batches' = batches, \A r \in Req : status'[r] = "NEW" => status[r] = "NEW",
             pc' = "update" => pc = "update" /\ todo' \subseteq todo
      PROVE  StepShape'
  BY <1>1 DEF StepShape, PassInv, TypeOK, WorkerTypes
<1>2. CASE ScheduleStart \/ RunningSkip \/ RunningSchedule \/ RunningEnd \/ WaitingEnd
  BY <1>1, <1>2 DEF ScheduleStart, RunningSkip, RunningSchedule, RunningEnd, WaitingEnd,
         InRunningLoop
<1>3. ASSUME NEW v \in Req, RunningPreempt(v) PROVE StepShape'
  BY <1>0, <1>1, <1>3 DEF RunningPreempt, InRunningLoop, Preempt
<1>4. ASSUME NEW r \in Req, WaitingSkip(r) \/ WaitingBlocked(r) PROVE StepShape'
  BY <1>1, <1>4 DEF WaitingSkip, WaitingBlocked, Considers, InWaitingLoop
<1>5. ASSUME NEW r \in Req, WaitingPromote(r) \/ WaitingAdmit(r) \/ WaitingLoadRemote(r)
      PROVE  StepShape'
  BY <1>0, <1>1, <1>5 DEF WaitingPromote, WaitingAdmit, WaitingLoadRemote, Considers, InWaitingLoop
<1>6. CASE UpdateStart
  <2>1. /\ batches' = batches /\ status' = status
        /\ todo' = {r \in Req : Head(batches).tokens[r] > 0}
    BY <1>6 DEF UpdateStart
  <2> QED
    BY <2>1 DEF StepShape
<1>7. ASSUME NEW r \in Req, UpdateDiscard(r) PROVE StepShape'
  BY <1>1, <1>7 DEF UpdateDiscard
<1>8. ASSUME NEW r \in Req, UpdateDeliver(r) PROVE StepShape'
  <2>1. UNCHANGED status \/ status' = [status EXCEPT ![r] = "FINISHED"]
    BY <1>8 DEF UpdateDeliver, Dequeue
  <2>2. batches' = batches /\ todo' = todo \ {r} /\ pc = "update"
    BY <1>8 DEF UpdateDeliver
  <2> QED
    BY <1>0, <1>1, <2>1, <2>2
<1>9. CASE UpdateFinish
  <2>1. batches' = Tail(batches) /\ status' = status /\ pc' = "idle"
    BY <1>9 DEF UpdateFinish
  <2>2. batches # <<>> /\ batches \in Seq(Batch)
    BY <1>9 DEF UpdateFinish, PassInv, UpdateHasStep, TypeOK, WorkerTypes
  <2>3. \A i \in DOMAIN batches' : i + 1 \in DOMAIN batches /\ batches'[i] = batches[i + 1]
    BY <2>1, <2>2
  <2> QED
    BY <2>1, <2>3 DEF StepShape
<1>10. ASSUME NEW r \in Req, KVXferFinished(r) PROVE StepShape'
  BY <1>1, <1>10 DEF KVXferFinished
<1>11. ASSUME NEW r \in Req, AddRequest(r) \/ AbortRequest(r) PROVE StepShape'
  BY <1>0, <1>1, <1>11 DEF AddRequest, AbortRequest, Dequeue
<1>12. CASE ResetPreempt
  <2>1. Preempt(running[Len(running)], TRUE) /\ pc' = pc /\ pc = "reset"
    BY <1>12 DEF ResetPreempt
  <2> QED
    BY <1>0, <1>1, <2>1 DEF Preempt
<1>13. CASE ResetStart \/ ResetEnd \/ Quiescent \/ UNCHANGED vars
  BY <1>1, <1>13 DEF ResetStart, ResetEnd, Quiescent, vars
<1> QED
  BY <1>2, <1>3, <1>4, <1>5, <1>6, <1>7, <1>8, <1>9, <1>10, <1>11, <1>12, <1>13, ShapeHandedOut
  DEF Next, ScheduleStep, UpdateStep

\* Every action keeps the counters of every unfinished request, and what the
\* worker has seen of it.
LEMMA RequestStep ==
    ASSUME PassInv, QueueInv, RowInv, TokenInv, [Next]_vars, NEW r \in Req, status'[r] # "FINISHED"
    PROVE  Drain(r)' /\ Position(r)'
<1> USE DEF queueVars, tokenVars, passVars, workerVars
<1>0. /\ status \in [Req -> Statuses] /\ StepShape
      /\ computed \in [Req -> Int] /\ out \in [Req -> Seq(Nat)] /\ inflight \in [Req -> Int]
      /\ stale \in [Req -> Int] /\ dropStale \in [Req -> BOOLEAN] /\ wpos \in [Req -> Nat]
      /\ pc \notin {"waiting", "finish"} => admitted = {}
      /\ \A q \in admitted : status[q] = "RUNNING"
  BY DEF PassInv, TypeOK, QueueTypes, TokenTypes, WorkerTypes, QueueInv, OnlyInPass, RowInv,
         TokenInv, RunningQueue
<1>1. status[r] # "FINISHED" => Drain(r) /\ Position(r)
  BY DEF TokenInv
<1>2. ASSUME Drain(r), Position(r), batches' = batches, Active(r)' = Active(r),
             inflight'[r] = inflight[r], stale'[r] = stale[r], dropStale'[r] = dropStale[r],
             out'[r] = out[r], wpos'[r] = wpos[r],
             status'[r] = "RUNNING" <=> status[r] = "RUNNING", r \in admitted' <=> r \in admitted
      PROVE  Drain(r)' /\ Position(r)'
  BY <1>2, TokensKept
<1>3. ASSUME batches' = batches, pc' = "update" <=> pc = "update", UNCHANGED todo,
             UNCHANGED <<inflight, stale, dropStale, out, wpos>>, status'[r] = status[r],
             r \in admitted' <=> r \in admitted
      PROVE  Drain(r)' /\ Position(r)'
  <2>1. Active(r)' = Active(r)
    BY <1>3, ActiveKept
  <2> QED
    BY <1>1, <1>2, <1>3, <2>1
<1>4. ASSUME NEW q \in Req, status[q] \notin {"RUNNING", "FINISHED"},
             \E s \in Statuses \ {"RUNNING", "FINISHED"} : status' = [status EXCEPT ![q] = s],
             UNCHANGED <<batches, pc, todo, inflight, stale, dropStale, out, wpos, admitted>>
      PROVE  Drain(r)' /\ Position(r)'
  <2>1. Active(r)' = Active(r)
    BY <1>4, ActiveKept
  <2>2. status[r] # "FINISHED" /\ (status'[r] = "RUNNING" <=> status[r] = "RUNNING")
    BY <1>0, <1>4
  <2> QED
    BY <1>1, <1>2, <1>4, <2>1, <2>2
<1>5. ASSUME NEW v \in Req, v \in Elems(running), NEW drop \in BOOLEAN, Preempt(v, drop),
             admitted' = admitted, admitted = {}, pc' = "update" <=> pc = "update"
      PROVE  Drain(r)' /\ Position(r)'
  <2>1. status[v] = "RUNNING"
    BY <1>5 DEF PassInv, RunningQueue
  <2>2. CASE r = v
    BY <1>1, <1>5, <2>1, <2>2, TokensPreempt
  <2>3. CASE r # v
    <3>1. /\ status'[r] = status[r] /\ dropStale'[r] = dropStale[r] /\ stale'[r] = stale[r]
          /\ UNCHANGED <<out, inflight, todo, batches, wpos>>
      BY <1>0, <1>5, <2>3 DEF Preempt
    <3>2. Active(r)' = Active(r)
      BY <1>5, <3>1, ActiveKept
    <3> QED
      BY <1>1, <1>2, <1>5, <3>1, <3>2
  <2> QED
    BY <2>2, <2>3
<1>6. CASE ScheduleStart
  BY <1>0, <1>3, <1>6 DEF ScheduleStart
<1>7. CASE RunningSkip \/ RunningSchedule \/ RunningEnd \/ WaitingEnd
  BY <1>3, <1>7 DEF RunningSkip, RunningSchedule, RunningEnd, WaitingEnd, InRunningLoop
<1>8. ASSUME NEW v \in Req, RunningPreempt(v) PROVE Drain(r)' /\ Position(r)'
  <2>1. running # <<>> /\ pc = "running"
    BY <1>8 DEF RunningPreempt, InRunningLoop, PassInv, TypeOK, PassTypes
  <2>2. v \in Elems(running)
    BY <1>8, <2>1, VictimRuns DEF RunningPreempt
  <2>3. RequiresKVDelivery \in BOOLEAN
    BY ConstantsAssumption DEF ConstantsAssumption
  <2>4. /\ Preempt(v, RequiresKVDelivery) /\ admitted' = admitted
        /\ pc' = "waiting" \/ pc' = pc
    BY <1>8 DEF RunningPreempt
  <2>5. admitted = {} /\ (pc' = "update" <=> pc = "update")
    BY <1>0, <2>1, <2>4
  <2> QED
    BY <1>5, <2>2, <2>3, <2>4, <2>5
<1>9. CASE ResetPreempt
  <2>1. running[Len(running)] \in Elems(running) /\ running[Len(running)] \in Req
    BY <1>9, VictimRuns DEF ResetPreempt
  <2> QED
    BY <1>0, <1>5, <1>9, <2>1 DEF ResetPreempt
<1>10. ASSUME NEW q \in Req, WaitingSkip(q) \/ WaitingBlocked(q) PROVE Drain(r)' /\ Position(r)'
  BY <1>3, <1>10 DEF WaitingSkip, WaitingBlocked, Considers, InWaitingLoop
<1>11. ASSUME NEW q \in Req, WaitingPromote(q) \/ WaitingLoadRemote(q)
       PROVE  Drain(r)' /\ Position(r)'
  <2>1. /\ status[q] \notin {"RUNNING", "FINISHED"}
        /\ UNCHANGED <<batches, pc, todo, inflight, stale, dropStale, out, wpos, admitted>>
    BY <1>11 DEF WaitingPromote, WaitingLoadRemote, Schedulable
  <2>2. \E s \in {"PREEMPTED", "WAITING", "WAITING_FOR_REMOTE_KVS"} : status' = [status EXCEPT ![q] = s]
    BY <1>11 DEF WaitingPromote, WaitingLoadRemote
  <2> QED
    BY <1>4, <2>1, <2>2 DEF Statuses
<1>12. ASSUME NEW q \in Req, WaitingAdmit(q) PROVE Drain(r)' /\ Position(r)'
  <2>1. /\ status' = [status EXCEPT ![q] = "RUNNING"] /\ admitted' = admitted \cup {q}
        /\ status[q] \in {"WAITING", "PREEMPTED"}
        /\ UNCHANGED <<batches, pc, todo, inflight, stale, dropStale, out, wpos>>
    BY <1>12 DEF WaitingAdmit, Schedulable
  <2>2. CASE r = q
    BY <1>1, <1>12, <2>1, <2>2, TokensAdmit
  <2>3. CASE r # q
    BY <1>0, <1>3, <2>1, <2>3
  <2> QED
    BY <2>2, <2>3
<1>13. CASE ScheduleFinish
  BY <1>1, <1>13, TokensHandedOut DEF ScheduleFinish
<1>14. CASE UpdateStart
  BY <1>0, <1>1, <1>14, TokensBegin DEF UpdateStart
<1>15. ASSUME NEW q \in Req, UpdateDiscard(q) PROVE Drain(r)' /\ Position(r)'
  <2>1. /\ UNCHANGED <<batches, pc, status, admitted, dropStale, out>> /\ todo' = todo \ {q}
        /\ r # q => UNCHANGED <<inflight[r], stale[r], wpos[r]>>
    BY <1>0, <1>15 DEF UpdateDiscard, Drained
  <2>2. CASE r = q
    BY <1>0, <1>1, <1>15, <2>1, <2>2, TokensDiscard
  <2>3. CASE r # q
    <3>1. Active(r)' = Active(r)
      BY <2>1, <2>3, ActiveKept
    <3> QED
      BY <1>1, <1>2, <2>1, <2>3, <3>1
  <2> QED
    BY <2>2, <2>3
<1>16. ASSUME NEW q \in Req, UpdateDeliver(q) PROVE Drain(r)' /\ Position(r)'
  <2>1. UNCHANGED status \/ Dequeue(q)
    BY <1>16 DEF UpdateDeliver
  <2>2. status[r] # "FINISHED" /\ (r # q => status'[r] = status[r])
    BY <1>0, <2>1 DEF Dequeue
  <2>3. CASE r = q
    BY <1>0, <1>1, <1>16, <2>2, <2>3, TokensDeliver
  <2>4. CASE r # q
    <3>1. /\ UNCHANGED <<batches, pc, admitted, dropStale>> /\ todo' = todo \ {q}
          /\ UNCHANGED <<inflight[r], stale[r]>>
      BY <1>0, <1>16, <2>4 DEF UpdateDeliver, Drained
    <3>2. \E w : wpos' = [wpos EXCEPT ![q] = w]
      BY <1>16 DEF UpdateDeliver
    <3>3. \E w : out' = [out EXCEPT ![q] = w]
      BY <1>16 DEF UpdateDeliver
    <3>4. UNCHANGED <<out[r], wpos[r]>>
      BY <1>0, <2>4, <3>2, <3>3
    <3>5. Active(r)' = Active(r)
      BY <2>4, <3>1, ActiveKept
    <3> QED
      BY <1>1, <1>2, <2>2, <2>4, <3>1, <3>4, <3>5
  <2> QED
    BY <2>3, <2>4
<1>17. CASE UpdateFinish
  BY <1>1, <1>17, TokensEnd DEF UpdateFinish
<1>18. ASSUME NEW q \in Req, KVXferFinished(q) PROVE Drain(r)' /\ Position(r)'
  BY <1>3, <1>18 DEF KVXferFinished
<1>19. ASSUME NEW q \in Req, AddRequest(q) PROVE Drain(r)' /\ Position(r)'
  BY <1>4, <1>19 DEF AddRequest, Statuses
<1>20. ASSUME NEW q \in Req, AbortRequest(q) PROVE Drain(r)' /\ Position(r)'
  <2>1. status' = [status EXCEPT ![q] = "FINISHED"] /\ UNCHANGED <<tokenVars, pc, passVars, todo, workerVars>>
    BY <1>20 DEF AbortRequest, Dequeue
  <2>2. status'[r] = status[r]
    BY <1>0, <2>1
  <2> QED
    BY <1>3, <2>1, <2>2
<1>21. CASE ResetStart \/ ResetEnd \/ Quiescent \/ UNCHANGED vars
  BY <1>3, <1>21 DEF ResetStart, ResetEnd, Quiescent, vars
<1> QED
  BY <1>6, <1>7, <1>8, <1>9, <1>10, <1>11, <1>12, <1>13, <1>14, <1>15, <1>16, <1>17, <1>18, <1>19,
     <1>20, <1>21 DEF Next, ScheduleStep, UpdateStep

\* The counters name the steps in flight, and the worker's position follows, in
\* every reachable state.
THEOREM TokenInvariant == Spec => []TokenInv
<1>1. PassInv /\ QueueInv /\ RowInv /\ TokenInv /\ [Next]_vars => TokenInv'
  BY ShapeStep, RequestStep DEF TokenInv
<1> QED
  BY <1>1, TokenInit, PassInvariant, QueueInvariant, RowInvariant, PTL DEF Spec

\* Between two calls, the stale share of a request is exactly what it has in
\* flight from before its last preemption, whatever was preempted, resumed,
\* reset, loaded or aborted; if the request runs again, that share is dropped.
THEOREM StaleSharesExact == Spec => []StaleNamesOldSteps
<1>1. PassInv /\ QueueInv /\ TokenInv => StaleNamesOldSteps
  <2> SUFFICES ASSUME PassInv, QueueInv, TokenInv, pc = "idle", NEW r \in Unfinished
               PROVE  /\ inflight[r] = TokensIn(r, DOMAIN batches)
                      /\ stale[r] = TokensIn(r, StaleSteps(r))
                      /\ status[r] = "RUNNING" /\ stale[r] > 0 => dropStale[r]
    BY DEF StaleNamesOldSteps
  <2>1. r \in Req /\ status[r] # "FINISHED"
    BY DEF Unfinished, IsFinished, PassInv, TypeOK, QueueTypes
  <2>2. Drain(r)
    BY <2>1 DEF TokenInv
  <2>3. Active(r) = DOMAIN batches /\ Old(r) \cap Active(r) = StaleSteps(r)
    BY <2>1 DEF Active, Old, StaleSteps, QueueInv, OnlyInPass
  <2> QED
    BY <2>2, <2>3 DEF Drain, TokensIn, StepTokens
<1> QED
  BY <1>1, PassInvariant, QueueInvariant, TokenInvariant, PTL

\* Delivering output appends the tokens of the next positions: the worker
\* sampled them after the last token the client has seen.
LEMMA DeliverInOrder ==
    ASSUME PassInv, QueueInv, TokenInv, OutputInOrder, NEW q \in Req, UpdateDeliver(q)
    PROVE  OutputInOrder'
<1>1. status[q] # "FINISHED"
  BY DEF UpdateDeliver, Discards, IsFinished
<1>2. WorkerStart(q) = PromptLen[q] + Len(out[q])
  BY <1>1, TokensDeliver DEF TokenInv, NumTokens
<1>3. PICK k \in Nat : out' = [out EXCEPT ![q] = @ \o [i \in 1 .. k |-> WorkerStart(q) + i]]
  <2>1. PICK accepted \in 0 .. Head(batches).spec[q] :
            \E k \in 1 .. MinOf(1 + accepted, RoomFor(q)) :
                out' = [out EXCEPT ![q] = @ \o [i \in 1 .. k |-> WorkerStart(q) + i]]
    BY DEF UpdateDeliver
  <2>2. PICK k \in 1 .. MinOf(1 + accepted, RoomFor(q)) :
            out' = [out EXCEPT ![q] = @ \o [i \in 1 .. k |-> WorkerStart(q) + i]]
    BY <2>1
  <2>3. k \in Nat
    OBVIOUS
  <2> QED
    BY <2>2, <2>3
<1>4. out \in [Req -> Seq(Nat)] /\ PromptLen[q] \in Nat
  BY ConstantsAssumption DEF ConstantsAssumption, PassInv, TypeOK, TokenTypes
<1>5. \A i \in DOMAIN out'[q] : out'[q][i] = PromptLen[q] + i
  <2> DEFINE new == [i \in 1 .. k |-> WorkerStart(q) + i]
  <2>1. out'[q] = out[q] \o new
    BY <1>3, <1>4
  <2>2. new \in Seq(Nat) /\ Len(new) = k /\ Len(out[q]) \in Nat
    BY <1>2, <1>4
  <2>3. \A i \in 1 .. k : new[i] = PromptLen[q] + Len(out[q]) + i
    BY <1>2
  <2> HIDE DEF new
  <2>4. out[q] \in Seq(Nat) /\ \A i \in 1 .. Len(out[q]) : out[q][i] = PromptLen[q] + i
    BY <1>4 DEF OutputInOrder
  <2>5. ASSUME NEW i \in DOMAIN out'[q] PROVE out'[q][i] = PromptLen[q] + i
    <3>1. i \in 1 .. Len(out[q]) + k
      BY <2>1, <2>2, <2>4, <2>5
    <3>2. CASE i <= Len(out[q])
      BY <2>1, <2>2, <2>4, <3>1, <3>2
    <3>3. CASE i > Len(out[q])
      <4>1. out'[q][i] = new[i - Len(out[q])] /\ i - Len(out[q]) \in 1 .. k
        <5>1. \A a, b \in Seq(Nat) : \A j \in 1 .. Len(a) + Len(b) :
                  (a \o b)[j] = IF j <= Len(a) THEN a[j] ELSE b[j - Len(a)]
          OBVIOUS
        <5>2. i \in 1 .. Len(out[q]) + Len(new) /\ ~(i <= Len(out[q])) /\ i - Len(out[q]) \in 1 .. k
          <6> DEFINE n == Len(out[q])
          <6>1. n \in Nat /\ k \in Nat /\ i \in 1 .. n + k /\ i > n /\ Len(new) = k
            BY <1>3, <2>2, <3>1, <3>3
          <6> HIDE DEF n
          <6>2. i \in 1 .. n + Len(new) /\ ~(i <= n) /\ i - n \in 1 .. k
            BY <6>1
          <6> QED
            BY <6>2 DEF n
        <5> QED
          BY <2>1, <2>2, <2>4, <5>1, <5>2
      <4> QED
        BY <1>4, <2>2, <2>3, <3>1, <4>1
    <3> QED
      BY <2>2, <3>1, <3>2, <3>3
  <2> QED
    BY <2>5
<1>6. \A r \in Req : r # q => out'[r] = out[r]
  BY <1>3, <1>4
<1> QED
  BY <1>5, <1>6 DEF OutputInOrder

\* Only delivered output changes what a client has seen.
LEMMA OnlyDeliveryAppends ==
    ASSUME [Next]_vars
    PROVE  UNCHANGED out \/ \E q \in Req : UpdateDeliver(q)
<1> USE DEF tokenVars
<1>1. CASE ScheduleStep
  BY <1>1 DEF ScheduleStep, RunningSkip, RunningSchedule, RunningPreempt, Preempt,
     RunningEnd, WaitingSkip, WaitingPromote, WaitingAdmit, WaitingLoadRemote, WaitingBlocked,
     WaitingEnd, ScheduleFinish
<1>2. CASE UpdateStep
  BY <1>2 DEF UpdateStep, UpdateDiscard, UpdateFinish
<1>3. CASE ~ScheduleStep /\ ~UpdateStep
  BY <1>3 DEF Next, ScheduleStart, UpdateStart, KVXferFinished, AddRequest, AbortRequest, ResetStart, ResetPreempt, Preempt, ResetEnd,
     Quiescent, vars
<1> QED
  BY <1>1, <1>2, <1>3

\* Every request's output is the tokens of its positions, each once and in
\* order, in every reachable state: nothing a preemption, a reset, dropped or
\* late output does makes the client see a token twice or miss one.
THEOREM OutputsInOrder == Spec => []OutputInOrder
<1>1. Init => OutputInOrder
  BY DEF Init, OutputInOrder
<1>2. PassInv /\ QueueInv /\ TokenInv /\ OutputInOrder /\ [Next]_vars => OutputInOrder'
  BY OnlyDeliveryAppends, DeliverInOrder DEF OutputInOrder
<1> QED
  BY <1>1, <1>2, PassInvariant, QueueInvariant, TokenInvariant, PTL DEF Spec
-----------------------------------------------------------------------------
(* How far num_computed_tokens runs ahead of the tokens that are known.     *)

\* Guesses about tokens that are not known yet are taken back one by one if the
\* scheduler counts placeholders, if a step is processed before the next one, or
\* if there are no drafts.
GuessesTakenBack == AsyncScheduling \/ MaxBatches = 1 \/ NumSpec = 0

\* The tokens a step was scheduled as if it would deliver: the sampled one and
\* all of its drafts.
StepGuess(r) ==
    [i \in DOMAIN batches |-> IF r \in batches[i].samples THEN 1 + batches[i].spec[r] ELSE 0]

\* The steps whose output still moves the counters of r.
Fresh(r) == Active(r) \ Old(r)

Guess(r) == SumOver(StepGuess(r), Fresh(r))

\* The counters of r are ahead by the tokens of those steps: the placeholders
\* by all of them, num_computed_tokens by less than one more, and for a decode
\* by exactly that.
Tally(r) ==
    /\ placeholders[r] = IF AsyncScheduling THEN Guess(r) ELSE 0
    /\ Guess(r) <= computed[r]
    /\ status[r] = "RUNNING" => computed[r] < NumTokens(r) + Guess(r)
    /\ AsyncScheduling /\ status[r] = "RUNNING" /\ r \notin admitted /\ ~isPrefill[r]
          => computed[r] = NumTokens(r) - 1 + placeholders[r]
    /\ spec[r] \in 0 .. NumSpec

\* What this pass gave r stops short of its known tokens, or reaches past them
\* by exactly the drafts; it is more than the drafts alone.
Given(r) ==
    sched[r] > 0 =>
        /\ schedSpec[r] < sched[r]
        /\ \/ computed[r] + sched[r] < NumTokens(r) + placeholders[r]
           \/ computed[r] + sched[r] = NumTokens(r) + placeholders[r] + schedSpec[r]

CountInv == \A r \in Req : status[r] # "FINISHED" => Tally(r) /\ Given(r)

\* The types of the counters of a request.
LEMMA CounterTypes ==
    ASSUME PassInv, NEW r \in Req
    PROVE  /\ computed \in [Req -> Int] /\ placeholders \in [Req -> Int] /\ spec \in [Req -> Nat]
           /\ sched \in [Req -> Nat] /\ schedSpec \in [Req -> Nat] /\ out \in [Req -> Seq(Nat)]
           /\ isPrefill \in [Req -> BOOLEAN] /\ status \in [Req -> Statuses]
           /\ NumTokens(r) \in Nat /\ NumTokens(r) > 0 /\ NumSpec \in Nat
  BY NumTokensType, Constants DEF PassInv, TypeOK, TokenTypes, PassTypes, QueueTypes

\* What some of the steps are to deliver to r.
LEMMA GuessFacts ==
    ASSUME PassInv, NEW r \in Req, NEW S \in SUBSET DOMAIN batches
    PROVE  /\ SumOver(StepGuess(r), S) \in Nat
           /\ \A i \in S : /\ SumOver(StepGuess(r), S)
                                 = SumOver(StepGuess(r), S \ {i}) + StepGuess(r)[i]
                           /\ SumOver(StepGuess(r), S \ {i}) \in Nat
           /\ \A i \in S : StepGuess(r)[i] \in Nat
           /\ (\A i \in S : r \notin batches[i].samples) => SumOver(StepGuess(r), S) = 0
<1>1. /\ IsFiniteSet(S)
      /\ \A i \in S : StepGuess(r)[i] \in Nat
      /\ \A i \in S : r \notin batches[i].samples => StepGuess(r)[i] = 0
  BY StepFacts, FS_Subset DEF StepGuess
<1> HIDE DEF StepGuess
<1>2. SumOver(StepGuess(r), S) \in Nat
  BY <1>1, SumType
<1>3. ASSUME NEW i \in S
      PROVE  /\ SumOver(StepGuess(r), S) = SumOver(StepGuess(r), S \ {i}) + StepGuess(r)[i]
             /\ SumOver(StepGuess(r), S \ {i}) \in Nat
  BY <1>1, SumElement
<1>4. (\A i \in S : StepGuess(r)[i] = 0) => SumOver(StepGuess(r), S) = 0
  BY SumZero
<1> QED
  BY <1>1, <1>2, <1>3, <1>4

\* Nothing in flight is fresh of a request that does not run or that this pass
\* admitted.
LEMMA GuessNone ==
    ASSUME NEW r \in Req
    PROVE  /\ status[r] # "RUNNING" \/ r \in admitted => Guess(r) = 0 /\ Fresh(r) = {}
           /\ status'[r] # "RUNNING" \/ r \in admitted' => Guess(r)' = 0 /\ Fresh(r)' = {}
<1>1. status[r] # "RUNNING" \/ r \in admitted => Fresh(r) = {}
  BY DEF Fresh, Active, Old
<1>2. status'[r] # "RUNNING" \/ r \in admitted' => Fresh(r)' = {}
  BY DEF Fresh, Active, Old
<1>3. SumOver(StepGuess(r), {}) = 0 /\ SumOver(StepGuess(r)', {}) = 0
  BY SumZero
<1> QED
  BY <1>1, <1>2, <1>3 DEF Guess

\* The guess does not change while no step is handed out, begun or ended.
LEMMA GuessKept ==
    ASSUME NEW r \in Req, batches' = batches, Active(r)' = Active(r),
           status'[r] = "RUNNING" <=> status[r] = "RUNNING", r \in admitted' <=> r \in admitted
    PROVE  Guess(r)' = Guess(r)
<1>1. Old(r)' = Old(r) /\ StepGuess(r)' = StepGuess(r)
  BY DEF Old, StepGuess
<1> QED
  BY <1>1 DEF Guess, Fresh

\* The guess is a number.
LEMMA GuessType ==
    ASSUME PassInv, NEW r \in Req
    PROVE  Guess(r) \in Nat /\ Fresh(r) \in SUBSET DOMAIN batches
<1>1. Fresh(r) \in SUBSET DOMAIN batches
  BY DEF Fresh, Active
<1> QED
  BY <1>1, GuessFacts DEF Guess

\* Steps that leave the counters of r alone, and what this pass gave it.
LEMMA CountsKept ==
    ASSUME NEW r \in Req, Tally(r), Given(r), Guess(r)' = Guess(r),
           UNCHANGED <<computed[r], placeholders[r], NumTokens(r), isPrefill[r]>>,
           status'[r] = "RUNNING" <=> status[r] = "RUNNING", r \in admitted' <=> r \in admitted,
           spec'[r] \in 0 .. NumSpec,
           sched'[r] = 0 \/ UNCHANGED <<sched[r], schedSpec[r]>>
    PROVE  Tally(r)' /\ Given(r)'
<1>1. Tally(r)'
  BY DEF Tally
<1>2. Given(r)'
  BY DEF Given
<1> QED
  BY <1>1, <1>2

\* The scheduler starts with nothing counted.
LEMMA CountInit == Init => CountInv
<1> SUFFICES ASSUME Init, NEW r \in Req PROVE Tally(r) /\ Given(r)
  BY DEF CountInv
<1>1. status[r] = "NEW" /\ placeholders[r] = 0 /\ computed[r] = 0 /\ spec[r] = 0 /\ sched[r] = 0
  BY DEF Init
<1>2. Guess(r) = 0
  BY <1>1, GuessNone
<1> QED
  BY <1>1, <1>2, Constants DEF Tally, Given

\* RunningSchedule: the drafts are what the pass gives beyond the known tokens.
\* It always gives one more, as num_computed_tokens is behind them.
LEMMA CountsGiven ==
    ASSUME PassInv, WriteInv, GuessesTakenBack, NEW r \in Req, Tally(r), status[r] = "RUNNING",
           pc = "running",
           NEW n, n = NumNewTokens(r), n > 0, sched'[r] = n,
           schedSpec'[r] = MaxOf(0, MinOf(n + computed[r] - NumTokens(r) - placeholders[r], spec[r])),
           UNCHANGED <<computed, placeholders, out>>
    PROVE  Given(r)'
<1> DEFINE c == computed[r]
           p == placeholders[r]
           t == NumTokens(r)
           d == spec[r]
           g == Guess(r)
           s == n + c - t - p
<1>1. /\ c \in Int /\ p \in Int /\ t \in Nat /\ d \in 0 .. NumSpec /\ g \in Nat
      /\ p = IF AsyncScheduling THEN g ELSE 0
      /\ c < t + g
  BY CounterTypes, GuessType DEF Tally
<1>2. n \in Int /\ n <= t + d + p - c
  <2>1. n \in Int
    BY NumNewTokensType DEF PassInv
  <2>2. n = MaxOf(0, MinOf(MaxModelLen - c - 1,
                   MinOf(budget - restored, LongPrefillCap(t + d + p - c))))
    BY DEF NumNewTokens
  <2>3. MaxModelLen \in Nat /\ budget - restored \in Int /\ LongPrefill \in Nat
    BY Constants DEF PassInv, TypeOK, PassTypes
  <2> HIDE DEF c, p, t, d, g
  <2> QED
    BY <1>1, <2>1, <2>2, <2>3 DEF MinOf, MaxOf, LongPrefillCap
<1>3. NumTokens(r)' = t /\ computed'[r] = c /\ placeholders'[r] = p
  BY DEF NumTokens
<1>4. ~AsyncScheduling /\ NumSpec > 0 => g = 0
  <2> SUFFICES ASSUME MaxBatches = 1 PROVE g = 0
    BY Constants DEF GuessesTakenBack
  <2>1. batches = <<>>
    BY DEF WriteInv, SingleStep
  <2>2. Fresh(r) = {}
    BY <2>1 DEF Fresh, Active
  <2>3. SumOver(StepGuess(r), {}) = 0
    BY SumZero
  <2> QED
    BY <2>2, <2>3 DEF Guess
<1>5. NumSpec \in Nat
  BY Constants
<1>6. schedSpec'[r] = MaxOf(0, MinOf(s, d))
  OBVIOUS
<1> HIDE DEF c, p, t, d, g
<1>7. schedSpec'[r] = MaxOf(0, s) /\ s \in Int
  BY <1>1, <1>2, <1>6 DEF MaxOf, MinOf
<1>8. CASE s <= 0
  <2>1. schedSpec'[r] = 0 /\ (c + n < t + p \/ c + n = t + p + 0)
    BY <1>1, <1>2, <1>7, <1>8 DEF MaxOf
  <2> QED
    BY <1>3, <2>1 DEF Given
<1>9. CASE s > 0
  <2>1. schedSpec'[r] = s
    BY <1>7, <1>9 DEF MaxOf
  <2>2. c < t + p
    BY <1>1, <1>2, <1>4, <1>5, <1>9
  <2>3. s < n /\ c + n = t + p + s
    BY <1>1, <1>2, <2>2
  <2> HIDE DEF s
  <2> QED
    BY <1>3, <2>1, <2>3 DEF Given
<1> QED
  BY <1>7, <1>8, <1>9

\* WaitingAdmit: a prompt, or what is left of it, ends at the known tokens; a pad
\* is one token and the drafts.
LEMMA CountsAdmit ==
    ASSUME PassInv, NEW r \in Req, Tally(r), WaitingAdmit(r)
    PROVE  Tally(r)' /\ Given(r)'
<1>1. /\ status[r] \in {"WAITING", "PREEMPTED"} /\ status'[r] = "RUNNING" /\ r \in admitted'
      /\ UNCHANGED <<computed, placeholders, out, spec, isPrefill>>
      /\ sched'[r] = AdmitTokens(r) /\ schedSpec'[r] = (IF Pads(r) THEN NumSpec ELSE 0)
      /\ Pads(r) => AdmitTokens(r) = 1 + NumSpec
      /\ budget > 0
  BY CounterTypes DEF WaitingAdmit, Schedulable, tokenVars, Considers, InWaitingLoop
<1>2. Guess(r) = 0 /\ Guess(r)' = 0 /\ placeholders[r] = 0
  BY <1>1, GuessNone DEF Tally
<1>3. NumTokens(r)' = NumTokens(r) /\ computed[r] \in Int /\ NumTokens(r) \in Nat
  BY <1>1, CounterTypes DEF NumTokens
<1>4. computed[r] < NumTokens(r)
  BY <1>1 DEF PassInv, TokensLeft
<1>5. Tally(r)'
  BY <1>1, <1>2, <1>3, <1>4 DEF Tally
<1>6. AdmitTokens(r) \in 1 .. budget /\ budget \in Nat /\ NumSpec \in Nat
  BY <1>1, <1>4, AdmitTokensType, Constants DEF PassInv, TypeOK, PassTypes
<1>7. Given(r)'
  <2>1. CASE Pads(r)
    <3>1. NumTokens(r) - computed[r] = 1 /\ sched'[r] = 1 + NumSpec /\ schedSpec'[r] = NumSpec
      BY <1>1, <2>1 DEF Pads
    <3> QED
      BY <1>1, <1>2, <1>3, <1>6, <3>1 DEF Given
  <2>2. CASE ~Pads(r)
    <3>1. AdmitTokens(r) <= NumTokens(r) - computed[r]
      BY <1>3, <1>4, <1>6, <2>2, Constants DEF AdmitTokens, MinOf, LongPrefillCap
    <3>2. schedSpec'[r] = 0
      BY <1>1, <2>2
    <3> QED
      BY <1>1, <1>2, <1>3, <1>6, <3>1, <3>2 DEF Given
  <2> QED
    BY <2>1, <2>2
<1> QED
  BY <1>5, <1>7

\* ScheduleFinish: a step that samples r adds its token and its drafts to what
\* is counted ahead.
LEMMA CountsHandedOut ==
    ASSUME PassInv, RowInv, NEW r \in Req, Tally(r), Given(r), ScheduleFinish
    PROVE  Tally(r)' /\ Given(r)'
<1> DEFINE n == Len(batches)
           f == StepGuess(r)
           g == StepGuess(r)'
<1>1. /\ computed'[r] = computed[r] + sched[r] /\ sched'[r] = 0
      /\ isPrefill'[r] = (IF r \in Scheduled THEN ChunkAfter(r) ELSE isPrefill[r])
      /\ placeholders'[r] = (IF AsyncScheduling /\ r \in Scheduled /\ ~ChunkAfter(r)
                             THEN placeholders[r] + 1 + schedSpec[r] ELSE placeholders[r])
      /\ spec'[r] = NumSpec \/ spec'[r] = spec[r]
      /\ UNCHANGED <<status, out>> /\ admitted' = {}
  BY DEF ScheduleFinish
<1>2. NumTokens(r)' = NumTokens(r)
  BY <1>1 DEF NumTokens
<1>3. /\ sched[r] \in Nat /\ schedSpec[r] \in Nat /\ computed[r] \in Int /\ placeholders[r] \in Int
      /\ NumTokens(r) \in Nat /\ Guess(r) \in Nat /\ NumSpec \in Nat
      /\ Fresh(r) \in SUBSET DOMAIN batches
  BY CounterTypes, GuessType
<1>4. /\ r \in Scheduled <=> sched[r] > 0
      /\ r \in Scheduled => status[r] = "RUNNING"
      /\ r \in admitted => r \in Scheduled
  BY DEF Scheduled, PassInv, OnlyRunningScheduled, RowInv
<1> HIDE DEF n
<1>5. /\ n \in Nat /\ DOMAIN batches = 1 .. n /\ DOMAIN batches' = 1 .. n + 1
      /\ \A i \in 1 .. n : batches'[i] = batches[i]
      /\ n + 1 \notin 1 .. n /\ 1 .. n + 1 = (1 .. n) \cup {n + 1}
      /\ Active(r) = 1 .. n /\ Active(r)' = 1 .. n + 1
      /\ \A i \in 1 .. n : i \in Old(r)' <=> i \in Old(r)
      /\ status[r] = "RUNNING" => n + 1 \notin Old(r)'
  BY StepsHandedOut DEF n
<1>6. /\ batches'[n + 1].spec = schedSpec
      /\ batches'[n + 1].samples = {q \in Scheduled : ~ChunkAfter(q)}
  BY StepsHandedOut DEF n
<1>7. /\ \A i \in 1 .. n : g[i] = f[i]
      /\ g[n + 1] = IF r \in Scheduled /\ ~ChunkAfter(r) THEN 1 + schedSpec[r] ELSE 0
  <2>1. \A i \in 1 .. n : g[i] = f[i]
    BY <1>5 DEF StepGuess
  <2>2. g[n + 1] = IF r \in batches'[n + 1].samples THEN 1 + batches'[n + 1].spec[r] ELSE 0
    BY <1>5 DEF StepGuess
  <2> QED
    BY <1>6, <2>1, <2>2
<1>8. \A i \in Fresh(r) : f[i] \in Nat
  BY <1>3, GuessFacts
<1> HIDE DEF f, g
<1>9. status[r] = "RUNNING" => Guess(r)' = Guess(r) + g[n + 1]
  <2> SUFFICES ASSUME status[r] = "RUNNING" PROVE Guess(r)' = Guess(r) + g[n + 1]
    OBVIOUS
  <2>1. Fresh(r)' = Fresh(r) \cup {n + 1}
    BY <1>5 DEF Fresh
  <2>2. IsFiniteSet(Fresh(r)) /\ IsFiniteSet(Fresh(r) \cup {n + 1})
    BY <1>3, StepFacts, FS_Subset, FS_AddElement
  <2>3. (Fresh(r) \cup {n + 1}) \ {n + 1} = Fresh(r) /\ Fresh(r) \subseteq 1 .. n
    BY <1>3, <1>5
  <2>4. g[n + 1] \in Nat /\ \A i \in Fresh(r) \cup {n + 1} : g[i] \in Nat
    BY <1>3, <1>7, <1>8, <2>3
  <2>5. SumOver(g, Fresh(r) \cup {n + 1}) = SumOver(g, (Fresh(r) \cup {n + 1}) \ {n + 1}) + g[n + 1]
    BY <2>2, <2>4, SumElement
  <2>6. SumOver(g, Fresh(r)) = SumOver(f, Fresh(r))
    BY <1>7, <2>3, SumSame
  <2> QED
    BY <2>1, <2>3, <2>5, <2>6 DEF Guess, f, g
<1>10. spec'[r] \in 0 .. NumSpec
  BY <1>1, <1>3 DEF Tally
<1>11. CASE r \notin Scheduled
  <2>1. Guess(r)' = Guess(r)
    <3>1. CASE status[r] = "RUNNING"
      BY <1>3, <1>7, <1>9, <1>11, <3>1
    <3>2. CASE status[r] # "RUNNING"
      BY <1>1, <3>2, GuessNone
    <3> QED
      BY <3>1, <3>2
  <2>2. UNCHANGED <<computed[r], placeholders[r], NumTokens(r), isPrefill[r]>>
    BY <1>1, <1>2, <1>3, <1>4, <1>11
  <2> QED
    BY <1>1, <1>4, <1>10, <1>11, <2>1, <2>2, CountsKept
<1>12. CASE r \in Scheduled /\ ChunkAfter(r)
  <2>1. Guess(r)' = Guess(r) /\ isPrefill'[r] = TRUE
    BY <1>1, <1>3, <1>4, <1>7, <1>9, <1>12
  <2>2. computed[r] + sched[r] < NumTokens(r) + placeholders[r]
    BY <1>12 DEF ChunkAfter
  <2> QED
    BY <1>1, <1>2, <1>3, <1>4, <1>10, <1>12, <2>1, <2>2 DEF Tally, Given
<1>13. CASE r \in Scheduled /\ ~ChunkAfter(r)
  <2>1. Guess(r)' = Guess(r) + 1 + schedSpec[r]
    BY <1>3, <1>4, <1>7, <1>9, <1>13
  <2>2. computed[r] + sched[r] = NumTokens(r) + placeholders[r] + schedSpec[r]
    BY <1>4, <1>13 DEF ChunkAfter, Given
  <2>3. schedSpec[r] < sched[r]
    BY <1>4, <1>13 DEF Given
  <2> QED
    BY <1>1, <1>2, <1>3, <1>4, <1>10, <1>13, <2>1, <2>2, <2>3 DEF Tally, Given
<1> QED
  BY <1>11, <1>12, <1>13

\* UpdateStart: a request without tokens in the step that is processed expects
\* none from it.
LEMMA CountsBegin ==
    ASSUME PassInv, StepShape, NEW r \in Req, UpdateStart
    PROVE  Guess(r)' = Guess(r)
<1>1. /\ pc = "idle" /\ pc' = "update" /\ batches # <<>>
      /\ todo' = {q \in Req : Head(batches).tokens[q] > 0}
      /\ UNCHANGED <<batches, status, admitted>>
  BY DEF UpdateStart, queueVars, passVars
<1>2. 1 \in DOMAIN batches /\ Head(batches) = batches[1]
  BY <1>1, StepFacts, EmptySeq DEF PassInv, TypeOK, WorkerTypes
<1>3. CASE r \in todo'
  <2>1. Active(r)' = Active(r)
    BY <1>1, <1>3 DEF Active
  <2> QED
    BY <1>1, <2>1, GuessKept
<1>4. CASE r \notin todo'
  <2>1. r \notin batches[1].samples
    BY <1>1, <1>2, <1>4 DEF StepShape
  <2>2. StepGuess(r)[1] = 0
    BY <1>2, <2>1 DEF StepGuess
  <2>3. Old(r)' = Old(r) /\ StepGuess(r)' = StepGuess(r) /\ Active(r)' = Active(r) \ {1}
    BY <1>1, <1>4 DEF Old, StepGuess, Active
  <2>4. Fresh(r)' = Fresh(r) \ {1}
    BY <2>3 DEF Fresh
  <2>5. CASE 1 \notin Fresh(r)
    <3>1. Fresh(r) \ {1} = Fresh(r)
      BY <2>5
    <3> QED
      BY <2>3, <2>4, <3>1 DEF Guess
  <2>6. CASE 1 \in Fresh(r)
    <3>1. /\ Guess(r) = SumOver(StepGuess(r), Fresh(r) \ {1}) + StepGuess(r)[1]
          /\ SumOver(StepGuess(r), Fresh(r) \ {1}) \in Nat
      BY <2>6, GuessType, GuessFacts DEF Guess
    <3> QED
      BY <2>2, <2>3, <2>4, <3>1 DEF Guess
  <2> QED
    BY <2>5, <2>6
<1> QED
  BY <1>3, <1>4

\* UpdateFinish: the step was drained for every request; the others move up.
LEMMA CountsEnd ==
    ASSUME PassInv, NEW r \in Req, UpdateFinish
    PROVE  Guess(r)' = Guess(r)
<1> DEFINE n == Len(batches)
           f == StepGuess(r)
           g == StepGuess(r)'
<1> HIDE DEF n
<1>1. /\ n \in Nat /\ n > 0 /\ DOMAIN batches = 1 .. n /\ DOMAIN batches' = 1 .. n - 1
      /\ \A i \in 1 .. n - 1 : batches'[i] = batches[i + 1] /\ i \in 1 .. n /\ i + 1 \in 1 .. n
      /\ Active(r) = (1 .. n) \ {1} /\ Active(r)' = 1 .. n - 1
      /\ \A i \in 1 .. n - 1 : i \in Old(r)' <=> i + 1 \in Old(r)
  BY StepsEnded DEF n
<1>2. \A i \in Fresh(r) : i \in Nat /\ i - 1 \in 1 .. n - 1 /\ (i - 1) + 1 = i /\ i \notin Old(r)
  BY <1>1 DEF Fresh
<1>3. \A i \in Fresh(r) : g[i - 1] = f[i] /\ f[i] \in Nat
  <2> SUFFICES ASSUME NEW i \in Fresh(r) PROVE g[i - 1] = f[i] /\ f[i] \in Nat
    OBVIOUS
  <2>1. batches'[i - 1] = batches[i] /\ i - 1 \in DOMAIN batches' /\ i \in DOMAIN batches
    BY <1>1, <1>2 DEF Fresh
  <2>2. f[i] \in Nat
    BY GuessType, GuessFacts
  <2> QED
    BY <2>1, <2>2 DEF StepGuess
<1>4. {i - 1 : i \in Fresh(r)} = Fresh(r)'
  <2>1. ASSUME NEW i \in Fresh(r) PROVE i - 1 \in Fresh(r)'
    BY <1>1, <1>2 DEF Fresh
  <2>2. ASSUME NEW i \in Fresh(r)' PROVE i \in {j - 1 : j \in Fresh(r)}
    <3>1. i \in 1 .. n - 1 /\ i + 1 \notin Old(r)
      BY <1>1 DEF Fresh
    <3>2. i + 1 \in Fresh(r) /\ i = (i + 1) - 1
      BY <1>1, <3>1 DEF Fresh
    <3> QED
      BY <3>2
  <2> QED
    BY <2>1, <2>2
<1>5. IsFiniteSet(Fresh(r)) /\ Fresh(r) \in SUBSET Nat
  BY GuessType, StepFacts, FS_Subset
<1> HIDE DEF f, g
<1>6. SumOver(g, {i - 1 : i \in Fresh(r)}) = SumOver(f, Fresh(r))
  BY <1>3, <1>5, SumShift
<1> QED
  BY <1>4, <1>6 DEF Guess, f, g

\* What update_from_output processes of r is no longer expected: the whole share
\* of r in the step, unless the step is an old one.
LEMMA GuessProcessed ==
    ASSUME PassInv, StepShape, NEW r \in Req, pc = "update", r \in todo,
           pc' = pc, todo' = todo \ {r}, UNCHANGED <<batches, admitted>>, status'[r] = status[r]
    PROVE  /\ 1 \in DOMAIN batches /\ Head(batches) = batches[1] /\ Active(r) = DOMAIN batches
           /\ batches[1].tokens[r] > 0 /\ \A j \in Active(r) : 1 <= j
           /\ 1 \in Old(r) => Guess(r)' = Guess(r)
           /\ 1 \notin Old(r) => Guess(r) = Guess(r)' + StepGuess(r)[1]
           /\ Guess(r)' \in Nat /\ StepGuess(r)[1] \in Nat
<1>1. batches # <<>>
  BY DEF PassInv, UpdateHasStep
<1>2. 1 \in DOMAIN batches /\ Head(batches) = batches[1] /\ \A j \in DOMAIN batches : 1 <= j
  BY <1>1, StepFacts, EmptySeq DEF PassInv, TypeOK, WorkerTypes
<1>3. Active(r) = DOMAIN batches /\ Active(r)' = Active(r) \ {1} /\ batches[1].tokens[r] > 0
  BY <1>2 DEF Active, StepShape
<1>4. Old(r)' = Old(r) /\ StepGuess(r)' = StepGuess(r)
  BY DEF Old, StepGuess
<1>5. Fresh(r)' = Fresh(r) \ {1} /\ Fresh(r) \in SUBSET DOMAIN batches
  BY <1>3, <1>4 DEF Fresh
<1>6. Guess(r)' = SumOver(StepGuess(r), Fresh(r) \ {1})
  BY <1>4, <1>5 DEF Guess
<1>7. StepGuess(r)[1] \in Nat
  <2>1. DOMAIN batches \in SUBSET DOMAIN batches
    OBVIOUS
  <2> QED
    BY <1>2, <2>1, GuessFacts
<1>8. 1 \in Old(r) => Guess(r)' = Guess(r) /\ Guess(r)' \in Nat
  <2> SUFFICES ASSUME 1 \in Old(r) PROVE Guess(r)' = Guess(r) /\ Guess(r)' \in Nat
    OBVIOUS
  <2>1. Fresh(r) \ {1} = Fresh(r)
    BY DEF Fresh
  <2> QED
    BY <1>6, <2>1, GuessType DEF Guess
<1>9. 1 \notin Old(r) => Guess(r) = Guess(r)' + StepGuess(r)[1] /\ Guess(r)' \in Nat
  <2> SUFFICES ASSUME 1 \notin Old(r)
               PROVE  Guess(r) = Guess(r)' + StepGuess(r)[1] /\ Guess(r)' \in Nat
    OBVIOUS
  <2>1. 1 \in Fresh(r)
    BY <1>2, <1>3 DEF Fresh
  <2> QED
    BY <1>5, <1>6, <2>1, GuessFacts DEF Guess
<1> QED
  BY <1>2, <1>3, <1>7, <1>8, <1>9

\* UpdateDiscard: the step is an old one, or sampled nothing of r.
LEMMA CountsDiscard ==
    ASSUME PassInv, QueueInv, StepShape, NEW r \in Req, Drain(r), Tally(r), Given(r),
           status[r] # "FINISHED", UpdateDiscard(r)
    PROVE  Tally(r)' /\ Given(r)'
<1>1. /\ pc = "update" /\ r \in todo /\ pc' = pc /\ todo' = todo \ {r}
      /\ UNCHANGED <<batches, admitted, status, computed, placeholders, out, isPrefill, spec, sched,
                     schedSpec>>
      /\ Discards(r) \/ r \notin Head(batches).samples
  BY DEF UpdateDiscard, queueVars, passVars
<1>2. r \in reqs
  BY <1>1, ProcessedIsKnown
<1>3. /\ 1 \in DOMAIN batches /\ Head(batches) = batches[1] /\ Active(r) = DOMAIN batches
      /\ batches[1].tokens[r] > 0 /\ \A j \in Active(r) : 1 <= j
      /\ 1 \in Old(r) => Guess(r)' = Guess(r)
      /\ 1 \notin Old(r) => Guess(r) = Guess(r)' + StepGuess(r)[1]
      /\ Guess(r)' \in Nat
  BY <1>1, GuessProcessed
<1>4. Guess(r)' = Guess(r)
  <2>1. CASE stale[r] > 0
    <3>1. 1 \in Old(r)
      BY <1>3, <2>1, StaleMeansOld
    <3> QED
      BY <1>3, <3>1
  <2>2. CASE ~(stale[r] > 0)
    <3>1. r \notin batches[1].samples
      BY <1>1, <1>2, <1>3, <2>2 DEF Discards, IsFinished, StaleShare
    <3>2. StepGuess(r)[1] = 0
      BY <1>3, <3>1 DEF StepGuess
    <3> QED
      BY <1>3, <3>2
  <2> QED
    BY <2>1, <2>2
<1>5. NumTokens(r)' = NumTokens(r) /\ spec'[r] \in 0 .. NumSpec
  BY <1>1 DEF NumTokens, Tally
<1> QED
  BY <1>1, <1>4, <1>5, CountsKept

\* What UpdateDeliver does to the counters of a request that goes on.
LEMMA DeliveredCounts ==
    ASSUME PassInv, NEW r \in Req, UpdateDeliver(r), status'[r] # "FINISHED"
    PROVE  \E accepted \in 0 .. Head(batches).spec[r] :
              LET rejected == Rejected(r, Head(batches).spec[r], accepted)
              IN  /\ computed'[r] = RolledBack(r, rejected)
                  /\ placeholders'[r] = (IF placeholders[r] > 0 THEN placeholders[r] - rejected
                                         ELSE placeholders[r]) - Credited(r, 1 + accepted)
                  /\ NumTokens(r)' = NumTokens(r) + 1 + accepted
                  /\ status' = status
<1>1. PICK accepted \in 0 .. Head(batches).spec[r] :
         LET rejected == Rejected(r, Head(batches).spec[r], accepted)
             limit == MinOf(1 + accepted, RoomFor(r))
         IN /\ computed' = [computed EXCEPT ![r] = RolledBack(r, rejected)]
            /\ \E k \in 1 .. limit, stopped \in BOOLEAN :
                  /\ k < limit \/ k = RoomFor(r) => stopped
                  /\ out' = [out EXCEPT ![r] = @ \o [i \in 1 .. k |-> WorkerStart(r) + i]]
                  /\ placeholders' = [placeholders EXCEPT ![r] =
                        (IF @ > 0 THEN @ - rejected ELSE @) - Credited(r, k)]
                  /\ IF stopped THEN Dequeue(r) ELSE UNCHANGED queueVars
  BY DEF UpdateDeliver
<1> DEFINE limit == MinOf(1 + accepted, RoomFor(r))
           rejected == Rejected(r, Head(batches).spec[r], accepted)
<1>2. PICK k \in 1 .. limit, stopped \in BOOLEAN :
         /\ k < limit \/ k = RoomFor(r) => stopped
         /\ out' = [out EXCEPT ![r] = @ \o [i \in 1 .. k |-> WorkerStart(r) + i]]
         /\ placeholders' = [placeholders EXCEPT ![r] =
               (IF @ > 0 THEN @ - rejected ELSE @) - Credited(r, k)]
         /\ IF stopped THEN Dequeue(r) ELSE UNCHANGED queueVars
  BY <1>1
<1>3. ~stopped
  BY <1>2, DequeueFacts
<1>4. status' = status
  BY <1>2, <1>3 DEF queueVars
<1>5. /\ accepted \in Nat /\ RoomFor(r) \in Int /\ Len(out[r]) \in Nat /\ PromptLen[r] \in Nat
      /\ out \in [Req -> Seq(Nat)] /\ computed \in [Req -> Int] /\ placeholders \in [Req -> Int]
  <2>1. Len(out[r]) \in Nat /\ NumTokens(r) \in Nat /\ out \in [Req -> Seq(Nat)]
    BY CounterTypes, LenProperties
  <2>2. MaxTokens[r] - Len(out[r]) \in Int /\ MaxModelLen - NumTokens(r) \in Int
    BY <2>1, Constants
  <2>3. RoomFor(r) \in Int
    BY <2>2 DEF RoomFor, MinOf
  <2> QED
    BY <2>1, <2>3, CounterTypes, Constants
<1>6. k = 1 + accepted /\ k \in Nat
  BY <1>2, <1>3, <1>5 DEF MinOf
<1>7. Len(out'[r]) = Len(out[r]) + k
  <2> DEFINE more == [i \in 1 .. k |-> WorkerStart(r) + i]
  <2>1. more \in Seq(Nat) /\ Len(more) = k
    <3>1. batches # <<>> /\ wpos[r] \in Nat
      BY DEF UpdateDeliver, PassInv, UpdateHasStep, TypeOK, WorkerTypes
    <3>2. 1 \in DOMAIN batches /\ Head(batches) = batches[1]
      BY <3>1, StepFacts, EmptySeq DEF PassInv, TypeOK, WorkerTypes
    <3>3. WorkerStart(r) \in Nat
      BY <3>1, <3>2, StepFacts DEF WorkerStart
    <3> QED
      BY <1>6, <3>3
  <2> HIDE DEF more
  <2>2. out'[r] = out[r] \o more
    BY <1>2, <1>5 DEF more
  <2>3. out[r] \in Seq(Nat)
    BY <1>5
  <2> QED
    BY <2>1, <2>2, <2>3, ConcatProperties
<1>8. NumTokens(r)' = NumTokens(r) + 1 + accepted
  <2>1. NumTokens(r) = PromptLen[r] + Len(out[r]) /\ NumTokens(r)' = PromptLen[r] + Len(out'[r])
    BY DEF NumTokens
  <2> QED
    BY <1>5, <1>6, <1>7, <2>1
<1> HIDE DEF rejected
<1>9. computed'[r] = RolledBack(r, rejected)
  BY <1>1, <1>5 DEF rejected
<1>10. placeholders'[r] = (IF placeholders[r] > 0 THEN placeholders[r] - rejected
                           ELSE placeholders[r]) - Credited(r, 1 + accepted)
  BY <1>2, <1>5, <1>6
<1> QED
  BY <1>4, <1>8, <1>9, <1>10 DEF rejected

\* UpdateDeliver: fresh output takes the rejected drafts off both counters and
\* the delivered tokens off the placeholders; old output is of a request that
\* was preempted and touches neither.
LEMMA CountsDeliver ==
    ASSUME PassInv, QueueInv, StepShape, NEW r \in Req, Drain(r), Tally(r),
           UpdateDeliver(r), status'[r] # "FINISHED"
    PROVE  Tally(r)' /\ Given(r)'
<1>1. /\ pc = "update" /\ r \in todo /\ pc' = pc /\ todo' = todo \ {r}
      /\ UNCHANGED <<batches, admitted, isPrefill, spec, sched>> /\ r \in Head(batches).samples
      /\ ~(stale[r] > 0 /\ dropStale[r])
  BY DEF UpdateDeliver, Discards, StaleShare, passVars
<1>2. PICK accepted \in 0 .. Head(batches).spec[r] :
         LET rejected == Rejected(r, Head(batches).spec[r], accepted)
         IN  /\ computed'[r] = RolledBack(r, rejected)
             /\ placeholders'[r] = (IF placeholders[r] > 0 THEN placeholders[r] - rejected
                                    ELSE placeholders[r]) - Credited(r, 1 + accepted)
             /\ NumTokens(r)' = NumTokens(r) + 1 + accepted
             /\ status' = status
  BY DeliveredCounts
<1>3. /\ 1 \in DOMAIN batches /\ Head(batches) = batches[1] /\ Active(r) = DOMAIN batches
      /\ batches[1].tokens[r] > 0 /\ \A j \in Active(r) : 1 <= j
      /\ 1 \in Old(r) => Guess(r)' = Guess(r)
      /\ 1 \notin Old(r) => Guess(r) = Guess(r)' + StepGuess(r)[1]
      /\ Guess(r)' \in Nat
  BY <1>1, <1>2, GuessProcessed
<1>4. sched[r] = 0
  BY <1>1, CounterTypes DEF PassInv, OnlyRunningScheduled
<1>5. Given(r)'
  BY <1>1, <1>4 DEF Given
<1>6. /\ computed[r] \in Int /\ placeholders[r] \in Int /\ NumTokens(r) \in Nat /\ Guess(r) \in Nat
      /\ batches[1].spec[r] \in Nat /\ accepted \in 0 .. batches[1].spec[r]
  BY <1>3, CounterTypes, GuessType, StepFacts
<1>7. CASE stale[r] > 0
  <2>1. status[r] # "RUNNING"
    BY <1>1, <1>7 DEF Drain
  <2>2. Guess(r) = 0 /\ Guess(r)' = 0
    BY <1>2, <2>1, GuessNone
  <2>3. computed'[r] = computed[r] /\ placeholders'[r] = placeholders[r]
    BY <1>2, <1>6, <1>7 DEF Rejected, RolledBack, Credited, StaleShare
  <2>4. Tally(r)'
    BY <1>1, <1>2, <2>1, <2>2, <2>3 DEF Tally
  <2> QED
    BY <1>5, <2>4
<1>8. CASE ~(stale[r] > 0)
  <2>1. 1 \notin Old(r)
    BY <1>3, <1>8, StaleMeansOld
  <2>2. Guess(r) = Guess(r)' + 1 + batches[1].spec[r]
    BY <1>1, <1>3, <1>6, <2>1 DEF StepGuess
  <2>3. status[r] = "RUNNING"
    BY <1>3, <2>1 DEF Old
  <2>4. computed'[r] = computed[r] - (batches[1].spec[r] - accepted)
    <3>1. computed[r] > 0
      BY <1>3, <1>6, <2>2 DEF Tally
    <3> QED
      BY <1>2, <1>3, <1>8, <3>1 DEF Rejected, RolledBack, StaleShare
  <2>5. placeholders'[r] = IF AsyncScheduling THEN Guess(r)' ELSE 0
    <3>1. CASE AsyncScheduling
      BY <1>2, <1>3, <1>6, <1>8, <2>2, <3>1 DEF Tally, Rejected, Credited, StaleShare
    <3>2. CASE ~AsyncScheduling
      BY <1>2, <1>3, <1>6, <1>8, <3>2 DEF Tally, Rejected, Credited, StaleShare
    <3> QED
      BY <3>1, <3>2
  <2>6. Tally(r)'
    BY <1>1, <1>2, <1>3, <1>6, <2>2, <2>3, <2>4, <2>5 DEF Tally
  <2> QED
    BY <1>5, <2>6
<1> QED
  BY <1>7, <1>8

\* Every action keeps the counters of every unfinished request.
LEMMA CountStep ==
    ASSUME GuessesTakenBack, PassInv, QueueInv, RowInv, WriteInv, TokenInv, CountInv, [Next]_vars,
           NEW r \in Req, status'[r] # "FINISHED"
    PROVE  Tally(r)' /\ Given(r)'
<1> USE DEF queueVars, tokenVars, passVars, workerVars
<1>0. /\ StepShape /\ admitted \subseteq Req
      /\ \A q \in Req :
            /\ status[q] \in Statuses /\ computed[q] \in Int /\ spec[q] \in Nat
            /\ status[q] # "RUNNING" => sched[q] = 0
      /\ pc \notin {"running", "waiting", "finish"} => \A q \in Req : sched[q] = 0
      /\ status \in [Req -> Statuses] /\ out \in [Req -> Seq(Nat)] /\ computed \in [Req -> Int]
      /\ spec \in [Req -> Nat] /\ placeholders \in [Req -> Int]
      /\ sched \in [Req -> Nat] /\ schedSpec \in [Req -> Nat]
      /\ pc \notin {"waiting", "finish"} => admitted = {}
      /\ NumSpec \in Nat
  <2>1. \A q \in Req : sched[q] \in Nat
    BY DEF PassInv, TypeOK, PassTypes
  <2>2. \A q \in Req : sched[q] = 0 \/ sched[q] > 0
    BY <2>1
  <2> QED
    BY <2>2, Constants DEF PassInv, TypeOK, PassTypes, TokenTypes, QueueTypes, OnlyRunningScheduled,
       QueueInv, OnlyInPass, TokenInv
<1>1. status[r] # "FINISHED" => Tally(r) /\ Given(r) /\ Drain(r) /\ spec[r] \in 0 .. NumSpec
  BY DEF CountInv, TokenInv, Tally
<1>2. ASSUME batches' = batches, pc' = "update" <=> pc = "update", UNCHANGED todo,
             UNCHANGED <<computed[r], placeholders[r], out[r], isPrefill[r]>>,
             spec'[r] \in 0 .. NumSpec, status[r] # "FINISHED",
             status'[r] = "RUNNING" <=> status[r] = "RUNNING", r \in admitted' <=> r \in admitted,
             sched'[r] = 0 \/ UNCHANGED <<sched[r], schedSpec[r]>>
      PROVE  Tally(r)' /\ Given(r)'
  <2>1. Active(r)' = Active(r)
    BY <1>2, ActiveKept
  <2>2. Guess(r)' = Guess(r) /\ NumTokens(r)' = NumTokens(r)
    BY <1>2, <2>1, GuessKept DEF NumTokens
  <2> QED
    BY <1>1, <1>2, <2>2, CountsKept
<1>3. ASSUME NEW v \in Req, v \in Elems(running), NEW drop \in BOOLEAN, Preempt(v, drop),
             admitted' = admitted, pc' = "update" <=> pc = "update", sched'[v] = 0,
             \A q \in Req \ {v} : UNCHANGED <<sched[q], schedSpec[q]>>
      PROVE  Tally(r)' /\ Given(r)'
  <2>1. status[v] = "RUNNING"
    BY <1>3 DEF PassInv, RunningQueue
  <2>2. /\ status' = [status EXCEPT ![v] = "PREEMPTED"] /\ computed' = [computed EXCEPT ![v] = 0]
        /\ spec' = [spec EXCEPT ![v] = 0] /\ placeholders' = [placeholders EXCEPT ![v] = 0]
        /\ UNCHANGED <<out, isPrefill, todo, batches>>
    BY <1>3 DEF Preempt
  <2>3. CASE r = v
    <3>1. /\ status'[r] = "PREEMPTED" /\ computed'[r] = 0 /\ spec'[r] = 0 /\ placeholders'[r] = 0
          /\ sched'[r] = 0
      BY <1>0, <1>3, <2>2, <2>3
    <3>2. Guess(r)' = 0
      BY <3>1, GuessNone
    <3> QED
      BY <1>0, <3>1, <3>2 DEF Tally, Given
  <2>4. CASE r # v
    BY <1>0, <1>1, <1>2, <1>3, <2>2, <2>4
  <2> QED
    BY <2>3, <2>4
<1>4. ASSUME NEW q \in Req, status[q] \notin {"RUNNING", "FINISHED"},
             \E s \in Statuses \ {"RUNNING", "FINISHED"} : status' = [status EXCEPT ![q] = s],
             \E k \in Nat : computed' = [computed EXCEPT ![q] = k],
             UNCHANGED <<batches, pc, todo, placeholders, out, isPrefill, spec, admitted, sched,
                         schedSpec>>
      PROVE  Tally(r)' /\ Given(r)'
  <2>1. status[r] # "FINISHED" /\ (status'[r] = "RUNNING" <=> status[r] = "RUNNING")
    BY <1>0, <1>4
  <2>2. CASE r = q
    <3>1. /\ status'[r] # "RUNNING" /\ computed'[r] \in Nat /\ sched'[r] = 0
          /\ placeholders'[r] = placeholders[r] /\ spec'[r] = spec[r]
      BY <1>0, <1>4, <2>2
    <3>2. Guess(r)' = 0 /\ Guess(r) = 0
      BY <1>4, <2>2, <3>1, GuessNone
    <3> QED
      BY <1>1, <2>1, <3>1, <3>2 DEF Tally, Given
  <2>3. CASE r # q
    BY <1>0, <1>1, <1>2, <1>4, <2>1, <2>3
  <2> QED
    BY <2>2, <2>3
<1>5. CASE ScheduleStart
  BY <1>0, <1>1, <1>2, <1>5 DEF ScheduleStart
<1>6. CASE RunningSkip \/ RunningEnd \/ WaitingEnd
  BY <1>1, <1>2, <1>6 DEF RunningSkip, RunningEnd, WaitingEnd, InRunningLoop
<1>7. CASE RunningSchedule
  <2> DEFINE q == running[idx]
             n == NumNewTokens(q)
             s == n + computed[q] - NumTokens(q) - placeholders[q]
  <2>1. /\ pc = "running" /\ pc' = pc /\ n > 0 /\ sched' = [sched EXCEPT ![q] = n]
        /\ schedSpec' = [schedSpec EXCEPT ![q] = MaxOf(0, MinOf(s, spec[q]))]
        /\ spec' = [spec EXCEPT ![q] = 0]
        /\ UNCHANGED <<status, computed, placeholders, out, isPrefill, batches, todo, admitted>>
    BY <1>7 DEF RunningSchedule, InRunningLoop, WantsTokens
  <2>2. q \in Req /\ status[q] = "RUNNING"
    BY <1>7 DEF RunningSchedule, InRunningLoop, PassInv, TypeOK, QueueTypes, PassTypes, RunningQueue,
       Elems
  <2> HIDE DEF q, n, s
  <2>3. CASE r = q
    <3>1. sched'[r] = n /\ schedSpec'[r] = MaxOf(0, MinOf(s, spec[r])) /\ spec'[r] = 0
      BY <1>0, <2>1, <2>3
    <3>2. Given(r)'
      BY <1>1, <2>1, <2>2, <2>3, <3>1, CountsGiven DEF n, s
    <3>3. Active(r)' = Active(r)
      BY <2>1, ActiveKept
    <3>4. Guess(r)' = Guess(r) /\ NumTokens(r)' = NumTokens(r)
      BY <2>1, <3>3, GuessKept DEF NumTokens
    <3>5. Tally(r)'
      BY <1>0, <1>1, <2>1, <2>2, <2>3, <3>1, <3>4 DEF Tally
    <3> QED
      BY <3>2, <3>5
  <2>4. CASE r # q
    BY <1>0, <1>1, <1>2, <2>1, <2>4
  <2> QED
    BY <2>3, <2>4
<1>8. ASSUME NEW v \in Req, RunningPreempt(v) PROVE Tally(r)' /\ Given(r)'
  <2>1. running # <<>> /\ pc = "running"
    BY <1>8 DEF RunningPreempt, InRunningLoop, PassInv, TypeOK, PassTypes
  <2>2. v \in Elems(running)
    BY <1>8, <2>1, VictimRuns DEF RunningPreempt
  <2>3. RequiresKVDelivery \in BOOLEAN
    BY ConstantsAssumption DEF ConstantsAssumption
  <2>4. /\ Preempt(v, RequiresKVDelivery) /\ admitted' = admitted
        /\ pc' = "waiting" \/ pc' = pc
        /\ sched' = [sched EXCEPT ![v] = 0] /\ schedSpec' = [schedSpec EXCEPT ![v] = 0]
    BY <1>8 DEF RunningPreempt
  <2>5. /\ pc' = "update" <=> pc = "update"
        /\ sched'[v] = 0 /\ \A q \in Req \ {v} : UNCHANGED <<sched[q], schedSpec[q]>>
    BY <1>0, <2>1, <2>4
  <2> QED
    BY <1>3, <2>2, <2>3, <2>4, <2>5
<1>9. CASE ResetPreempt
  <2>1. running[Len(running)] \in Elems(running) /\ running[Len(running)] \in Req
    BY <1>9, VictimRuns DEF ResetPreempt
  <2>2. Preempt(running[Len(running)], TRUE) /\ UNCHANGED <<pc, admitted, sched, schedSpec>>
        /\ pc = "reset"
    BY <1>9 DEF ResetPreempt
  <2>3. sched'[running[Len(running)]] = 0
    BY <1>0, <2>1, <2>2
  <2> QED
    BY <1>3, <2>1, <2>2, <2>3
<1>10. ASSUME NEW q \in Req, WaitingSkip(q) \/ WaitingBlocked(q) PROVE Tally(r)' /\ Given(r)'
  BY <1>1, <1>2, <1>10 DEF WaitingSkip, WaitingBlocked, Considers, InWaitingLoop
<1>11. ASSUME NEW q \in Req, WaitingPromote(q) PROVE Tally(r)' /\ Given(r)'
  <2>1. /\ status[q] = "WAITING_FOR_REMOTE_KVS"
        /\ \E s \in {"PREEMPTED", "WAITING"} : status' = [status EXCEPT ![q] = s]
        /\ UNCHANGED <<batches, pc, todo, placeholders, out, isPrefill, spec, admitted, sched, schedSpec>>
        /\ computed' = [computed EXCEPT ![q] = IF @ = NumTokens(q) THEN @ - 1 ELSE @]
    BY <1>11 DEF WaitingPromote
  <2>2. computed[q] >= 0 /\ computed[q] \in Int
    <3>1. Tally(q)
      BY <2>1 DEF CountInv
    <3>2. Guess(q) \in Nat /\ computed[q] \in Int
      BY <1>0, GuessType
    <3> QED
      BY <3>1, <3>2 DEF Tally
  <2>3. NumTokens(q) \in Nat /\ NumTokens(q) > 0
    BY CounterTypes
  <2> DEFINE k == IF computed[q] = NumTokens(q) THEN computed[q] - 1 ELSE computed[q]
  <2>4. k \in Nat /\ computed' = [computed EXCEPT ![q] = k]
    BY <2>1, <2>2, <2>3
  <2> HIDE DEF k
  <2> QED
    BY <1>4, <2>1, <2>4 DEF Statuses
<1>12. ASSUME NEW q \in Req, WaitingLoadRemote(q) PROVE Tally(r)' /\ Given(r)'
  <2>1. /\ status[q] \notin {"RUNNING", "FINISHED"}
        /\ status' = [status EXCEPT ![q] = "WAITING_FOR_REMOTE_KVS"]
        /\ UNCHANGED <<batches, pc, todo, placeholders, out, isPrefill, spec, admitted, sched, schedSpec>>
        /\ \E hit \in ExtHits : computed' = [computed EXCEPT ![q] = hit]
    BY <1>12 DEF WaitingLoadRemote, Schedulable
  <2> QED
    BY <1>4, <2>1, Constants DEF Statuses
<1>13. ASSUME NEW q \in Req, WaitingAdmit(q) PROVE Tally(r)' /\ Given(r)'
  <2>1. /\ status' = [status EXCEPT ![q] = "RUNNING"] /\ admitted' = admitted \cup {q}
        /\ status[q] \in {"WAITING", "PREEMPTED"}
        /\ UNCHANGED <<batches, pc, todo, computed, placeholders, out, isPrefill, spec>>
        /\ \E a : sched' = [sched EXCEPT ![q] = a]
        /\ \E a : schedSpec' = [schedSpec EXCEPT ![q] = a]
    BY <1>13 DEF WaitingAdmit, Schedulable
  <2>2. CASE r = q
    BY <1>1, <1>13, <2>1, <2>2, CountsAdmit
  <2>3. CASE r # q
    BY <1>0, <1>1, <1>2, <2>1, <2>3
  <2> QED
    BY <2>2, <2>3
<1>14. CASE ScheduleFinish
  BY <1>1, <1>14, CountsHandedOut DEF ScheduleFinish
<1>15. CASE UpdateStart
  <2>1. /\ UNCHANGED <<status, computed, placeholders, out, isPrefill, spec, admitted, sched, schedSpec>>
    BY <1>15 DEF UpdateStart
  <2>2. Guess(r)' = Guess(r) /\ NumTokens(r)' = NumTokens(r)
    BY <1>0, <1>15, <2>1, CountsBegin DEF NumTokens
  <2> QED
    BY <1>1, <2>1, <2>2, CountsKept
<1>16. ASSUME NEW q \in Req, UpdateDiscard(q) PROVE Tally(r)' /\ Given(r)'
  <2>1. /\ UNCHANGED <<batches, pc, status, admitted, computed, placeholders, out, isPrefill, spec,
                       sched, schedSpec>>
        /\ todo' = todo \ {q}
    BY <1>16 DEF UpdateDiscard
  <2>2. CASE r = q
    BY <1>0, <1>1, <1>16, <2>1, <2>2, CountsDiscard
  <2>3. CASE r # q
    <3>1. Active(r)' = Active(r)
      BY <2>1, <2>3, ActiveKept
    <3>2. Guess(r)' = Guess(r) /\ NumTokens(r)' = NumTokens(r)
      BY <2>1, <3>1, GuessKept DEF NumTokens
    <3> QED
      BY <1>1, <2>1, <3>2, CountsKept
  <2> QED
    BY <2>2, <2>3
<1>17. ASSUME NEW q \in Req, UpdateDeliver(q) PROVE Tally(r)' /\ Given(r)'
  <2>1. UNCHANGED status \/ Dequeue(q)
    BY <1>17 DEF UpdateDeliver
  <2>2. status[r] # "FINISHED" /\ (r # q => status'[r] = status[r])
    BY <1>0, <2>1 DEF Dequeue
  <2>3. CASE r = q
    BY <1>0, <1>1, <1>17, <2>2, <2>3, CountsDeliver
  <2>4. CASE r # q
    <3>1. /\ UNCHANGED <<batches, pc, admitted, isPrefill, spec, sched, schedSpec>>
          /\ todo' = todo \ {q}
      BY <1>17 DEF UpdateDeliver
    <3>2. /\ \E w : computed' = [computed EXCEPT ![q] = w]
          /\ \E w : out' = [out EXCEPT ![q] = w]
          /\ \E w : placeholders' = [placeholders EXCEPT ![q] = w]
      BY <1>17 DEF UpdateDeliver
    <3>3. UNCHANGED <<computed[r], out[r], placeholders[r]>>
      BY <1>0, <2>4, <3>2
    <3>4. Active(r)' = Active(r)
      BY <2>4, <3>1, ActiveKept
    <3>5. Guess(r)' = Guess(r) /\ NumTokens(r)' = NumTokens(r)
      BY <2>2, <2>4, <3>1, <3>3, <3>4, GuessKept DEF NumTokens
    <3> QED
      BY <1>1, <2>2, <2>4, <3>1, <3>3, <3>5, CountsKept
  <2> QED
    BY <2>3, <2>4
<1>18. CASE UpdateFinish
  <2>1. UNCHANGED <<status, computed, placeholders, out, isPrefill, admitted, sched, schedSpec>>
    BY <1>18 DEF UpdateFinish
  <2>2. Guess(r)' = Guess(r) /\ NumTokens(r)' = NumTokens(r)
    BY <1>18, <2>1, CountsEnd DEF NumTokens
  <2>3. spec'[r] \in 0 .. NumSpec
    <3>1. CASE UNCHANGED spec
      BY <1>1, <2>1, <3>1
    <3>2. CASE ~UNCHANGED spec
      <4>1. PICK drafts \in 0 .. NumSpec :
                spec' = [q \in Req |->
                    IF Head(batches).tokens[q] = 0 \/ q \notin reqs \/ IsFinished(q) THEN spec[q]
                    ELSE IF isPrefill[q] THEN 0 ELSE drafts]
        BY <1>18, <3>2 DEF UpdateFinish
      <4>2. spec'[r] \in {spec[r], 0, drafts}
        BY <4>1
      <4> QED
        BY <1>0, <1>1, <2>1, <4>2
    <3> QED
      BY <3>1, <3>2
  <2> QED
    BY <1>1, <2>1, <2>2, <2>3, CountsKept
<1>19. ASSUME NEW q \in Req, KVXferFinished(q) PROVE Tally(r)' /\ Given(r)'
  BY <1>1, <1>2, <1>19 DEF KVXferFinished
<1>20. ASSUME NEW q \in Req, AddRequest(q) PROVE Tally(r)' /\ Given(r)'
  <2>1. /\ status[q] = "NEW" /\ status' = [status EXCEPT ![q] = "WAITING"]
        /\ UNCHANGED <<tokenVars, pc, passVars, todo, workerVars>>
    BY <1>20 DEF AddRequest
  <2>2. status[r] # "FINISHED" /\ (status'[r] = "RUNNING" <=> status[r] = "RUNNING")
    BY <1>0, <2>1
  <2> QED
    BY <1>1, <1>2, <2>1, <2>2
<1>21. ASSUME NEW q \in Req, AbortRequest(q) PROVE Tally(r)' /\ Given(r)'
  <2>1. status' = [status EXCEPT ![q] = "FINISHED"] /\ UNCHANGED <<tokenVars, pc, passVars, todo, workerVars>>
    BY <1>21 DEF AbortRequest, Dequeue
  <2>2. status'[r] = status[r]
    BY <1>0, <2>1
  <2> QED
    BY <1>1, <1>2, <2>1, <2>2
<1>22. CASE ResetStart \/ ResetEnd \/ Quiescent \/ UNCHANGED vars
  BY <1>1, <1>2, <1>22 DEF ResetStart, ResetEnd, Quiescent, vars
<1> QED
  BY <1>5, <1>6, <1>7, <1>8, <1>9, <1>10, <1>11, <1>12, <1>13, <1>14, <1>15, <1>16, <1>17, <1>18,
     <1>19, <1>20, <1>21, <1>22 DEF Next, ScheduleStep, UpdateStep

\* What the counters promise follows: a request with nothing in flight has
\* nothing counted ahead.
LEMMA CountsPromise == PassInv /\ QueueInv /\ TokenInv /\ CountInv => CountersAgree
<1> SUFFICES ASSUME PassInv, QueueInv, TokenInv, CountInv, NEW r \in Unfinished
             PROVE  /\ computed[r] >= 0 /\ placeholders[r] >= 0
                    /\ 0 <= stale[r] /\ stale[r] <= inflight[r]
                    /\ pc = "idle" =>
                          /\ status[r] = "RUNNING" /\ inflight[r] = 0 =>
                                placeholders[r] = 0 /\ computed[r] < NumTokens(r)
                          /\ AsyncScheduling /\ status[r] = "RUNNING" /\ ~isPrefill[r] =>
                                computed[r] = NumTokens(r) - 1 + placeholders[r]
  BY DEF CountersAgree
<1>1. r \in Req /\ status[r] # "FINISHED"
  BY DEF Unfinished, IsFinished, PassInv, TypeOK, QueueTypes
<1>2. Drain(r) /\ Tally(r) /\ StepShape
  BY <1>1 DEF TokenInv, CountInv
<1>3. computed[r] \in Int /\ placeholders[r] \in Int /\ Guess(r) \in Nat /\ NumTokens(r) \in Nat
  BY <1>1, CounterTypes, GuessType
<1>4. computed[r] >= 0 /\ placeholders[r] >= 0
  BY <1>2, <1>3 DEF Tally
<1>5. 0 <= stale[r] /\ stale[r] <= inflight[r]
  <2>1. IsFiniteSet(Active(r)) /\ \A i \in Active(r) : StepTokens(r)[i] \in Nat
    BY <1>1, StepFacts, FS_Subset DEF Active
  <2>2. Old(r) \cap Active(r) \in SUBSET Active(r)
    OBVIOUS
  <2>3. /\ SumOver(StepTokens(r), Old(r) \cap Active(r)) <= SumOver(StepTokens(r), Active(r))
        /\ SumOver(StepTokens(r), Old(r) \cap Active(r)) \in Nat
    <3> HIDE DEF StepTokens
    <3> QED
      BY <2>1, <2>2, SumMonotone
  <2> QED
    BY <1>2, <2>3 DEF Drain
<1>6. ASSUME inflight[r] = 0 PROVE Guess(r) = 0
  <2>1. Fresh(r) \in SUBSET DOMAIN batches /\ Fresh(r) \subseteq Active(r)
    BY <1>1, GuessType DEF Fresh
  <2>2. ASSUME NEW i \in Fresh(r) PROVE r \notin batches[i].samples
    <3>1. IsFiniteSet(Active(r)) /\ \A j \in Active(r) : StepTokens(r)[j] \in Nat
      BY <1>1, StepFacts, FS_Subset DEF Active
    <3>2. i \in Active(r) /\ i \in DOMAIN batches
      BY <2>1
    <3>3. StepTokens(r)[i] = batches[i].tokens[r] /\ batches[i].tokens[r] \in Nat
      BY <1>1, <3>2, StepFacts
    <3> HIDE DEF StepTokens
    <3>4. StepTokens(r)[i] <= SumOver(StepTokens(r), Active(r))
      BY <3>1, <3>2, SumPositive
    <3>5. ~(batches[i].tokens[r] > 0)
      BY <1>2, <1>6, <3>3, <3>4 DEF Drain
    <3> QED
      BY <1>1, <1>2, <3>2, <3>5 DEF StepShape
  <2> QED
    BY <1>1, <2>1, <2>2, GuessFacts DEF Guess
<1>7. pc = "idle" => r \notin admitted
  BY DEF QueueInv, OnlyInPass
<1>8. status[r] = "RUNNING" /\ inflight[r] = 0 => placeholders[r] = 0 /\ computed[r] < NumTokens(r)
  BY <1>2, <1>3, <1>6 DEF Tally
<1>9. pc = "idle" /\ AsyncScheduling /\ status[r] = "RUNNING" /\ ~isPrefill[r] =>
          computed[r] = NumTokens(r) - 1 + placeholders[r]
  BY <1>2, <1>7 DEF Tally
<1> QED
  BY <1>4, <1>5, <1>8, <1>9

\* The counters never fall below zero, and are exact up to the tokens that are
\* in flight: rejected drafts, preemptions, resets, dropped and late output
\* leave no residue.  With several synchronous steps in flight at once and
\* drafts, which is left out, the drafts of one step overlap the next.
THEOREM CountersExact ==
    ASSUME GuessesTakenBack
    PROVE  Spec => []CountersAgree
<1>1. PassInv /\ QueueInv /\ RowInv /\ WriteInv /\ TokenInv /\ CountInv /\ [Next]_vars => CountInv'
  BY CountStep DEF CountInv
<1>2. PassInv /\ QueueInv /\ TokenInv /\ CountInv => CountersAgree
  BY CountsPromise
<1> QED
  BY <1>1, <1>2, CountInit, PassInvariant, QueueInvariant, RowInvariant, WriteInvariant,
     TokenInvariant, PTL DEF Spec
=============================================================================

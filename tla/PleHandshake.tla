----------------------------- MODULE PleHandshake -----------------------------
(***************************************************************************)
(* The exchange of PLE data between the GPU workers and the CPU-offload    *)
(* process (v1/ple_offload/, model_executor/layers/ple_offload_layer.py).  *)
(*                                                                         *)
(* A rank <<d, t>> is tensor-parallel rank t of data-parallel rank d.  Its *)
(* host thread launches batches and issues forwards, its model stream      *)
(* executes them in order.  Rank <<d, 0>> also has a request thread that   *)
(* stages the inputs of d and tells the one CPU worker.  The worker claims *)
(* the output buffer of a layer on all ranks of d (consumed = 0), computes *)
(* into it and raises ready; the stream waits for ready, copies, lowers    *)
(* ready and raises consumed.                                              *)
(*                                                                         *)
(* Data is the number of the batch it belongs to: 1, 2, ... per d.         *)
(***************************************************************************)
EXTENDS Integers, Sequences, SequencesExt, FiniteSets

CONSTANTS
    DPs,            \* data-parallel ranks
    TPSize,         \* tensor-parallel size
    NumLayers,      \* PLE layers
    Depth,          \* batches the engine keeps in flight: 1, or 2 if asynchronous
    MaxPasses       \* bound: passes the engine issues per data-parallel rank

ASSUME HandshakeAssumption ==
    IsFiniteSet(DPs) /\ {TPSize, NumLayers, Depth, MaxPasses} \subseteq Nat \ {0}

VARIABLES
    passes, issued,         \* the engine: passes and batches issued
    finished,               \* the last batch whose forward completed
    inbox, host,            \* per rank: passes to launch, what the model thread does
    queue, event, thread,   \* _request_queue, _input_ready_event, the request thread
    requests,               \* sent to the worker and not received
    inputs, staged,         \* the runner's input buffer, the shared input buffer
    stream, stage,          \* per rank: work on the model stream, state of its head
    ready, consumed,        \* the two flags of each output
    output, gpu,            \* the host and the device output buffer
    worker,
    taken                   \* history: the last batch copied by a layer

engineVars == <<passes, issued>>
hostVars   == <<inbox, host>>
threadVars == <<queue, thread, requests, staged>>
streamVars == <<inputs, stream, stage, gpu, taken, finished>>
flagVars   == <<ready, consumed>>
vars == <<engineVars, hostVars, threadVars, event, streamVars, flagVars, output, worker>>

TPs    == 0 .. TPSize - 1
Ranks  == DPs \X TPs
Layers == 1 .. NumLayers
Batches == 1 .. MaxPasses

\* What an output buffer holds besides the result of a batch: what a dummy
\* forward wrote, or part of a result.
Dummy   == 0
Capture == -1
Torn    == -2

Cells(v) == [r \in Ranks |-> [l \in Layers |-> v]]

\* The buffers are registered with consumed = 1, so that the first request can
\* claim them.
Init ==
    /\ passes = [d \in DPs |-> 0] /\ issued = passes /\ finished = passes
    /\ inbox = [r \in Ranks |-> <<>>]
    /\ host = [r \in Ranks |-> [phase |-> "idle", pass |-> 0, layer |-> 1]]
    /\ queue = passes /\ event = passes /\ inputs = passes /\ staged = passes
    /\ thread = [d \in DPs |-> [phase |-> "get", pass |-> 0, seen |-> 0]]
    /\ requests = [d \in DPs |-> <<>>]
    /\ stream = inbox /\ stage = [r \in Ranks |-> "wait"]
    /\ ready = Cells(0) /\ consumed = Cells(1) /\ output = Cells(Dummy) /\ gpu = Cells(Dummy)
    /\ taken = Cells(0)
    /\ worker = [step |-> "poll", work |-> <<>>, batch |-> passes, at |-> 0, seen |-> 0]
-----------------------------------------------------------------------------
(* The engine: it issues the same passes to all ranks of d.                *)

\* A dummy or capturing pass is a call that all ranks answer.
Answered(d) ==
    \A t \in TPs : /\ \A i \in DOMAIN inbox[<<d, t>>] : inbox[<<d, t>>][i] > 0
                   /\ host[<<d, t>>].phase # "signal"

Quiet(d) == \A t \in TPs : /\ inbox[<<d, t>>] = <<>> /\ host[<<d, t>>].phase = "idle"
                           /\ stream[<<d, t>>] = <<>>

Issue(d, pass) ==
    /\ passes[d] < MaxPasses
    /\ passes' = [passes EXCEPT ![d] = @ + 1]
    /\ inbox' = [r \in Ranks |-> IF r[1] = d THEN Append(inbox[r], pass) ELSE inbox[r]]
    /\ UNCHANGED <<host, threadVars, event, streamVars, flagVars, output, worker>>

IssueBatch(d) ==
    /\ Answered(d) /\ issued[d] - finished[d] < Depth
    /\ Issue(d, issued[d] + 1)
    /\ issued' = [issued EXCEPT ![d] = @ + 1]

\* A dummy or capturing pass follows the output of the last batch: they belong
\* to the start, and to a data-parallel rank without requests.  Nothing waits
\* for the stream: the dummy forward before may still be on it.
MayIssueDummy(d) == Answered(d) /\ issued[d] = finished[d]

IssueDummy(d, kind) ==
    /\ MayIssueDummy(d)
    /\ Issue(d, kind)
    /\ UNCHANGED issued
-----------------------------------------------------------------------------
(* The model thread of a rank: PleOffloadConnector.prepare_forward.        *)

Forward(pass) ==
    [i \in 1 .. NumLayers + 1 |->
        [op |-> IF i \in Layers THEN "copy" ELSE "reduce", pass |-> pass, layer |-> i]]

\* prepare_inputs produces the inputs on the stream; the event follows it.
LaunchStart(r) ==
    /\ host[r].phase = "idle" /\ inbox[r] # <<>> /\ Head(inbox[r]) > 0
    /\ inbox' = [inbox EXCEPT ![r] = Tail(@)]
    /\ LET pass == Head(inbox[r])
           full == r[2] = 0 /\ queue[r[1]] # 0
       IN  /\ host' = [host EXCEPT ![r] = [phase |-> IF full THEN "full" ELSE "claim",
                                           pass |-> pass, layer |-> 1]]
           /\ IF r[2] = 0
              THEN /\ stream' = [stream EXCEPT ![r] =
                        Append(@, [op |-> "prepare", pass |-> pass, layer |-> 0])]
                   /\ event' = [event EXCEPT ![r[1]] = pass]
                   /\ queue' = [queue EXCEPT ![r[1]] = IF full THEN @ ELSE pass]
              ELSE UNCHANGED <<stream, event, queue>>
    /\ UNCHANGED <<engineVars, thread, requests, staged, inputs, stage, gpu, taken, finished,
                   flagVars, output, worker>>

\* Mutant of Claimed: the launch does not look at the flag.
ClaimedMutant(r, l) == TRUE

Claimed(r, l) == consumed[r][l] = 0

\* The loop over the outputs; after the last one the forward is issued.
ClaimSeen(r) ==
    /\ host[r].phase = "claim" /\ Claimed(r, host[r].layer)
    /\ IF host[r].layer < NumLayers
       THEN host' = [host EXCEPT ![r].layer = @ + 1] /\ UNCHANGED stream
       ELSE /\ host' = [host EXCEPT ![r].phase = "idle"]
            /\ stream' = [stream EXCEPT ![r] = @ \o Forward(host[r].pass)]
    /\ UNCHANGED <<engineVars, inbox, threadVars, event, inputs, stage, gpu, taken, finished,
                   flagVars, output, worker>>

ClaimTimeout(r) ==
    /\ host[r].phase = "claim" /\ ~Claimed(r, host[r].layer)
    /\ host' = [host EXCEPT ![r].phase = "timeout"]
    /\ UNCHANGED <<engineVars, inbox, threadVars, event, streamVars, flagVars, output, worker>>

DummyStart(r) ==
    /\ host[r].phase = "idle" /\ inbox[r] # <<>> /\ Head(inbox[r]) <= 0
    /\ host' = [host EXCEPT ![r] = [phase |-> "signal", pass |-> Head(inbox[r]), layer |-> 1]]
    /\ inbox' = [inbox EXCEPT ![r] = Tail(@)]
    /\ UNCHANGED <<engineVars, threadVars, event, streamVars, flagVars, output, worker>>

\* Mutant of Armed: the flag is incremented and not set.
ArmedMutant(r, l) == ready[r][l] + 1

Armed(r, l) == 1

\* signal_dummy_outputs, then the forward, which a capture only records.
SignalDummy(r) ==
    /\ host[r].phase = "signal"
    /\ LET l == host[r].layer
       IN  /\ output' = [output EXCEPT ![r][l] = Dummy]
           /\ ready' = [ready EXCEPT ![r][l] = Armed(r, l)]
           /\ consumed' = [consumed EXCEPT ![r][l] = 1]
           /\ IF l < NumLayers
              THEN host' = [host EXCEPT ![r].layer = @ + 1] /\ UNCHANGED stream
              ELSE /\ host' = [host EXCEPT ![r].phase = "idle"]
                   /\ stream' = [stream EXCEPT ![r] =
                        IF host[r].pass = Capture THEN @ ELSE @ \o Forward(Dummy)]
    /\ UNCHANGED <<engineVars, inbox, threadVars, event, inputs, stage, gpu, taken, finished,
                   worker>>
-----------------------------------------------------------------------------
(* The model stream of a rank.                                             *)

AtCopy(r, s) == stream[r] # <<>> /\ Head(stream[r]).op = "copy" /\ stage[r] = s
Advance(r) == stream' = [stream EXCEPT ![r] = Tail(@)]

PrepareInputs(r) ==
    /\ stream[r] # <<>> /\ Head(stream[r]).op = "prepare"
    /\ inputs' = [inputs EXCEPT ![r[1]] = Head(stream[r]).pass]
    /\ Advance(r)
    /\ UNCHANGED <<engineVars, hostVars, threadVars, event, stage, gpu, taken, finished,
                   flagVars, output, worker>>

\* cuStreamWaitValue32(ready == 1), then the copy.
CopyBegin(r) ==
    /\ AtCopy(r, "wait")
    /\ LET l == Head(stream[r]).layer
       IN  ready[r][l] = 1 /\ gpu' = [gpu EXCEPT ![r][l] = output[r][l]]
    /\ stage' = [stage EXCEPT ![r] = "copying"]
    /\ UNCHANGED <<engineVars, hostVars, threadVars, event, inputs, stream, taken, finished,
                   flagVars, output, worker>>

CopyEnd(r) ==
    /\ AtCopy(r, "copying")
    /\ LET l == Head(stream[r]).layer
           got == IF gpu[r][l] = output[r][l] THEN gpu[r][l] ELSE Torn
       IN  /\ gpu' = [gpu EXCEPT ![r][l] = got]
           /\ taken' = [taken EXCEPT ![r][l] = IF got > 0 THEN got ELSE @]
    /\ stage' = [stage EXCEPT ![r] = "copied"]
    /\ UNCHANGED <<engineVars, hostVars, threadVars, event, inputs, stream, finished, flagVars,
                   output, worker>>

\* cuStreamWriteValue32(ready, 0)
ResetReady(r) ==
    /\ AtCopy(r, "copied")
    /\ ready' = [ready EXCEPT ![r][Head(stream[r]).layer] = 0]
    /\ stage' = [stage EXCEPT ![r] = "release"]
    /\ UNCHANGED <<engineVars, hostVars, threadVars, event, inputs, stream, gpu, taken, finished,
                   consumed, output, worker>>

\* Mutant of Freed: the release is left to release_outputs, which does nothing.
FreedMutant(r, l) == consumed[r][l]

Freed(r, l) == 1

\* cuStreamWriteValue32(consumed, 1)
Release(r) ==
    /\ AtCopy(r, "release")
    /\ LET l == Head(stream[r]).layer IN consumed' = [consumed EXCEPT ![r][l] = Freed(r, l)]
    /\ stage' = [stage EXCEPT ![r] = "wait"]
    /\ Advance(r)
    /\ UNCHANGED <<engineVars, hostVars, threadVars, event, inputs, gpu, taken, finished, ready,
                   output, worker>>

\* A forward ends with a reduction over the tensor-parallel ranks: no stream
\* passes it before all have reached it.
AllReduce(d) ==
    /\ \A t \in TPs : stream[<<d, t>>] # <<>> /\ Head(stream[<<d, t>>]).op = "reduce"
    /\ LET pass == Head(stream[<<d, 0>>]).pass
       IN  finished' = [finished EXCEPT ![d] = IF pass > 0 THEN pass ELSE @]
    /\ stream' = [r \in Ranks |-> IF r[1] = d THEN Tail(stream[r]) ELSE stream[r]]
    /\ UNCHANGED <<engineVars, hostVars, threadVars, event, inputs, stage, gpu, taken, flagVars,
                   output, worker>>
-----------------------------------------------------------------------------
(* The request thread of d: _request_loop.                                 *)

ThreadGet(d) ==
    /\ thread[d].phase = "get" /\ queue[d] # 0
    /\ thread' = [thread EXCEPT ![d] = [phase |-> "taken", pass |-> queue[d], seen |-> 0]]
    /\ queue' = [queue EXCEPT ![d] = 0]
    /\ UNCHANGED <<engineVars, hostVars, requests, staged, event, streamVars, flagVars, output,
                   worker>>

\* Mutant of EventTarget: the copy stream does not wait for the event.
EventTargetMutant(d) == 0

\* wait_event waits for the last record of the event.
EventTarget(d) == event[d]

ThreadWaitEvent(d) ==
    /\ thread[d].phase = "taken"
    /\ thread' = [thread EXCEPT ![d].phase = "wait", ![d].seen = EventTarget(d)]
    /\ UNCHANGED <<engineVars, hostVars, queue, requests, staged, event, streamVars, flagVars,
                   output, worker>>

ThreadStageBegin(d) ==
    /\ thread[d].phase = "wait" /\ inputs[d] >= thread[d].seen
    /\ thread' = [thread EXCEPT ![d].phase = "staging", ![d].seen = inputs[d]]
    /\ staged' = [staged EXCEPT ![d] = Torn]
    /\ UNCHANGED <<engineVars, hostVars, queue, requests, event, streamVars, flagVars, output,
                   worker>>

\* The request names its batch by the sizes, so that inputs of another batch
\* are of no use to it.
ThreadStageEnd(d) ==
    /\ thread[d].phase = "staging"
    /\ thread' = [thread EXCEPT ![d].phase = "send"]
    /\ staged' = [staged EXCEPT ![d] =
          IF inputs[d] = thread[d].seen /\ inputs[d] = thread[d].pass THEN inputs[d] ELSE Torn]
    /\ UNCHANGED <<engineVars, hostVars, queue, requests, event, streamVars, flagVars, output,
                   worker>>

ThreadSend(d) ==
    /\ thread[d].phase = "send"
    /\ requests' = [requests EXCEPT ![d] = Append(@, thread[d].pass)]
    /\ thread' = [thread EXCEPT ![d].phase = "get"]
    /\ UNCHANGED <<engineVars, hostVars, queue, staged, event, streamVars, flagVars, output,
                   worker>>
-----------------------------------------------------------------------------
(* The CPU worker: PleOffloadRunner.busy_loop and _handle_requests.        *)

Current == Head(worker.work)

\* All requests that wait are received at once, a second one of the same d is
\* dropped; they are served layer by layer.
WorkerReceive ==
    /\ worker.step = "poll"
    /\ LET from == {d \in DPs : requests[d] # <<>>}
           n    == Cardinality(from)
       IN  /\ n > 0
           /\ \E order \in SetToSeqs(from) :
                 worker' = [step |-> "claim", at |-> 0, seen |-> 0,
                            batch |-> [d \in DPs |-> IF d \in from THEN requests[d][1]
                                                                    ELSE worker.batch[d]],
                            work |-> [i \in 1 .. n * NumLayers |->
                                         [layer |-> ((i - 1) \div n) + 1,
                                          dp |-> order[((i - 1) % n) + 1]]]]
    /\ requests' = [d \in DPs |-> <<>>]
    /\ UNCHANGED <<engineVars, hostVars, queue, thread, staged, event, streamVars, flagVars,
                   output>>

\* It waits until the output of the layer is free on every rank of d.
WorkerClaim ==
    /\ worker.step = "claim"
    /\ \A t \in TPs : consumed[<<Current.dp, t>>][Current.layer] = 1
    /\ worker' = [worker EXCEPT !.step = "reset", !.at = 0]
    /\ UNCHANGED <<engineVars, hostVars, threadVars, event, streamVars, flagVars, output>>

\* Mutant of ClaimedReady: a flag raised for a dummy or a capture is left.
ClaimedReadyMutant(r, l) == ready[r][l]

ClaimedReady(r, l) == 0

WorkerResetReady ==
    /\ worker.step = "reset"
    /\ LET r == <<Current.dp, worker.at>>
           l == Current.layer
       IN  ready' = [ready EXCEPT ![r][l] = ClaimedReady(r, l)]
    /\ worker' = [worker EXCEPT !.step = "take"]
    /\ UNCHANGED <<engineVars, hostVars, threadVars, event, streamVars, consumed, output>>

WorkerResetConsumed ==
    /\ worker.step = "take"
    /\ consumed' = [consumed EXCEPT ![<<Current.dp, worker.at>>][Current.layer] = 0]
    /\ worker' = IF worker.at + 1 < TPSize
                 THEN [worker EXCEPT !.step = "reset", !.at = @ + 1]
                 ELSE [worker EXCEPT !.step = "compute", !.at = 0]
    /\ UNCHANGED <<engineVars, hostVars, threadVars, event, streamVars, ready, output>>

\* forward_impl reads the shared inputs and writes the output of rank 0.
WorkerComputeBegin ==
    /\ worker.step = "compute"
    /\ output' = [output EXCEPT ![<<Current.dp, 0>>][Current.layer] = Torn]
    /\ worker' = [worker EXCEPT !.step = "computing", !.seen = staged[Current.dp]]
    /\ UNCHANGED <<engineVars, hostVars, threadVars, event, streamVars, flagVars>>

WorkerComputeEnd ==
    /\ worker.step = "computing"
    /\ LET d == Current.dp
           same == staged[d] = worker.seen /\ staged[d] = worker.batch[d]
       IN  output' = [output EXCEPT ![<<d, 0>>][Current.layer] =
                         IF same THEN staged[d] ELSE Torn]
    /\ worker' = [worker EXCEPT !.step = "fan"]
    /\ UNCHANGED <<engineVars, hostVars, threadVars, event, streamVars, flagVars>>

WorkerFanOut ==
    /\ worker.step = "fan"
    /\ LET d == Current.dp
       IN  output' = [r \in Ranks |->
              IF r[1] = d THEN [output[r] EXCEPT ![Current.layer] = output[<<d, 0>>][Current.layer]]
                          ELSE output[r]]
    /\ worker' = [worker EXCEPT !.step = "publish"]
    /\ UNCHANGED <<engineVars, hostVars, threadVars, event, streamVars, flagVars>>

WorkerPublish ==
    /\ worker.step = "publish"
    /\ ready' = [ready EXCEPT ![<<Current.dp, worker.at>>][Current.layer] = 1]
    /\ worker' = IF worker.at + 1 < TPSize
                 THEN [worker EXCEPT !.at = @ + 1]
                 ELSE [worker EXCEPT !.work = Tail(@), !.at = 0,
                                     !.step = IF Len(worker.work) > 1 THEN "claim" ELSE "poll"]
    /\ UNCHANGED <<engineVars, hostVars, threadVars, event, streamVars, consumed, output>>
-----------------------------------------------------------------------------
Failed == \E r \in Ranks : host[r].phase \in {"full", "timeout"}

\* A dummy forward waits for a flag that the one before it has lowered.
DummyLost(r) ==
    AtCopy(r, "wait") /\ Head(stream[r]).pass = Dummy /\ ready[r][Head(stream[r]).layer] = 0

\* A d has nothing to do, or its stream waits for good.
AtEnd(d) ==
    \/ Quiet(d) /\ issued[d] = finished[d]
    \/ \E t \in TPs : DummyLost(<<d, t>>)

\* The model stops when the bound is reached, or when a rank failed and with
\* it the engine.
Stopped ==
    /\ Failed \/ \A d \in DPs : AtEnd(d) /\ passes[d] = MaxPasses
    /\ UNCHANGED vars

HostNext(r)   == LaunchStart(r) \/ ClaimSeen(r) \/ DummyStart(r) \/ SignalDummy(r)
StreamNext(r) == PrepareInputs(r) \/ CopyBegin(r) \/ CopyEnd(r) \/ ResetReady(r) \/ Release(r)
ThreadNext(d) ==
    ThreadGet(d) \/ ThreadWaitEvent(d) \/ ThreadStageBegin(d) \/ ThreadStageEnd(d) \/ ThreadSend(d)
WorkerNext ==
    \/ WorkerReceive \/ WorkerClaim \/ WorkerResetReady \/ WorkerResetConsumed
    \/ WorkerComputeBegin \/ WorkerComputeEnd \/ WorkerFanOut \/ WorkerPublish

Next ==
    \/ \E d \in DPs : \/ IssueBatch(d) \/ AllReduce(d) \/ ThreadNext(d)
                      \/ \E kind \in {Dummy, Capture} : IssueDummy(d, kind)
    \/ \E r \in Ranks : HostNext(r) \/ ClaimTimeout(r) \/ StreamNext(r)
    \/ WorkerNext
    \/ Stopped

\* Threads, streams and the worker run; nothing is assumed of the engine.
Fairness ==
    /\ \A r \in Ranks : WF_vars(HostNext(r)) /\ WF_vars(StreamNext(r))
    /\ \A d \in DPs : WF_vars(ThreadNext(d)) /\ WF_vars(AllReduce(d))
    /\ WF_vars(WorkerNext)

Spec == Init /\ [][Next]_vars /\ Fairness
-----------------------------------------------------------------------------
\* The values each variable takes: numbers of batches up to the bound, flags
\* of one bit, phases of the threads.
TypeOK ==
    /\ passes \in [DPs -> 0 .. MaxPasses] /\ issued \in [DPs -> 0 .. MaxPasses]
    /\ finished \in [DPs -> 0 .. MaxPasses] /\ inputs \in [DPs -> 0 .. MaxPasses]
    /\ inbox \in [Ranks -> Seq({Dummy, Capture} \cup Batches)]
    /\ host \in [Ranks -> [phase : {"idle", "claim", "signal", "full", "timeout"},
                           pass : Capture .. MaxPasses, layer : Layers]]
    /\ queue \in [DPs -> 0 .. MaxPasses] /\ event \in [DPs -> 0 .. MaxPasses]
    /\ thread \in [DPs -> [phase : {"get", "taken", "wait", "staging", "send"},
                           pass : 0 .. MaxPasses, seen : 0 .. MaxPasses]]
    /\ requests \in [DPs -> Seq(Batches)] /\ staged \in [DPs -> Torn .. MaxPasses]
    /\ stream \in [Ranks -> Seq([op : {"prepare", "copy", "reduce"}, pass : 0 .. MaxPasses,
                                 layer : 0 .. NumLayers + 1])]
    /\ stage \in [Ranks -> {"wait", "copying", "copied", "release"}]
    /\ ready \in [Ranks -> [Layers -> {0, 1}]] /\ consumed \in [Ranks -> [Layers -> {0, 1}]]
    /\ output \in [Ranks -> [Layers -> Torn .. MaxPasses]]
    /\ gpu \in [Ranks -> [Layers -> Torn .. MaxPasses]]
    /\ taken \in [Ranks -> [Layers -> 0 .. MaxPasses]]
    /\ worker \in [step : {"poll", "claim", "reset", "take", "compute", "computing", "fan",
                           "publish"},
                   work : Seq([layer : Layers, dp : DPs]), batch : [DPs -> 0 .. MaxPasses],
                   at : TPs, seen : Torn .. MaxPasses]

\* Every layer of the forward of a batch has, on every rank, the result that
\* was computed from the inputs of that batch, whole: never the zeros of a
\* dummy forward, nor the result of another batch (_ple_offload_host_copy_impl).
OwnOutput ==
    \A r \in Ranks :
        stream[r] # <<>> /\ Head(stream[r]).op = "reduce" /\ Head(stream[r]).pass > 0
            => \A l \in Layers : gpu[r][l] = Head(stream[r]).pass

\* The flags make each output the box that PleMailbox specifies: results are
\* published in order, none is overwritten before the stream has it, none is
\* taken twice.
Mailbox == INSTANCE PleMailbox WITH
    Boxes <- Ranks \X Layers,
    Empty <- Torn,
    Placeholder <- Dummy,
    box   <- [b \in Ranks \X Layers |->
                 IF ready[b[1]][b[2]] = 1
                    /\ ~(AtCopy(b[1], "copied") /\ Head(stream[b[1]]).layer = b[2])
                 THEN output[b[1]][b[2]] ELSE Torn],
    taken <- [b \in Ranks \X Layers |-> taken[b[1]][b[2]]]

MailboxSpec == Mailbox!Spec

\* The worker never has two requests of one d at hand, so the request it would
\* drop as a duplicate (_handle_requests) does not exist.
NoDuplicateRequest ==
    \A d \in DPs :
        Len(requests[d]) + (IF \E i \in DOMAIN worker.work : worker.work[i].dp = d THEN 1 ELSE 0)
            <= 1

\* What a dummy forward copies are the zeros it was signalled with, never the
\* result, or part of one, of a batch, which that batch would then wait for in
\* vain.  A dummy forward whose flag the one before it lowered still waits when
\* the next batch is launched (signal_dummy_outputs): it is the event behind it
\* on the stream that keeps the request, and with it the worker, back.
DummiesLeaveResults ==
    \A r \in Ranks :
        (AtCopy(r, "copying") \/ AtCopy(r, "copied")) /\ Head(stream[r]).pass = Dummy
            => gpu[r][Head(stream[r]).layer] = Dummy

\* "each forward consumes its output before the next launch, so one pending
\* request is sufficient" (the comment of _request_queue): a launch never finds
\* the queue full.
OnePendingSuffices == \A r \in Ranks : host[r].phase # "full"

\* Whatever is issued completes, unless a claim of its d timed out or a dummy
\* forward of its d lost its flag: nobody waits for a flag that nobody will set,
\* and no d starves behind another in the worker, a failed one included.
ForwardsFinish ==
    \A r \in Ranks :
        (inbox[r] # <<>> \/ stream[r] # <<>>)
            ~> \/ inbox[r] = <<>> /\ stream[r] = <<>>
               \/ \E t \in TPs : LET q == <<r[1], t>> IN host[q].phase = "timeout" \/ DummyLost(q)
=============================================================================

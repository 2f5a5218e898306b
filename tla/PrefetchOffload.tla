--------------------------- MODULE PrefetchOffload ---------------------------
(***************************************************************************)
(* The prefetching weight offloader (model_executor/offloader/prefetch.py).*)
(* The weights of NumLayers offloaded layers live on the host; each layer  *)
(* reads them from one of PrefetchStep static device buffers that a copy   *)
(* stream fills ahead of the compute stream.                               *)
(*                                                                         *)
(* The host only issues work: a layer's kernel on the compute stream, a    *)
(* copy on the copy stream.  Both streams run on their own, in the order   *)
(* of issue, and are ordered against each other by events alone: an        *)
(* operation carries the number of operations of the other stream that     *)
(* must be complete before it starts.  While a CUDA graph is captured the  *)
(* host issues into the graph; a replay issues the whole graph at once.    *)
(***************************************************************************)
EXTENDS Integers, Sequences

CONSTANTS
    NumLayers,      \* offloaded layers, len(self.module_offloaders)
    PrefetchStep,   \* prefetch_step, and the number of buffer slots
    MaxPasses       \* bound: forward passes the host issues

OffloadAssumption ==
    /\ NumLayers \in Nat \ {0} /\ PrefetchStep \in Nat \ {0} /\ MaxPasses \in Nat

VARIABLES
    mode,           \* "idle" between passes, "eager", "capture"
    phase,          \* what the forward hook of layer does next
    layer,
    passes,         \* bound: passes issued so far
    inCapture,      \* _prefetch_in_capture
    eventValid,     \* _event_valid_for_eager
    event,          \* _copy_done_event: copies complete when it fires
    barrier,        \* copies the compute stream was told to wait for
    runs, copies,   \* the captured graph
    joined,         \* copies of the graph its compute branch waited for
    computeQ, computeDone, reading,     \* the compute stream
    copyQ, copyDone, writing,           \* the copy stream
    slot            \* the layer whose weights each buffer holds

hostVars   == <<mode, phase, layer, passes>>
eventVars  == <<inCapture, eventValid, event, barrier>>
graphVars  == <<runs, copies, joined>>
deviceVars == <<computeQ, computeDone, reading, copyQ, copyDone, writing, slot>>
vars == <<hostVars, eventVars, graphVars, deviceVars>>

Layers == 0 .. NumLayers - 1
Slots  == 0 .. PrefetchStep - 1
SlotOf(l) == l % PrefetchStep

\* Mutant of NextIndex: the prefetch runs past the last layer.
NextIndexMutant(l) == l + PrefetchStep

NextIndex(l) == (l + PrefetchStep) % NumLayers

Larger(m, n) == IF m <= n THEN n ELSE m
RunsIssued   == computeDone + Len(computeQ)
CopiesIssued == copyDone + Len(copyQ)

\* A buffer that was never filled or that a copy is writing.
Torn == -1

\* post_init started the first prefetches outside any capture.
Init ==
    LET first == {l \in Layers : l < PrefetchStep}
    IN  /\ mode = "idle" /\ phase = "wait" /\ layer = 0 /\ passes = 0
        /\ inCapture = [l \in Layers |-> FALSE]
        /\ eventValid = [l \in Layers |-> l \in first]
        /\ event = [l \in Layers |-> IF l \in first THEN l + 1 ELSE 0]
        /\ barrier = 0
        /\ runs = <<>> /\ copies = <<>> /\ joined = 0
        /\ computeQ = <<>> /\ computeDone = 0 /\ reading = FALSE
        /\ copyQ = [i \in {l + 1 : l \in first} |-> [layer |-> i - 1, after |-> 0]]
        /\ copyDone = 0 /\ writing = FALSE
        /\ slot = [s \in Slots |-> Torn]
-----------------------------------------------------------------------------
(* The host: which passes it issues.                                       *)

StartPass ==
    /\ mode = "idle" /\ passes < MaxPasses
    /\ passes' = passes + 1

StartEager ==
    /\ StartPass
    /\ mode' = "eager" /\ phase' = "wait" /\ layer' = 0
    /\ UNCHANGED <<eventVars, graphVars, deviceVars>>

\* Mutant of SyncedTo: the compute stream is told to wait for nothing new.
SyncedToMutant == barrier

\* sync_prev_onload: the compute stream waits for all copies issued so far.
SyncedTo == CopiesIssued

\* The graph is captured once, after a warm-up pass.
StartCapture ==
    /\ StartPass /\ passes > 0 /\ runs = <<>>
    /\ barrier' = SyncedTo
    /\ mode' = "capture" /\ phase' = "wait" /\ layer' = 0
    /\ UNCHANGED <<inCapture, eventValid, event, graphVars, deviceVars>>

\* run_fullgraph.  A graph completes as a whole: what the compute stream
\* does next comes after its last copy.
Replay ==
    /\ StartPass /\ runs # <<>>
    /\ computeQ' = computeQ \o
          [i \in DOMAIN runs |->
              [layer |-> runs[i].layer,
               after |-> IF runs[i].after > 0 THEN CopiesIssued + runs[i].after ELSE SyncedTo]]
    /\ copyQ' = copyQ \o
          [i \in DOMAIN copies |->
              [layer |-> copies[i].layer, after |-> RunsIssued + copies[i].after]]
    /\ barrier' = CopiesIssued + Len(copies)
    /\ UNCHANGED <<mode, phase, layer, inCapture, eventValid, event, graphVars, computeDone,
                   reading, copyDone, writing, slot>>
-----------------------------------------------------------------------------
(* The host: the forward hook of one layer.                                *)

\* _wait_for_layer outside a capture: for the copy of this layer, or for the
\* whole copy stream when its event cannot be waited for.
WaitEager ==
    /\ mode = "eager" /\ phase = "wait" /\ phase' = "compute"
    /\ barrier' = IF eventValid[layer] THEN Larger(barrier, event[layer]) ELSE CopiesIssued
    /\ UNCHANGED <<mode, layer, passes, inCapture, eventValid, event, graphVars, deviceVars>>

\* _wait_for_layer during a capture: a copy from before it is skipped.
WaitCapture ==
    /\ mode = "capture" /\ phase = "wait" /\ phase' = "compute"
    /\ joined' = IF inCapture[layer] THEN Larger(joined, event[layer]) ELSE joined
    /\ inCapture' = [inCapture EXCEPT ![layer] = FALSE]
    /\ UNCHANGED <<mode, layer, passes, eventValid, event, barrier, runs, copies, deviceVars>>

ComputeEager ==
    /\ mode = "eager" /\ phase = "compute" /\ phase' = "prefetch"
    /\ computeQ' = Append(computeQ, [layer |-> layer, after |-> barrier])
    /\ UNCHANGED <<mode, layer, passes, eventVars, graphVars, computeDone, reading, copyQ,
                   copyDone, writing, slot>>

ComputeCapture ==
    /\ mode = "capture" /\ phase = "compute" /\ phase' = "prefetch"
    /\ runs' = Append(runs, [layer |-> layer, after |-> joined])
    /\ UNCHANGED <<mode, layer, passes, eventVars, copies, joined, deviceVars>>

\* The hook moves to the next layer; the end of a capture joins the streams.
Advance ==
    IF layer < NumLayers - 1
    THEN layer' = layer + 1 /\ phase' = "wait" /\ UNCHANGED <<mode, passes>>
    ELSE /\ layer' = 0 /\ UNCHANGED passes
         /\ IF mode = "eager" THEN mode' = "idle" /\ phase' = "wait"
                              ELSE UNCHANGED mode /\ phase' = "join"

\* Mutant of ForkPoint: the copy stream does not wait for the compute stream.
ForkPointMutant(issued) == 0

\* The fork event: the copy starts after all kernels issued before it.
ForkPoint(issued) == issued

\* start_onload_to_static of the layer PrefetchStep ahead.
PrefetchEager ==
    /\ mode = "eager" /\ phase = "prefetch" /\ Advance
    /\ LET next == NextIndex(layer)
       IN /\ copyQ' = Append(copyQ, [layer |-> next, after |-> ForkPoint(RunsIssued)])
          /\ inCapture' = [inCapture EXCEPT ![next] = FALSE]
          /\ eventValid' = [eventValid EXCEPT ![next] = TRUE]
          /\ event' = [event EXCEPT ![next] = CopiesIssued + 1]
    /\ UNCHANGED <<barrier, graphVars, computeQ, computeDone, reading, copyDone, writing, slot>>

PrefetchCapture ==
    /\ mode = "capture" /\ phase = "prefetch" /\ Advance
    /\ LET next == NextIndex(layer)
       IN /\ copies' = Append(copies, [layer |-> next, after |-> ForkPoint(Len(runs))])
          /\ inCapture' = [inCapture EXCEPT ![next] = TRUE]
          /\ eventValid' = [eventValid EXCEPT ![next] = FALSE]
          /\ event' = [event EXCEPT ![next] = Len(copies) + 1]
    /\ UNCHANGED <<barrier, runs, joined, deviceVars>>

\* Mutant of Unjoined: joins by the flag that is for eager passes.
UnjoinedMutant == {l \in Layers : inCapture[l] /\ eventValid[l]}

Unjoined == {l \in Layers : inCapture[l]}

\* join_after_forward, before the capture ends.
JoinAfterForward ==
    /\ mode = "capture" /\ phase = "join"
    /\ joined' \in {joined} \cup {event[l] : l \in Unjoined}
    /\ \A n \in {joined} \cup {event[l] : l \in Unjoined} : n <= joined'
    /\ inCapture' = [l \in Layers |-> inCapture[l] /\ l \notin Unjoined]
    /\ mode' = "idle" /\ phase' = "wait"
    /\ UNCHANGED <<layer, passes, eventValid, event, barrier, runs, copies, deviceVars>>
-----------------------------------------------------------------------------
(* The device (external): both streams, each in order of issue.            *)

RunBegin ==
    /\ computeQ # <<>> /\ ~reading /\ Head(computeQ).after <= copyDone
    /\ reading' = TRUE
    /\ UNCHANGED <<hostVars, eventVars, graphVars, computeQ, computeDone, copyQ, copyDone,
                   writing, slot>>

RunEnd ==
    /\ reading /\ reading' = FALSE
    /\ computeQ' = Tail(computeQ) /\ computeDone' = computeDone + 1
    /\ UNCHANGED <<hostVars, eventVars, graphVars, copyQ, copyDone, writing, slot>>

CopyBegin ==
    /\ copyQ # <<>> /\ ~writing /\ Head(copyQ).after <= computeDone
    /\ writing' = TRUE
    /\ slot' = [slot EXCEPT ![SlotOf(Head(copyQ).layer)] = Torn]
    /\ UNCHANGED <<hostVars, eventVars, graphVars, computeQ, computeDone, reading, copyQ, copyDone>>

CopyEnd ==
    /\ writing /\ writing' = FALSE
    /\ slot' = [slot EXCEPT ![SlotOf(Head(copyQ).layer)] = Head(copyQ).layer]
    /\ copyQ' = Tail(copyQ) /\ copyDone' = copyDone + 1
    /\ UNCHANGED <<hostVars, eventVars, graphVars, computeQ, computeDone, reading>>

\* The last pass the bound allows has been issued and executed.
Quiescent ==
    /\ mode = "idle" /\ passes = MaxPasses /\ computeQ = <<>> /\ copyQ = <<>>
    /\ UNCHANGED vars
-----------------------------------------------------------------------------
Next ==
    \/ StartEager \/ StartCapture \/ Replay
    \/ WaitEager \/ WaitCapture \/ ComputeEager \/ ComputeCapture
    \/ PrefetchEager \/ PrefetchCapture \/ JoinAfterForward
    \/ RunBegin \/ RunEnd \/ CopyBegin \/ CopyEnd
    \/ Quiescent

Spec == Init /\ [][Next]_vars
-----------------------------------------------------------------------------
Op == [layer : Layers, after : Nat]

\* Every variable has its type; in particular the prefetch is circular: it
\* never names a layer that does not exist.
TypeOK ==
    /\ mode \in {"idle", "eager", "capture"} /\ layer \in Layers /\ passes \in 0 .. MaxPasses
    /\ phase \in {"wait", "compute", "prefetch", "join"}
    /\ inCapture \in [Layers -> BOOLEAN] /\ eventValid \in [Layers -> BOOLEAN]
    /\ event \in [Layers -> Nat] /\ barrier \in Nat
    /\ runs \in Seq(Op) /\ copies \in Seq(Op) /\ joined \in Nat
    /\ computeQ \in Seq(Op) /\ computeDone \in Nat /\ reading \in BOOLEAN
    /\ copyQ \in Seq(Op) /\ copyDone \in Nat /\ writing \in BOOLEAN
    /\ slot \in [Slots -> Layers \cup {Torn}]

\* A layer computes with its own weights, complete from its first read to
\* its last, in eager passes, in replays and across the change from one to
\* the other.
RightWeights ==
    reading => LET l == Head(computeQ).layer IN slot[SlotOf(l)] = l

\* No copy into a buffer overlaps a kernel that reads it: what the comment
\* on the fork event in start_onload_to_static says it prevents.
NoOverwriteWhileRead ==
    reading /\ writing => SlotOf(Head(computeQ).layer) # SlotOf(Head(copyQ).layer)

\* A capture ends with the copy stream joined (CUDA refuses the graph
\* otherwise), and no layer is left to wait for a captured event.
CaptureJoined ==
    mode # "capture" => joined = Len(copies) /\ \A l \in Layers : ~inCapture[l]
=============================================================================

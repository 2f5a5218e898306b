--------------------------- MODULE PrefetchProofs ---------------------------
(***************************************************************************)
(* Proofs about the weight offloader, for any number of layers, buffers    *)
(* and passes: types; the capture of a graph joins the copy stream; and    *)
(* every kernel reads the weights of its own layer, whenever the number of *)
(* buffers divides the number of layers.                                   *)
(***************************************************************************)
EXTENDS PrefetchOffload, TLAPS

\* The operation a stream executes is the first of its queue.
TypeInv ==
    /\ TypeOK
    /\ reading => computeQ # <<>>
    /\ writing => copyQ # <<>>

\* A function on 1 .. n is a sequence of n elements.
LEMMA FunctionSeq ==
    ASSUME NEW n \in Nat, NEW S, NEW f \in [1 .. n -> S]
    PROVE  f \in Seq(S) /\ Len(f) = n
  OBVIOUS

\* A layer has a next one, and a buffer.
LEMMA Indices ==
    ASSUME OffloadAssumption, NEW l \in Layers
    PROVE  NextIndex(l) \in Layers /\ SlotOf(l) \in Slots
  BY DEF OffloadAssumption, Layers, Slots, NextIndex, SlotOf

\* The first copies are for the first layers.
LEMMA TypeInit == ASSUME OffloadAssumption PROVE Init => TypeInv
<1> SUFFICES ASSUME Init PROVE TypeInv
  OBVIOUS
<1> DEFINE first == {l \in Layers : l < PrefetchStep}
           m == IF NumLayers < PrefetchStep THEN NumLayers ELSE PrefetchStep
<1>1. {l + 1 : l \in first} = 1 .. m /\ m \in Nat
  BY DEF OffloadAssumption, Layers
<1>2. copyQ = [i \in {l + 1 : l \in first} |-> [layer |-> i - 1, after |-> 0]]
  BY DEF Init
<1>3. copyQ = [i \in 1 .. m |-> [layer |-> i - 1, after |-> 0]]
  BY <1>1, <1>2
<1>4. \A i \in 1 .. m : i - 1 \in Layers
  BY DEF Layers, OffloadAssumption
<1> HIDE DEF m, first
<1>5. copyQ \in Seq(Op)
  <2>1. \A i \in 1 .. m : [layer |-> i - 1, after |-> 0] \in Op
    BY <1>4 DEF Op
  <2>2. copyQ \in [1 .. m -> Op]
    BY <1>3, <2>1
  <2> QED
    BY <1>1, <2>2, FunctionSeq
<1>6. 0 \in Layers
  BY DEF Layers, OffloadAssumption
<1>7. /\ event \in [Layers -> Nat] /\ eventValid \in [Layers -> BOOLEAN]
      /\ inCapture \in [Layers -> BOOLEAN] /\ slot \in [Slots -> Layers \cup {Torn}]
  BY DEF Init, Layers
<1>8. /\ mode = "idle" /\ layer = 0 /\ passes = 0 /\ phase = "wait" /\ barrier = 0
      /\ runs = <<>> /\ copies = <<>> /\ joined = 0
      /\ computeQ = <<>> /\ computeDone = 0 /\ copyDone = 0 /\ ~reading /\ ~writing
      /\ reading = FALSE /\ writing = FALSE
  BY DEF Init
<1>9. passes \in 0 .. MaxPasses
  BY <1>8 DEF OffloadAssumption
<1>10. runs \in Seq(Op) /\ copies \in Seq(Op) /\ computeQ \in Seq(Op)
  BY <1>8
<1> QED
  BY <1>5, <1>6, <1>7, <1>8, <1>9, <1>10 DEF TypeInv, TypeOK

\* The host issues operations on layers, after a number of others.
LEMMA TypeHost ==
    ASSUME OffloadAssumption, TypeInv,
           StartEager \/ StartCapture \/ WaitEager \/ WaitCapture \/ ComputeEager \/ ComputeCapture
             \/ PrefetchEager \/ PrefetchCapture \/ JoinAfterForward
    PROVE  TypeInv'
<1> USE DEF TypeInv, TypeOK
<1>1. CopiesIssued \in Nat /\ RunsIssued \in Nat
  BY DEF CopiesIssued, RunsIssued
<1>2. CASE StartEager
  BY <1>2 DEF StartEager, StartPass, eventVars, graphVars, deviceVars, OffloadAssumption, Layers
<1>3. CASE StartCapture
  BY <1>1, <1>3 DEF StartCapture, StartPass, SyncedTo, graphVars, deviceVars, OffloadAssumption, Layers
<1>4. CASE WaitEager
  BY <1>1, <1>4 DEF WaitEager, Larger, graphVars, deviceVars
<1>5. CASE WaitCapture
  BY <1>5 DEF WaitCapture, Larger, deviceVars
<1>6. CASE ComputeEager
  <2>2. [layer |-> layer, after |-> barrier] \in Op
    BY DEF Op
  <2>1. computeQ' \in Seq(Op) /\ computeQ' # <<>>
    BY <1>6, <2>2 DEF ComputeEager
  <2> QED
    BY <1>6, <2>1 DEF ComputeEager, eventVars, graphVars
<1>7. CASE ComputeCapture
  <2>1. runs' \in Seq(Op)
    BY <1>7 DEF ComputeCapture, Op
  <2> QED
    BY <1>7, <2>1 DEF ComputeCapture, eventVars, deviceVars
<1>8. ASSUME Advance
      PROVE  /\ mode' \in {"idle", "eager", "capture"} /\ layer' \in Layers /\ passes' = passes
             /\ phase' \in {"wait", "compute", "prefetch", "join"}
  BY <1>8 DEF Advance, Layers, OffloadAssumption
<1>9. CASE PrefetchEager
  <2>1. NextIndex(layer) \in Layers
    BY Indices
  <2>2. copyQ' = Append(copyQ, [layer |-> NextIndex(layer), after |-> RunsIssued])
    BY <1>9 DEF PrefetchEager, ForkPoint
  <2>5. [layer |-> NextIndex(layer), after |-> RunsIssued] \in Op
    BY <1>1, <2>1 DEF Op
  <2>3. copyQ' \in Seq(Op) /\ copyQ' # <<>>
    BY <2>2, <2>5
  <2>4. /\ inCapture' \in [Layers -> BOOLEAN] /\ eventValid' \in [Layers -> BOOLEAN]
        /\ event' \in [Layers -> Nat]
    <3>1. inCapture' = [inCapture EXCEPT ![NextIndex(layer)] = FALSE]
      BY <1>9 DEF PrefetchEager
    <3>2. eventValid' = [eventValid EXCEPT ![NextIndex(layer)] = TRUE]
      BY <1>9 DEF PrefetchEager
    <3>3. event' = [event EXCEPT ![NextIndex(layer)] = CopiesIssued + 1]
      BY <1>9 DEF PrefetchEager
    <3>4. CopiesIssued + 1 \in Nat
      BY <1>1
    <3> QED
      BY <3>1, <3>2, <3>3, <3>4
  <2> QED
    BY <1>8, <1>9, <2>3, <2>4 DEF PrefetchEager, graphVars
<1>10. CASE PrefetchCapture
  <2>1. NextIndex(layer) \in Layers
    BY Indices
  <2>2. copies' = Append(copies, [layer |-> NextIndex(layer), after |-> Len(runs)])
    BY <1>10 DEF PrefetchCapture, ForkPoint
  <2>3. copies' \in Seq(Op)
    BY <2>1, <2>2 DEF Op
  <2>4. /\ inCapture' \in [Layers -> BOOLEAN] /\ eventValid' \in [Layers -> BOOLEAN]
        /\ event' \in [Layers -> Nat]
    <3>1. inCapture' = [inCapture EXCEPT ![NextIndex(layer)] = TRUE]
      BY <1>10 DEF PrefetchCapture
    <3>2. eventValid' = [eventValid EXCEPT ![NextIndex(layer)] = FALSE]
      BY <1>10 DEF PrefetchCapture
    <3>3. event' = [event EXCEPT ![NextIndex(layer)] = Len(copies) + 1]
      BY <1>10 DEF PrefetchCapture
    <3>4. Len(copies) + 1 \in Nat
      OBVIOUS
    <3> QED
      BY <3>1, <3>2, <3>3, <3>4
  <2> QED
    BY <1>8, <1>10, <2>3, <2>4 DEF PrefetchCapture, deviceVars
<1>11. CASE JoinAfterForward
  <2>1. joined' \in Nat
    BY <1>11 DEF JoinAfterForward, Unjoined
  <2> QED
    BY <1>11, <2>1 DEF JoinAfterForward, deviceVars
<1> QED
  BY <1>2, <1>3, <1>4, <1>5, <1>6, <1>7, <1>9, <1>10, <1>11

\* A replay issues the operations of the graph.
LEMMA TypeReplay == ASSUME OffloadAssumption, TypeInv, Replay PROVE TypeInv'
<1> USE DEF TypeInv, TypeOK
<1> DEFINE more == [i \in DOMAIN runs |->
              [layer |-> runs[i].layer,
               after |-> IF runs[i].after > 0 THEN CopiesIssued + runs[i].after ELSE SyncedTo]]
           fetch == [i \in DOMAIN copies |->
              [layer |-> copies[i].layer, after |-> RunsIssued + copies[i].after]]
<1>1. CopiesIssued \in Nat /\ RunsIssued \in Nat
  BY DEF CopiesIssued, RunsIssued
<1>2. /\ \A i \in DOMAIN runs : runs[i].layer \in Layers /\ runs[i].after \in Nat
      /\ \A i \in DOMAIN copies : copies[i].layer \in Layers /\ copies[i].after \in Nat
  <2>1. /\ \A i \in DOMAIN runs : runs[i] \in Op
        /\ \A i \in DOMAIN copies : copies[i] \in Op
    OBVIOUS
  <2> QED
    BY <2>1 DEF Op
<1>3. more \in Seq(Op)
  <2>1. ASSUME NEW i \in DOMAIN runs PROVE more[i] \in Op
    <3>1. runs[i].layer \in Layers /\ runs[i].after \in Nat /\ CopiesIssued + runs[i].after \in Nat
      BY <1>1, <1>2
    <3>2. more[i] = [layer |-> runs[i].layer,
                     after |-> IF runs[i].after > 0 THEN CopiesIssued + runs[i].after ELSE SyncedTo]
      OBVIOUS
    <3> HIDE DEF more
    <3> QED
      BY <1>1, <3>1, <3>2 DEF Op, SyncedTo
  <2>2. more \in [1 .. Len(runs) -> Op]
    BY <2>1
  <2>3. Len(runs) \in Nat
    OBVIOUS
  <2> HIDE DEF more
  <2> QED
    BY ONLY <2>2, <2>3
<1>4. fetch \in Seq(Op)
  <2>1. ASSUME NEW i \in DOMAIN copies PROVE fetch[i] \in Op
    <3>1. copies[i].layer \in Layers /\ RunsIssued + copies[i].after \in Nat
      BY <1>1, <1>2
    <3>2. fetch[i] = [layer |-> copies[i].layer, after |-> RunsIssued + copies[i].after]
      OBVIOUS
    <3> HIDE DEF fetch
    <3> QED
      BY <3>1, <3>2 DEF Op
  <2>2. fetch \in [1 .. Len(copies) -> Op]
    BY <2>1
  <2>3. Len(copies) \in Nat
    OBVIOUS
  <2> HIDE DEF fetch
  <2> QED
    BY ONLY <2>2, <2>3
<1>5. computeQ' = computeQ \o more /\ copyQ' = copyQ \o fetch
  BY DEF Replay
<1> HIDE DEF more, fetch
<1>6. computeQ' \in Seq(Op) /\ copyQ' \in Seq(Op)
  BY <1>3, <1>4, <1>5
<1>7. (reading => computeQ' # <<>>) /\ (writing => copyQ' # <<>>)
  BY <1>3, <1>4, <1>5
<1>8. barrier' \in Nat /\ passes' \in 0 .. MaxPasses
  BY <1>1 DEF Replay, StartPass, OffloadAssumption
<1> QED
  BY <1>6, <1>7, <1>8 DEF Replay, graphVars

\* The device takes operations from its queues.
LEMMA TypeDevice ==
    ASSUME OffloadAssumption, TypeInv, RunBegin \/ RunEnd \/ CopyBegin \/ CopyEnd
    PROVE  TypeInv'
<1> USE DEF TypeInv, TypeOK, hostVars, eventVars, graphVars
<1>1. CASE RunBegin
  BY <1>1 DEF RunBegin
<1>2. CASE RunEnd
  <2>1. computeQ # <<>> /\ computeQ' = Tail(computeQ) /\ computeDone' = computeDone + 1
    BY <1>2 DEF RunEnd
  <2>2. computeQ' \in Seq(Op) /\ computeDone' \in Nat
    BY <2>1
  <2> QED
    BY <1>2, <2>2 DEF RunEnd
<1>3. CASE CopyBegin
  BY <1>3 DEF CopyBegin
<1>4. CASE CopyEnd
  <2>1. copyQ # <<>> /\ copyQ' = Tail(copyQ) /\ copyDone' = copyDone + 1
    BY <1>4 DEF CopyEnd
  <2>2. Head(copyQ) \in Op
    BY <2>1
  <2>3. Head(copyQ).layer \in Layers
    BY <2>2 DEF Op
  <2>4. copyQ' \in Seq(Op) /\ copyDone' \in Nat
    BY <2>1
  <2>5. slot' \in [Slots -> Layers \cup {Torn}]
    BY <1>4, <2>3 DEF CopyEnd
  <2> QED
    BY <1>4, <2>4, <2>5 DEF CopyEnd
<1> QED
  BY <1>1, <1>2, <1>3, <1>4

\* Every step keeps the types.
LEMMA TypeStep == ASSUME OffloadAssumption PROVE TypeInv /\ [Next]_vars => TypeInv'
<1> SUFFICES ASSUME TypeInv, [Next]_vars PROVE TypeInv'
  OBVIOUS
<1>1. CASE UNCHANGED vars
  BY <1>1 DEF TypeInv, TypeOK, vars, hostVars, eventVars, graphVars, deviceVars
<1>2. CASE Quiescent
  BY <1>1, <1>2 DEF Quiescent
<1> QED
  BY <1>1, <1>2, TypeHost, TypeReplay, TypeDevice DEF Next

\* Types of all variables hold in every state.
THEOREM TypeInvariant == ASSUME OffloadAssumption PROVE Spec => []TypeInv
<1> QED
  BY TypeInit, TypeStep, PTL DEF Spec

\* Every variable keeps its type, for any number of layers and buffers: the
\* circular prefetch never names a layer that does not exist (prefetch.py:228).
THEOREM TypeCorrect == ASSUME OffloadAssumption PROVE Spec => []TypeOK
<1>1. TypeInv => TypeOK
  BY DEF TypeInv
<1> QED
  BY <1>1, TypeInvariant, PTL
-----------------------------------------------------------------------------
(* The graph.                                                              *)

\* Where the host is.
HostInv ==
    /\ mode = "idle" => phase = "wait" /\ layer = 0
    /\ mode = "eager" => phase # "join"
    /\ phase = "join" => layer = 0

\* The graph has one kernel and one copy for each layer passed so far.
GraphInv ==
    /\ mode # "capture" => Len(runs) = Len(copies) /\ Len(runs) \in {0, NumLayers}
    /\ mode = "capture" =>
          /\ Len(copies) = IF phase = "join" THEN NumLayers ELSE layer
          /\ Len(runs) = IF phase = "prefetch" THEN layer + 1 ELSE Len(copies)
    /\ \A i \in 1 .. Len(runs) : runs[i].layer = i - 1
    /\ \A i \in 1 .. Len(copies) : copies[i].layer = NextIndex(i - 1) /\ copies[i].after = i

\* The last copy of the graph is waited for, or some layer will have it waited for.
JoinInv ==
    /\ joined <= Len(copies)
    /\ \A l \in Layers : inCapture[l] => event[l] <= Len(copies)
    /\ joined = Len(copies) \/ \E l \in Layers : inCapture[l] /\ event[l] = Len(copies)
    /\ mode # "capture" => \A l \in Layers : ~inCapture[l]

\* The invariant of a capture.
CaptureInv == HostInv /\ GraphInv /\ JoinInv

\* Nothing is captured at first.
LEMMA CaptureInit == ASSUME OffloadAssumption PROVE Init => CaptureInv
  BY DEF Init, CaptureInv, HostInv, GraphInv, JoinInv, OffloadAssumption

\* Outside a capture the graph does not change.
LEMMA CaptureFrame ==
    ASSUME CaptureInv, HostInv', mode # "capture", mode' # "capture", UNCHANGED graphVars,
           \A l \in Layers : ~inCapture'[l]
    PROVE  CaptureInv'
<1>1. UNCHANGED <<runs, copies, joined>>
  BY DEF graphVars
<1>2. joined = Len(copies)
  BY DEF CaptureInv, JoinInv
<1>3. GraphInv'
  BY <1>1 DEF CaptureInv, GraphInv, NextIndex
<1>4. JoinInv'
  BY <1>1, <1>2 DEF CaptureInv, JoinInv
<1> QED
  BY <1>3, <1>4 DEF CaptureInv

\* A copy of the graph is waited for by the layer that it is for, or at the
\* end: no step of the host loses the last one.
LEMMA CaptureStep ==
    ASSUME OffloadAssumption, TypeInv, TypeInv', CaptureInv, [Next]_vars
    PROVE  CaptureInv'
<1>1. /\ layer \in 0 .. NumLayers - 1 /\ NumLayers \in Nat \ {0} /\ Len(runs) \in Nat
      /\ Len(copies) \in Nat /\ joined \in Nat /\ runs \in Seq(Op) /\ copies \in Seq(Op)
      /\ event \in [Layers -> Nat] /\ inCapture \in [Layers -> BOOLEAN] /\ layer \in Layers
      /\ layer' \in 0 .. NumLayers - 1
  <2>1. layer \in Layers /\ layer' \in Layers
    BY DEF TypeInv, TypeOK
  <2>2. /\ runs \in Seq(Op) /\ copies \in Seq(Op) /\ joined \in Nat
        /\ event \in [Layers -> Nat] /\ inCapture \in [Layers -> BOOLEAN]
    BY DEF TypeInv, TypeOK
  <2> QED
    BY <2>1, <2>2 DEF OffloadAssumption, Layers
<1>2. CASE StartEager
  <2>1. mode = "idle" /\ mode' = "eager" /\ phase' = "wait" /\ layer' = 0 /\ UNCHANGED inCapture
    BY <1>2 DEF StartEager, StartPass, eventVars
  <2>2. HostInv'
    BY <2>1 DEF HostInv
  <2>3. \A l \in Layers : ~inCapture'[l]
    BY <2>1 DEF CaptureInv, JoinInv
  <2> QED
    BY <1>2, <2>1, <2>2, <2>3, CaptureFrame DEF StartEager
<1>3. CASE StartCapture
  <2>1. /\ mode = "idle" /\ mode' = "capture" /\ phase' = "wait" /\ layer' = 0 /\ runs = <<>>
        /\ UNCHANGED <<inCapture, event, runs, copies, joined>>
    BY <1>3 DEF StartCapture, StartPass, graphVars
  <2>2. HostInv'
    BY <2>1 DEF HostInv
  <2>3. Len(runs) = 0 /\ Len(copies) = 0
    BY <2>1 DEF CaptureInv, GraphInv
  <2>4. GraphInv'
    BY <2>1, <2>3 DEF GraphInv
  <2>5. JoinInv'
    BY <2>1 DEF CaptureInv, JoinInv
  <2> QED
    BY <2>2, <2>4, <2>5 DEF CaptureInv
<1>4. CASE Replay
  <2>1. mode = "idle" /\ UNCHANGED <<mode, phase, layer, inCapture>>
    BY <1>4 DEF Replay, StartPass
  <2>2. HostInv'
    BY <2>1 DEF CaptureInv, HostInv
  <2>3. \A l \in Layers : ~inCapture'[l]
    BY <2>1 DEF CaptureInv, JoinInv
  <2> QED
    BY <1>4, <2>1, <2>2, <2>3, CaptureFrame DEF Replay
<1>5. CASE WaitEager \/ ComputeEager
  <2>1. /\ mode = "eager" /\ phase' \in {"compute", "prefetch"} /\ UNCHANGED <<mode, layer, inCapture>>
        /\ UNCHANGED graphVars
    BY <1>5 DEF WaitEager, ComputeEager, eventVars
  <2>2. HostInv'
    BY <2>1 DEF HostInv
  <2>3. \A l \in Layers : ~inCapture'[l]
    BY <2>1 DEF CaptureInv, JoinInv
  <2> QED
    BY <2>1, <2>2, <2>3, CaptureFrame
<1>6. CASE PrefetchEager
  <2>1. /\ mode = "eager" /\ Advance /\ UNCHANGED graphVars
        /\ inCapture' = [inCapture EXCEPT ![NextIndex(layer)] = FALSE]
    BY <1>6 DEF PrefetchEager
  <2>2. HostInv' /\ mode' # "capture"
    BY <1>1, <2>1 DEF Advance, HostInv
  <2>3. \A l \in Layers : ~inCapture'[l]
    BY <1>1, <2>1 DEF CaptureInv, JoinInv
  <2> QED
    BY <2>1, <2>2, <2>3, CaptureFrame
<1>7. CASE WaitCapture
  <2>1. /\ mode = "capture" /\ phase = "wait" /\ phase' = "compute"
        /\ UNCHANGED <<mode, layer, event, runs, copies>>
        /\ joined' = IF inCapture[layer] THEN Larger(joined, event[layer]) ELSE joined
        /\ inCapture' = [inCapture EXCEPT ![layer] = FALSE]
    BY <1>7 DEF WaitCapture
  <2>2. HostInv' /\ GraphInv'
    BY <2>1 DEF CaptureInv, HostInv, GraphInv, NextIndex
  <2>3. event[layer] \in Nat /\ (inCapture[layer] => event[layer] <= Len(copies))
    BY <1>1 DEF CaptureInv, JoinInv
  <2>4. joined' <= Len(copies) /\ joined <= joined' /\ (inCapture[layer] => event[layer] <= joined')
    BY <1>1, <2>1, <2>3 DEF Larger, CaptureInv, JoinInv
  <2>5. ASSUME joined' # Len(copies)
        PROVE  \E l \in Layers : inCapture'[l] /\ event[l] = Len(copies)
    <3>1. joined # Len(copies)
      BY <1>1, <2>1, <2>4, <2>5 DEF Larger, CaptureInv, JoinInv
    <3>2. PICK l \in Layers : inCapture[l] /\ event[l] = Len(copies)
      BY <3>1 DEF CaptureInv, JoinInv
    <3>3. l # layer
      BY <2>1, <2>3, <2>4, <2>5, <3>2 DEF TypeInv, TypeOK
    <3> QED
      BY <1>1, <2>1, <3>2, <3>3
  <2>6. JoinInv'
    BY <1>1, <2>1, <2>4, <2>5 DEF CaptureInv, JoinInv
  <2> QED
    BY <2>2, <2>6 DEF CaptureInv
<1>8. CASE ComputeCapture
  <2>1. /\ mode = "capture" /\ phase = "compute" /\ phase' = "prefetch"
        /\ runs' = Append(runs, [layer |-> layer, after |-> joined])
        /\ UNCHANGED <<mode, layer, inCapture, event, copies, joined>>
    BY <1>8 DEF ComputeCapture, eventVars
  <2>2. HostInv' /\ JoinInv'
    BY <2>1 DEF CaptureInv, HostInv, JoinInv
  <2>3. Len(runs) = layer /\ Len(copies) = layer
    BY <2>1 DEF CaptureInv, GraphInv
  <2>4. Len(runs') = layer + 1 /\ runs'[layer + 1].layer = layer
    BY <1>1, <2>1, <2>3
  <2>5. \A i \in 1 .. layer : runs'[i] = runs[i]
    BY <1>1, <2>1, <2>3
  <2>6. \A i \in 1 .. layer + 1 : runs'[i].layer = i - 1
    <3>1. \A i \in 1 .. layer : runs[i].layer = i - 1
      BY <2>3 DEF CaptureInv, GraphInv
    <3> SUFFICES ASSUME NEW i \in 1 .. layer + 1 PROVE runs'[i].layer = i - 1
      OBVIOUS
    <3>2. CASE i = layer + 1
      BY <1>1, <2>4, <3>2
    <3>3. CASE i \in 1 .. layer
      BY <2>5, <3>1, <3>3
    <3> QED
      BY <1>1, <3>2, <3>3
  <2>7. GraphInv'
    BY <2>1, <2>3, <2>4, <2>6 DEF CaptureInv, GraphInv, NextIndex
  <2> QED
    BY <2>2, <2>7 DEF CaptureInv
<1>9. CASE PrefetchCapture
  <2> DEFINE next == NextIndex(layer)
  <2>1. /\ mode = "capture" /\ phase = "prefetch" /\ Advance /\ UNCHANGED <<runs, joined>>
        /\ copies' = Append(copies, [layer |-> next, after |-> Len(runs)])
        /\ inCapture' = [inCapture EXCEPT ![next] = TRUE]
        /\ event' = [event EXCEPT ![next] = Len(copies) + 1]
    BY <1>9 DEF PrefetchCapture, ForkPoint
  <2>2. next \in Layers
    BY <1>1, Indices
  <2>3. Len(copies) = layer /\ Len(runs) = layer + 1
    BY <2>1 DEF CaptureInv, GraphInv
  <2>4. /\ Len(copies') = layer + 1 /\ \A i \in 1 .. layer : copies'[i] = copies[i]
        /\ copies'[layer + 1] = [layer |-> next, after |-> layer + 1]
    BY <1>1, <2>1, <2>3
  <2>5. \A i \in 1 .. layer + 1 : copies'[i].layer = NextIndex(i - 1) /\ copies'[i].after = i
    <3>1. \A i \in 1 .. layer : copies[i].layer = NextIndex(i - 1) /\ copies[i].after = i
      BY <2>3 DEF CaptureInv, GraphInv
    <3>2. copies'[layer + 1].layer = NextIndex((layer + 1) - 1) /\ copies'[layer + 1].after = layer + 1
      <4>1. (layer + 1) - 1 = layer
        BY <1>1
      <4> QED
        BY <2>4, <4>1
    <3> HIDE DEF next
    <3> SUFFICES ASSUME NEW i \in 1 .. layer + 1
                 PROVE  copies'[i].layer = NextIndex(i - 1) /\ copies'[i].after = i
      OBVIOUS
    <3>3. CASE i = layer + 1
      BY <3>2, <3>3
    <3>4. CASE i \in 1 .. layer
      BY <2>4, <3>1, <3>4
    <3> QED
      BY <1>1, <3>3, <3>4
  <2>6. /\ mode' = "capture" /\ phase' \in {"wait", "join"} /\ (phase' = "join" => layer' = 0)
        /\ layer + 1 = IF phase' = "join" THEN NumLayers ELSE layer'
    BY <1>1, <2>1 DEF Advance
  <2>7. HostInv'
    BY <2>6 DEF HostInv
  <2>8. GraphInv'
    BY <1>1, <2>1, <2>3, <2>4, <2>5, <2>6 DEF CaptureInv, GraphInv, NextIndex
  <2> HIDE DEF next
  <2>9. event'[next] = layer + 1 /\ inCapture'[next]
    BY <1>1, <2>1, <2>2, <2>3
  <2>10. \A l \in Layers : inCapture'[l] => event'[l] <= layer + 1
    BY <1>1, <2>1, <2>2, <2>3 DEF CaptureInv, JoinInv
  <2>11. JoinInv'
    BY <1>1, <2>1, <2>2, <2>3, <2>4, <2>6, <2>9, <2>10 DEF CaptureInv, JoinInv
  <2> QED
    BY <2>7, <2>8, <2>11 DEF CaptureInv
<1>10. CASE JoinAfterForward
  <2>1. /\ mode = "capture" /\ phase = "join" /\ mode' = "idle" /\ phase' = "wait"
        /\ UNCHANGED <<layer, event, runs, copies>>
        /\ joined' \in {joined} \cup {event[l] : l \in Unjoined}
        /\ \A n \in {joined} \cup {event[l] : l \in Unjoined} : n <= joined'
        /\ inCapture' = [l \in Layers |-> inCapture[l] /\ l \notin Unjoined]
    BY <1>10 DEF JoinAfterForward
  <2>2. HostInv' /\ GraphInv'
    BY <1>1, <2>1 DEF CaptureInv, HostInv, GraphInv, NextIndex
  <2>3. \A l \in Layers : ~inCapture'[l]
    BY <2>1 DEF Unjoined
  <2>4. joined' = Len(copies)
    <3>1. joined' <= Len(copies)
      BY <2>1 DEF Unjoined, CaptureInv, JoinInv
    <3>2. Len(copies) \in {joined} \cup {event[l] : l \in Unjoined}
      BY DEF Unjoined, CaptureInv, JoinInv
    <3> QED
      BY <1>1, <2>1, <3>1, <3>2 DEF TypeInv, TypeOK
  <2>5. JoinInv'
    BY <1>1, <2>1, <2>3, <2>4 DEF JoinInv
  <2> QED
    BY <2>2, <2>5 DEF CaptureInv
<1>11. CASE RunBegin \/ RunEnd \/ CopyBegin \/ CopyEnd \/ Quiescent \/ UNCHANGED vars
  <2>1. UNCHANGED <<mode, phase, layer, inCapture, event, runs, copies, joined>>
    BY <1>11 DEF RunBegin, RunEnd, CopyBegin, CopyEnd, Quiescent, vars, hostVars, eventVars, graphVars
  <2> QED
    BY <2>1 DEF CaptureInv, HostInv, GraphInv, JoinInv, NextIndex
<1> QED
  BY <1>2, <1>3, <1>4, <1>5, <1>6, <1>7, <1>8, <1>9, <1>10, <1>11 DEF Next

\* The invariant holds in every state.
THEOREM CaptureInvariant == ASSUME OffloadAssumption PROVE Spec => []CaptureInv
<1>1. TypeInv /\ TypeInv' /\ CaptureInv /\ [Next]_vars => CaptureInv'
  BY CaptureStep
<1> QED
  BY <1>1, CaptureInit, TypeInvariant, PTL DEF Spec

\* When a capture ends the copy stream is joined and no layer is left with a
\* captured event, however many layers and buffers there are (prefetch.py,
\* join_after_forward): a copy whose layer is not reached any more is waited
\* for at the end.
THEOREM CapturesJoin == ASSUME OffloadAssumption PROVE Spec => []CaptureJoined
<1>1. CaptureInv => CaptureJoined
  BY DEF CaptureInv, JoinInv, CaptureJoined
<1> QED
  BY <1>1, CaptureInvariant, PTL
-----------------------------------------------------------------------------
(* Remainders.                                                             *)

\* Quotient and remainder.
LEMMA ModSplit ==
    ASSUME NEW x \in Nat, NEW n \in Nat \ {0}
    PROVE  /\ x \div n \in Nat /\ x % n \in 0 .. n - 1
           /\ x = n * (x \div n) + (x % n)
<1> DEFINE q == x \div n
           r == x % n
<1>1. q \in Int
  OBVIOUS
<1>2. r \in 0 .. n - 1
  OBVIOUS
<1>3. x = n * q + r
  OBVIOUS
<1> HIDE DEF q, r
<1>4. q <= -1 => n * q <= -n
  BY <1>1
<1>5. q \in Nat
  BY <1>1, <1>2, <1>3, <1>4
<1> QED
  BY <1>2, <1>3, <1>5 DEF q, r

\* A number of this form has this remainder.
LEMMA ModUnique ==
    ASSUME NEW n \in Nat \ {0}, NEW q \in Nat, NEW r \in 0 .. n - 1
    PROVE  (n * q + r) % n = r
<1> DEFINE x == n * q + r
           p == x \div n
           s == x % n
<1>1. n * q \in Nat
  OBVIOUS
<1>2. x \in Nat
  BY <1>1
<1>3. p \in Nat /\ s \in 0 .. n - 1 /\ x = n * p + s
  BY <1>2, ModSplit
<1> HIDE DEF p, s
<1>4. n * (p - q) = n * p - n * q
  BY <1>3
<1>5. n * (p - q) = r - s
  BY <1>1, <1>3, <1>4
<1>6. p - q >= 1 => n * (p - q) >= n
  BY <1>3
<1>7. p - q <= -1 => n * (p - q) <= -n
  BY <1>3
<1>8. p = q
  BY <1>3, <1>5, <1>6, <1>7
<1> QED
  BY <1>3, <1>8, <1>5 DEF s

\* The remainder of a sum.
LEMMA ModAdd ==
    ASSUME NEW n \in Nat \ {0}, NEW a \in Nat, NEW b \in Nat
    PROVE  (a + b) % n = ((a % n) + b) % n
<1> DEFINE p == a \div n
           c == (a % n) + b
           q == c \div n
           r == c % n
<1>1. p \in Nat /\ a % n \in 0 .. n - 1 /\ a = n * p + (a % n)
  BY ModSplit
<1>2. c \in Nat
  BY <1>1
<1>3. q \in Nat /\ r \in 0 .. n - 1 /\ c = n * q + r
  BY <1>2, ModSplit
<1>4. a + b = n * p + c
  BY <1>1
<1> HIDE DEF p, c, q, r
<1>5. n * (p + q) = n * p + n * q
  BY <1>1, <1>3
<1>6. a + b = n * (p + q) + r
  BY <1>1, <1>3, <1>4, <1>5
<1>7. (n * (p + q) + r) % n = r
  <2>1. p + q \in Nat /\ r \in 0 .. n - 1
    BY <1>1, <1>3
  <2> QED
    BY <2>1, ModUnique
<1> QED
  BY <1>6, <1>7 DEF r, c

\* Numbers less than the modulus apart have different remainders.
LEMMA ModApart ==
    ASSUME NEW n \in Nat \ {0}, NEW a \in Nat, NEW b \in Nat, a < b, b < a + n
    PROVE  a % n # b % n
<1> DEFINE p == a \div n
           q == b \div n
<1>1. p \in Nat /\ a % n \in 0 .. n - 1 /\ a = n * p + (a % n)
  BY ModSplit
<1>2. q \in Nat /\ b % n \in 0 .. n - 1 /\ b = n * q + (b % n)
  BY ModSplit
<1> HIDE DEF p, q
<1> SUFFICES ASSUME a % n = b % n PROVE FALSE
  OBVIOUS
<1>3. n * (q - p) = n * q - n * p
  BY <1>1, <1>2
<1>4. n * (q - p) = b - a
  BY <1>1, <1>2, <1>3
<1>5. q - p >= 1 => n * (q - p) >= n
  BY <1>1, <1>2
<1>6. q - p <= 0 => n * (q - p) <= 0
  BY <1>1, <1>2
<1> QED
  BY <1>1, <1>2, <1>4, <1>5, <1>6

\* A remainder keeps its remainders by a divisor of the modulus.
LEMMA ModOfMod ==
    ASSUME NEW n \in Nat \ {0}, NEW m \in Nat \ {0}, n % m = 0, NEW a \in Nat
    PROVE  (a % n) % m = a % m
<1> DEFINE p == a \div n
           q == n \div m
           c == a % n
           s == c \div m
           r == c % m
<1>1. p \in Nat /\ c \in 0 .. n - 1 /\ a = n * p + c
  BY ModSplit
<1>2. q \in Nat /\ n = m * q
  BY ModSplit
<1>3. s \in Nat /\ r \in 0 .. m - 1 /\ c = m * s + r
  <2>1. c \in Nat
    BY <1>1
  <2> HIDE DEF c
  <2> QED
    BY <2>1, ModSplit
<1> HIDE DEF p, q, c, s, r
<1>4. n * p = m * (q * p)
  BY <1>1, <1>2
<1>5. m * (q * p) + m * s = m * (q * p + s) /\ q * p + s \in Nat
  BY <1>1, <1>2, <1>3
<1>6. a = m * (q * p + s) + r
  BY <1>1, <1>3, <1>4, <1>5
<1>7. (m * (q * p + s) + r) % m = r
  BY <1>3, <1>5, ModUnique
<1> QED
  BY <1>6, <1>7 DEF r, c
-----------------------------------------------------------------------------
(* The circle of layers.                                                   *)

\* The buffers divide the layers evenly: what the offloader needs and does
\* not check.
EvenSlots == NumLayers % PrefetchStep = 0

\* The layer of the kth kernel the compute stream executes, and of the kth
\* copy of the copy stream.
LayerOf(k) == (k - 1) % NumLayers

\* With even slots there are no more buffers than layers.
LEMMA StepWithin == ASSUME OffloadAssumption, EvenSlots PROVE PrefetchStep <= NumLayers
<1> DEFINE q == NumLayers \div PrefetchStep
<1>1. NumLayers \in Nat /\ NumLayers > 0 /\ PrefetchStep \in Nat \ {0}
  BY DEF OffloadAssumption
<1>2. q \in Nat /\ NumLayers = PrefetchStep * q
  BY <1>1, ModSplit DEF EvenSlots
<1> HIDE DEF q
<1>3. q >= 1 => PrefetchStep * q >= PrefetchStep
  BY <1>1, <1>2
<1>4. q = 0 => PrefetchStep * q = 0
  BY <1>1
<1> QED
  BY <1>1, <1>2, <1>3, <1>4

\* An operation is for a layer.
LEMMA LayerOfType ==
    ASSUME OffloadAssumption, NEW k \in Nat \ {0}
    PROVE  LayerOf(k) \in Layers
  BY DEF OffloadAssumption, LayerOf, Layers

\* Less than a round apart, operations are for different layers.
LEMMA LayersApart ==
    ASSUME OffloadAssumption, NEW j \in Nat \ {0}, NEW k \in Nat \ {0}, j < k, k < j + NumLayers
    PROVE  LayerOf(j) # LayerOf(k)
<1>1. NumLayers \in Nat \ {0} /\ j - 1 \in Nat /\ k - 1 \in Nat /\ j - 1 < k - 1 /\ k - 1 < j - 1 + NumLayers
  BY DEF OffloadAssumption
<1> QED
  BY <1>1, ModApart DEF LayerOf

\* Less than PrefetchStep apart, they are in different buffers.
LEMMA SlotsApart ==
    ASSUME OffloadAssumption, EvenSlots, NEW j \in Nat \ {0}, NEW k \in Nat \ {0},
           j < k, k < j + PrefetchStep
    PROVE  SlotOf(LayerOf(j)) # SlotOf(LayerOf(k))
<1>1. /\ NumLayers \in Nat \ {0} /\ PrefetchStep \in Nat \ {0} /\ j - 1 \in Nat /\ k - 1 \in Nat
      /\ j - 1 < k - 1 /\ k - 1 < j - 1 + PrefetchStep /\ NumLayers % PrefetchStep = 0
  BY DEF OffloadAssumption, EvenSlots
<1>2. SlotOf(LayerOf(j)) = (j - 1) % PrefetchStep /\ SlotOf(LayerOf(k)) = (k - 1) % PrefetchStep
  <2>1. ASSUME NEW a \in Nat PROVE (a % NumLayers) % PrefetchStep = a % PrefetchStep
    <3>1. NumLayers \in Nat \ {0} /\ PrefetchStep \in Nat \ {0} /\ NumLayers % PrefetchStep = 0
      BY <1>1
    <3> QED
      BY ONLY <2>1, <3>1, ModOfMod, ZenonT(30)
  <2> QED
    BY <1>1, <2>1 DEF LayerOf, SlotOf
<1> QED
  BY <1>1, <1>2, ModApart

\* After r kernels the host is at layer l: the next kernel is for l, and the
\* copy PrefetchStep ahead for its next index.
LEMMA LayerAhead ==
    ASSUME OffloadAssumption, NEW r \in Nat, NEW l \in Layers, r % NumLayers = l
    PROVE  /\ LayerOf(r + 1) = l /\ LayerOf(r + PrefetchStep + 1) = NextIndex(l)
           /\ (r + 1) % NumLayers = IF l < NumLayers - 1 THEN l + 1 ELSE 0
<1>1. NumLayers \in Nat \ {0} /\ PrefetchStep \in Nat \ {0} /\ l \in 0 .. NumLayers - 1
  BY DEF OffloadAssumption, Layers
<1>2. (r + 1) - 1 = r /\ (r + PrefetchStep + 1) - 1 = r + PrefetchStep
  BY <1>1
<1>3. (r + PrefetchStep) % NumLayers = (l + PrefetchStep) % NumLayers
  BY <1>1, ModAdd
<1>4. (r + 1) % NumLayers = (l + 1) % NumLayers
  BY <1>1, ModAdd
<1>5. l < NumLayers - 1 => (l + 1) % NumLayers = l + 1
  <2>1. l < NumLayers - 1 => l + 1 \in 0 .. NumLayers - 1 /\ NumLayers * 0 + (l + 1) = l + 1
    BY <1>1
  <2> QED
    BY <1>1, <2>1, ModUnique
<1>6. ~(l < NumLayers - 1) => (l + 1) % NumLayers = 0
  <2>1. ~(l < NumLayers - 1) => NumLayers * 1 + 0 = l + 1
    BY <1>1
  <2>2. (NumLayers * 1 + 0) % NumLayers = 0
    BY <1>1, ModUnique
  <2> QED
    BY <2>1, <2>2
<1> QED
  BY <1>2, <1>3, <1>4, <1>5, <1>6 DEF LayerOf, NextIndex

\* The operations of a round that starts at layer 0.
LEMMA LayerAround ==
    ASSUME OffloadAssumption, NEW r \in Nat, r % NumLayers = 0
    PROVE  /\ (r + NumLayers) % NumLayers = 0
           /\ \A i \in 1 .. NumLayers :
                 LayerOf(r + i) = i - 1 /\ LayerOf(r + PrefetchStep + i) = NextIndex(i - 1)
<1>1. NumLayers \in Nat \ {0} /\ PrefetchStep \in Nat \ {0}
  BY DEF OffloadAssumption
<1>2. (r + NumLayers) % NumLayers = 0
  <2>1. (r + NumLayers) % NumLayers = (0 + NumLayers) % NumLayers
    BY <1>1, ModAdd
  <2>2. NumLayers * 1 + 0 = 0 + NumLayers
    BY <1>1
  <2>3. (NumLayers * 1 + 0) % NumLayers = 0
    BY <1>1, ModUnique
  <2> QED
    BY <2>1, <2>2, <2>3
<1>3. ASSUME NEW i \in 1 .. NumLayers
      PROVE  LayerOf(r + i) = i - 1 /\ LayerOf(r + PrefetchStep + i) = NextIndex(i - 1)
  <2>1. i - 1 \in 0 .. NumLayers - 1 /\ i - 1 \in Nat /\ (r + i) - 1 = r + (i - 1)
    BY <1>1
  <2>2. (r + (i - 1)) % NumLayers = (0 + (i - 1)) % NumLayers
    BY <1>1, <2>1, ModAdd
  <2>3. (0 + (i - 1)) % NumLayers = i - 1
    <3>1. NumLayers * 0 + (i - 1) = 0 + (i - 1)
      BY <1>1
    <3> QED
      BY <1>1, <2>1, <3>1, ModUnique
  <2>4. (r + PrefetchStep + i) - 1 = r + (i - 1 + PrefetchStep) /\ i - 1 + PrefetchStep \in Nat
    BY <1>1
  <2>5. (r + (i - 1 + PrefetchStep)) % NumLayers = (0 + (i - 1 + PrefetchStep)) % NumLayers
    BY <1>1, <2>4, ModAdd
  <2>6. 0 + (i - 1 + PrefetchStep) = i - 1 + PrefetchStep
    BY <1>1
  <2> QED
    BY <2>1, <2>2, <2>3, <2>4, <2>5, <2>6 DEF LayerOf, NextIndex
<1> QED
  BY <1>2, <1>3
-----------------------------------------------------------------------------
(* The streams.                                                            *)

\* A captured kernel waits for the copy PrefetchStep kernels back, if the
\* graph has it.
WindowInv ==
    /\ \A i \in 1 .. Len(runs) : runs[i].after >= i - PrefetchStep
    /\ mode = "capture" /\ phase = "compute" => joined >= layer + 1 - PrefetchStep
    /\ mode = "capture" /\ phase # "join" =>
          \A l \in Layers : l >= PrefetchStep /\ l < Len(copies) + PrefetchStep
                            /\ (l > layer \/ (l = layer /\ phase = "wait"))
                => inCapture[l] /\ event[l] = l + 1 - PrefetchStep

\* The host issues the kernels in a circle, and the copies PrefetchStep
\* ahead of them.
IssueInv ==
    /\ mode # "eager" => RunsIssued % NumLayers = 0
    /\ mode = "eager" /\ phase # "prefetch" => RunsIssued % NumLayers = layer
    /\ mode = "eager" /\ phase = "prefetch" =>
          /\ RunsIssued > 0 /\ (RunsIssued - 1) % NumLayers = layer
          /\ CopiesIssued = RunsIssued - 1 + PrefetchStep
    /\ ~(mode = "eager" /\ phase = "prefetch") => CopiesIssued = RunsIssued + PrefetchStep

\* A kernel waits for the copy of its number, a copy for the kernel
\* PrefetchStep before it.
OrderInv ==
    /\ \A i \in 1 .. Len(computeQ) :
          /\ computeQ[i].layer = LayerOf(computeDone + i)
          /\ computeQ[i].after >= computeDone + i
    /\ \A i \in 1 .. Len(copyQ) :
          /\ copyQ[i].layer = LayerOf(copyDone + i)
          /\ copyQ[i].after >= copyDone + i - PrefetchStep

\* An event that an eager pass will wait for covers the copy it is for.
EventInv ==
    /\ \A k \in RunsIssued + 1 .. CopiesIssued :
          eventValid[LayerOf(k)] => event[LayerOf(k)] >= k \/ barrier >= k
    /\ mode = "eager" /\ phase = "compute" => barrier >= RunsIssued + 1

\* The streams are never more than PrefetchStep apart, and the buffers hold
\* the last PrefetchStep copies.
BufferInv ==
    /\ copyDone <= computeDone + PrefetchStep
    /\ writing => copyDone + 1 <= computeDone + PrefetchStep
    /\ reading => computeDone + 1 <= copyDone
    /\ \A j \in 1 .. copyDone :
          j > copyDone - PrefetchStep /\ ~(writing /\ j = copyDone + 1 - PrefetchStep)
              => slot[SlotOf(LayerOf(j))] = LayerOf(j)

\* The invariant of the streams.
StreamInv == WindowInv /\ IssueInv /\ OrderInv /\ EventInv /\ BufferInv

\* Numbers of operations.
LEMMA Counts ==
    ASSUME OffloadAssumption, TypeInv
    PROVE  /\ NumLayers \in Nat \ {0} /\ PrefetchStep \in Nat \ {0} /\ layer \in 0 .. NumLayers - 1
           /\ Len(computeQ) \in Nat /\ Len(copyQ) \in Nat /\ computeDone \in Nat /\ copyDone \in Nat
           /\ RunsIssued \in Nat /\ CopiesIssued \in Nat
           /\ Len(runs) \in Nat /\ Len(copies) \in Nat /\ barrier \in Nat /\ joined \in Nat
           /\ runs \in Seq(Op) /\ copies \in Seq(Op) /\ computeQ \in Seq(Op) /\ copyQ \in Seq(Op)
<1>1. /\ layer \in Layers /\ computeDone \in Nat /\ copyDone \in Nat /\ barrier \in Nat
      /\ joined \in Nat /\ runs \in Seq(Op) /\ copies \in Seq(Op) /\ computeQ \in Seq(Op)
      /\ copyQ \in Seq(Op)
  BY DEF TypeInv, TypeOK
<1> QED
  BY <1>1 DEF OffloadAssumption, Layers, RunsIssued, CopiesIssued

\* The first copies fill the buffers in order.
LEMMA StreamInit == ASSUME OffloadAssumption, EvenSlots PROVE Init => StreamInv
<1> SUFFICES ASSUME Init PROVE StreamInv
  OBVIOUS
<1>1. /\ NumLayers \in Nat \ {0} /\ PrefetchStep \in Nat \ {0} /\ PrefetchStep <= NumLayers
  BY StepWithin DEF OffloadAssumption
<1> DEFINE first == {l \in Layers : l < PrefetchStep}
<1>2. {l + 1 : l \in first} = 1 .. PrefetchStep
  BY <1>1 DEF Layers
<1>3. copyQ = [i \in {l + 1 : l \in first} |-> [layer |-> i - 1, after |-> 0]]
  BY DEF Init
<1>4. copyQ = [i \in 1 .. PrefetchStep |-> [layer |-> i - 1, after |-> 0]]
  BY <1>2, <1>3
<1>5. copyQ \in Seq([layer : Int, after : Nat]) /\ Len(copyQ) = PrefetchStep
  BY <1>1, <1>4
<1>6. /\ mode = "idle" /\ phase = "wait" /\ barrier = 0 /\ runs = <<>> /\ computeQ = <<>>
      /\ computeDone = 0 /\ copyDone = 0 /\ ~reading /\ ~writing
      /\ event = [l \in Layers |-> IF l \in first THEN l + 1 ELSE 0]
  BY DEF Init
<1> HIDE DEF first
<1>7. RunsIssued = 0 /\ CopiesIssued = PrefetchStep
  BY <1>1, <1>5, <1>6 DEF RunsIssued, CopiesIssued
<1>8. ASSUME NEW k \in 1 .. PrefetchStep
      PROVE  LayerOf(k) = k - 1 /\ k - 1 \in Layers /\ k - 1 < PrefetchStep
  <2>1. 0 % NumLayers = 0
    <3>1. NumLayers * 0 + 0 = 0 /\ 0 \in 0 .. NumLayers - 1
      BY <1>1
    <3> QED
      BY <1>1, <3>1, ModUnique
  <2>2. k \in 1 .. NumLayers /\ 0 + k = k
    BY <1>1
  <2> QED
    BY <1>1, <2>1, <2>2, LayerAround DEF Layers
<1>9. WindowInv
  BY <1>6 DEF WindowInv
<1>10. IssueInv
  <2>1. 0 % NumLayers = 0
    <3>1. NumLayers * 0 + 0 = 0 /\ 0 \in 0 .. NumLayers - 1
      BY <1>1
    <3> QED
      BY <1>1, <3>1, ModUnique
  <2> QED
    BY <1>1, <1>6, <1>7, <2>1 DEF IssueInv
<1>11. OrderInv
  <2>1. ASSUME NEW i \in 1 .. Len(copyQ)
        PROVE  /\ copyQ[i].layer = LayerOf(copyDone + i)
               /\ copyQ[i].after >= copyDone + i - PrefetchStep
    <3>1. i \in 1 .. PrefetchStep /\ copyDone + i = i
      BY <1>5, <1>6
    <3>2. copyQ[i] = [layer |-> i - 1, after |-> 0]
      BY <1>4, <3>1
    <3>3. copyQ[i].layer = i - 1 /\ copyQ[i].after = 0 /\ LayerOf(i) = i - 1
      BY <1>8, <3>1, <3>2
    <3>4. 0 >= copyDone + i - PrefetchStep
      BY <1>1, <1>6, <3>1
    <3> QED
      BY <3>1, <3>3, <3>4
  <2>2. Len(computeQ) = 0
    BY <1>6
  <2> QED
    BY <2>1, <2>2 DEF OrderInv
<1>12. EventInv
  <2>1. ASSUME NEW k \in 1 .. PrefetchStep PROVE event[LayerOf(k)] = k
    <3>1. LayerOf(k) \in first /\ LayerOf(k) + 1 = k
      BY <1>8 DEF first
    <3> QED
      BY <1>6, <1>8, <3>1
  <2>2. RunsIssued + 1 .. CopiesIssued = 1 .. PrefetchStep
    BY <1>7
  <2>3. ASSUME NEW k \in RunsIssued + 1 .. CopiesIssued PROVE event[LayerOf(k)] >= k
    <3>1. k \in 1 .. PrefetchStep
      BY <2>2, <2>3
    <3>2. k >= k
      BY <3>1
    <3> QED
      BY <2>1, <3>1, <3>2
  <2> QED
    BY <1>6, <2>3 DEF EventInv
<1>13. BufferInv
  BY <1>1, <1>6 DEF BufferInv
<1> QED
  BY <1>9, <1>10, <1>11, <1>12, <1>13 DEF StreamInv

\* A captured kernel waits for the copy PrefetchStep kernels back.
LEMMA WindowStep ==
    ASSUME OffloadAssumption, TypeInv, TypeInv', CaptureInv, WindowInv, [Next]_vars
    PROVE  WindowInv'
<1>1. /\ layer \in 0 .. NumLayers - 1 /\ NumLayers \in Nat \ {0} /\ PrefetchStep \in Nat \ {0}
      /\ Len(runs) \in Nat /\ Len(copies) \in Nat /\ joined \in Nat /\ runs \in Seq(Op)
      /\ copies \in Seq(Op)
  BY Counts
<1>2. layer \in Layers /\ inCapture \in [Layers -> BOOLEAN] /\ event \in [Layers -> Nat]
  BY DEF TypeInv, TypeOK
<1>3. ASSUME mode' # "capture", UNCHANGED runs PROVE WindowInv'
  BY <1>3 DEF WindowInv
<1>4. CASE StartEager \/ Replay \/ WaitEager \/ ComputeEager \/ JoinAfterForward
  <2>1. mode' # "capture" /\ UNCHANGED runs
    BY <1>4 DEF StartEager, StartPass, Replay, WaitEager, ComputeEager, JoinAfterForward, graphVars
  <2> QED
    BY <1>3, <2>1
<1>5. CASE PrefetchEager
  <2>1. mode' # "capture" /\ UNCHANGED runs
    BY <1>5 DEF PrefetchEager, Advance, graphVars
  <2> QED
    BY <1>3, <2>1
<1>6. CASE StartCapture
  <2>1. mode = "idle" /\ phase' = "wait" /\ runs = <<>> /\ UNCHANGED <<runs, copies>>
    BY <1>6 DEF StartCapture, StartPass, graphVars
  <2>2. Len(runs) = 0 /\ Len(copies') = 0
    BY <2>1 DEF CaptureInv, GraphInv
  <2> QED
    BY <1>1, <2>1, <2>2 DEF WindowInv, Layers
<1>7. CASE WaitCapture
  <2>1. /\ mode = "capture" /\ phase = "wait" /\ phase' = "compute"
        /\ UNCHANGED <<mode, layer, event, runs, copies>>
        /\ joined' = IF inCapture[layer] THEN Larger(joined, event[layer]) ELSE joined
        /\ inCapture' = [inCapture EXCEPT ![layer] = FALSE]
    BY <1>7 DEF WaitCapture
  <2>2. Len(copies) = layer
    BY <2>1 DEF CaptureInv, GraphInv
  <2>3. layer >= PrefetchStep => inCapture[layer] /\ event[layer] = layer + 1 - PrefetchStep
    BY <1>1, <1>2, <2>1, <2>2 DEF WindowInv
  <2>4. joined' >= layer + 1 - PrefetchStep
    <3>1. CASE layer >= PrefetchStep
      BY <1>1, <1>2, <2>1, <2>3, <3>1 DEF Larger
    <3>2. CASE layer < PrefetchStep
      <4>1. joined' \in Nat
        BY DEF TypeInv, TypeOK
      <4> QED
        BY <1>1, <3>2, <4>1
    <3> QED
      BY <1>1, <3>1, <3>2
  <2>5. ASSUME NEW l \in Layers, l >= PrefetchStep, l < Len(copies) + PrefetchStep, l > layer
        PROVE  inCapture'[l] /\ event'[l] = l + 1 - PrefetchStep
    <3>1. inCapture[l] /\ event[l] = l + 1 - PrefetchStep
      BY <2>1, <2>5 DEF WindowInv
    <3>2. l # layer
      BY <1>1, <2>5 DEF Layers
    <3> QED
      BY <1>2, <2>1, <3>1, <3>2
  <2> QED
    BY <2>1, <2>4, <2>5 DEF WindowInv
<1>8. CASE ComputeCapture
  <2>1. /\ mode = "capture" /\ phase = "compute" /\ phase' = "prefetch"
        /\ runs' = Append(runs, [layer |-> layer, after |-> joined])
        /\ UNCHANGED <<mode, layer, inCapture, event, copies>>
    BY <1>8 DEF ComputeCapture, eventVars
  <2>2. Len(runs) = layer
    BY <2>1 DEF CaptureInv, GraphInv
  <2>3. joined >= layer + 1 - PrefetchStep
    BY <2>1 DEF WindowInv
  <2>4. /\ Len(runs') = layer + 1 /\ runs'[layer + 1].after = joined
        /\ \A i \in 1 .. layer : runs'[i] = runs[i]
    BY <1>1, <2>1, <2>2
  <2>5. ASSUME NEW i \in 1 .. Len(runs') PROVE runs'[i].after >= i - PrefetchStep
    <3>1. CASE i = layer + 1
      BY <1>1, <2>3, <2>4, <3>1
    <3>2. CASE i \in 1 .. layer
      BY <2>2, <2>4, <3>2 DEF WindowInv
    <3> QED
      BY <1>1, <2>4, <3>1, <3>2
  <2>6. ASSUME NEW l \in Layers, l >= PrefetchStep, l < Len(copies) + PrefetchStep, l > layer
        PROVE  inCapture'[l] /\ event'[l] = l + 1 - PrefetchStep
    BY <2>1, <2>6 DEF WindowInv
  <2> QED
    BY <2>1, <2>5, <2>6 DEF WindowInv
<1>9. CASE PrefetchCapture
  <2> DEFINE next == NextIndex(layer)
  <2>1. /\ mode = "capture" /\ phase = "prefetch" /\ Advance /\ UNCHANGED <<runs, joined>>
        /\ copies' = Append(copies, [layer |-> next, after |-> Len(runs)])
        /\ inCapture' = [inCapture EXCEPT ![next] = TRUE]
        /\ event' = [event EXCEPT ![next] = Len(copies) + 1]
    BY <1>9 DEF PrefetchCapture, ForkPoint
  <2>2. next \in Layers
    BY <1>2, Indices
  <2>3. Len(copies) = layer
    BY <2>1 DEF CaptureInv, GraphInv
  <2>4. Len(copies') = layer + 1
    BY <1>1, <2>1, <2>3
  <2>5. phase' \in {"wait", "join"} /\ (phase' # "join" => layer' = layer + 1)
    BY <1>1, <2>1 DEF Advance
  <2>6. IF layer + PrefetchStep < NumLayers THEN next = layer + PrefetchStep ELSE next < PrefetchStep
    <3>1. CASE layer + PrefetchStep < NumLayers
      <4>1. /\ NumLayers * 0 + (layer + PrefetchStep) = layer + PrefetchStep
            /\ layer + PrefetchStep \in 0 .. NumLayers - 1
        BY <1>1, <3>1
      <4>2. (NumLayers * 0 + (layer + PrefetchStep)) % NumLayers = layer + PrefetchStep
        BY <1>1, <4>1, ModUnique
      <4> QED
        BY <3>1, <4>1, <4>2 DEF NextIndex
    <3>2. CASE layer + PrefetchStep >= NumLayers
      <4> DEFINE q == (layer + PrefetchStep) \div NumLayers
      <4>1. layer + PrefetchStep \in Nat
        BY <1>1
      <4>2. next = (layer + PrefetchStep) % NumLayers
        BY DEF NextIndex
      <4>3. q \in Nat /\ layer + PrefetchStep = NumLayers * q + next /\ next \in 0 .. NumLayers - 1
        BY <1>1, <4>1, <4>2, ModSplit
      <4> HIDE DEF q, next
      <4>4. q = 0 => NumLayers * q = 0
        BY <1>1
      <4>5. q >= 1 => NumLayers * q >= NumLayers
        BY <1>1, <4>3
      <4> QED
        BY <1>1, <3>2, <4>3, <4>4, <4>5
    <3> QED
      BY <1>1, <3>1, <3>2
  <2> HIDE DEF next
  <2>7. ASSUME NEW l \in Layers, l >= PrefetchStep, l < layer + 1 + PrefetchStep, l >= layer + 1
        PROVE  inCapture'[l] /\ event'[l] = l + 1 - PrefetchStep
    <3>1. l \in 0 .. NumLayers - 1
      BY DEF Layers
    <3>2. CASE l = next
      <4>1. l = layer + PrefetchStep
        BY <1>1, <2>6, <2>7, <3>1, <3>2
      <4> QED
        BY <1>1, <1>2, <2>1, <2>2, <2>3, <3>2, <4>1
    <3>3. CASE l # next
      <4>1. l < layer + PrefetchStep
        BY <1>1, <2>6, <2>7, <3>1, <3>3
      <4>2. inCapture[l] /\ event[l] = l + 1 - PrefetchStep
        BY <1>1, <2>1, <2>3, <2>7, <3>1, <4>1 DEF WindowInv
      <4> QED
        BY <1>2, <2>1, <3>3, <4>2
    <3> QED
      BY <3>2, <3>3
  <2>8. \A i \in 1 .. Len(runs') : runs'[i].after >= i - PrefetchStep
    BY <2>1 DEF WindowInv
  <2>9. mode' = "capture" /\ phase' # "join" => \A l \in Layers :
              l >= PrefetchStep /\ l < Len(copies') + PrefetchStep
                /\ (l > layer' \/ (l = layer' /\ phase' = "wait"))
              => inCapture'[l] /\ event'[l] = l + 1 - PrefetchStep
    <3> SUFFICES ASSUME phase' # "join", NEW l \in Layers,
                        l >= PrefetchStep, l < Len(copies') + PrefetchStep, l >= layer'
                 PROVE  inCapture'[l] /\ event'[l] = l + 1 - PrefetchStep
      <4>1. layer' \in Layers
        BY DEF TypeInv, TypeOK
      <4> QED
        BY <4>1 DEF Layers
    <3> QED
      BY <2>4, <2>5, <2>7
  <2> QED
    BY <2>5, <2>8, <2>9 DEF WindowInv
<1>10. CASE RunBegin \/ RunEnd \/ CopyBegin \/ CopyEnd \/ Quiescent \/ UNCHANGED vars
  <2>1. UNCHANGED <<mode, phase, layer, inCapture, event, runs, copies, joined>>
    BY <1>10 DEF RunBegin, RunEnd, CopyBegin, CopyEnd, Quiescent, vars, hostVars, eventVars, graphVars
  <2> QED
    BY <2>1 DEF WindowInv
<1> QED
  BY <1>4, <1>5, <1>6, <1>7, <1>8, <1>9, <1>10 DEF Next

\* What the streams execute changes no number of issued operations.
LEMMA DeviceCounts ==
    ASSUME OffloadAssumption, TypeInv, RunBegin \/ RunEnd \/ CopyBegin \/ CopyEnd
    PROVE  /\ RunsIssued' = RunsIssued /\ CopiesIssued' = CopiesIssued
           /\ UNCHANGED <<mode, phase, layer, eventValid, event, barrier>>
<1>1. /\ computeQ \in Seq(Op) /\ copyQ \in Seq(Op) /\ computeDone \in Nat /\ copyDone \in Nat
  BY Counts
<1>2. CASE RunBegin
  BY <1>2 DEF RunBegin, RunsIssued, CopiesIssued, hostVars, eventVars
<1>3. CASE RunEnd
  <2>1. computeQ # <<>> /\ computeQ' = Tail(computeQ) /\ computeDone' = computeDone + 1
    BY <1>3 DEF RunEnd, TypeInv
  <2>2. Len(computeQ') = Len(computeQ) - 1 /\ Len(computeQ) \in Nat
    BY <1>1, <2>1
  <2> QED
    BY <1>1, <1>3, <2>1, <2>2 DEF RunEnd, RunsIssued, CopiesIssued, hostVars, eventVars
<1>4. CASE CopyBegin
  BY <1>4 DEF CopyBegin, RunsIssued, CopiesIssued, hostVars, eventVars
<1>5. CASE CopyEnd
  <2>1. copyQ # <<>> /\ copyQ' = Tail(copyQ) /\ copyDone' = copyDone + 1
    BY <1>5 DEF CopyEnd, TypeInv
  <2>2. Len(copyQ') = Len(copyQ) - 1 /\ Len(copyQ) \in Nat
    BY <1>1, <2>1
  <2> QED
    BY <1>1, <1>5, <2>1, <2>2 DEF CopyEnd, RunsIssued, CopiesIssued, hostVars, eventVars
<1> QED
  BY <1>2, <1>3, <1>4, <1>5

\* The elements of a concatenation.
LEMMA ConcatAt ==
    ASSUME NEW S, NEW T, NEW s \in Seq(S), NEW t \in Seq(T)
    PROVE  /\ Len(s \o t) = Len(s) + Len(t)
           /\ \A i \in 1 .. Len(s) : (s \o t)[i] = s[i]
           /\ \A i \in 1 .. Len(t) : (s \o t)[Len(s) + i] = t[i]
  OBVIOUS

\* A replay issues one kernel and one copy for each layer.
LEMMA ReplayCounts ==
    ASSUME OffloadAssumption, TypeInv, CaptureInv, IssueInv, Replay
    PROVE  /\ Len(runs) = NumLayers /\ Len(copies) = NumLayers
           /\ RunsIssued' = RunsIssued + NumLayers /\ CopiesIssued' = CopiesIssued + NumLayers
           /\ RunsIssued % NumLayers = 0 /\ CopiesIssued = RunsIssued + PrefetchStep
           /\ Len(computeQ') = Len(computeQ) + NumLayers /\ Len(copyQ') = Len(copyQ) + NumLayers
           /\ \A i \in 1 .. Len(computeQ) : computeQ'[i] = computeQ[i]
           /\ \A i \in 1 .. Len(copyQ) : copyQ'[i] = copyQ[i]
           /\ \A i \in 1 .. NumLayers :
                 /\ computeQ'[Len(computeQ) + i].layer = runs[i].layer
                 /\ computeQ'[Len(computeQ) + i].after
                      = IF runs[i].after > 0 THEN CopiesIssued + runs[i].after ELSE CopiesIssued
                 /\ copyQ'[Len(copyQ) + i].layer = copies[i].layer
                 /\ copyQ'[Len(copyQ) + i].after = RunsIssued + copies[i].after
<1> DEFINE more == [i \in DOMAIN runs |->
              [layer |-> runs[i].layer,
               after |-> IF runs[i].after > 0 THEN CopiesIssued + runs[i].after ELSE SyncedTo]]
           fetch == [i \in DOMAIN copies |->
              [layer |-> copies[i].layer, after |-> RunsIssued + copies[i].after]]
<1>1. /\ NumLayers \in Nat \ {0} /\ Len(computeQ) \in Nat /\ Len(copyQ) \in Nat
      /\ computeDone \in Nat /\ copyDone \in Nat /\ Len(runs) \in Nat /\ Len(copies) \in Nat
      /\ runs \in Seq(Op) /\ copies \in Seq(Op) /\ computeQ \in Seq(Op) /\ copyQ \in Seq(Op)
  BY Counts
<1>2. mode = "idle" /\ runs # <<>> /\ UNCHANGED <<computeDone, copyDone>>
  BY DEF Replay, StartPass
<1>3. Len(runs) = NumLayers /\ Len(copies) = NumLayers
  <2>1. Len(runs) # 0
    BY <1>1, <1>2
  <2> QED
    BY <1>2, <2>1 DEF CaptureInv, GraphInv
<1>4. computeQ' = computeQ \o more /\ copyQ' = copyQ \o fetch
  BY DEF Replay
<1>5. DOMAIN runs = 1 .. NumLayers /\ DOMAIN copies = 1 .. NumLayers
  BY <1>1, <1>3
<1>6. \A i \in 1 .. NumLayers :
         more[i] = [layer |-> runs[i].layer,
                    after |-> IF runs[i].after > 0 THEN CopiesIssued + runs[i].after
                                                   ELSE CopiesIssued]
  BY <1>5 DEF SyncedTo
<1>7. \A i \in 1 .. NumLayers :
         fetch[i] = [layer |-> copies[i].layer, after |-> RunsIssued + copies[i].after]
  BY <1>5
<1>8. more \in Seq({more[i] : i \in 1 .. NumLayers}) /\ Len(more) = NumLayers
  <2>1. more \in [1 .. NumLayers -> {more[i] : i \in 1 .. NumLayers}]
    BY <1>5
  <2>2. NumLayers \in Nat
    BY <1>1
  <2> HIDE DEF more
  <2> QED
    BY <2>1, <2>2, FunctionSeq
<1>9. fetch \in Seq({fetch[i] : i \in 1 .. NumLayers}) /\ Len(fetch) = NumLayers
  <2>1. fetch \in [1 .. NumLayers -> {fetch[i] : i \in 1 .. NumLayers}]
    BY <1>5
  <2>2. NumLayers \in Nat
    BY <1>1
  <2> HIDE DEF fetch
  <2> QED
    BY <2>1, <2>2, FunctionSeq
<1> HIDE DEF more, fetch
<1>10. /\ Len(computeQ') = Len(computeQ) + NumLayers
       /\ \A i \in 1 .. Len(computeQ) : computeQ'[i] = computeQ[i]
       /\ \A i \in 1 .. NumLayers : computeQ'[Len(computeQ) + i] = more[i]
  <2>1. /\ Len(computeQ \o more) = Len(computeQ) + Len(more)
        /\ \A i \in 1 .. Len(computeQ) : (computeQ \o more)[i] = computeQ[i]
        /\ \A i \in 1 .. Len(more) : (computeQ \o more)[Len(computeQ) + i] = more[i]
    <3> DEFINE T == {more[i] : i \in 1 .. NumLayers}
    <3>1. computeQ \in Seq(Op)
      BY <1>1
    <3>2. more \in Seq(T)
      BY <1>8
    <3> HIDE DEF T
    <3> QED
      BY <3>1, <3>2, ConcatAt
  <2> QED
    BY <1>4, <1>8, <2>1
<1>11. /\ Len(copyQ') = Len(copyQ) + NumLayers
       /\ \A i \in 1 .. Len(copyQ) : copyQ'[i] = copyQ[i]
       /\ \A i \in 1 .. NumLayers : copyQ'[Len(copyQ) + i] = fetch[i]
  <2>1. /\ Len(copyQ \o fetch) = Len(copyQ) + Len(fetch)
        /\ \A i \in 1 .. Len(copyQ) : (copyQ \o fetch)[i] = copyQ[i]
        /\ \A i \in 1 .. Len(fetch) : (copyQ \o fetch)[Len(copyQ) + i] = fetch[i]
    <3> DEFINE T == {fetch[i] : i \in 1 .. NumLayers}
    <3>1. copyQ \in Seq(Op)
      BY <1>1
    <3>2. fetch \in Seq(T)
      BY <1>9
    <3> HIDE DEF T
    <3> QED
      BY <3>1, <3>2, ConcatAt
  <2> QED
    BY <1>4, <1>9, <2>1
<1>12. RunsIssued' = RunsIssued + NumLayers /\ CopiesIssued' = CopiesIssued + NumLayers
  BY <1>1, <1>2, <1>10, <1>11 DEF RunsIssued, CopiesIssued
<1>13. RunsIssued % NumLayers = 0 /\ CopiesIssued = RunsIssued + PrefetchStep
  BY <1>2 DEF IssueInv
<1>14. \A i \in 1 .. NumLayers :
          /\ computeQ'[Len(computeQ) + i].layer = runs[i].layer
          /\ computeQ'[Len(computeQ) + i].after
               = IF runs[i].after > 0 THEN CopiesIssued + runs[i].after ELSE CopiesIssued
  <2> SUFFICES ASSUME NEW i \in 1 .. NumLayers
               PROVE  /\ computeQ'[Len(computeQ) + i].layer = runs[i].layer
                      /\ computeQ'[Len(computeQ) + i].after
                           = IF runs[i].after > 0 THEN CopiesIssued + runs[i].after
                                                  ELSE CopiesIssued
    OBVIOUS
  <2> DEFINE op == computeQ'[Len(computeQ) + i]
  <2>1. op = [layer |-> runs[i].layer,
              after |-> IF runs[i].after > 0 THEN CopiesIssued + runs[i].after ELSE CopiesIssued]
    BY <1>6, <1>10
  <2> HIDE DEF op
  <2>2. /\ op.layer = runs[i].layer
        /\ op.after = IF runs[i].after > 0 THEN CopiesIssued + runs[i].after ELSE CopiesIssued
    BY <2>1
  <2> QED
    BY <2>2 DEF op
<1>15. \A i \in 1 .. NumLayers :
          /\ copyQ'[Len(copyQ) + i].layer = copies[i].layer
          /\ copyQ'[Len(copyQ) + i].after = RunsIssued + copies[i].after
  <2> SUFFICES ASSUME NEW i \in 1 .. NumLayers
               PROVE  /\ copyQ'[Len(copyQ) + i].layer = copies[i].layer
                      /\ copyQ'[Len(copyQ) + i].after = RunsIssued + copies[i].after
    OBVIOUS
  <2> DEFINE op == copyQ'[Len(copyQ) + i]
  <2>1. op = [layer |-> copies[i].layer, after |-> RunsIssued + copies[i].after]
    BY <1>7, <1>11
  <2> HIDE DEF op
  <2>2. op.layer = copies[i].layer /\ op.after = RunsIssued + copies[i].after
    BY <2>1
  <2> QED
    BY <2>2 DEF op
<1> QED
  BY <1>3, <1>10, <1>11, <1>12, <1>13, <1>14, <1>15

\* An eager pass issues its kernel, then its copy.
LEMMA EagerCounts ==
    ASSUME OffloadAssumption, TypeInv, IssueInv
    PROVE  /\ ComputeEager =>
                /\ RunsIssued' = RunsIssued + 1 /\ CopiesIssued' = CopiesIssued
                /\ CopiesIssued = RunsIssued + PrefetchStep
                /\ Len(computeQ') = Len(computeQ) + 1
                /\ \A i \in 1 .. Len(computeQ) : computeQ'[i] = computeQ[i]
                /\ computeQ'[Len(computeQ) + 1] = [layer |-> layer, after |-> barrier]
                /\ LayerOf(RunsIssued + 1) = layer
           /\ PrefetchEager =>
                /\ RunsIssued' = RunsIssued /\ CopiesIssued' = CopiesIssued + 1
                /\ CopiesIssued + 1 = RunsIssued + PrefetchStep
                /\ Len(copyQ') = Len(copyQ) + 1
                /\ \A i \in 1 .. Len(copyQ) : copyQ'[i] = copyQ[i]
                /\ copyQ'[Len(copyQ) + 1] = [layer |-> NextIndex(layer), after |-> RunsIssued]
                /\ LayerOf(CopiesIssued + 1) = NextIndex(layer)
                /\ RunsIssued % NumLayers = IF layer < NumLayers - 1 THEN layer + 1 ELSE 0
<1>1. /\ NumLayers \in Nat \ {0} /\ PrefetchStep \in Nat \ {0} /\ layer \in 0 .. NumLayers - 1
      /\ Len(computeQ) \in Nat /\ Len(copyQ) \in Nat /\ computeDone \in Nat /\ copyDone \in Nat
      /\ computeQ \in Seq(Op) /\ copyQ \in Seq(Op) /\ RunsIssued \in Nat /\ CopiesIssued \in Nat
  BY Counts
<1>2. layer \in Layers
  BY DEF TypeInv, TypeOK
<1>3. ASSUME ComputeEager
      PROVE  /\ RunsIssued' = RunsIssued + 1 /\ CopiesIssued' = CopiesIssued
             /\ CopiesIssued = RunsIssued + PrefetchStep
             /\ Len(computeQ') = Len(computeQ) + 1
             /\ \A i \in 1 .. Len(computeQ) : computeQ'[i] = computeQ[i]
             /\ computeQ'[Len(computeQ) + 1] = [layer |-> layer, after |-> barrier]
             /\ LayerOf(RunsIssued + 1) = layer
  <2>1. /\ mode = "eager" /\ phase = "compute" /\ UNCHANGED <<computeDone, copyQ, copyDone>>
        /\ computeQ' = Append(computeQ, [layer |-> layer, after |-> barrier])
    BY <1>3 DEF ComputeEager
  <2>2. /\ Len(computeQ') = Len(computeQ) + 1
        /\ \A i \in 1 .. Len(computeQ) : computeQ'[i] = computeQ[i]
        /\ computeQ'[Len(computeQ) + 1] = [layer |-> layer, after |-> barrier]
    BY <1>1, <2>1
  <2>3. RunsIssued' = RunsIssued + 1 /\ CopiesIssued' = CopiesIssued
    BY <1>1, <2>1, <2>2 DEF RunsIssued, CopiesIssued
  <2>4. RunsIssued % NumLayers = layer /\ CopiesIssued = RunsIssued + PrefetchStep
    BY <2>1 DEF IssueInv
  <2>5. LayerOf(RunsIssued + 1) = layer
    BY <1>1, <1>2, <2>4, LayerAhead
  <2> QED
    BY <2>2, <2>3, <2>4, <2>5
<1>4. ASSUME PrefetchEager
      PROVE  /\ RunsIssued' = RunsIssued /\ CopiesIssued' = CopiesIssued + 1
             /\ CopiesIssued + 1 = RunsIssued + PrefetchStep
             /\ Len(copyQ') = Len(copyQ) + 1
             /\ \A i \in 1 .. Len(copyQ) : copyQ'[i] = copyQ[i]
             /\ copyQ'[Len(copyQ) + 1] = [layer |-> NextIndex(layer), after |-> RunsIssued]
             /\ LayerOf(CopiesIssued + 1) = NextIndex(layer)
             /\ RunsIssued % NumLayers = IF layer < NumLayers - 1 THEN layer + 1 ELSE 0
  <2>1. /\ mode = "eager" /\ phase = "prefetch" /\ UNCHANGED <<computeQ, computeDone, copyDone>>
        /\ copyQ' = Append(copyQ, [layer |-> NextIndex(layer), after |-> RunsIssued])
    BY <1>4 DEF PrefetchEager, ForkPoint
  <2>2. /\ Len(copyQ') = Len(copyQ) + 1
        /\ \A i \in 1 .. Len(copyQ) : copyQ'[i] = copyQ[i]
        /\ copyQ'[Len(copyQ) + 1] = [layer |-> NextIndex(layer), after |-> RunsIssued]
    BY <1>1, <2>1
  <2>3. RunsIssued' = RunsIssued /\ CopiesIssued' = CopiesIssued + 1
    BY <1>1, <2>1, <2>2 DEF RunsIssued, CopiesIssued
  <2>4. /\ RunsIssued > 0 /\ (RunsIssued - 1) % NumLayers = layer
        /\ CopiesIssued = RunsIssued - 1 + PrefetchStep
    BY <2>1 DEF IssueInv
  <2>5. RunsIssued - 1 \in Nat /\ (RunsIssued - 1) + 1 = RunsIssued
    BY <1>1, <2>4
  <2>6. /\ LayerOf((RunsIssued - 1) + PrefetchStep + 1) = NextIndex(layer)
        /\ ((RunsIssued - 1) + 1) % NumLayers = IF layer < NumLayers - 1 THEN layer + 1 ELSE 0
    BY <1>2, <2>4, <2>5, LayerAhead
  <2> QED
    BY <1>1, <2>2, <2>3, <2>4, <2>5, <2>6
<1> QED
  BY <1>3, <1>4

\* The actions of the host that issue nothing to the device.
LEMMA QuietCounts ==
    ASSUME StartEager \/ StartCapture \/ WaitEager \/ WaitCapture \/ ComputeCapture
             \/ PrefetchCapture \/ JoinAfterForward \/ Quiescent \/ UNCHANGED vars
    PROVE  /\ RunsIssued' = RunsIssued /\ CopiesIssued' = CopiesIssued
           /\ UNCHANGED <<computeQ, computeDone, reading, copyQ, copyDone, writing, slot>>
<1>1. UNCHANGED deviceVars
  BY DEF StartEager, StartCapture, WaitEager, WaitCapture, ComputeCapture, PrefetchCapture,
         JoinAfterForward, Quiescent, vars
<1> QED
  BY <1>1 DEF deviceVars, RunsIssued, CopiesIssued

\* The host keeps to the circle.
LEMMA IssueStep ==
    ASSUME OffloadAssumption, TypeInv, CaptureInv, IssueInv, [Next]_vars
    PROVE  IssueInv'
<1>1. /\ NumLayers \in Nat \ {0} /\ PrefetchStep \in Nat \ {0} /\ layer \in 0 .. NumLayers - 1
      /\ RunsIssued \in Nat /\ CopiesIssued \in Nat
  BY Counts
<1>2. CASE StartEager \/ StartCapture
  <2>1. mode = "idle" /\ phase' = "wait" /\ layer' = 0
    BY <1>2 DEF StartEager, StartCapture, StartPass
  <2> QED
    BY <1>2, <2>1, QuietCounts DEF IssueInv
<1>3. CASE WaitEager \/ WaitCapture \/ ComputeCapture
  <2>1. /\ phase # "prefetch" /\ (mode = "eager" => phase' # "prefetch")
        /\ UNCHANGED <<mode, layer>>
    BY <1>3 DEF WaitEager, WaitCapture, ComputeCapture
  <2> QED
    BY <1>3, <2>1, QuietCounts DEF IssueInv
<1>4. CASE PrefetchCapture \/ JoinAfterForward
  <2>1. mode = "capture" /\ mode' # "eager"
    BY <1>4 DEF PrefetchCapture, JoinAfterForward, Advance
  <2> QED
    BY <1>4, <2>1, QuietCounts DEF IssueInv
<1>5. CASE Quiescent \/ UNCHANGED vars
  <2>1. UNCHANGED <<mode, phase, layer>>
    BY <1>5 DEF Quiescent, vars, hostVars
  <2> QED
    BY <1>5, <2>1, QuietCounts DEF IssueInv
<1>6. CASE RunBegin \/ RunEnd \/ CopyBegin \/ CopyEnd
  BY <1>6, DeviceCounts DEF IssueInv
<1>7. CASE Replay
  <2>1. mode = "idle" /\ UNCHANGED mode
    BY <1>7 DEF Replay, StartPass
  <2>2. /\ RunsIssued' = RunsIssued + NumLayers /\ CopiesIssued' = CopiesIssued + NumLayers
        /\ RunsIssued % NumLayers = 0 /\ CopiesIssued = RunsIssued + PrefetchStep
    BY <1>7, ReplayCounts
  <2>3. RunsIssued' % NumLayers = 0
    BY <1>1, <2>2, LayerAround
  <2>4. CopiesIssued' = RunsIssued' + PrefetchStep
    BY <1>1, <2>2
  <2> QED
    BY <2>1, <2>3, <2>4 DEF IssueInv
<1>8. CASE ComputeEager
  <2>1. mode = "eager" /\ phase = "compute" /\ phase' = "prefetch" /\ UNCHANGED <<mode, layer>>
    BY <1>8 DEF ComputeEager
  <2>2. /\ RunsIssued' = RunsIssued + 1 /\ CopiesIssued' = CopiesIssued
        /\ CopiesIssued = RunsIssued + PrefetchStep /\ RunsIssued % NumLayers = layer
    BY <1>8, <2>1, EagerCounts DEF IssueInv
  <2>3. RunsIssued' > 0 /\ RunsIssued' - 1 = RunsIssued /\ CopiesIssued' = RunsIssued + PrefetchStep
    BY <1>1, <2>2
  <2> QED
    BY <2>1, <2>2, <2>3 DEF IssueInv
<1>9. CASE PrefetchEager
  <2>1. /\ mode = "eager" /\ phase' = "wait"
        /\ layer' = IF layer < NumLayers - 1 THEN layer + 1 ELSE 0
        /\ mode' = IF layer < NumLayers - 1 THEN "eager" ELSE "idle"
    BY <1>9 DEF PrefetchEager, Advance
  <2>2. /\ RunsIssued' = RunsIssued /\ CopiesIssued' = RunsIssued + PrefetchStep
        /\ RunsIssued % NumLayers = IF layer < NumLayers - 1 THEN layer + 1 ELSE 0
    BY <1>9, EagerCounts
  <2> QED
    BY <2>1, <2>2 DEF IssueInv
<1> QED
  BY <1>2, <1>3, <1>4, <1>5, <1>6, <1>7, <1>8, <1>9 DEF Next

\* What is issued waits for the operation of the other stream that its number
\* says; what is executed leaves the front of its queue.
LEMMA OrderStep ==
    ASSUME OffloadAssumption, TypeInv, TypeInv', CaptureInv, WindowInv, IssueInv, OrderInv,
           EventInv, [Next]_vars
    PROVE  OrderInv'
<1>1. /\ NumLayers \in Nat \ {0} /\ PrefetchStep \in Nat \ {0} /\ layer \in 0 .. NumLayers - 1
      /\ Len(computeQ) \in Nat /\ Len(copyQ) \in Nat /\ computeDone \in Nat /\ copyDone \in Nat
      /\ computeQ \in Seq(Op) /\ copyQ \in Seq(Op) /\ RunsIssued \in Nat /\ CopiesIssued \in Nat
      /\ RunsIssued = computeDone + Len(computeQ) /\ CopiesIssued = copyDone + Len(copyQ)
      /\ runs \in Seq(Op)
  BY Counts DEF RunsIssued, CopiesIssued
<1> DEFINE RunsRight ==
             \A i \in 1 .. Len(computeQ) :
                /\ computeQ[i].layer = LayerOf(computeDone + i)
                /\ computeQ[i].after >= computeDone + i
           CopiesRight ==
             \A i \in 1 .. Len(copyQ) :
                /\ copyQ[i].layer = LayerOf(copyDone + i)
                /\ copyQ[i].after >= copyDone + i - PrefetchStep
<1>2. RunsRight /\ CopiesRight
  BY DEF OrderInv
<1>3. ASSUME UNCHANGED <<computeQ, computeDone>> PROVE RunsRight'
  BY <1>2, <1>3 DEF LayerOf
<1>4. ASSUME UNCHANGED <<copyQ, copyDone>> PROVE CopiesRight'
  BY <1>2, <1>4 DEF LayerOf
<1>5. CASE StartEager \/ StartCapture \/ WaitEager \/ WaitCapture \/ ComputeCapture
             \/ PrefetchCapture \/ JoinAfterForward \/ Quiescent \/ UNCHANGED vars
  BY <1>3, <1>4, <1>5, QuietCounts DEF OrderInv
<1>6. CASE RunBegin \/ CopyBegin
  BY <1>3, <1>4, <1>6 DEF RunBegin, CopyBegin, OrderInv
<1>7. CASE ComputeEager
  <2>1. /\ Len(computeQ') = Len(computeQ) + 1
        /\ \A i \in 1 .. Len(computeQ) : computeQ'[i] = computeQ[i]
        /\ computeQ'[Len(computeQ) + 1] = [layer |-> layer, after |-> barrier]
        /\ LayerOf(RunsIssued + 1) = layer
    BY <1>7, EagerCounts
  <2>2. UNCHANGED <<computeDone, copyQ, copyDone>> /\ mode = "eager" /\ phase = "compute"
    BY <1>7 DEF ComputeEager
  <2>3. barrier >= RunsIssued + 1
    BY <2>2 DEF EventInv
  <2>4. ASSUME NEW i \in 1 .. Len(computeQ')
        PROVE  /\ computeQ'[i].layer = LayerOf(computeDone + i)
               /\ computeQ'[i].after >= computeDone + i
    <3>1. CASE i = Len(computeQ) + 1
      <4>1. computeDone + i = RunsIssued + 1
        BY <1>1, <3>1
      <4>2. computeQ'[i].layer = layer /\ computeQ'[i].after = barrier
        BY <2>1, <3>1
      <4> QED
        BY <2>1, <2>3, <4>1, <4>2
    <3>2. CASE i \in 1 .. Len(computeQ)
      BY <1>2, <2>1, <3>2
    <3> QED
      BY <1>1, <2>1, <3>1, <3>2
  <2>5. RunsRight'
    BY <2>2, <2>4 DEF LayerOf
  <2> QED
    BY <1>4, <2>2, <2>5 DEF OrderInv
<1>8. CASE PrefetchEager
  <2>1. /\ Len(copyQ') = Len(copyQ) + 1 /\ CopiesIssued + 1 = RunsIssued + PrefetchStep
        /\ \A i \in 1 .. Len(copyQ) : copyQ'[i] = copyQ[i]
        /\ copyQ'[Len(copyQ) + 1] = [layer |-> NextIndex(layer), after |-> RunsIssued]
        /\ LayerOf(CopiesIssued + 1) = NextIndex(layer)
    BY <1>8, EagerCounts
  <2>2. UNCHANGED <<copyDone, computeQ, computeDone>>
    BY <1>8 DEF PrefetchEager
  <2>3. ASSUME NEW i \in 1 .. Len(copyQ')
        PROVE  /\ copyQ'[i].layer = LayerOf(copyDone + i)
               /\ copyQ'[i].after >= copyDone + i - PrefetchStep
    <3>1. CASE i = Len(copyQ) + 1
      <4>1. copyDone + i = CopiesIssued + 1 /\ RunsIssued >= copyDone + i - PrefetchStep
        BY <1>1, <2>1, <3>1
      <4>2. copyQ'[i].layer = NextIndex(layer) /\ copyQ'[i].after = RunsIssued
        BY <2>1, <3>1
      <4> QED
        BY <2>1, <4>1, <4>2
    <3>2. CASE i \in 1 .. Len(copyQ)
      BY <1>2, <2>1, <3>2
    <3> QED
      BY <1>1, <2>1, <3>1, <3>2
  <2>4. CopiesRight'
    BY <2>2, <2>3 DEF LayerOf
  <2> QED
    BY <1>3, <2>2, <2>4 DEF OrderInv
<1>9. CASE Replay
  <2>1. /\ Len(runs) = NumLayers /\ Len(copies) = NumLayers
        /\ RunsIssued % NumLayers = 0 /\ CopiesIssued = RunsIssued + PrefetchStep
        /\ Len(computeQ') = Len(computeQ) + NumLayers /\ Len(copyQ') = Len(copyQ) + NumLayers
        /\ \A i \in 1 .. Len(computeQ) : computeQ'[i] = computeQ[i]
        /\ \A i \in 1 .. Len(copyQ) : copyQ'[i] = copyQ[i]
        /\ \A i \in 1 .. NumLayers :
              /\ computeQ'[Len(computeQ) + i].layer = runs[i].layer
              /\ computeQ'[Len(computeQ) + i].after
                   = IF runs[i].after > 0 THEN CopiesIssued + runs[i].after ELSE CopiesIssued
              /\ copyQ'[Len(copyQ) + i].layer = copies[i].layer
              /\ copyQ'[Len(copyQ) + i].after = RunsIssued + copies[i].after
    BY <1>9, ReplayCounts
  <2>2. UNCHANGED <<copyDone, computeDone>>
    BY <1>9 DEF Replay
  <2>3. \A i \in 1 .. NumLayers :
           /\ runs[i].layer = i - 1 /\ runs[i].after >= i - PrefetchStep
           /\ copies[i].layer = NextIndex(i - 1) /\ copies[i].after = i
    BY <2>1 DEF CaptureInv, GraphInv, WindowInv
  <2>4. \A i \in 1 .. NumLayers :
           /\ LayerOf(RunsIssued + i) = i - 1
           /\ LayerOf(RunsIssued + PrefetchStep + i) = NextIndex(i - 1)
    BY <1>1, <2>1, LayerAround
  <2>5. ASSUME NEW i \in 1 .. Len(computeQ')
        PROVE  /\ computeQ'[i].layer = LayerOf(computeDone + i)
               /\ computeQ'[i].after >= computeDone + i
    <3>1. CASE i \in 1 .. Len(computeQ)
      BY <1>2, <2>1, <3>1
    <3>2. CASE i \notin 1 .. Len(computeQ)
      <4> DEFINE j == i - Len(computeQ)
      <4>1. j \in 1 .. NumLayers /\ i = Len(computeQ) + j /\ computeDone + i = RunsIssued + j
        BY <1>1, <2>1, <3>2
      <4> HIDE DEF j
      <4>2. computeQ'[i].layer = LayerOf(RunsIssued + j)
        BY <2>1, <2>3, <2>4, <4>1
      <4>3. computeQ'[i].after = IF runs[j].after > 0 THEN CopiesIssued + runs[j].after ELSE CopiesIssued
        BY <2>1, <4>1
      <4>4. runs[j].after \in Nat /\ runs[j].after >= j - PrefetchStep
        <5>1. runs[j] \in Op
          BY <1>1, <2>1, <4>1
        <5> QED
          BY <2>3, <4>1, <5>1 DEF Op
      <4>5. computeQ'[i].after >= RunsIssued + j
        <5>0. /\ j \in Nat /\ PrefetchStep \in Nat /\ RunsIssued \in Nat
              /\ CopiesIssued = RunsIssued + PrefetchStep
          BY <1>1, <2>1, <4>1
        <5>1. CopiesIssued + runs[j].after >= RunsIssued + j
          BY ONLY <4>4, <5>0
        <5>2. ~(runs[j].after > 0) => CopiesIssued >= RunsIssued + j
          BY ONLY <4>4, <5>0
        <5> QED
          BY <4>3, <5>1, <5>2
      <4> QED
        BY <4>1, <4>2, <4>5
    <3> QED
      BY <3>1, <3>2
  <2>6. ASSUME NEW i \in 1 .. Len(copyQ')
        PROVE  /\ copyQ'[i].layer = LayerOf(copyDone + i)
               /\ copyQ'[i].after >= copyDone + i - PrefetchStep
    <3>1. CASE i \in 1 .. Len(copyQ)
      BY <1>2, <2>1, <3>1
    <3>2. CASE i \notin 1 .. Len(copyQ)
      <4> DEFINE j == i - Len(copyQ)
      <4>1. /\ j \in 1 .. NumLayers /\ i = Len(copyQ) + j
            /\ copyDone + i = RunsIssued + PrefetchStep + j
        <5>1. j \in 1 .. NumLayers /\ i = Len(copyQ) + j /\ i \in Nat
          BY <1>1, <2>1, <3>2
        <5>2. copyDone + i = CopiesIssued + j
          BY <1>1, <5>1
        <5> HIDE DEF j
        <5> QED
          BY <1>1, <2>1, <5>1, <5>2
      <4> HIDE DEF j
      <4>2. copyQ'[i].layer = LayerOf(RunsIssued + PrefetchStep + j)
        BY <2>1, <2>3, <2>4, <4>1
      <4>3. copyQ'[i].after = RunsIssued + j
        BY <2>1, <2>3, <4>1
      <4>4. RunsIssued + j >= copyDone + i - PrefetchStep
        BY <1>1, <4>1
      <4> QED
        BY <4>1, <4>2, <4>3, <4>4
    <3> QED
      BY <3>1, <3>2
  <2> QED
    BY <2>2, <2>5, <2>6 DEF OrderInv, LayerOf
<1>10. CASE RunEnd
  <2>1. /\ computeQ # <<>> /\ computeQ' = Tail(computeQ) /\ computeDone' = computeDone + 1
        /\ UNCHANGED <<copyQ, copyDone>>
    BY <1>10 DEF RunEnd, TypeInv
  <2>2. Len(computeQ') = Len(computeQ) - 1 /\ \A i \in 1 .. Len(computeQ') : computeQ'[i] = computeQ[i + 1]
    BY <1>1, <2>1
  <2>3. ASSUME NEW i \in 1 .. Len(computeQ')
        PROVE  /\ computeQ'[i].layer = LayerOf(computeDone' + i)
               /\ computeQ'[i].after >= computeDone' + i
    <3>1. i + 1 \in 1 .. Len(computeQ) /\ computeDone' + i = computeDone + (i + 1)
      BY <1>1, <2>1, <2>2
    <3>2. /\ computeQ[i + 1].layer = LayerOf(computeDone + (i + 1))
          /\ computeQ[i + 1].after >= computeDone + (i + 1)
      BY <1>2, <3>1
    <3>3. computeQ'[i] = computeQ[i + 1]
      BY <2>2
    <3> HIDE DEF RunsRight, CopiesRight
    <3> QED
      BY <3>1, <3>2, <3>3
  <2>4. RunsRight'
    BY <2>3 DEF LayerOf
  <2> QED
    BY <1>4, <2>1, <2>4 DEF OrderInv
<1>11. CASE CopyEnd
  <2>1. /\ copyQ # <<>> /\ copyQ' = Tail(copyQ) /\ copyDone' = copyDone + 1
        /\ UNCHANGED <<computeQ, computeDone>>
    BY <1>11 DEF CopyEnd, TypeInv
  <2>2. Len(copyQ') = Len(copyQ) - 1 /\ \A i \in 1 .. Len(copyQ') : copyQ'[i] = copyQ[i + 1]
    BY <1>1, <2>1
  <2>3. ASSUME NEW i \in 1 .. Len(copyQ')
        PROVE  /\ copyQ'[i].layer = LayerOf(copyDone' + i)
               /\ copyQ'[i].after >= copyDone' + i - PrefetchStep
    <3>1. i + 1 \in 1 .. Len(copyQ) /\ copyDone' + i = copyDone + (i + 1)
      BY <1>1, <2>1, <2>2
    <3>2. /\ copyQ[i + 1].layer = LayerOf(copyDone + (i + 1))
          /\ copyQ[i + 1].after >= copyDone + (i + 1) - PrefetchStep
      BY <1>2, <3>1
    <3>3. copyQ'[i] = copyQ[i + 1]
      BY <2>2
    <3>4. copyDone' + i - PrefetchStep = copyDone + (i + 1) - PrefetchStep
      BY <1>1, <2>1, <2>2
    <3> HIDE DEF RunsRight, CopiesRight
    <3> QED
      BY <3>1, <3>2, <3>3, <3>4
  <2>4. CopiesRight'
    BY <2>3 DEF LayerOf
  <2> QED
    BY <1>3, <2>1, <2>4 DEF OrderInv
<1> QED
  BY <1>5, <1>6, <1>7, <1>8, <1>9, <1>10, <1>11 DEF Next

\* Every wait of an eager pass covers the copy of its layer: the event of
\* the layer is that copy's, or the copy stream was waited for later.
LEMMA EventStep ==
    ASSUME OffloadAssumption, EvenSlots, TypeInv, TypeInv', CaptureInv, IssueInv, IssueInv', EventInv,
           [Next]_vars
    PROVE  EventInv'
<1>1. /\ NumLayers \in Nat \ {0} /\ PrefetchStep \in Nat \ {0} /\ layer \in 0 .. NumLayers - 1
      /\ RunsIssued \in Nat /\ CopiesIssued \in Nat /\ barrier \in Nat /\ PrefetchStep <= NumLayers
  BY Counts, StepWithin
<1>2. /\ layer \in Layers /\ eventValid \in [Layers -> BOOLEAN] /\ event \in [Layers -> Nat]
      /\ NextIndex(layer) \in Layers
  BY Indices DEF TypeInv, TypeOK
<1> DEFINE Covered(k) == eventValid[LayerOf(k)] => event[LayerOf(k)] >= k \/ barrier >= k
<1>3. \A k \in RunsIssued + 1 .. CopiesIssued : Covered(k)
  BY DEF EventInv
<1>4. ASSUME ~(mode' = "eager" /\ phase' = "compute"), RunsIssued' = RunsIssued,
             CopiesIssued' = CopiesIssued, UNCHANGED <<eventValid, event, barrier>>
      PROVE  EventInv'
  BY <1>3, <1>4 DEF EventInv, LayerOf
<1>5. ASSUME UNCHANGED <<mode, phase, eventValid, event, barrier>>, RunsIssued' = RunsIssued,
             CopiesIssued' = CopiesIssued
      PROVE  EventInv'
  BY <1>3, <1>5 DEF EventInv, LayerOf
<1>6. CASE Quiescent \/ UNCHANGED vars
  <2>1. UNCHANGED <<mode, phase, eventValid, event, barrier>>
    BY <1>6 DEF Quiescent, vars, hostVars, eventVars
  <2> QED
    BY <1>5, <1>6, <2>1, QuietCounts
<1>7. CASE RunBegin \/ RunEnd \/ CopyBegin \/ CopyEnd
  BY <1>5, <1>7, DeviceCounts
<1>8. CASE StartEager
  <2>1. phase' = "wait" /\ UNCHANGED <<eventValid, event, barrier>>
    BY <1>8 DEF StartEager, eventVars
  <2> QED
    BY <1>4, <1>8, <2>1, QuietCounts
<1>9. CASE WaitCapture \/ ComputeCapture \/ JoinAfterForward
  <2>1. mode' # "eager" /\ UNCHANGED <<eventValid, event, barrier>>
    BY <1>9 DEF WaitCapture, ComputeCapture, JoinAfterForward, eventVars
  <2> QED
    BY <1>4, <1>9, <2>1, QuietCounts
<1>10. CASE StartCapture
  <2>1. mode' = "capture" /\ barrier' = CopiesIssued
    BY <1>10 DEF StartCapture, SyncedTo
  <2>2. RunsIssued' = RunsIssued /\ CopiesIssued' = CopiesIssued
    BY <1>10, QuietCounts
  <2>3. \A k \in RunsIssued + 1 .. CopiesIssued : barrier' >= k
    BY <1>1, <2>1
  <2> QED
    BY <2>1, <2>2, <2>3 DEF EventInv
<1>11. CASE PrefetchCapture
  <2>1. /\ mode' = "capture" /\ UNCHANGED barrier
        /\ eventValid' = [eventValid EXCEPT ![NextIndex(layer)] = FALSE]
        /\ event' = [event EXCEPT ![NextIndex(layer)] = Len(copies) + 1]
    BY <1>11 DEF PrefetchCapture, Advance
  <2>2. RunsIssued' = RunsIssued /\ CopiesIssued' = CopiesIssued
    BY <1>11, QuietCounts
  <2>3. ASSUME NEW k \in RunsIssued + 1 .. CopiesIssued, eventValid'[LayerOf(k)]
        PROVE  event'[LayerOf(k)] >= k \/ barrier >= k
    <3>1. k \in Nat \ {0} /\ LayerOf(k) \in Layers
      BY <1>1, LayerOfType
    <3>2. LayerOf(k) # NextIndex(layer)
      BY <1>2, <2>1, <2>3
    <3>3. eventValid[LayerOf(k)] /\ event'[LayerOf(k)] = event[LayerOf(k)]
      BY <1>2, <2>1, <2>3, <3>1, <3>2
    <3> QED
      BY <1>3, <3>3
  <2> QED
    BY <2>1, <2>2, <2>3 DEF EventInv, LayerOf
<1>12. CASE Replay
  <2>1. mode' = "idle" /\ barrier' = CopiesIssued + Len(copies)
    BY <1>12 DEF Replay, StartPass
  <2>2. CopiesIssued' = CopiesIssued + Len(copies)
    BY <1>12, ReplayCounts
  <2>3. \A k \in RunsIssued' + 1 .. CopiesIssued' : barrier' >= k
    <3>1. CopiesIssued' \in Nat /\ RunsIssued' \in Nat
      BY <1>1, <1>12, ReplayCounts
    <3> QED
      BY <2>1, <2>2, <3>1
  <2> QED
    BY <2>1, <2>3 DEF EventInv
<1>13. CASE WaitEager
  <2>1. /\ mode = "eager" /\ phase = "wait" /\ phase' = "compute"
        /\ UNCHANGED <<mode, layer, eventValid, event>>
        /\ barrier' = IF eventValid[layer] THEN Larger(barrier, event[layer]) ELSE CopiesIssued
    BY <1>13 DEF WaitEager
  <2>2. RunsIssued' = RunsIssued /\ CopiesIssued' = CopiesIssued
    BY <1>13, QuietCounts
  <2>3. RunsIssued % NumLayers = layer /\ CopiesIssued = RunsIssued + PrefetchStep
    BY <2>1 DEF IssueInv
  <2>4. LayerOf(RunsIssued + 1) = layer
    BY <1>1, <1>2, <2>3, LayerAhead
  <2>5. RunsIssued + 1 \in RunsIssued + 1 .. CopiesIssued
    BY <1>1, <2>3
  <2>6. event[layer] \in Nat
    BY <1>2
  <2>7. eventValid[layer] => event[layer] >= RunsIssued + 1 \/ barrier >= RunsIssued + 1
    BY <1>3, <2>4, <2>5
  <2>8. barrier' >= RunsIssued + 1
    BY <1>1, <2>1, <2>3, <2>6, <2>7 DEF Larger
  <2>9. ASSUME NEW k \in RunsIssued + 1 .. CopiesIssued, eventValid[LayerOf(k)]
        PROVE  event[LayerOf(k)] >= k \/ barrier' >= k
    <3>1. event[LayerOf(k)] >= k \/ barrier >= k
      BY <1>3, <2>9
    <3>2. barrier' >= barrier \/ barrier' = CopiesIssued
      BY <1>1, <2>1, <2>6 DEF Larger
    <3>3. barrier' \in Nat
      BY DEF TypeInv, TypeOK
    <3> QED
      BY <1>1, <3>1, <3>2, <3>3
  <2> QED
    BY <2>1, <2>2, <2>8, <2>9 DEF EventInv, LayerOf
<1>14. CASE ComputeEager
  <2>1. phase' = "prefetch" /\ UNCHANGED <<eventValid, event, barrier>>
    BY <1>14 DEF ComputeEager, eventVars
  <2>2. RunsIssued' = RunsIssued + 1 /\ CopiesIssued' = CopiesIssued
    BY <1>14, EagerCounts
  <2>3. \A k \in RunsIssued' + 1 .. CopiesIssued' : k \in RunsIssued + 1 .. CopiesIssued
    BY <1>1, <2>2
  <2> QED
    BY <1>3, <2>1, <2>3 DEF EventInv, LayerOf
<1>15. CASE PrefetchEager
  <2>1. /\ phase' = "wait" /\ UNCHANGED barrier
        /\ eventValid' = [eventValid EXCEPT ![NextIndex(layer)] = TRUE]
        /\ event' = [event EXCEPT ![NextIndex(layer)] = CopiesIssued + 1]
    BY <1>15 DEF PrefetchEager, Advance
  <2>2. /\ RunsIssued' = RunsIssued /\ CopiesIssued' = CopiesIssued + 1
        /\ CopiesIssued + 1 = RunsIssued + PrefetchStep /\ LayerOf(CopiesIssued + 1) = NextIndex(layer)
    BY <1>15, EagerCounts
  <2>3. ASSUME NEW k \in RunsIssued + 1 .. CopiesIssued + 1
        PROVE  eventValid'[LayerOf(k)] => event'[LayerOf(k)] >= k \/ barrier >= k
    <3>1. CASE k = CopiesIssued + 1
      <4>1. event'[LayerOf(k)] = k /\ k >= k
        BY <1>1, <1>2, <2>1, <2>2, <3>1
      <4> QED
        BY <4>1
    <3>2. CASE k # CopiesIssued + 1
      <4>1. /\ k \in RunsIssued + 1 .. CopiesIssued /\ k \in Nat \ {0} /\ CopiesIssued + 1 \in Nat \ {0}
            /\ k < CopiesIssued + 1 /\ CopiesIssued + 1 < k + NumLayers
        BY <1>1, <2>2, <3>2
      <4>2. LayerOf(k) # NextIndex(layer) /\ LayerOf(k) \in Layers
        BY <2>2, <4>1, LayersApart, LayerOfType
      <4>3. eventValid'[LayerOf(k)] = eventValid[LayerOf(k)] /\ event'[LayerOf(k)] = event[LayerOf(k)]
        BY <1>2, <2>1, <4>2
      <4> QED
        BY <1>3, <4>1, <4>3
    <3> QED
      BY <3>1, <3>2
  <2> QED
    BY <2>1, <2>2, <2>3 DEF EventInv, LayerOf
<1> QED
  BY <1>6, <1>7, <1>8, <1>9, <1>10, <1>11, <1>12, <1>13, <1>14, <1>15 DEF Next

\* The streams keep their distance, and a copy overwrites no buffer that is
\* still to be read.
LEMMA BufferStep ==
    ASSUME OffloadAssumption, EvenSlots, TypeInv, OrderInv, BufferInv, [Next]_vars
    PROVE  BufferInv'
<1>1. /\ NumLayers \in Nat \ {0} /\ PrefetchStep \in Nat \ {0} /\ Len(computeQ) \in Nat
      /\ Len(copyQ) \in Nat /\ computeDone \in Nat /\ copyDone \in Nat
      /\ computeQ \in Seq(Op) /\ copyQ \in Seq(Op)
  BY Counts
<1>2. slot \in [Slots -> Layers \cup {Torn}]
  BY DEF TypeInv, TypeOK
<1>3. ASSUME UNCHANGED <<computeDone, reading, copyDone, writing, slot>> PROVE BufferInv'
  BY <1>3 DEF BufferInv, LayerOf, SlotOf
<1>4. CASE StartEager \/ StartCapture \/ WaitEager \/ WaitCapture \/ ComputeCapture
             \/ PrefetchCapture \/ JoinAfterForward \/ Quiescent \/ UNCHANGED vars
  BY <1>3, <1>4, QuietCounts
<1>5. CASE ComputeEager \/ PrefetchEager \/ Replay
  BY <1>3, <1>5 DEF ComputeEager, PrefetchEager, Replay
<1>6. CASE RunBegin
  <2>1. /\ computeQ # <<>> /\ Head(computeQ).after <= copyDone
        /\ UNCHANGED <<computeDone, copyDone, writing, slot>>
    BY <1>6 DEF RunBegin
  <2>2. Len(computeQ) > 0 /\ Head(computeQ) = computeQ[1] /\ computeQ[1] \in Op
    BY <1>1, <2>1
  <2>3. computeQ[1].after >= computeDone + 1 /\ computeQ[1].after \in Nat
    BY <1>1, <2>2 DEF OrderInv, Op
  <2>4. computeDone + 1 <= copyDone
    BY <1>1, <2>1, <2>2, <2>3
  <2> QED
    BY <2>1, <2>4 DEF BufferInv, LayerOf, SlotOf
<1>7. CASE RunEnd
  <2>1. reading' = FALSE /\ computeDone' = computeDone + 1 /\ UNCHANGED <<copyDone, writing, slot>>
    BY <1>7 DEF RunEnd
  <2> QED
    BY <1>1, <2>1 DEF BufferInv, LayerOf, SlotOf
<1>8. CASE CopyBegin
  <2>1. /\ copyQ # <<>> /\ Head(copyQ).after <= computeDone /\ ~writing /\ writing' = TRUE
        /\ slot' = [slot EXCEPT ![SlotOf(Head(copyQ).layer)] = Torn]
        /\ UNCHANGED <<computeDone, reading, copyDone>>
    BY <1>8 DEF CopyBegin
  <2>2. Len(copyQ) > 0 /\ Head(copyQ) = copyQ[1] /\ copyQ[1] \in Op
    BY <1>1, <2>1
  <2>3. /\ copyQ[1].after >= copyDone + 1 - PrefetchStep /\ copyQ[1].after \in Nat
        /\ copyQ[1].layer = LayerOf(copyDone + 1)
    BY <1>1, <2>2 DEF OrderInv, Op
  <2>4. copyDone + 1 <= computeDone + PrefetchStep
    BY <1>1, <2>1, <2>2, <2>3
  <2>5. ASSUME NEW j \in 1 .. copyDone, j > copyDone - PrefetchStep, j # copyDone + 1 - PrefetchStep
        PROVE  slot'[SlotOf(LayerOf(j))] = LayerOf(j)
    <3>1. /\ j \in Nat \ {0} /\ copyDone + 1 \in Nat \ {0} /\ j < copyDone + 1
          /\ copyDone + 1 < j + PrefetchStep
      BY <1>1, <2>5
    <3>2. SlotOf(LayerOf(j)) # SlotOf(LayerOf(copyDone + 1))
      BY <3>1, SlotsApart
    <3>3. SlotOf(LayerOf(j)) \in Slots
      BY <3>1, LayerOfType, Indices
    <3>4. slot[SlotOf(LayerOf(j))] = LayerOf(j)
      BY <2>1, <2>5 DEF BufferInv
    <3> QED
      BY <1>2, <2>1, <2>2, <2>3, <3>2, <3>3, <3>4
  <2>6. \A j \in 1 .. copyDone' :
           j > copyDone' - PrefetchStep /\ ~(writing' /\ j = copyDone' + 1 - PrefetchStep)
               => slot'[SlotOf(LayerOf(j))] = LayerOf(j)
    BY <2>1, <2>5
  <2>7. copyDone' <= computeDone' + PrefetchStep /\ (reading' => computeDone' + 1 <= copyDone')
    BY <2>1 DEF BufferInv
  <2> QED
    BY <2>1, <2>4, <2>6, <2>7 DEF BufferInv, LayerOf, SlotOf
<1>9. CASE CopyEnd
  <2>1. /\ copyQ # <<>> /\ writing /\ writing' = FALSE /\ copyDone' = copyDone + 1
        /\ slot' = [slot EXCEPT ![SlotOf(Head(copyQ).layer)] = Head(copyQ).layer]
        /\ UNCHANGED <<computeDone, reading>>
    BY <1>9 DEF CopyEnd, TypeInv
  <2>2. Len(copyQ) > 0 /\ Head(copyQ) = copyQ[1]
    BY <1>1, <2>1
  <2>3. copyQ[1].layer = LayerOf(copyDone + 1)
    BY <1>1, <2>2 DEF OrderInv
  <2>4. /\ copyDone' <= computeDone' + PrefetchStep
        /\ (reading' => computeDone' + 1 <= copyDone')
    BY <1>1, <2>1 DEF BufferInv
  <2>5. copyDone + 1 \in Nat \ {0} /\ LayerOf(copyDone + 1) \in Layers /\ SlotOf(LayerOf(copyDone + 1)) \in Slots
    <3>1. copyDone + 1 \in Nat \ {0}
      BY <1>1
    <3> QED
      BY <3>1, LayerOfType, Indices
  <2>6. ASSUME NEW j \in 1 .. copyDone', j > copyDone' - PrefetchStep
        PROVE  slot'[SlotOf(LayerOf(j))] = LayerOf(j)
    <3>1. CASE j = copyDone + 1
      BY <1>2, <2>1, <2>2, <2>3, <2>5, <3>1
    <3>2. CASE j # copyDone + 1
      <4>1. /\ j \in Nat \ {0} /\ j < copyDone + 1 /\ copyDone + 1 < j + PrefetchStep
            /\ j \in 1 .. copyDone /\ j > copyDone - PrefetchStep /\ j # copyDone + 1 - PrefetchStep
        BY <1>1, <2>1, <2>6, <3>2
      <4>2. SlotOf(LayerOf(j)) # SlotOf(LayerOf(copyDone + 1))
        BY <2>5, <4>1, SlotsApart
      <4>3. SlotOf(LayerOf(j)) \in Slots
        BY <4>1, LayerOfType, Indices
      <4>4. slot[SlotOf(LayerOf(j))] = LayerOf(j)
        BY <4>1 DEF BufferInv
      <4> QED
        BY <1>2, <2>1, <2>2, <2>3, <4>2, <4>3, <4>4
    <3> QED
      BY <3>1, <3>2
  <2> QED
    BY <2>1, <2>4, <2>6 DEF BufferInv, LayerOf, SlotOf
<1> QED
  BY <1>4, <1>5, <1>6, <1>7, <1>8, <1>9 DEF Next

\* The invariant holds in every state.
THEOREM StreamInvariant == ASSUME OffloadAssumption, EvenSlots PROVE Spec => []StreamInv
<1>1. TypeInv /\ TypeInv' /\ CaptureInv /\ StreamInv /\ [Next]_vars => StreamInv'
  <2> SUFFICES ASSUME TypeInv, TypeInv', CaptureInv, StreamInv, [Next]_vars PROVE StreamInv'
    OBVIOUS
  <2>1. WindowInv /\ IssueInv /\ OrderInv /\ EventInv /\ BufferInv
    BY DEF StreamInv
  <2>2. WindowInv' /\ IssueInv'
    BY <2>1, WindowStep, IssueStep
  <2>3. OrderInv'
    BY <2>1, OrderStep
  <2>4. EventInv'
    BY <2>1, <2>2, EventStep
  <2>5. BufferInv'
    BY <2>1, BufferStep
  <2> QED
    BY <2>2, <2>3, <2>4, <2>5 DEF StreamInv
<1> QED
  BY <1>1, StreamInit, TypeInvariant, CaptureInvariant, PTL DEF Spec

\* Every kernel reads the weights of its own layer, complete, in eager
\* passes, in replays and across the change from one to the other
\* (prefetch.py:243-273, 503-560): for any number of layers and buffers, as long as the
\* buffers divide the layers, which the offloader does not check.
THEOREM KernelsReadTheirLayer ==
    ASSUME OffloadAssumption, EvenSlots PROVE Spec => []RightWeights
<1>1. TypeInv /\ StreamInv => RightWeights
  <2> SUFFICES ASSUME TypeInv, StreamInv, reading
               PROVE  LET l == Head(computeQ).layer IN slot[SlotOf(l)] = l
    BY DEF RightWeights
  <2>1. /\ computeQ \in Seq(Op) /\ computeDone \in Nat /\ copyDone \in Nat /\ PrefetchStep \in Nat \ {0}
    BY Counts
  <2>2. Len(computeQ) > 0 /\ Head(computeQ) = computeQ[1]
    BY <2>1 DEF TypeInv
  <2>3. Head(computeQ).layer = LayerOf(computeDone + 1)
    BY <2>1, <2>2 DEF StreamInv, OrderInv
  <2>4. /\ computeDone + 1 \in 1 .. copyDone /\ computeDone + 1 > copyDone - PrefetchStep
        /\ ~(writing /\ computeDone + 1 = copyDone + 1 - PrefetchStep)
    BY <2>1 DEF StreamInv, BufferInv
  <2> QED
    BY <2>3, <2>4 DEF StreamInv, BufferInv
<1> QED
  BY <1>1, StreamInvariant, TypeInvariant, PTL

\* No copy into a buffer overlaps a kernel that reads it: what the fork event
\* of start_onload_to_static is there for.
THEOREM NoCopyUnderKernel ==
    ASSUME OffloadAssumption, EvenSlots PROVE Spec => []NoOverwriteWhileRead
<1>1. TypeInv /\ StreamInv => NoOverwriteWhileRead
  <2> SUFFICES ASSUME TypeInv, StreamInv, reading, writing
               PROVE  SlotOf(Head(computeQ).layer) # SlotOf(Head(copyQ).layer)
    BY DEF NoOverwriteWhileRead
  <2>1. /\ computeQ \in Seq(Op) /\ copyQ \in Seq(Op) /\ computeDone \in Nat /\ copyDone \in Nat
        /\ PrefetchStep \in Nat \ {0}
    BY Counts
  <2>2. /\ Len(computeQ) > 0 /\ Head(computeQ) = computeQ[1]
        /\ Len(copyQ) > 0 /\ Head(copyQ) = copyQ[1]
    BY <2>1 DEF TypeInv
  <2>3. /\ Head(computeQ).layer = LayerOf(computeDone + 1)
        /\ Head(copyQ).layer = LayerOf(copyDone + 1)
    BY <2>1, <2>2 DEF StreamInv, OrderInv
  <2>4. /\ computeDone + 1 \in Nat \ {0} /\ copyDone + 1 \in Nat \ {0}
        /\ computeDone + 1 < copyDone + 1 /\ copyDone + 1 < (computeDone + 1) + PrefetchStep
    BY <2>1 DEF StreamInv, BufferInv
  <2> QED
    BY <2>3, <2>4, SlotsApart
<1> QED
  BY <1>1, StreamInvariant, TypeInvariant, PTL
=============================================================================

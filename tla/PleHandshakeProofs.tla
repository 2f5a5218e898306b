------------------------- MODULE PleHandshakeProofs -------------------------
(***************************************************************************)
(* Proofs about PleHandshake.                                              *)
(*                                                                         *)
(* LaunchInv says what is on the model streams and in the inboxes: the     *)
(* batches after the last finished, each once and in order, and the same   *)
(* dummy forwards on all ranks of a d.  It is stated rank by rank about    *)
(* values (OrderOf, InboxOf), so that the lemmas Order... and Rank... are  *)
(* about sequences and not about states; the lemmas Launch... apply them   *)
(* to the actions.                                                         *)
(*                                                                         *)
(* ExchangeInv relates the requests of a d to its batches (RequestedOf)    *)
(* and says in which states an output can be (BoxOf), what the worker has  *)
(* claimed (WorkerInv) and what each sees of the other.  Its three parts   *)
(* hold each other up: a request is at hand only for the batch after the   *)
(* last finished, so the worker writes only outputs whose flags are low;   *)
(* so a raised flag means the result of that batch; so a forward ends with *)
(* its own results, and when it ends the worker has nothing left of it.    *)
(* Request... and Box... lemmas are about values, Exchange... lemmas about *)
(* the actions, one for each actor.  From the invariant follow OwnOutput,  *)
(* NoDuplicateRequest, DummiesLeaveResults and the step simulation of      *)
(* PleMailbox (Mail...).                                                   *)
(***************************************************************************)
EXTENDS PleHandshake, TLAPS, FiniteSetTheorems, SequenceTheorems

\* The kind of work an entry of a model stream is, by its layer: 0 stages the inputs, a
\* layer copies its output, NumLayers + 1 is the end of the forward.
OpAt(l) == IF l = 0 THEN "prepare" ELSE IF l \in Layers THEN "copy" ELSE "reduce"

\* The end of a dummy forward.
IsDummyEnd(a) == a.layer = NumLayers + 1 /\ a.pass = Dummy

\* The model thread has taken a batch from its inbox and has not issued the forward.
IsBusy(h) == h.phase \in {"claim", "timeout", "full"}

\* The last batch whose launch began on a rank: the one the model thread is at, else the
\* last one on the stream, else the last one finished.
LaunchedOf(s, h, f) ==
    IF IsBusy(h) THEN h.pass
    ELSE IF s # <<>> /\ s[Len(s)].pass > 0 THEN s[Len(s)].pass ELSE f

\* What can stand behind an entry of a stream: the next layer of the same forward, or,
\* behind the end of one, the first entry of the next batch or of a dummy forward.
FollowsOf(t, f, a, b) ==
    IF a.layer <= NumLayers THEN b.layer = a.layer + 1 /\ b.pass = a.pass
    ELSE \/ a.pass = Dummy /\ b.pass = Dummy /\ b.layer = 1
         \/ /\ b.pass = (IF a.pass > 0 THEN a.pass ELSE f) + 1
            /\ b.layer = IF t = 0 THEN 0 ELSE 1

\* Only rank 0 stages inputs, and only for batches; batches on the stream are unfinished
\* and launched; each entry of a dummy forward has its end behind it.
EachOp(t, s, f, p) ==
    \A i \in DOMAIN s :
        /\ s[i].layer = 0 => t = 0 /\ s[i].pass > 0
        /\ s[i].pass <= p
        /\ s[i].pass > 0 => s[i].pass > f
        /\ s[i].pass = Dummy => \E j \in DOMAIN s : j >= i /\ IsDummyEnd(s[j])
\* Neighbours on a stream follow one another.
InSteps(t, s, f) == \A i \in DOMAIN s : i + 1 \in DOMAIN s => FollowsOf(t, f, s[i], s[i + 1])
\* The batches on a stream are in order, each forward ending before the next starts.
Rising(s) ==
    \A i, j \in DOMAIN s : i < j /\ s[i].pass > 0 =>
        /\ s[j].pass >= s[i].pass
        /\ s[i].layer = NumLayers + 1 \/ s[j].layer = 0 => s[j].pass > s[i].pass
\* The first batch on a stream is the one after the last finished.
FirstOp(s, f) == s # <<>> /\ s[1].pass > 0 => s[1].pass = f + 1
\* A stream ends with a whole forward, or with the inputs of the batch the model thread
\* is at, which is the one after the last on the stream.
LastOp(t, s, h, f) ==
    /\ s # <<>> => s[Len(s)].layer = IF IsBusy(h) /\ t = 0 THEN 0 ELSE NumLayers + 1
    /\ IsBusy(h) => h.pass = IF s # <<>> /\ s[Len(s)].pass > 0
                             THEN s[Len(s)].pass + (IF t = 0 THEN 0 ELSE 1) ELSE f + 1

\* A stream of rank t with its model thread, the last batch finished, the last batch
\* issued and the state of its head: every batch from the one after f to the last
\* launched is there once, in order.
OrderOf(t, s, h, f, n, g) ==
    /\ EachOp(t, s, f, LaunchedOf(s, h, f)) /\ InSteps(t, s, f) /\ Rising(s)
    /\ FirstOp(s, f) /\ LastOp(t, s, h, f)
    /\ f <= LaunchedOf(s, h, f) /\ LaunchedOf(s, h, f) <= n
    /\ g # "wait" => s # <<>> /\ s[1].op = "copy"

\* What waits in an inbox: one dummy or capturing pass while no batch is at hand, or the
\* batches issued and not launched, in order.
InboxOf(b, h, f, n, p) ==
    \/ b \in {<<Dummy>>, <<Capture>>} /\ h.phase = "idle" /\ n = f
    \/ /\ p + Len(b) = n /\ \A i \in DOMAIN b : b[i] = p + i
       /\ h.phase = "signal" => n = f /\ h.pass \in {Dummy, Capture}

\* The dummy forwards on a stream.
DummyEnds(s) == Cardinality({i \in DOMAIN s : IsDummyEnd(s[i])})
\* A dummy forward is issued and not on the stream yet.
ComingOf(b, h) == b = <<Dummy>> \/ (h.phase = "signal" /\ h.pass = Dummy)
\* The dummy forwards of a rank, on its stream or coming.
DummiesOf(s, b, h) == DummyEnds(s) + IF ComingOf(b, h) THEN 1 ELSE 0

\* The model thread of a rank launches a batch.
Busy(r) == IsBusy(host[r])
\* The last batch launched on a rank.
Launched(r) == LaunchedOf(stream[r], host[r], finished[r[1]])
\* The order of the stream and of the inbox of one rank.
RankOK(t, s, b, h, f, n, g) ==
    OrderOf(t, s, h, f, n, g) /\ InboxOf(b, h, f, n, LaunchedOf(s, h, f))
\* The order of rank r in this state.
RankInv(r) ==
    RankOK(r[2], stream[r], inbox[r], host[r], finished[r[1]], issued[r[1]], stage[r])
\* The dummy forwards of rank r.
Dummies(r) == DummiesOf(stream[r], inbox[r], host[r])

\* The launches: on each rank the batches are in order, and the ranks of a d have the
\* same number of dummy forwards before them, so that they meet in the same reduction.
LaunchInv ==
    /\ \A r \in Ranks : RankInv(r)
    /\ \A r \in Ranks : Dummies(r) = Dummies(<<r[1], 0>>)
-----------------------------------------------------------------------------
\* The states of a model thread.
HostState == [phase : {"idle", "claim", "signal", "full", "timeout"},
              pass : Capture .. MaxPasses, layer : Layers]
\* The states of a request thread.
ThreadState == [phase : {"get", "taken", "wait", "staging", "send"},
                pass : 0 .. MaxPasses, seen : 0 .. MaxPasses]
\* The entries of a model stream.
Op ==
    {o \in [op : {"prepare", "copy", "reduce"}, pass : 0 .. MaxPasses, layer : 0 .. NumLayers + 1] :
        o.op = OpAt(o.layer)}
\* The entries of the worker's list.
Work == [layer : Layers, dp : DPs]
\* The states of the worker.
WorkerState ==
    [step : {"poll", "claim", "reset", "take", "compute", "computing", "fan", "publish"},
     work : Seq(Work), batch : [DPs -> 0 .. MaxPasses], at : TPs, seen : Torn .. MaxPasses]
\* One value of S for each output.
Grid(S) == [Ranks -> [Layers -> S]]

\* The batches issued are among the passes.
EngineOK ==
    /\ passes \in [DPs -> 0 .. MaxPasses] /\ issued \in [DPs -> 0 .. MaxPasses]
    /\ finished \in [DPs -> 0 .. MaxPasses]
    /\ \A d \in DPs : issued[d] <= passes[d]
\* The inboxes and the model threads.
HostOK ==
    /\ inbox \in [Ranks -> Seq({Dummy, Capture} \cup Batches)]
    /\ host \in [Ranks -> HostState]
    /\ \A r \in Ranks : Busy(r) => host[r].pass > 0
\* The queues and the request threads.
ThreadOK ==
    /\ queue \in [DPs -> 0 .. MaxPasses] /\ event \in [DPs -> 0 .. MaxPasses]
    /\ thread \in [DPs -> ThreadState]
    /\ \A d \in DPs : thread[d].phase # "get" => thread[d].pass > 0
\* The requests and the inputs.
InputsOK ==
    /\ requests \in [DPs -> Seq(Batches)] /\ staged \in [DPs -> Torn .. MaxPasses]
    /\ inputs \in [DPs -> 0 .. MaxPasses]
\* The model streams.
StreamOK ==
    /\ stream \in [Ranks -> Seq(Op)]
    /\ stage \in [Ranks -> {"wait", "copying", "copied", "release"}]
\* The flags of the outputs.
FlagsOK == ready \in Grid({0, 1}) /\ consumed \in Grid({0, 1})
\* What the outputs hold, on the host and on the device.
OutputsOK ==
    /\ output \in Grid(Torn .. MaxPasses) /\ gpu \in Grid(Torn .. MaxPasses)
    /\ taken \in Grid(0 .. MaxPasses)
\* The worker has work unless it polls.
WorkerOK == worker \in WorkerState /\ (worker.step = "poll" <=> worker.work = <<>>)

\* The strengthening of TypeOK that is inductive.
TypeInv ==
    /\ EngineOK /\ HostOK /\ ThreadOK /\ InputsOK
    /\ StreamOK /\ FlagsOK /\ OutputsOK /\ WorkerOK

\* What the constants are.
LEMMA RankFacts ==
    /\ \A r \in Ranks : r[1] \in DPs /\ r[2] \in TPs /\ r = <<r[1], r[2]>>
    /\ \A d \in DPs : \A t \in TPs : <<d, t>> \in Ranks
    /\ 0 \in TPs /\ 1 \in Layers /\ NumLayers \in Layers
    /\ TPs \subseteq Nat /\ Layers \subseteq Nat
    /\ NumLayers \in Nat \ {0} /\ MaxPasses \in Nat \ {0} /\ TPSize \in Nat \ {0}
    /\ IsFiniteSet(DPs) /\ Depth \in Nat
BY HandshakeAssumption DEF HandshakeAssumption, Ranks, TPs, Layers

\* The strengthening implies the type invariant of the runs.
LEMMA TypeInvTypes == TypeInv => TypeOK
<1> SUFFICES ASSUME TypeInv PROVE TypeOK
  OBVIOUS
<1>1. stream \in [Ranks -> Seq([op : {"prepare", "copy", "reduce"}, pass : 0 .. MaxPasses,
                               layer : 0 .. NumLayers + 1])]
  <2>1. \A s \in Seq(Op) : s \in Seq([op : {"prepare", "copy", "reduce"}, pass : 0 .. MaxPasses,
                                     layer : 0 .. NumLayers + 1])
    <3>1. Op \subseteq [op : {"prepare", "copy", "reduce"}, pass : 0 .. MaxPasses,
                        layer : 0 .. NumLayers + 1]
      BY DEF Op
    <3>2. \A S, T : S \subseteq T => \A s \in Seq(S) : s \in Seq(T)
      OBVIOUS
    <3> QED
      BY <3>1, <3>2
  <2> QED
    BY <2>1 DEF TypeInv, StreamOK
<1>2. ready \in [Ranks -> [Layers -> {0, 1}]] /\ consumed \in [Ranks -> [Layers -> {0, 1}]]
  BY DEF TypeInv, FlagsOK, Grid
<1>3. /\ output \in [Ranks -> [Layers -> Torn .. MaxPasses]]
      /\ gpu \in [Ranks -> [Layers -> Torn .. MaxPasses]]
      /\ taken \in [Ranks -> [Layers -> 0 .. MaxPasses]]
  BY DEF TypeInv, OutputsOK, Grid
<1>4. /\ inbox \in [Ranks -> Seq({Dummy, Capture} \cup Batches)]
      /\ host \in [Ranks -> HostState]
      /\ queue \in [DPs -> 0 .. MaxPasses] /\ event \in [DPs -> 0 .. MaxPasses]
      /\ thread \in [DPs -> ThreadState]
      /\ requests \in [DPs -> Seq(Batches)] /\ staged \in [DPs -> Torn .. MaxPasses]
      /\ inputs \in [DPs -> 0 .. MaxPasses]
      /\ stage \in [Ranks -> {"wait", "copying", "copied", "release"}]
      /\ worker \in WorkerState
  BY DEF TypeInv, HostOK, ThreadOK, InputsOK, StreamOK, WorkerOK
<1>5. /\ passes \in [DPs -> 0 .. MaxPasses] /\ issued \in [DPs -> 0 .. MaxPasses]
      /\ finished \in [DPs -> 0 .. MaxPasses]
  BY DEF TypeInv, EngineOK
<1> QED
  BY <1>1, <1>2, <1>3, <1>4, <1>5 DEF HostState, ThreadState, Work, WorkerState, TypeOK

\* The initial state has the types.
LEMMA TypeInit == Init => TypeInv
<1> SUFFICES ASSUME Init PROVE TypeInv
  OBVIOUS
<1> USE RankFacts DEF Init, Cells, Dummy, Torn, Capture
<1>1. EngineOK
  BY DEF EngineOK
<1>2. HostOK
  BY DEF HostOK, HostState, Busy, IsBusy
<1>3. ThreadOK
  BY DEF ThreadOK, ThreadState
<1>4. InputsOK
  BY DEF InputsOK
<1>5. StreamOK
  BY DEF StreamOK
<1>6. FlagsOK
  BY DEF FlagsOK, Grid
<1>7. OutputsOK
  BY DEF OutputsOK, Grid
<1>8. WorkerOK
  BY DEF WorkerOK, WorkerState
<1> QED
  BY <1>1, <1>2, <1>3, <1>4, <1>5, <1>6, <1>7, <1>8 DEF TypeInv

\* A step that leaves the variables of a part of the type invariant alone keeps it.
LEMMA TypeKeep ==
    ASSUME TypeInv
    PROVE  /\ UNCHANGED <<passes, issued, finished>> => EngineOK'
           /\ UNCHANGED <<inbox, host>> => HostOK'
           /\ UNCHANGED <<queue, event, thread>> => ThreadOK'
           /\ UNCHANGED <<requests, staged, inputs>> => InputsOK'
           /\ UNCHANGED <<stream, stage>> => StreamOK'
           /\ UNCHANGED <<ready, consumed>> => FlagsOK'
           /\ UNCHANGED <<output, gpu, taken>> => OutputsOK'
           /\ UNCHANGED worker => WorkerOK'
BY DEF TypeInv, EngineOK, HostOK, ThreadOK, InputsOK, StreamOK, FlagsOK, OutputsOK, WorkerOK,
   Busy, IsBusy

\* An output that is given another value, and the others as before.
LEMMA GridUpdate ==
    ASSUME NEW S, NEW g \in Grid(S), NEW r \in Ranks, NEW l \in Layers, NEW v \in S
    PROVE  /\ [g EXCEPT ![r][l] = v] \in Grid(S)
           /\ \A q \in Ranks : \A k \in Layers :
                 [g EXCEPT ![r][l] = v][q][k] = IF q = r /\ k = l THEN v ELSE g[q][k]
BY DEF Grid

\* The value of one output.
LEMMA GridType ==
    ASSUME NEW S, NEW g \in Grid(S), NEW r \in Ranks, NEW l \in Layers
    PROVE  g[r][l] \in S
BY DEF Grid

\* A list with one element more.
LEMMA AppendFacts ==
    ASSUME NEW S, NEW s \in Seq(S), NEW e \in S
    PROVE  /\ Append(s, e) \in Seq(S) /\ Append(s, e) # <<>> /\ Len(Append(s, e)) = Len(s) + 1
           /\ Len(s) \in Nat /\ DOMAIN s = 1 .. Len(s) /\ DOMAIN Append(s, e) = 1 .. Len(s) + 1
           /\ \A i \in DOMAIN s : Append(s, e)[i] = s[i]
           /\ Append(s, e)[Len(s) + 1] = e
OBVIOUS

\* A list without its head.
LEMMA TailFacts ==
    ASSUME NEW S, NEW s \in Seq(S), s # <<>>
    PROVE  /\ Tail(s) \in Seq(S) /\ Len(Tail(s)) = Len(s) - 1
           /\ Len(s) \in Nat \ {0} /\ DOMAIN s = 1 .. Len(s) /\ DOMAIN Tail(s) = 1 .. Len(s) - 1
           /\ Head(s) = s[1] /\ Head(s) \in S
           /\ \A i \in DOMAIN Tail(s) : Tail(s)[i] = s[i + 1]
OBVIOUS

\* The entries of a forward: the copy of each layer, then its end.
LEMMA ForwardFacts ==
    ASSUME NEW p \in 0 .. MaxPasses
    PROVE  /\ Forward(p) \in Seq(Op) /\ Len(Forward(p)) = NumLayers + 1
           /\ \A i \in 1 .. NumLayers + 1 :
                 /\ Forward(p)[i].pass = p /\ Forward(p)[i].layer = i
                 /\ Forward(p)[i].op = IF i \in Layers THEN "copy" ELSE "reduce"
<1>1. NumLayers \in Nat
  BY RankFacts
<1>2. \A i \in 1 .. NumLayers + 1 :
         [op |-> IF i \in Layers THEN "copy" ELSE "reduce", pass |-> p, layer |-> i] \in Op
  BY <1>1 DEF Op, OpAt, Layers
<1> QED
  BY <1>1, <1>2 DEF Forward

\* An order of S names every member of it, each once.
LEMMA OrderFacts ==
    ASSUME NEW S, IsFiniteSet(S), NEW order \in SetToSeqs(S)
    PROVE  /\ Cardinality(S) \in Nat
           /\ \A k \in 1 .. Cardinality(S) : order[k] \in S
           /\ \A j, k \in 1 .. Cardinality(S) : order[j] = order[k] => j = k
           /\ \A d \in S : \E k \in 1 .. Cardinality(S) : order[k] = d
<1> DEFINE n == Cardinality(S)
           D == 1 .. n
<1>1. n \in Nat
  BY FS_CardinalityType
<1>2. order \in [D -> S] /\ \A j, k \in D : j # k => order[j] # order[k]
  BY DEF SetToSeqs
<1>3. order \in Injection(D, S)
  BY <1>2 DEF Injection, IsInjective
<1>4. IsFiniteSet(D) /\ Cardinality(D) = n
  BY <1>1, FS_Interval
<1>5. order \in Surjection(D, S)
  BY <1>3, <1>4, FS_Injection
<1> QED
  BY <1>1, <1>2, <1>5 DEF Surjection

\* Places in a list of n columns.
LEMMA DivMod ==
    ASSUME NEW n \in Nat \ {0}, NEW m \in Nat
    PROVE  /\ \A a \in 0 .. n * m - 1 : /\ a \div n \in 0 .. m - 1 /\ a % n \in 0 .. n - 1
                                        /\ a = n * (a \div n) + (a % n)
           /\ \A q \in 0 .. m - 1 : \A k \in 0 .. n - 1 :
                 n * q + k \in 0 .. n * m - 1 /\ (n * q + k) \div n = q /\ (n * q + k) % n = k
OBVIOUS

\* The work of the requests received at once: every layer of each once.
WorkOf(S, order) ==
    [i \in 1 .. Cardinality(S) * NumLayers |->
        [layer |-> ((i - 1) \div Cardinality(S)) + 1,
         dp |-> order[((i - 1) % Cardinality(S)) + 1]]]

\* The worker's new list has every layer of every d it received, once.
LEMMA WorkFacts ==
    ASSUME NEW S \in SUBSET DPs, S # {}, NEW order \in SetToSeqs(S), NEW w, w = WorkOf(S, order)
    PROVE  /\ w \in Seq(Work) /\ w # <<>>
           /\ \A i, j \in DOMAIN w : w[i] = w[j] => i = j
           /\ \A i \in DOMAIN w : w[i].dp \in S
           /\ \A d \in S : \A l \in Layers : \E i \in DOMAIN w : w[i].dp = d /\ w[i].layer = l
<1> DEFINE n == Cardinality(S)
           lay(i) == ((i - 1) \div n) + 1
           col(i) == ((i - 1) % n) + 1
<1>1. IsFiniteSet(S)
  BY RankFacts, FS_Subset
<1>2. /\ n \in Nat \ {0} /\ \A k \in 1 .. n : order[k] \in S
      /\ \A j, k \in 1 .. n : order[j] = order[k] => j = k
      /\ \A d \in S : \E k \in 1 .. n : order[k] = d
  BY <1>1, OrderFacts, FS_EmptySet
<1>3. NumLayers \in Nat \ {0} /\ Layers = 1 .. NumLayers
  BY RankFacts DEF Layers
<1>4. n * NumLayers \in Nat \ {0}
  BY <1>2, <1>3
<1>5. DOMAIN w = 1 .. n * NumLayers
  BY DEF WorkOf
<1>6. \A i \in DOMAIN w : w[i] = [layer |-> lay(i), dp |-> order[col(i)]]
  BY DEF WorkOf
<1> HIDE DEF n
<1>7. \A i \in DOMAIN w : /\ lay(i) \in 1 .. NumLayers /\ col(i) \in 1 .. n
                          /\ i = n * (lay(i) - 1) + (col(i) - 1) + 1
  <2> SUFFICES ASSUME NEW i \in DOMAIN w
               PROVE  /\ lay(i) \in 1 .. NumLayers /\ col(i) \in 1 .. n
                      /\ i = n * (lay(i) - 1) + (col(i) - 1) + 1
    OBVIOUS
  <2> DEFINE m == n * NumLayers
  <2>1. m \in Nat \ {0} /\ i \in 1 .. m
    BY <1>4, <1>5
  <2>2. i - 1 \in 0 .. m - 1 /\ i \in Nat
    BY <2>1
  <2>3. /\ (i - 1) \div n \in 0 .. NumLayers - 1 /\ (i - 1) % n \in 0 .. n - 1
        /\ i - 1 = n * ((i - 1) \div n) + ((i - 1) % n)
    <3> HIDE DEF lay, col
    <3> QED
      BY <1>2, <1>3, <2>2, DivMod
  <2> DEFINE q == (i - 1) \div n
             k == (i - 1) % n
  <2>4. lay(i) = q + 1 /\ col(i) = k + 1
    OBVIOUS
  <2>5. q \in 0 .. NumLayers - 1 /\ k \in 0 .. n - 1 /\ i - 1 = n * q + k
    BY <2>3
  <2> HIDE DEF q, k, lay, col
  <2>6. lay(i) - 1 = q /\ col(i) - 1 = k /\ lay(i) \in 1 .. NumLayers /\ col(i) \in 1 .. n
    BY <1>2, <1>3, <2>4, <2>5
  <2>7. n * q \in Int
    BY <1>2, <1>3, <2>5
  <2> QED
    BY <1>2, <2>2, <2>5, <2>6, <2>7
<1>8. \A k \in 1 .. n, l \in 1 .. NumLayers : \E i \in DOMAIN w : lay(i) = l /\ col(i) = k
  <2> SUFFICES ASSUME NEW k \in 1 .. n, NEW l \in 1 .. NumLayers
               PROVE  \E i \in DOMAIN w : lay(i) = l /\ col(i) = k
    OBVIOUS
  <2> DEFINE a == n * (l - 1) + (k - 1)
  <2>1. a \in 0 .. n * NumLayers - 1 /\ a \div n = l - 1 /\ a % n = k - 1
    <3>1. l - 1 \in 0 .. NumLayers - 1 /\ k - 1 \in 0 .. n - 1
      BY <1>2, <1>3
    <3> DEFINE q == l - 1
               c == k - 1
    <3>2. q \in 0 .. NumLayers - 1 /\ c \in 0 .. n - 1 /\ a = n * q + c
      BY <3>1
    <3> HIDE DEF q, c, a
    <3>3. a \in 0 .. n * NumLayers - 1 /\ a \div n = q /\ a % n = c
      BY <1>2, <1>3, <3>2, DivMod
    <3> QED
      BY <3>3 DEF q, c
  <2> HIDE DEF a
  <2>2. a + 1 \in DOMAIN w /\ (a + 1) - 1 = a
    <3> DEFINE m == n * NumLayers
    <3>1. m \in Nat \ {0} /\ a \in 0 .. m - 1 /\ DOMAIN w = 1 .. m
      BY <1>4, <1>5, <2>1
    <3> HIDE DEF m
    <3>2. a + 1 \in 1 .. m /\ (a + 1) - 1 = a
      BY <3>1
    <3> QED
      BY <3>1, <3>2
  <2>3. lay(a + 1) = l /\ col(a + 1) = k
    BY <2>1, <2>2
  <2> QED
    BY <2>2, <2>3
<1> HIDE DEF lay, col
<1>9. \A i, j \in DOMAIN w : w[i] = w[j] => i = j
  <2> SUFFICES ASSUME NEW i \in DOMAIN w, NEW j \in DOMAIN w, w[i] = w[j] PROVE i = j
    OBVIOUS
  <2>1. lay(i) = lay(j) /\ order[col(i)] = order[col(j)]
    BY <1>6
  <2>2. col(i) \in 1 .. n /\ col(j) \in 1 .. n
    BY <1>7
  <2>3. col(i) = col(j)
    BY <1>2, <2>1, <2>2
  <2> QED
    BY <1>7, <2>1, <2>3
<1>10. \A i \in DOMAIN w : w[i] \in Work /\ w[i].dp \in S
  <2> SUFFICES ASSUME NEW i \in DOMAIN w PROVE w[i] \in Work /\ w[i].dp \in S
    OBVIOUS
  <2>1. w[i] = [layer |-> lay(i), dp |-> order[col(i)]]
    BY <1>6
  <2>2. lay(i) \in Layers /\ col(i) \in 1 .. n
    BY <1>3, <1>7
  <2>3. order[col(i)] \in S
    BY <1>2, <2>2
  <2> QED
    BY <2>1, <2>2, <2>3 DEF Work
<1>11. w \in Seq(Work) /\ w # <<>>
  <2> DEFINE m == n * NumLayers
  <2>1. w = [i \in 1 .. m |-> w[i]]
    BY <1>5 DEF WorkOf, n
  <2>2. m \in Nat \ {0} /\ \A i \in 1 .. m : w[i] \in Work
    BY <1>4, <1>5, <1>10
  <2> HIDE DEF m
  <2>3. w \in [1 .. m -> Work]
    BY <2>1, <2>2
  <2> QED
    BY <2>2, <2>3
<1>12. \A d \in S : \A l \in Layers : \E i \in DOMAIN w : w[i].dp = d /\ w[i].layer = l
  <2> SUFFICES ASSUME NEW d \in S, NEW l \in Layers
               PROVE  \E i \in DOMAIN w : w[i].dp = d /\ w[i].layer = l
    OBVIOUS
  <2>1. PICK k \in 1 .. n : order[k] = d
    BY <1>2
  <2>2. PICK i \in DOMAIN w : lay(i) = l /\ col(i) = k
    BY <1>3, <1>8
  <2> QED
    BY <1>6, <2>1, <2>2
<1> QED
  BY <1>9, <1>10, <1>11, <1>12

\* Issuing a pass keeps the types.
LEMMA TypeEngine ==
    ASSUME TypeInv, NEW d \in DPs,
           IssueBatch(d) \/ \E kind \in {Dummy, Capture} : IssueDummy(d, kind)
    PROVE  TypeInv'
<1> USE RankFacts DEF engineVars, hostVars, threadVars, streamVars, flagVars
<1>1. PICK pass : /\ Issue(d, pass)
                  /\ \/ issued' = [issued EXCEPT ![d] = @ + 1] /\ pass = issued[d] + 1
                     \/ issued' = issued /\ pass \in {Dummy, Capture}
  <2>1. CASE IssueBatch(d)
    BY <2>1 DEF IssueBatch
  <2> QED
    BY <2>1 DEF IssueDummy
<1>2. /\ passes[d] < MaxPasses /\ passes' = [passes EXCEPT ![d] = @ + 1]
      /\ inbox' = [r \in Ranks |-> IF r[1] = d THEN Append(inbox[r], pass) ELSE inbox[r]]
      /\ UNCHANGED <<host, finished, queue, event, thread, requests, staged, inputs, stream, stage,
                     ready, consumed, output, gpu, taken, worker>>
  BY <1>1 DEF Issue
<1>3. EngineOK'
  <2>1. \A e \in DPs : passes[e] \in 0 .. MaxPasses /\ issued[e] \in 0 .. MaxPasses /\ issued[e] <= passes[e]
    BY DEF TypeInv, EngineOK
  <2>2. passes[d] + 1 \in 0 .. MaxPasses /\ issued[d] + 1 \in 0 .. MaxPasses
    BY <1>2, <2>1
  <2>3. passes \in [DPs -> 0 .. MaxPasses] /\ issued \in [DPs -> 0 .. MaxPasses]
        /\ finished' \in [DPs -> 0 .. MaxPasses]
    BY <1>2 DEF TypeInv, EngineOK
  <2>4. passes' \in [DPs -> 0 .. MaxPasses]
        /\ \A e \in DPs : passes'[e] \in Nat /\ passes'[e] >= passes[e]
    BY <1>2, <2>1, <2>2, <2>3
  <2>5. issued' \in [DPs -> 0 .. MaxPasses] /\ \A e \in DPs : issued'[e] <= passes'[e]
    <3>1. CASE issued' = issued
      BY <2>1, <2>3, <2>4, <3>1
    <3>2. CASE issued' = [issued EXCEPT ![d] = @ + 1]
      <4>1. issued' \in [DPs -> 0 .. MaxPasses] /\ passes'[d] = passes[d] + 1
            /\ issued'[d] = issued[d] + 1 /\ \A e \in DPs \ {d} : issued'[e] = issued[e]
        BY <1>2, <2>2, <2>3, <3>2
      <4>2. issued'[d] <= passes'[d]
        BY <2>1, <4>1
      <4>3. \A e \in DPs \ {d} : issued'[e] <= passes'[e]
        BY <2>1, <2>4, <4>1
      <4> QED
        BY <4>1, <4>2, <4>3
    <3> QED
      BY <1>1, <3>1, <3>2
  <2> QED
    BY <2>3, <2>4, <2>5 DEF EngineOK
<1>4. pass \in {Dummy, Capture} \cup Batches
  BY <1>1, <1>2 DEF TypeInv, EngineOK, Batches
<1>5. HostOK'
  BY <1>2, <1>4 DEF TypeInv, HostOK, Busy, IsBusy
<1> QED
  BY <1>2, <1>3, <1>5, TypeKeep DEF TypeInv

\* A step of a model thread keeps the types.
LEMMA TypeHost ==
    ASSUME TypeInv, NEW r \in Ranks, HostNext(r) \/ ClaimTimeout(r)
    PROVE  TypeInv'
<1> USE RankFacts DEF engineVars, hostVars, threadVars, streamVars, flagVars
<1>1. /\ inbox \in [Ranks -> Seq({Dummy, Capture} \cup Batches)]
      /\ host \in [Ranks -> HostState] /\ host[r] \in HostState /\ inbox[r] \in Seq({Dummy, Capture} \cup Batches)
      /\ \A q \in Ranks : Busy(q) => host[q].pass > 0
  BY DEF TypeInv, HostOK
<1>a. {Dummy, Capture} \cup Batches \subseteq Capture .. MaxPasses
  BY DEF Dummy, Capture, Batches
<1>2. CASE LaunchStart(r)
  <2>4. Head(inbox[r]) \in 1 .. MaxPasses
    <3>1. Head(inbox[r]) \in Capture .. MaxPasses /\ Head(inbox[r]) > 0
      BY <1>1, <1>2, <1>a, TailFacts DEF LaunchStart
    <3> QED
      BY <3>1 DEF Capture
  <2>1. PICK h \in HostState : host' = [host EXCEPT ![r] = h] /\ h.pass > 0
    <3>1. \A ph \in {"claim", "full"} :
            [phase |-> ph, pass |-> Head(inbox[r]), layer |-> 1] \in HostState
      BY <2>4 DEF HostState, Capture
    <3>2. \E ph \in {"claim", "full"} :
             host' = [host EXCEPT ![r] = [phase |-> ph, pass |-> Head(inbox[r]), layer |-> 1]]
      BY <1>2 DEF LaunchStart
    <3>3. PICK ph \in {"claim", "full"} :
             host' = [host EXCEPT ![r] = [phase |-> ph, pass |-> Head(inbox[r]), layer |-> 1]]
      BY <3>2
    <3>4. [phase |-> ph, pass |-> Head(inbox[r]), layer |-> 1].pass > 0
      BY <2>4
    <3> QED
      BY <3>1, <3>3, <3>4
  <2>2. inbox' = [inbox EXCEPT ![r] = Tail(@)] /\ inbox[r] # <<>>
    BY <1>2 DEF LaunchStart
  <2>3. HostOK'
    BY <1>1, <2>1, <2>2 DEF HostOK, Busy, IsBusy
  <2>5. StreamOK'
    <3>1. [op |-> "prepare", pass |-> Head(inbox[r]), layer |-> 0] \in Op
      BY <2>4 DEF Op, OpAt
    <3>2. \/ stream' = stream
          \/ stream' = [stream EXCEPT ![r] = Append(@, [op |-> "prepare", pass |-> Head(inbox[r]), layer |-> 0])]
      BY <1>2 DEF LaunchStart
    <3>3. stage' = stage
      BY <1>2 DEF LaunchStart
    <3>4. stream[r] \in Seq(Op) /\ stream \in [Ranks -> Seq(Op)]
      BY DEF TypeInv, StreamOK
    <3>5. Append(stream[r], [op |-> "prepare", pass |-> Head(inbox[r]), layer |-> 0]) \in Seq(Op)
      BY <3>1, <3>4, AppendFacts
    <3>6. stream' \in [Ranks -> Seq(Op)]
      BY <3>2, <3>4, <3>5
    <3> QED
      BY <3>3, <3>6 DEF TypeInv, StreamOK
  <2>6. ThreadOK'
    BY <1>2, <2>4 DEF LaunchStart, TypeInv, ThreadOK
  <2> QED
    BY <1>2, <2>3, <2>5, <2>6, TypeKeep DEF TypeInv, LaunchStart
<1>3. CASE ClaimSeen(r)
  <2>1. host[r].phase = "claim" /\ host[r].pass \in 1 .. MaxPasses
    <3>1. host[r].phase = "claim" /\ host[r].pass > 0 /\ host[r].pass \in Capture .. MaxPasses
      BY <1>1, <1>3 DEF ClaimSeen, HostState, Busy, IsBusy
    <3> QED
      BY <3>1 DEF Capture
  <2>2. \/ host' = [host EXCEPT ![r].layer = @ + 1] /\ host[r].layer < NumLayers
        \/ host' = [host EXCEPT ![r].phase = "idle"]
    BY <1>3 DEF ClaimSeen
  <2>3. host' \in [Ranks -> HostState] /\ host'[r].pass = host[r].pass /\ \A q \in Ranks : q # r => host'[q] = host[q]
    <3>1. host[r].layer \in Layers /\ (host[r].layer < NumLayers => host[r].layer + 1 \in Layers)
      BY <1>1 DEF HostState, Layers
    <3>2. /\ \A k \in Layers : [host[r] EXCEPT !.layer = k] \in HostState
          /\ [host[r] EXCEPT !.phase = "idle"] \in HostState
      BY <1>1 DEF HostState
    <3>3. PICK h \in HostState : /\ host' = [host EXCEPT ![r] = h]
                                 /\ h \in {[host[r] EXCEPT !.layer = host[r].layer + 1], [host[r] EXCEPT !.phase = "idle"]}
      BY <1>1, <2>2, <3>1, <3>2
    <3> QED
      BY <1>1, <3>3 DEF HostState
  <2>4. HostOK'
    BY <1>1, <1>3, <2>1, <2>3 DEF HostOK, Busy, IsBusy, ClaimSeen
  <2>5. Forward(host[r].pass) \in Seq(Op)
    BY <2>1, ForwardFacts
  <2>6. StreamOK'
    <3>1. /\ stage' = stage
          /\ stream' = stream \/ stream' = [stream EXCEPT ![r] = @ \o Forward(host[r].pass)]
      BY <1>3 DEF ClaimSeen
    <3>3. stream[r] \in Seq(Op) /\ stream \in [Ranks -> Seq(Op)]
      BY DEF TypeInv, StreamOK
    <3>4. stream[r] \o Forward(host[r].pass) \in Seq(Op)
      BY <2>5, <3>3
    <3>5. stream' \in [Ranks -> Seq(Op)]
      BY <3>1, <3>3, <3>4
    <3> QED
      BY <3>1, <3>5 DEF TypeInv, StreamOK
  <2> QED
    BY <1>3, <2>4, <2>6, TypeKeep DEF TypeInv, ClaimSeen
<1>4. CASE ClaimTimeout(r)
  <2>1. HostOK'
    BY <1>1, <1>4 DEF ClaimTimeout, HostOK, Busy, IsBusy, HostState
  <2> QED
    BY <1>4, <2>1, TypeKeep DEF TypeInv, ClaimTimeout
<1>5. CASE DummyStart(r)
  <2>1. HostOK'
    <3>1. [phase |-> "signal", pass |-> Head(inbox[r]), layer |-> 1] \in HostState
      BY <1>1, <1>5, <1>a DEF DummyStart, HostState
    <3> QED
      BY <1>1, <1>5, <3>1 DEF DummyStart, HostOK, Busy, IsBusy
  <2> QED
    BY <1>5, <2>1, TypeKeep DEF TypeInv, DummyStart
<1>6. CASE SignalDummy(r)
  <2>1. \/ host' = [host EXCEPT ![r].layer = @ + 1] /\ host[r].layer < NumLayers
        \/ host' = [host EXCEPT ![r].phase = "idle"]
    BY <1>6 DEF SignalDummy
  <2>2. host' \in [Ranks -> HostState] /\ host'[r].pass = host[r].pass /\ host'[r].phase \in {"signal", "idle"}
        /\ \A q \in Ranks : q # r => host'[q] = host[q]
    <3>1. host[r].layer \in Layers /\ (host[r].layer < NumLayers => host[r].layer + 1 \in Layers)
      BY <1>1 DEF HostState, Layers
    <3>2. /\ \A k \in Layers : [host[r] EXCEPT !.layer = k] \in HostState
          /\ [host[r] EXCEPT !.phase = "idle"] \in HostState
      BY <1>1 DEF HostState
    <3>3. PICK h \in HostState : /\ host' = [host EXCEPT ![r] = h]
                                 /\ h \in {[host[r] EXCEPT !.layer = host[r].layer + 1], [host[r] EXCEPT !.phase = "idle"]}
      BY <1>1, <2>1, <3>1, <3>2
    <3> QED
      BY <1>1, <1>6, <3>3 DEF HostState, SignalDummy
  <2>3. HostOK'
    BY <1>1, <1>6, <2>2 DEF HostOK, Busy, IsBusy, SignalDummy
  <2>4. Forward(Dummy) \in Seq(Op)
    BY ForwardFacts DEF Dummy
  <2>5. StreamOK'
    <3>1. /\ stage' = stage
          /\ stream' = stream \/ stream' = [stream EXCEPT ![r] = @ \o Forward(Dummy)]
      <4>1. \/ host[r].layer < NumLayers /\ UNCHANGED stream
            \/ stream' = [stream EXCEPT ![r] = IF host[r].pass = Capture THEN @ ELSE @ \o Forward(Dummy)]
        BY <1>6 DEF SignalDummy
      <4>2. stream \in [Ranks -> Seq(Op)] /\ stage' = stage
        BY <1>6 DEF SignalDummy, TypeInv, StreamOK
      <4> QED
        BY <4>1, <4>2
    <3>3. stream[r] \in Seq(Op) /\ stream \in [Ranks -> Seq(Op)]
      BY DEF TypeInv, StreamOK
    <3>4. stream[r] \o Forward(Dummy) \in Seq(Op)
      BY <2>4, <3>3
    <3>5. stream' \in [Ranks -> Seq(Op)]
      BY <3>1, <3>3, <3>4
    <3> QED
      BY <3>1, <3>5 DEF TypeInv, StreamOK
  <2>6. host[r].layer \in Layers
    BY <1>1 DEF HostState
  <2>7. FlagsOK'
    BY <1>6, <2>6 DEF SignalDummy, TypeInv, FlagsOK, Grid, Armed
  <2>8. OutputsOK'
    <3>1. Dummy \in Torn .. MaxPasses
      BY DEF Dummy, Torn
    <3>2. output' = [output EXCEPT ![r][host[r].layer] = Dummy] /\ UNCHANGED <<gpu, taken>>
      BY <1>6 DEF SignalDummy
    <3> QED
      BY <2>6, <3>1, <3>2, GridUpdate DEF TypeInv, OutputsOK
  <2> QED
    BY <1>6, <2>3, <2>5, <2>7, <2>8, TypeKeep DEF TypeInv, SignalDummy
<1> QED
  BY <1>2, <1>3, <1>4, <1>5, <1>6 DEF HostNext

\* A step of a model stream keeps the types.
LEMMA TypeStream ==
    ASSUME TypeInv, NEW r \in Ranks, StreamNext(r)
    PROVE  TypeInv'
<1> USE RankFacts DEF engineVars, hostVars, threadVars, streamVars, flagVars
<1>1. /\ stream \in [Ranks -> Seq(Op)] /\ stream[r] \in Seq(Op)
      /\ stage \in [Ranks -> {"wait", "copying", "copied", "release"}]
      /\ output \in Grid(Torn .. MaxPasses) /\ gpu \in Grid(Torn .. MaxPasses)
      /\ taken \in Grid(0 .. MaxPasses)
  BY DEF TypeInv, StreamOK, OutputsOK
<1>2. stream[r] # <<>> => Head(stream[r]) \in Op /\ Tail(stream[r]) \in Seq(Op)
  BY <1>1, TailFacts
<1>3. ASSUME stream' = [stream EXCEPT ![r] = Tail(@)], stream[r] # <<>>,
             stage' = stage \/ \E s \in {"wait", "copying", "copied", "release"} : stage' = [stage EXCEPT ![r] = s]
      PROVE  StreamOK'
  BY <1>1, <1>2, <1>3 DEF StreamOK
<1>4. \A s : AtCopy(r, s) => Head(stream[r]).layer \in Layers
  BY <1>2 DEF AtCopy, Op, OpAt
<1>5. CASE PrepareInputs(r)
  <2>1. StreamOK'
    BY <1>3, <1>5 DEF PrepareInputs, Advance
  <2>2. InputsOK'
    BY <1>2, <1>5 DEF PrepareInputs, TypeInv, InputsOK, Op
  <2> QED
    BY <1>5, <2>1, <2>2, TypeKeep DEF TypeInv, PrepareInputs
<1>6. CASE CopyBegin(r)
  <2> DEFINE l == Head(stream[r]).layer
  <2>1. l \in Layers
    BY <1>4, <1>6 DEF CopyBegin
  <2>2. gpu' = [gpu EXCEPT ![r][l] = output[r][l]] /\ stage' = [stage EXCEPT ![r] = "copying"]
        /\ UNCHANGED <<stream, output, taken>>
    BY <1>6 DEF CopyBegin
  <2>3. output[r][l] \in Torn .. MaxPasses
    BY <1>1, <2>1 DEF Grid
  <2> HIDE DEF l
  <2>4. OutputsOK'
    BY <1>1, <2>1, <2>2, <2>3, GridUpdate DEF OutputsOK
  <2>5. StreamOK'
    BY <1>1, <2>2 DEF StreamOK
  <2> QED
    BY <1>6, <2>4, <2>5, TypeKeep DEF TypeInv, CopyBegin
<1>7. CASE CopyEnd(r)
  <2> DEFINE l == Head(stream[r]).layer
             got == IF gpu[r][l] = output[r][l] THEN gpu[r][l] ELSE Torn
             new == IF got > 0 THEN got ELSE taken[r][l]
  <2>1. l \in Layers
    BY <1>4, <1>7 DEF CopyEnd
  <2>2. gpu[r][l] \in Torn .. MaxPasses /\ taken[r][l] \in 0 .. MaxPasses /\ Torn \in Torn .. MaxPasses
    <3>1. Torn \in Torn .. MaxPasses
      BY DEF Torn
    <3> QED
      BY <1>1, <2>1, <3>1, GridType
  <2>3. got \in Torn .. MaxPasses /\ new \in 0 .. MaxPasses
    BY <2>2 DEF Torn
  <2>4. /\ gpu' = [gpu EXCEPT ![r][l] = got] /\ stage' = [stage EXCEPT ![r] = "copied"]
        /\ taken' = [taken EXCEPT ![r][l] = IF got > 0 THEN got ELSE @]
        /\ UNCHANGED <<stream, output>>
    BY <1>7 DEF CopyEnd
  <2>5. taken' = [taken EXCEPT ![r][l] = new]
    BY <1>1, <2>1, <2>4 DEF Grid
  <2> HIDE DEF l, got, new
  <2>6. OutputsOK'
    <3>1. gpu' \in Grid(Torn .. MaxPasses)
      BY <1>1, <2>1, <2>3, <2>4, GridUpdate
    <3>2. taken' \in Grid(0 .. MaxPasses)
      BY <1>1, <2>1, <2>3, <2>5, GridUpdate
    <3> QED
      BY <1>1, <2>4, <3>1, <3>2 DEF OutputsOK
  <2>7. StreamOK'
    BY <1>1, <2>4 DEF StreamOK
  <2> QED
    BY <1>7, <2>6, <2>7, TypeKeep DEF TypeInv, CopyEnd
<1>8. CASE ResetReady(r)
  <2>1. Head(stream[r]).layer \in Layers
    BY <1>4, <1>8 DEF ResetReady
  <2>2. FlagsOK'
    BY <1>8, <2>1, GridUpdate DEF ResetReady, TypeInv, FlagsOK
  <2>3. StreamOK'
    BY <1>1, <1>8 DEF StreamOK, ResetReady
  <2> QED
    BY <1>8, <2>2, <2>3, TypeKeep DEF TypeInv, ResetReady
<1>9. CASE Release(r)
  <2>1. Head(stream[r]).layer \in Layers /\ stream[r] # <<>>
    BY <1>4, <1>9 DEF Release, AtCopy
  <2>2. FlagsOK'
    BY <1>9, <2>1, GridUpdate DEF Release, Freed, TypeInv, FlagsOK
  <2>3. StreamOK'
    BY <1>3, <1>9, <2>1 DEF Release, Advance
  <2> QED
    BY <1>9, <2>2, <2>3, TypeKeep DEF TypeInv, Release
<1> QED
  BY <1>5, <1>6, <1>7, <1>8, <1>9 DEF StreamNext

\* A step of a request thread keeps the types.
LEMMA TypeThread ==
    ASSUME TypeInv, NEW d \in DPs, ThreadNext(d)
    PROVE  TypeInv'
<1> USE RankFacts DEF engineVars, hostVars, threadVars, streamVars, flagVars
<1>1. /\ queue \in [DPs -> 0 .. MaxPasses] /\ event[d] \in 0 .. MaxPasses
      /\ thread \in [DPs -> ThreadState] /\ thread[d] \in ThreadState
      /\ \A e \in DPs : thread[e].phase # "get" => thread[e].pass > 0
      /\ inputs[d] \in 0 .. MaxPasses /\ staged \in [DPs -> Torn .. MaxPasses]
      /\ requests \in [DPs -> Seq(Batches)]
  BY DEF TypeInv, ThreadOK, InputsOK
<1>2. CASE ThreadGet(d)
  <2>1. ThreadOK'
    <3>1. [phase |-> "taken", pass |-> queue[d], seen |-> 0] \in ThreadState /\ queue[d] > 0
      BY <1>1, <1>2 DEF ThreadState, ThreadGet
    <3> QED
      BY <1>1, <1>2, <3>1 DEF ThreadGet, TypeInv, ThreadOK
  <2> QED
    BY <1>2, <2>1, TypeKeep DEF TypeInv, ThreadGet
<1>3. CASE ThreadWaitEvent(d)
  <2>1. ThreadOK'
    <3>1. [thread[d] EXCEPT !.phase = "wait", !.seen = event[d]] \in ThreadState
      BY <1>1 DEF ThreadState
    <3>2. thread' = [thread EXCEPT ![d] = [thread[d] EXCEPT !.phase = "wait", !.seen = event[d]]]
      BY <1>1, <1>3 DEF ThreadWaitEvent, EventTarget
    <3> QED
      <4>1. /\ UNCHANGED <<queue, event>> /\ thread' \in [DPs -> ThreadState]
            /\ thread'[d].pass = thread[d].pass /\ thread[d].phase # "get"
            /\ \A e \in DPs \ {d} : thread'[e] = thread[e]
        <5>1. UNCHANGED <<queue, event>> /\ thread[d].phase = "taken"
          BY <1>3 DEF ThreadWaitEvent
        <5>2. thread'[d] = [thread[d] EXCEPT !.phase = "wait", !.seen = event[d]]
          BY <1>1, <3>2
        <5>3. [thread[d] EXCEPT !.phase = "wait", !.seen = event[d]].pass = thread[d].pass
          BY <1>1 DEF ThreadState
        <5> QED
          BY <1>1, <3>1, <3>2, <5>1, <5>2, <5>3
      <4> QED
        BY <1>1, <4>1 DEF TypeInv, ThreadOK
  <2> QED
    BY <1>3, <2>1, TypeKeep DEF TypeInv, ThreadWaitEvent
<1>4. CASE ThreadStageBegin(d)
  <2>1. ThreadOK'
    <3>1. [thread[d] EXCEPT !.phase = "staging", !.seen = inputs[d]] \in ThreadState
      BY <1>1 DEF ThreadState
    <3>2. thread' = [thread EXCEPT ![d] = [thread[d] EXCEPT !.phase = "staging", !.seen = inputs[d]]]
      BY <1>1, <1>4 DEF ThreadStageBegin
    <3> QED
      <4>1. /\ UNCHANGED <<queue, event>> /\ thread' \in [DPs -> ThreadState]
            /\ thread'[d].pass = thread[d].pass /\ thread[d].phase # "get"
            /\ \A e \in DPs \ {d} : thread'[e] = thread[e]
        <5>1. UNCHANGED <<queue, event>> /\ thread[d].phase = "wait"
          BY <1>4 DEF ThreadStageBegin
        <5>2. thread'[d] = [thread[d] EXCEPT !.phase = "staging", !.seen = inputs[d]]
          BY <1>1, <3>2
        <5>3. [thread[d] EXCEPT !.phase = "staging", !.seen = inputs[d]].pass = thread[d].pass
          BY <1>1 DEF ThreadState
        <5> QED
          BY <1>1, <3>1, <3>2, <5>1, <5>2, <5>3
      <4> QED
        BY <1>1, <4>1 DEF TypeInv, ThreadOK
  <2>2. InputsOK'
    BY <1>1, <1>4 DEF ThreadStageBegin, TypeInv, InputsOK, Torn
  <2> QED
    BY <1>4, <2>1, <2>2, TypeKeep DEF TypeInv, ThreadStageBegin
<1>5. CASE ThreadStageEnd(d)
  <2>1. ThreadOK'
    <3>1. [thread[d] EXCEPT !.phase = "send"] \in ThreadState
      BY <1>1 DEF ThreadState
    <3>2. thread' = [thread EXCEPT ![d] = [thread[d] EXCEPT !.phase = "send"]]
      BY <1>1, <1>5 DEF ThreadStageEnd
    <3> QED
      <4>1. /\ UNCHANGED <<queue, event>> /\ thread' \in [DPs -> ThreadState]
            /\ thread'[d].pass = thread[d].pass /\ thread[d].phase # "get"
            /\ \A e \in DPs \ {d} : thread'[e] = thread[e]
        <5>1. UNCHANGED <<queue, event>> /\ thread[d].phase = "staging"
          BY <1>5 DEF ThreadStageEnd
        <5>2. thread'[d] = [thread[d] EXCEPT !.phase = "send"]
          BY <1>1, <3>2
        <5>3. [thread[d] EXCEPT !.phase = "send"].pass = thread[d].pass
          BY <1>1 DEF ThreadState
        <5> QED
          BY <1>1, <3>1, <3>2, <5>1, <5>2, <5>3
      <4> QED
        BY <1>1, <4>1 DEF TypeInv, ThreadOK
  <2>2. InputsOK'
    <3>1. inputs[d] \in Torn .. MaxPasses /\ Torn \in Torn .. MaxPasses
      BY <1>1 DEF Torn
    <3> QED
      BY <1>1, <1>5, <3>1 DEF ThreadStageEnd, TypeInv, InputsOK
  <2> QED
    BY <1>5, <2>1, <2>2, TypeKeep DEF TypeInv, ThreadStageEnd
<1>6. CASE ThreadSend(d)
  <2>1. ThreadOK'
    <3>1. [thread[d] EXCEPT !.phase = "get"] \in ThreadState
      BY <1>1 DEF ThreadState
    <3>2. thread' = [thread EXCEPT ![d] = [thread[d] EXCEPT !.phase = "get"]]
      BY <1>1, <1>6 DEF ThreadSend
    <3> QED
      <4>1. thread' \in [DPs -> ThreadState] /\ thread'[d].phase = "get"
            /\ \A e \in DPs \ {d} : thread'[e] = thread[e]
        BY <1>1, <3>1, <3>2 DEF ThreadState
      <4>2. UNCHANGED <<queue, event>>
        BY <1>6 DEF ThreadSend
      <4> QED
        BY <4>1, <4>2 DEF TypeInv, ThreadOK
  <2>2. InputsOK'
    <3>1. thread[d].pass \in Batches
      <4>1. thread[d].phase = "send" /\ thread[d].pass \in 0 .. MaxPasses
        BY <1>1, <1>6 DEF ThreadSend, ThreadState
      <4> QED
        <5>1. thread[d].pass > 0 /\ thread[d].pass \in 0 .. MaxPasses
          BY <1>1, <4>1
        <5>2. \A x \in 0 .. MaxPasses : x > 0 => x \in 1 .. MaxPasses
          OBVIOUS
        <5> QED
          BY <5>1, <5>2 DEF Batches
    <3>2. Append(requests[d], thread[d].pass) \in Seq(Batches)
      BY <1>1, <3>1, AppendFacts
    <3> QED
      BY <1>1, <1>6, <3>2 DEF ThreadSend, TypeInv, InputsOK
  <2> QED
    BY <1>6, <2>1, <2>2, TypeKeep DEF TypeInv, ThreadSend
<1> QED
  BY <1>2, <1>3, <1>4, <1>5, <1>6 DEF ThreadNext

\* The end of a forward keeps the types.
LEMMA TypeReduce ==
    ASSUME TypeInv, NEW d \in DPs, AllReduce(d)
    PROVE  TypeInv'
<1> USE RankFacts DEF engineVars, hostVars, threadVars, streamVars, flagVars
<1>1. stream \in [Ranks -> Seq(Op)]
  BY DEF TypeInv, StreamOK
<1>2. ASSUME NEW r \in Ranks, r[1] = d PROVE Tail(stream[r]) \in Seq(Op) /\ Head(stream[r]) \in Op
  <2>1. stream[r] # <<>>
    BY <1>2 DEF AllReduce
  <2> QED
    BY <1>1, <2>1, TailFacts
<1>3. StreamOK'
  BY <1>1, <1>2 DEF AllReduce, TypeInv, StreamOK
<1>4. Head(stream[<<d, 0>>]).pass \in 0 .. MaxPasses
  BY <1>2 DEF Op
<1>5. EngineOK'
  BY <1>4 DEF AllReduce, TypeInv, EngineOK
<1> QED
  BY <1>3, <1>5, TypeKeep DEF TypeInv, AllReduce

\* A step of the worker keeps the types.
LEMMA TypeWorker ==
    ASSUME TypeInv, WorkerNext
    PROVE  TypeInv'
<1> USE RankFacts DEF engineVars, hostVars, threadVars, streamVars, flagVars
<1>1. /\ worker \in WorkerState /\ worker.work \in Seq(Work) /\ worker.at \in TPs
      /\ (worker.step = "poll" <=> worker.work = <<>>)
      /\ ready \in Grid({0, 1}) /\ consumed \in Grid({0, 1})
      /\ output \in Grid(Torn .. MaxPasses) /\ gpu \in Grid(Torn .. MaxPasses)
      /\ taken \in Grid(0 .. MaxPasses) /\ staged \in [DPs -> Torn .. MaxPasses]
      /\ requests \in [DPs -> Seq(Batches)] /\ worker.batch \in [DPs -> 0 .. MaxPasses]
  BY DEF TypeInv, WorkerOK, FlagsOK, OutputsOK, InputsOK, WorkerState
<1>2. worker.step # "poll" => /\ Current.layer \in Layers /\ Current.dp \in DPs
                              /\ <<Current.dp, worker.at>> \in Ranks /\ <<Current.dp, 0>> \in Ranks
                              /\ Tail(worker.work) \in Seq(Work)
                              /\ Len(Tail(worker.work)) = Len(worker.work) - 1
  <2> SUFFICES ASSUME worker.step # "poll"
               PROVE  /\ Current.layer \in Layers /\ Current.dp \in DPs
                      /\ <<Current.dp, worker.at>> \in Ranks /\ <<Current.dp, 0>> \in Ranks
                      /\ Tail(worker.work) \in Seq(Work)
                      /\ Len(Tail(worker.work)) = Len(worker.work) - 1
    OBVIOUS
  <2>1. /\ Current \in Work /\ Tail(worker.work) \in Seq(Work)
        /\ Len(Tail(worker.work)) = Len(worker.work) - 1
    BY <1>1, TailFacts DEF Current
  <2> QED
    BY <1>1, <2>1 DEF Work
<1>3. CASE WorkerReceive
  <2> DEFINE from == {d \in DPs : requests[d] # <<>>}
             batch == [d \in DPs |-> IF d \in from THEN requests[d][1] ELSE worker.batch[d]]
  <2>1. PICK order \in SetToSeqs(from) :
            worker' = [step |-> "claim", at |-> 0, seen |-> 0, batch |-> batch,
                       work |-> WorkOf(from, order)]
    BY <1>3 DEF WorkerReceive, WorkOf
  <2>2. from \in SUBSET DPs /\ from # {}
    <3>1. Cardinality(from) > 0
      BY <1>3 DEF WorkerReceive
    <3>2. Cardinality({}) = 0
      BY FS_EmptySet
    <3>3. from \in SUBSET DPs
      OBVIOUS
    <3> HIDE DEF from
    <3>4. from # {}
      BY <3>1, <3>2
    <3> QED
      BY <3>3, <3>4
  <2>3. batch \in [DPs -> 0 .. MaxPasses]
    <3>1. \A d \in from : requests[d][1] \in Batches
      BY <1>1, TailFacts
    <3> QED
      BY <1>1, <3>1 DEF Batches
  <2> HIDE DEF from, batch
  <2>4. worker'.work \in Seq(Work) /\ worker'.work # <<>>
    BY <2>1, <2>2, WorkFacts
  <2>5. /\ worker' = [step |-> "claim", at |-> 0, seen |-> 0, batch |-> batch, work |-> worker'.work]
        /\ 0 \in Torn .. MaxPasses
    BY <2>1 DEF Torn
  <2>6. WorkerOK'
    BY <2>3, <2>4, <2>5 DEF WorkerOK, WorkerState
  <2>7. InputsOK'
    BY <1>3 DEF WorkerReceive, TypeInv, InputsOK
  <2> QED
    BY <1>3, <2>6, <2>7, TypeKeep DEF TypeInv, WorkerReceive
<1>4. CASE WorkerClaim
  <2>1. WorkerOK'
    BY <1>1, <1>4 DEF WorkerClaim, WorkerOK, WorkerState
  <2> QED
    BY <1>4, <2>1, TypeKeep DEF TypeInv, WorkerClaim
<1>5. CASE WorkerResetReady
  <2>1. WorkerOK'
    BY <1>1, <1>5 DEF WorkerResetReady, WorkerOK, WorkerState
  <2>2. FlagsOK'
    <3>1. ready' = [ready EXCEPT ![<<Current.dp, worker.at>>][Current.layer] = 0]
          /\ consumed' = consumed /\ worker.step # "poll"
      BY <1>5 DEF WorkerResetReady, ClaimedReady
    <3>2. 0 \in {0, 1}
      OBVIOUS
    <3>3. ready' \in Grid({0, 1})
      <4> DEFINE r == <<Current.dp, worker.at>>
                 l == Current.layer
      <4>1. r \in Ranks /\ l \in Layers /\ ready' = [ready EXCEPT ![r][l] = 0]
        BY <1>2, <3>1
      <4> HIDE DEF r, l
      <4> QED
        BY <1>1, <3>2, <4>1, GridUpdate
    <3> QED
      BY <1>1, <3>1, <3>3 DEF FlagsOK
  <2> QED
    BY <1>5, <2>1, <2>2, TypeKeep DEF TypeInv, WorkerResetReady
<1>6. CASE WorkerResetConsumed
  <2>1. WorkerOK'
    <3>1. worker.at + 1 < TPSize => worker.at + 1 \in TPs
      BY <1>1 DEF TPs
    <3>2. \/ /\ worker.at + 1 < TPSize
             /\ worker' = [worker EXCEPT !.step = "reset", !.at = worker.at + 1]
          \/ worker' = [worker EXCEPT !.step = "compute", !.at = 0]
      BY <1>6 DEF WorkerResetConsumed
    <3> QED
      BY <1>1, <1>6, <3>1, <3>2 DEF WorkerResetConsumed, WorkerOK, WorkerState
  <2>2. FlagsOK'
    <3>1. consumed' = [consumed EXCEPT ![<<Current.dp, worker.at>>][Current.layer] = 0]
          /\ ready' = ready /\ worker.step # "poll"
      BY <1>6 DEF WorkerResetConsumed
    <3>2. 0 \in {0, 1}
      OBVIOUS
    <3>3. consumed' \in Grid({0, 1})
      <4> DEFINE r == <<Current.dp, worker.at>>
                 l == Current.layer
      <4>1. r \in Ranks /\ l \in Layers /\ consumed' = [consumed EXCEPT ![r][l] = 0]
        BY <1>2, <3>1
      <4> HIDE DEF r, l
      <4> QED
        BY <1>1, <3>2, <4>1, GridUpdate
    <3> QED
      BY <1>1, <3>1, <3>3 DEF FlagsOK
  <2> QED
    BY <1>6, <2>1, <2>2, TypeKeep DEF TypeInv, WorkerResetConsumed
<1>7. CASE WorkerComputeBegin
  <2>1. staged[Current.dp] \in Torn .. MaxPasses /\ Torn \in Torn .. MaxPasses
    BY <1>1, <1>2, <1>7 DEF WorkerComputeBegin, Torn
  <2>2. WorkerOK'
    BY <1>1, <1>7, <2>1 DEF WorkerComputeBegin, WorkerOK, WorkerState
  <2>3. OutputsOK'
    BY <1>1, <1>2, <1>7, <2>1, GridUpdate DEF WorkerComputeBegin, OutputsOK
  <2> QED
    BY <1>7, <2>2, <2>3, TypeKeep DEF TypeInv, WorkerComputeBegin
<1>8. CASE WorkerComputeEnd
  <2>1. WorkerOK'
    BY <1>1, <1>8 DEF WorkerComputeEnd, WorkerOK, WorkerState
  <2>2. OutputsOK'
    <3>1. PICK v \in Torn .. MaxPasses : output' = [output EXCEPT ![<<Current.dp, 0>>][Current.layer] = v]
      <4>1. staged[Current.dp] \in Torn .. MaxPasses /\ Torn \in Torn .. MaxPasses
        BY <1>1, <1>2, <1>8 DEF WorkerComputeEnd, Torn
      <4> QED
        BY <1>8, <4>1 DEF WorkerComputeEnd
    <3> QED
      <4>1. UNCHANGED <<gpu, taken>> /\ worker.step # "poll"
        BY <1>8 DEF WorkerComputeEnd
      <4>2. output' \in Grid(Torn .. MaxPasses)
        BY <1>1, <1>2, <3>1, <4>1, GridUpdate
      <4> QED
        BY <1>1, <4>1, <4>2 DEF OutputsOK
  <2> QED
    BY <1>8, <2>1, <2>2, TypeKeep DEF TypeInv, WorkerComputeEnd
<1>9. CASE WorkerFanOut
  <2>1. WorkerOK'
    BY <1>1, <1>9 DEF WorkerFanOut, WorkerOK, WorkerState
  <2>2. OutputsOK'
    <3>1. output[<<Current.dp, 0>>][Current.layer] \in Torn .. MaxPasses
      BY <1>1, <1>2, <1>9, GridType DEF WorkerFanOut
    <3> QED
      BY <1>1, <1>2, <1>9, <3>1 DEF WorkerFanOut, OutputsOK, Grid
  <2> QED
    BY <1>9, <2>1, <2>2, TypeKeep DEF TypeInv, WorkerFanOut
<1>10. CASE WorkerPublish
  <2>1. WorkerOK'
    <3>1. CASE worker.at + 1 < TPSize
      <4>1. worker.at + 1 \in TPs
        BY <1>1, <3>1 DEF TPs
      <4>2. worker' = [worker EXCEPT !.at = worker.at + 1]
        BY <1>10, <3>1 DEF WorkerPublish
      <4> QED
        BY <1>1, <4>1, <4>2 DEF WorkerOK, WorkerState
    <3>2. CASE ~(worker.at + 1 < TPSize)
      <4>1. /\ worker'.work = Tail(worker.work) /\ worker'.at = 0
            /\ worker'.step = IF Len(worker.work) > 1 THEN "claim" ELSE "poll"
            /\ worker' \in WorkerState
        BY <1>1, <1>2, <1>10, <3>2 DEF WorkerPublish, WorkerState
      <4>2. Tail(worker.work) = <<>> <=> ~(Len(worker.work) > 1)
        <5>1. worker.work # <<>> /\ Tail(worker.work) \in Seq(Work) /\ Len(Tail(worker.work)) = Len(worker.work) - 1
          BY <1>1, <1>2, <1>10 DEF WorkerPublish
        <5>2. Len(worker.work) \in Nat \ {0}
          BY <1>1, <5>1, TailFacts
        <5>3. Tail(worker.work) = <<>> <=> Len(Tail(worker.work)) = 0
          BY <5>1, EmptySeq
        <5> QED
          BY <5>1, <5>2, <5>3
      <4> QED
        BY <4>1, <4>2 DEF WorkerOK
    <3> QED
      BY <3>1, <3>2
  <2>2. FlagsOK'
    <3>1. ready' = [ready EXCEPT ![<<Current.dp, worker.at>>][Current.layer] = 1]
          /\ consumed' = consumed /\ worker.step # "poll"
      BY <1>10 DEF WorkerPublish
    <3>2. 1 \in {0, 1}
      OBVIOUS
    <3>3. ready' \in Grid({0, 1})
      <4> DEFINE r == <<Current.dp, worker.at>>
                 l == Current.layer
      <4>1. r \in Ranks /\ l \in Layers /\ ready' = [ready EXCEPT ![r][l] = 1]
        BY <1>2, <3>1
      <4> HIDE DEF r, l
      <4> QED
        BY <1>1, <3>2, <4>1, GridUpdate
    <3> QED
      BY <1>1, <3>1, <3>3 DEF FlagsOK
  <2> QED
    BY <1>10, <2>1, <2>2, TypeKeep DEF TypeInv, WorkerPublish
<1> QED
  BY <1>3, <1>4, <1>5, <1>6, <1>7, <1>8, <1>9, <1>10 DEF WorkerNext

\* Every step keeps the types.
LEMMA TypeStep == TypeInv /\ [Next]_vars => TypeInv'
<1> SUFFICES ASSUME TypeInv, [Next]_vars PROVE TypeInv'
  OBVIOUS
<1>1. CASE UNCHANGED vars
  BY <1>1, TypeKeep DEF vars, engineVars, hostVars, threadVars, streamVars, flagVars, TypeInv
<1> QED
  BY <1>1, TypeEngine, TypeHost, TypeStream, TypeThread, TypeReduce, TypeWorker DEF Next, Stopped

\* Every variable of the exchange has the values the code gives it: the flags stay one
\* bit wide, a launched batch is one that was issued, the worker has work exactly while
\* it is not polling.
THEOREM TypeCorrect == Spec => []TypeOK
<1>1. Spec => []TypeInv
  BY TypeInit, TypeStep, PTL DEF Spec
<1> QED
  BY <1>1, TypeInvTypes, PTL
-----------------------------------------------------------------------------
\* An entry of a stream, by its layer.
LEMMA OpFacts ==
    \A o \in Op : /\ o.pass \in 0 .. MaxPasses /\ o.pass \in Nat
                  /\ o.layer \in 0 .. NumLayers + 1 /\ o.layer \in Nat
                  /\ o.op = OpAt(o.layer)
                  /\ o.op = "copy" <=> o.layer \in Layers
                  /\ o.op = "reduce" <=> o.layer = NumLayers + 1
                  /\ o.op = "prepare" <=> o.layer = 0
<1>1. Layers = 1 .. NumLayers /\ NumLayers \in Nat \ {0} /\ MaxPasses \in Nat
  BY RankFacts DEF Layers
<1> QED
  BY <1>1 DEF Op, OpAt

\* A stream whose head is done.
LEMMA TailOps ==
    ASSUME NEW s \in Seq(Op), s # <<>>, NEW w, w = Tail(s)
    PROVE  /\ w \in Seq(Op) /\ Len(w) = Len(s) - 1 /\ Len(s) \in Nat \ {0}
           /\ DOMAIN s = 1 .. Len(s) /\ DOMAIN w = 1 .. Len(s) - 1
           /\ \A i \in DOMAIN w : w[i] = s[i + 1] /\ i + 1 \in DOMAIN s
           /\ \A i \in DOMAIN s : s[i] \in Op /\ s[i].pass \in Nat /\ s[i].layer \in Nat
           /\ w # <<>> <=> Len(s) > 1
<1>1. /\ w \in Seq(Op) /\ Len(w) = Len(s) - 1 /\ Len(s) \in Nat \ {0}
      /\ DOMAIN s = 1 .. Len(s) /\ DOMAIN w = 1 .. Len(s) - 1
      /\ \A i \in DOMAIN w : w[i] = s[i + 1]
  BY TailFacts
<1>2. \A i \in DOMAIN w : i + 1 \in DOMAIN s
  BY <1>1
<1>3. \A i \in DOMAIN s : s[i] \in Op /\ s[i].pass \in Nat /\ s[i].layer \in Nat
  BY OpFacts
<1>4. w = <<>> <=> Len(w) = 0
  BY <1>1, EmptySeq
<1>5. w # <<>> <=> Len(s) > 1
  BY <1>1, <1>4
<1> QED
  BY <1>1, <1>2, <1>3, <1>5

\* The order of a stream whose head, which ends no forward, is done.
LEMMA OrderTail ==
    ASSUME NEW t \in Nat, NEW s \in Seq(Op), NEW h \in HostState, NEW f \in Nat, NEW n \in Nat,
           NEW g,
           OrderOf(t, s, h, f, n, g), s # <<>>, s[1].layer <= NumLayers
    PROVE  /\ OrderOf(t, Tail(s), h, f, n, "wait")
           /\ LaunchedOf(Tail(s), h, f) = LaunchedOf(s, h, f)
<1> DEFINE w == Tail(s)
<1>1. /\ w \in Seq(Op) /\ Len(w) = Len(s) - 1 /\ Len(s) \in Nat \ {0}
      /\ DOMAIN s = 1 .. Len(s) /\ DOMAIN w = 1 .. Len(s) - 1
      /\ \A i \in DOMAIN w : w[i] = s[i + 1] /\ i + 1 \in DOMAIN s
      /\ \A i \in DOMAIN s : s[i] \in Op /\ s[i].pass \in Nat /\ s[i].layer \in Nat
      /\ w # <<>> <=> Len(s) > 1
  BY TailOps
<1>2. NumLayers \in Nat \ {0}
  BY RankFacts
<1>0. 1 \in DOMAIN s
  BY <1>1
<1> HIDE DEF w
<1>3. w # <<>> => w[Len(w)] = s[Len(s)] /\ Len(w) \in DOMAIN w
  BY <1>1
<1>4. w = <<>> => /\ IsBusy(h) /\ t = 0 /\ s[1].layer = 0 /\ s[1].pass > 0
                  /\ h.pass = f + 1 /\ s[Len(s)] = s[1]
  BY <1>0, <1>1, <1>2 DEF OrderOf, LastOp, EachOp, FirstOp
<1>5. LaunchedOf(w, h, f) = LaunchedOf(s, h, f)
  BY <1>1, <1>3, <1>4 DEF LaunchedOf
<1>6. EachOp(t, w, f, LaunchedOf(w, h, f))
  <2> SUFFICES ASSUME NEW i \in DOMAIN w
               PROVE  /\ w[i].layer = 0 => t = 0 /\ w[i].pass > 0
                      /\ w[i].pass <= LaunchedOf(w, h, f)
                      /\ w[i].pass > 0 => w[i].pass > f
                      /\ w[i].pass = Dummy => \E j \in DOMAIN w : j >= i /\ IsDummyEnd(w[j])
    BY DEF EachOp
  <2>1. ASSUME w[i].pass = Dummy PROVE \E j \in DOMAIN w : j >= i /\ IsDummyEnd(w[j])
    <3>1. PICK k \in DOMAIN s : k >= i + 1 /\ IsDummyEnd(s[k])
      BY <1>1, <2>1 DEF OrderOf, EachOp
    <3>2. k - 1 \in DOMAIN w /\ w[k - 1] = s[k] /\ k - 1 >= i
      BY <1>1, <3>1
    <3> QED
      BY <3>1, <3>2
  <2> QED
    BY <1>1, <1>5, <2>1 DEF OrderOf, EachOp
<1>7. InSteps(t, w, f)
  <2> SUFFICES ASSUME NEW i \in DOMAIN w, i + 1 \in DOMAIN w PROVE FollowsOf(t, f, w[i], w[i + 1])
    BY DEF InSteps
  <2>1. w[i] = s[i + 1] /\ w[i + 1] = s[(i + 1) + 1] /\ i + 1 \in DOMAIN s /\ (i + 1) + 1 \in DOMAIN s
    BY <1>1
  <2> QED
    BY <2>1 DEF OrderOf, InSteps
<1>8. Rising(w)
  <2> SUFFICES ASSUME NEW i \in DOMAIN w, NEW j \in DOMAIN w, i < j, w[i].pass > 0
               PROVE  /\ w[j].pass >= w[i].pass
                      /\ w[i].layer = NumLayers + 1 \/ w[j].layer = 0 => w[j].pass > w[i].pass
    BY DEF Rising
  <2>1. i + 1 \in DOMAIN s /\ j + 1 \in DOMAIN s /\ i + 1 < j + 1 /\ w[i] = s[i + 1] /\ w[j] = s[j + 1]
    BY <1>1
  <2> QED
    BY <2>1 DEF OrderOf, Rising
<1>9. FirstOp(w, f)
  <2> SUFFICES ASSUME w # <<>>, w[1].pass > 0 PROVE w[1].pass = f + 1
    BY DEF FirstOp
  <2>1. 1 \in DOMAIN w /\ w[1] = s[2] /\ 1 + 1 = 2 /\ 2 \in DOMAIN s
    BY <1>1
  <2>2. s[2].pass = s[1].pass
    BY <1>0, <2>1 DEF OrderOf, InSteps, FollowsOf
  <2> QED
    BY <2>1, <2>2 DEF OrderOf, FirstOp
<1>10. LastOp(t, w, h, f)
  <2>1. CASE w = <<>>
    BY <1>4, <2>1 DEF LastOp
  <2>2. CASE w # <<>>
    BY <1>3, <2>2 DEF OrderOf, LastOp
  <2> QED
    BY <2>1, <2>2
<1> QED
  BY <1>5, <1>6, <1>7, <1>8, <1>9, <1>10 DEF OrderOf, w

\* The order of a stream whose first forward has ended.
LEMMA OrderReduce ==
    ASSUME NEW t \in Nat, NEW s \in Seq(Op), NEW h \in HostState, NEW f \in Nat, NEW n \in Nat,
           NEW g,
           OrderOf(t, s, h, f, n, g), s # <<>>, s[1].layer = NumLayers + 1,
           NEW e, e = IF s[1].pass > 0 THEN s[1].pass ELSE f
    PROVE  /\ OrderOf(t, Tail(s), h, e, n, g)
           /\ LaunchedOf(Tail(s), h, e) = LaunchedOf(s, h, f)
<1> DEFINE w == Tail(s)
<1>1. /\ w \in Seq(Op) /\ Len(w) = Len(s) - 1 /\ Len(s) \in Nat \ {0}
      /\ DOMAIN s = 1 .. Len(s) /\ DOMAIN w = 1 .. Len(s) - 1
      /\ \A i \in DOMAIN w : w[i] = s[i + 1] /\ i + 1 \in DOMAIN s
      /\ \A i \in DOMAIN s : s[i] \in Op /\ s[i].pass \in Nat /\ s[i].layer \in Nat
      /\ w # <<>> <=> Len(s) > 1
  BY TailOps
<1>2. NumLayers \in Nat \ {0}
  BY RankFacts
<1>0. 1 \in DOMAIN s /\ s[1].pass \in Nat
  BY <1>1
<1> HIDE DEF w
<1>3. w # <<>> => w[Len(w)] = s[Len(s)] /\ Len(w) \in DOMAIN w
  BY <1>1
<1>a. /\ g = "wait" /\ (s[1].pass > 0 => e = f + 1) /\ e \in Nat /\ f <= e
      /\ s[1].pass = 0 => e = f
  <2>1. s[1].op # "copy"
    BY <1>0, <1>1, <1>2, OpFacts DEF Layers
  <2> QED
    BY <1>0, <2>1 DEF OrderOf, FirstOp
<1>b. s[1].pass > 0 => \A i \in DOMAIN w : w[i].pass > e
  <2> SUFFICES ASSUME s[1].pass > 0, NEW i \in DOMAIN w PROVE w[i].pass > e
    OBVIOUS
  <2>1. i + 1 \in DOMAIN s /\ 1 < i + 1 /\ w[i] = s[i + 1]
    BY <1>1
  <2> QED
    BY <1>0, <2>1 DEF OrderOf, Rising
<1>4. w = <<>> => s[Len(s)] = s[1] /\ (IsBusy(h) => t # 0)
  BY <1>0, <1>1, <1>2 DEF OrderOf, LastOp
<1>5. LaunchedOf(w, h, e) = LaunchedOf(s, h, f)
  <2>1. CASE w = <<>>
    BY <1>0, <1>4, <2>1 DEF LaunchedOf
  <2>2. CASE w # <<>>
    <3>1. s[1].pass > 0 => s[Len(s)].pass > 0
      BY <1>1, <1>3, <1>a, <1>b, <2>2
    <3> QED
      BY <1>0, <1>1, <1>3, <1>a, <2>2, <3>1 DEF LaunchedOf
  <2> QED
    BY <2>1, <2>2
<1>6. EachOp(t, w, e, LaunchedOf(w, h, e))
  <2> SUFFICES ASSUME NEW i \in DOMAIN w
               PROVE  /\ w[i].layer = 0 => t = 0 /\ w[i].pass > 0
                      /\ w[i].pass <= LaunchedOf(w, h, e)
                      /\ w[i].pass > 0 => w[i].pass > e
                      /\ w[i].pass = Dummy => \E j \in DOMAIN w : j >= i /\ IsDummyEnd(w[j])
    BY DEF EachOp
  <2>1. ASSUME w[i].pass = Dummy PROVE \E j \in DOMAIN w : j >= i /\ IsDummyEnd(w[j])
    <3>1. PICK k \in DOMAIN s : k >= i + 1 /\ IsDummyEnd(s[k])
      BY <1>1, <2>1 DEF OrderOf, EachOp
    <3>2. k - 1 \in DOMAIN w /\ w[k - 1] = s[k] /\ k - 1 >= i
      BY <1>1, <3>1
    <3> QED
      BY <3>1, <3>2
  <2>2. w[i].pass > 0 => w[i].pass > e
    BY <1>0, <1>1, <1>a, <1>b DEF OrderOf, EachOp
  <2> QED
    BY <1>1, <1>5, <2>1, <2>2 DEF OrderOf, EachOp
<1>7. InSteps(t, w, e)
  <2> SUFFICES ASSUME NEW i \in DOMAIN w, i + 1 \in DOMAIN w PROVE FollowsOf(t, e, w[i], w[i + 1])
    BY DEF InSteps
  <2>1. w[i] = s[i + 1] /\ w[i + 1] = s[(i + 1) + 1] /\ i + 1 \in DOMAIN s /\ (i + 1) + 1 \in DOMAIN s
    BY <1>1
  <2>2. FollowsOf(t, f, w[i], w[i + 1])
    BY <2>1 DEF OrderOf, InSteps
  <2>3. w[i].pass > 0 \/ e = f
    BY <1>0, <1>1, <1>a, <1>b
  <2> QED
    BY <2>2, <2>3 DEF FollowsOf
<1>8. Rising(w)
  <2> SUFFICES ASSUME NEW i \in DOMAIN w, NEW j \in DOMAIN w, i < j, w[i].pass > 0
               PROVE  /\ w[j].pass >= w[i].pass
                      /\ w[i].layer = NumLayers + 1 \/ w[j].layer = 0 => w[j].pass > w[i].pass
    BY DEF Rising
  <2>1. i + 1 \in DOMAIN s /\ j + 1 \in DOMAIN s /\ i + 1 < j + 1 /\ w[i] = s[i + 1] /\ w[j] = s[j + 1]
    BY <1>1
  <2> QED
    BY <2>1 DEF OrderOf, Rising
<1>9. FirstOp(w, e)
  <2> SUFFICES ASSUME w # <<>>, w[1].pass > 0 PROVE w[1].pass = e + 1
    BY DEF FirstOp
  <2>1. 1 \in DOMAIN w /\ w[1] = s[2] /\ 1 + 1 = 2 /\ 2 \in DOMAIN s /\ ~(s[1].layer <= NumLayers)
    BY <1>1, <1>2
  <2>2. FollowsOf(t, f, s[1], s[2])
    BY <1>0, <2>1 DEF OrderOf, InSteps
  <2> QED
    BY <1>0, <1>a, <2>1, <2>2 DEF FollowsOf, Dummy
<1>10. LastOp(t, w, h, e)
  <2>1. CASE w = <<>>
    BY <1>0, <1>1, <1>4, <1>a, <2>1 DEF LastOp, OrderOf
  <2>2. CASE w # <<>>
    <3>1. s[Len(s)].pass > 0 \/ e = f
      <4>1. CASE s[1].pass > 0
        <5>1. Len(w) \in DOMAIN w /\ w[Len(w)] = s[Len(s)] /\ s[Len(s)].pass > e
          BY <1>3, <1>b, <2>2, <4>1
        <5>2. 1 \in DOMAIN s /\ Len(s) \in DOMAIN s /\ s[Len(s)].pass \in Nat
          BY <1>0, <1>1
        <5> QED
          BY <1>a, <5>1, <5>2
      <4> QED
        BY <1>0, <1>a, <4>1
    <3> QED
      BY <1>3, <2>2, <3>1 DEF OrderOf, LastOp
  <2> QED
    BY <2>1, <2>2
<1>11. e <= LaunchedOf(w, h, e)
  <2>1. CASE s[1].pass = 0
    BY <1>5, <1>a, <2>1 DEF OrderOf
  <2>2. CASE s[1].pass > 0
    BY <1>0, <1>5, <2>2 DEF OrderOf, EachOp
  <2> QED
    BY <1>0, <2>1, <2>2
<1> QED
  BY <1>5, <1>6, <1>7, <1>8, <1>9, <1>10, <1>11, <1>a DEF OrderOf, w

\* The list w is s with x behind it.
Joined(s, x, w) ==
    /\ w \in Seq(Op) /\ Len(w) = Len(s) + Len(x) /\ Len(s) \in Nat /\ Len(x) \in Nat \ {0}
    /\ DOMAIN s = 1 .. Len(s) /\ DOMAIN x = 1 .. Len(x) /\ DOMAIN w = 1 .. Len(s) + Len(x)
    /\ \A i \in DOMAIN s : i \in DOMAIN w /\ w[i] = s[i]
    /\ \A i \in DOMAIN x : Len(s) + i \in DOMAIN w /\ w[Len(s) + i] = x[i]
    /\ \A i \in DOMAIN w : i \notin DOMAIN s => i - Len(s) \in DOMAIN x
    /\ \A i \in DOMAIN w : w[i] \in Op /\ w[i].pass \in Nat /\ w[i].layer \in Nat
    /\ w # <<>> /\ w[Len(w)] = x[Len(x)] /\ (s = <<>> <=> Len(s) = 0)

\* A stream with more work behind it.
LEMMA ConcatOps ==
    ASSUME NEW s \in Seq(Op), NEW x \in Seq(Op), x # <<>>
    PROVE  Joined(s, x, s \o x)
<1> DEFINE w == s \o x
<1>1. /\ w \in Seq(Op) /\ Len(w) = Len(s) + Len(x) /\ Len(s) \in Nat /\ Len(x) \in Nat \ {0}
      /\ DOMAIN s = 1 .. Len(s) /\ DOMAIN x = 1 .. Len(x) /\ DOMAIN w = 1 .. Len(s) + Len(x)
      /\ (s = <<>> <=> Len(s) = 0)
  BY EmptySeq, ConcatProperties, LenProperties
<1>2. \A i \in 1 .. Len(s) + Len(x) : w[i] = IF i <= Len(s) THEN s[i] ELSE x[i - Len(s)]
  BY ConcatProperties
<1>3. \A i \in DOMAIN s : i \in DOMAIN w /\ w[i] = s[i]
  BY <1>1, <1>2
<1>4. \A i \in DOMAIN x : Len(s) + i \in DOMAIN w /\ w[Len(s) + i] = x[i]
  <2> SUFFICES ASSUME NEW i \in DOMAIN x PROVE Len(s) + i \in DOMAIN w /\ w[Len(s) + i] = x[i]
    OBVIOUS
  <2>1. Len(s) + i \in 1 .. Len(s) + Len(x) /\ ~(Len(s) + i <= Len(s)) /\ Len(s) + i - Len(s) = i
    BY <1>1
  <2> QED
    BY <1>1, <1>2, <2>1
<1>5. \A i \in DOMAIN w : i \notin DOMAIN s => i - Len(s) \in DOMAIN x
  BY <1>1
<1>6. \A i \in DOMAIN w : w[i] \in Op /\ w[i].pass \in Nat /\ w[i].layer \in Nat
  BY <1>1, OpFacts
<1>7. w # <<>>
  BY <1>1, EmptySeq
<1>8. w[Len(w)] = x[Len(x)]
  BY <1>1, <1>4
<1> QED
  BY <1>1, <1>3, <1>4, <1>5, <1>6, <1>7, <1>8 DEF Joined

\* The order of a stream that a forward is issued to: of the batch the model thread is
\* at, or a dummy one while all that was launched has finished.
LEMMA OrderForward ==
    ASSUME NEW t \in Nat, NEW s \in Seq(Op), NEW h \in HostState, NEW k \in HostState,
           NEW f \in Nat, NEW n \in Nat, NEW g,
           OrderOf(t, s, h, f, n, g), NEW p \in 0 .. MaxPasses, ~IsBusy(k),
           \/ IsBusy(h) /\ p = h.pass /\ p > 0
           \/ ~IsBusy(h) /\ p = Dummy /\ LaunchedOf(s, h, f) = f
    PROVE  /\ OrderOf(t, s \o Forward(p), k, f, n, g)
           /\ LaunchedOf(s \o Forward(p), k, f) = LaunchedOf(s, h, f)
<1> DEFINE x == Forward(p)
           w == s \o x
           c == Len(s)
<1>2. NumLayers \in Nat \ {0} /\ Layers = 1 .. NumLayers
  BY RankFacts DEF Layers
<1>3. /\ x \in Seq(Op) /\ Len(x) = NumLayers + 1 /\ x # <<>>
      /\ \A i \in 1 .. NumLayers + 1 : x[i].pass = p /\ x[i].layer = i
  <2>1. /\ x \in Seq(Op) /\ Len(x) = NumLayers + 1
        /\ \A i \in 1 .. NumLayers + 1 : x[i].pass = p /\ x[i].layer = i
    BY ForwardFacts
  <2> HIDE DEF x
  <2> QED
    BY <1>2, <2>1, EmptySeq
<1> HIDE DEF x
<1>1. /\ w \in Seq(Op) /\ Len(w) = c + NumLayers + 1 /\ c \in Nat
      /\ DOMAIN s = 1 .. c /\ DOMAIN x = 1 .. NumLayers + 1 /\ DOMAIN w = 1 .. c + NumLayers + 1
      /\ \A i \in DOMAIN s : i \in DOMAIN w /\ w[i] = s[i]
      /\ \A i \in DOMAIN x : c + i \in DOMAIN w /\ w[c + i] = x[i]
      /\ \A i \in DOMAIN w : i \notin DOMAIN s => i - c \in DOMAIN x
      /\ \A i \in DOMAIN w : w[i] \in Op /\ w[i].pass \in Nat /\ w[i].layer \in Nat
      /\ w # <<>> /\ w[Len(w)] = x[NumLayers + 1] /\ (s = <<>> <=> c = 0)
  <2>1. Joined(s, x, w)
    BY <1>3, ConcatOps
  <2> HIDE DEF w
  <2>2. /\ w \in Seq(Op) /\ Len(w) = Len(s) + Len(x) /\ Len(s) \in Nat /\ Len(x) \in Nat \ {0}
        /\ DOMAIN s = 1 .. Len(s) /\ DOMAIN x = 1 .. Len(x) /\ DOMAIN w = 1 .. Len(s) + Len(x)
        /\ \A i \in DOMAIN s : i \in DOMAIN w /\ w[i] = s[i]
        /\ \A i \in DOMAIN x : Len(s) + i \in DOMAIN w /\ w[Len(s) + i] = x[i]
        /\ \A i \in DOMAIN w : i \notin DOMAIN s => i - Len(s) \in DOMAIN x
        /\ \A i \in DOMAIN w : w[i] \in Op /\ w[i].pass \in Nat /\ w[i].layer \in Nat
        /\ w # <<>> /\ w[Len(w)] = x[Len(x)] /\ (s = <<>> <=> Len(s) = 0)
    BY <2>1 DEF Joined
  <2>3. Len(s) + Len(x) = Len(s) + NumLayers + 1
    BY <1>2, <1>3, <2>2
  <2>4. /\ Len(w) = c + NumLayers + 1 /\ DOMAIN w = 1 .. c + NumLayers + 1
        /\ DOMAIN x = 1 .. NumLayers + 1 /\ w[Len(w)] = x[NumLayers + 1]
    BY <1>3, <2>2, <2>3
  <2> QED
    BY <2>2, <2>4
<1>4. \A i \in DOMAIN w : i \notin DOMAIN s => i > c /\ w[i].pass = p /\ w[i].layer = i - c /\ i - c > 0
  BY <1>1, <1>2, <1>3
<1> HIDE DEF w, c
<1>5. p \in Nat /\ w[Len(w)].pass = p /\ w[Len(w)].layer = NumLayers + 1 /\ Len(w) \in DOMAIN w
      /\ Len(w) \notin DOMAIN s
  BY <1>1, <1>2, <1>3
<1>6. LaunchedOf(w, k, f) = LaunchedOf(s, h, f)
  BY <1>1, <1>5 DEF LaunchedOf, Dummy
<1>7. p > 0 => p > f /\ p = LaunchedOf(s, h, f) /\ \A i \in DOMAIN s : s[i].pass <= p
  <2>1. ASSUME p > 0 PROVE p > f
    <3>1. CASE s # <<>> /\ s[c].pass > 0
      <4>1. c \in DOMAIN s
        BY <1>1, <3>1
      <4>2. w[c] = s[c] /\ s[c].pass \in Nat
        BY <1>1, <4>1
      <4>3. s[c].pass > f
        BY <3>1, <4>1 DEF OrderOf, EachOp
      <4>4. p = s[c].pass + (IF t = 0 THEN 0 ELSE 1)
        BY <2>1, <3>1 DEF OrderOf, LastOp, c, Dummy
      <4> QED
        BY <4>2, <4>3, <4>4
    <3>2. CASE ~(s # <<>> /\ s[c].pass > 0)
      BY <2>1, <3>2 DEF OrderOf, LastOp, c, Dummy
    <3> QED
      BY <3>1, <3>2
  <2>2. p > 0 => IsBusy(h) /\ p = LaunchedOf(s, h, f)
    BY DEF LaunchedOf, Dummy
  <2> QED
    BY <2>1, <2>2 DEF OrderOf, EachOp
<1>8. p = 0 => \A i \in DOMAIN s : s[i].pass = 0
  <2> SUFFICES ASSUME p = 0, NEW i \in DOMAIN s PROVE s[i].pass = 0
    OBVIOUS
  <2>1. s[i].pass <= f /\ (s[i].pass > 0 => s[i].pass > f) /\ s[i].pass \in Nat
    BY <1>1 DEF OrderOf, EachOp
  <2> QED
    BY <2>1
<1>9. EachOp(t, w, f, LaunchedOf(w, k, f))
  <2> SUFFICES ASSUME NEW i \in DOMAIN w
               PROVE  /\ w[i].layer = 0 => t = 0 /\ w[i].pass > 0
                      /\ w[i].pass <= LaunchedOf(w, k, f)
                      /\ w[i].pass > 0 => w[i].pass > f
                      /\ w[i].pass = Dummy => \E j \in DOMAIN w : j >= i /\ IsDummyEnd(w[j])
    BY DEF EachOp
  <2>1. CASE i \in DOMAIN s
    <3>1. w[i].pass = Dummy => \E j \in DOMAIN s : j >= i /\ IsDummyEnd(s[j])
      BY <1>1, <2>1 DEF OrderOf, EachOp
    <3>2. \A j \in DOMAIN s : IsDummyEnd(s[j]) => j \in DOMAIN w /\ IsDummyEnd(w[j])
      BY <1>1
    <3>3. /\ w[i].layer = 0 => t = 0 /\ w[i].pass > 0
          /\ w[i].pass <= LaunchedOf(s, h, f)
          /\ w[i].pass > 0 => w[i].pass > f
      BY <1>1, <2>1 DEF OrderOf, EachOp
    <3> QED
      BY <1>6, <3>1, <3>2, <3>3
  <2>2. CASE i \notin DOMAIN s
    <3>1. w[i].pass = p /\ w[i].layer > 0
      BY <1>4, <2>2
    <3>2. p = Dummy => Len(w) >= i /\ IsDummyEnd(w[Len(w)])
      BY <1>1, <1>5 DEF IsDummyEnd
    <3>3. p <= LaunchedOf(s, h, f)
      BY <1>5, <1>7 DEF OrderOf
    <3> QED
      BY <1>5, <1>6, <1>7, <3>1, <3>2, <3>3
  <2> QED
    BY <2>1, <2>2
<1>10. InSteps(t, w, f)
  <2> SUFFICES ASSUME NEW i \in DOMAIN w, i + 1 \in DOMAIN w PROVE FollowsOf(t, f, w[i], w[i + 1])
    BY DEF InSteps
  <2>1. CASE i + 1 \in DOMAIN s
    <3>1. i \in DOMAIN s
      BY <1>1, <2>1
    <3> QED
      BY <1>1, <2>1, <3>1 DEF OrderOf, InSteps
  <2>2. CASE i \notin DOMAIN s
    <3>1. /\ i + 1 \notin DOMAIN s /\ w[i].pass = p /\ w[i + 1].pass = p
          /\ w[i].layer = i - c /\ w[i + 1].layer = (i + 1) - c
      BY <1>1, <1>4, <2>2
    <3>2. i + 1 <= c + NumLayers + 1 /\ i \in Nat /\ c \in Nat /\ NumLayers \in Nat
      BY <1>1, <1>2
    <3>3. w[i].layer <= NumLayers /\ w[i + 1].layer = w[i].layer + 1 /\ w[i + 1].pass = w[i].pass
      BY <3>1, <3>2
    <3> QED
      BY <3>3 DEF FollowsOf
  <2>3. CASE i \in DOMAIN s /\ i + 1 \notin DOMAIN s
    <3>1. i = c /\ c > 0 /\ w[i] = s[c] /\ s[c].pass \in Nat /\ s # <<>> /\ c \in DOMAIN s
      BY <1>1, <2>3
    <3>2. w[i + 1].pass = p /\ w[i + 1].layer = 1
      <4>1. i + 1 = c + 1 /\ (i + 1) - c = 1
        BY <1>1, <3>1
      <4> QED
        BY <1>4, <2>3, <4>1
    <3>3. CASE IsBusy(h)
      <4>1. CASE t = 0
        <5>1. s[c].layer = 0
          BY <3>1, <3>3, <4>1 DEF OrderOf, LastOp, c
        <5>2. s[c].pass > 0
          BY <3>1, <5>1 DEF OrderOf, EachOp
        <5>3. s[c].pass = p
          BY <1>5, <3>1, <3>3, <4>1, <5>2 DEF OrderOf, LastOp, c
        <5> QED
          BY <1>2, <3>1, <3>2, <5>1, <5>3 DEF FollowsOf
      <4>2. CASE t # 0
        <5>1. s[c].layer = NumLayers + 1 /\ p = (IF s[c].pass > 0 THEN s[c].pass ELSE f) + 1
          BY <3>1, <3>3, <4>2 DEF OrderOf, LastOp, c
        <5> QED
          BY <1>2, <3>1, <3>2, <4>2, <5>1 DEF FollowsOf
      <4> QED
        BY <4>1, <4>2
    <3>4. CASE ~IsBusy(h)
      <4>1. s[c].layer = NumLayers + 1 /\ p = Dummy
        BY <3>1, <3>4 DEF OrderOf, LastOp, c
      <4>2. s[c].pass = Dummy
        BY <1>8, <3>1, <4>1 DEF Dummy
      <4> QED
        BY <1>2, <3>1, <3>2, <4>1, <4>2 DEF FollowsOf
    <3> QED
      BY <3>3, <3>4
  <2> QED
    BY <2>1, <2>2, <2>3
<1>11. Rising(w)
  <2> SUFFICES ASSUME NEW i \in DOMAIN w, NEW j \in DOMAIN w, i < j, w[i].pass > 0
               PROVE  /\ w[j].pass >= w[i].pass
                      /\ w[i].layer = NumLayers + 1 \/ w[j].layer = 0 => w[j].pass > w[i].pass
    BY DEF Rising
  <2>1. CASE j \in DOMAIN s
    <3>1. i \in DOMAIN s
      BY <1>1, <2>1
    <3> QED
      BY <1>1, <2>1, <3>1 DEF OrderOf, Rising
  <2>2. CASE i \notin DOMAIN s
    <3>1. j \notin DOMAIN s
      BY <1>1, <2>2
    <3>2. /\ w[i].pass = p /\ w[j].pass = p /\ w[j].layer > 0
          /\ w[i].layer = i - c
      BY <1>4, <2>2, <3>1
    <3>3. i - c < NumLayers + 1
      BY <1>1, <1>2
    <3>4. w[i].layer # NumLayers + 1 /\ w[j].layer # 0
      BY <1>2, <3>2, <3>3
    <3> QED
      BY <1>5, <3>2, <3>4
  <2>3. CASE i \in DOMAIN s /\ j \notin DOMAIN s
    <3>1. w[i] = s[i] /\ w[j].pass = p /\ w[j].layer > 0 /\ s[i].pass > 0 /\ s[i].pass \in Nat
      BY <1>1, <1>4, <2>3
    <3>2. p > 0
      BY <1>5, <1>8, <2>3, <3>1
    <3>3. s[i].pass <= p
      BY <1>7, <2>3, <3>2
    <3>4. ASSUME s[i].layer = NumLayers + 1 PROVE p > s[i].pass
      <4>0. c \in DOMAIN s /\ i <= c /\ c # 0
        <5>1. i \in 1 .. c /\ c \in Nat
          BY <1>1, <2>3
        <5> QED
          BY <1>1, <5>1
      <4>1. c \in DOMAIN s /\ i <= c /\ w[c] = s[c] /\ s[c].pass \in Nat /\ s # <<>>
        BY <1>1, <4>0
      <4>2. s[c].pass >= s[i].pass /\ (s[c].layer = 0 /\ i # c => s[c].pass > s[i].pass)
        BY <2>3, <3>1, <4>1 DEF OrderOf, Rising
      <4>3. IsBusy(h) /\ p = h.pass
        BY <3>2 DEF Dummy
      <4>4. p = s[c].pass + (IF t = 0 THEN 0 ELSE 1)
        BY <3>1, <4>1, <4>2, <4>3 DEF OrderOf, LastOp, c
      <4>5. t = 0 => s[c].layer = 0
        BY <4>1, <4>3 DEF OrderOf, LastOp, c
      <4>6. t = 0 => i # c
        BY <1>2, <3>4, <4>5
      <4> QED
        BY <3>1, <4>1, <4>2, <4>4, <4>5, <4>6
    <3> QED
      BY <3>1, <3>3, <3>4
  <2> QED
    BY <2>1, <2>2, <2>3
<1>12. FirstOp(w, f)
  <2> SUFFICES ASSUME w[1].pass > 0 PROVE w[1].pass = f + 1
    BY DEF FirstOp
  <2>1. 1 \in DOMAIN w
    BY <1>1, <1>2
  <2>2. CASE s # <<>>
    <3>1. 1 \in DOMAIN s
      BY <1>1, <2>2
    <3> QED
      BY <1>1, <2>2, <3>1 DEF OrderOf, FirstOp
  <2>3. CASE s = <<>>
    <3>1. w[1].pass = p
      BY <1>1, <1>4, <2>1, <2>3
    <3> QED
      BY <2>3, <3>1 DEF OrderOf, LastOp, Dummy
  <2> QED
    BY <2>2, <2>3
<1>13. LastOp(t, w, k, f)
  BY <1>1, <1>5 DEF LastOp
<1>14. g # "wait" => w # <<>> /\ w[1].op = "copy"
  <2> SUFFICES ASSUME g # "wait" PROVE w[1].op = "copy"
    BY <1>1
  <2>1. s # <<>> /\ s[1].op = "copy"
    BY DEF OrderOf
  <2>2. 1 \in DOMAIN s
    BY <1>1, <2>1
  <2> QED
    BY <1>1, <2>1, <2>2
<1> QED
  BY <1>6, <1>9, <1>10, <1>11, <1>12, <1>13, <1>14 DEF OrderOf, w, x

\* The order of a stream whose model thread begins the next batch.
LEMMA OrderLaunch ==
    ASSUME NEW t \in Nat, NEW s \in Seq(Op), NEW h \in HostState, NEW k \in HostState,
           NEW f \in Nat, NEW n \in Nat, NEW g,
           OrderOf(t, s, h, f, n, g), ~IsBusy(h), IsBusy(k), NEW p \in 1 .. MaxPasses,
           p = LaunchedOf(s, h, f) + 1, k.pass = p, p <= n,
           NEW e \in Op, e.pass = p, e.layer = 0
    PROVE  OrderOf(t, IF t = 0 THEN Append(s, e) ELSE s, k, f, n, g)
<1> DEFINE w == IF t = 0 THEN Append(s, e) ELSE s
           c == Len(s)
<1>1. NumLayers \in Nat \ {0} /\ p \in Nat /\ p > 0
  BY RankFacts
<1>2. /\ c \in Nat /\ DOMAIN s = 1 .. c /\ (s # <<>> => c > 0)
      /\ \A i \in DOMAIN s : s[i].pass \in Nat /\ s[i].layer \in Nat
  BY EmptySeq, OpFacts
<1>0. (t # 0 => w = s) /\ (t = 0 => w = Append(s, e))
  OBVIOUS
<1>3. LaunchedOf(w, k, f) = p
  BY DEF LaunchedOf
<1> SUFFICES OrderOf(t, w, k, f, n, g)
  OBVIOUS
<1> HIDE DEF w
<1>4. /\ \A i \in DOMAIN s : s[i].pass < p
      /\ p = (IF s # <<>> /\ s[c].pass > 0 THEN s[c].pass ELSE f) + 1 /\ p > f
      /\ s # <<>> => s[c].layer = NumLayers + 1
  <2>1. LaunchedOf(s, h, f) \in Nat /\ p = LaunchedOf(s, h, f) + 1
    BY <1>2 DEF LaunchedOf
  <2> QED
    BY <1>2, <2>1 DEF OrderOf, EachOp, LaunchedOf, LastOp
<1>5. CASE t # 0
  <2>1. w = s
    BY <1>0, <1>5
  <2>2. EachOp(t, w, f, p)
    <3>1. EachOp(t, s, f, LaunchedOf(s, h, f))
      BY DEF OrderOf
    <3>2. \A i \in DOMAIN s : s[i].pass <= p
      BY <1>1, <1>2, <1>4
    <3> HIDE DEF c
    <3> QED
      BY <2>1, <3>1, <3>2 DEF EachOp
  <2>3. LastOp(t, w, k, f)
    BY <1>2, <1>4, <1>5, <2>1 DEF LastOp
  <2> QED
    BY <1>1, <1>3, <1>4, <2>1, <2>2, <2>3 DEF OrderOf
<1>6. CASE t = 0
  <2>1. /\ w \in Seq(Op) /\ w # <<>> /\ Len(w) = c + 1 /\ DOMAIN w = 1 .. c + 1
        /\ (\A i \in DOMAIN s : w[i] = s[i] /\ i \in DOMAIN w) /\ w[c + 1] = e
    BY <1>0, <1>2, <1>6, AppendFacts
  <2>2. \A i \in DOMAIN w : i \in DOMAIN s \/ (i = c + 1 /\ w[i] = e)
    BY <1>2, <2>1
  <2> HIDE DEF c
  <2>3. EachOp(t, w, f, p)
    <3> SUFFICES ASSUME NEW i \in DOMAIN w
                 PROVE  /\ w[i].layer = 0 => t = 0 /\ w[i].pass > 0
                        /\ w[i].pass <= p
                        /\ w[i].pass > 0 => w[i].pass > f
                        /\ w[i].pass = Dummy => \E j \in DOMAIN w : j >= i /\ IsDummyEnd(w[j])
      BY DEF EachOp
    <3>1. CASE i \in DOMAIN s
      <4>1. w[i].pass = Dummy => \E j \in DOMAIN s : j >= i /\ IsDummyEnd(s[j])
        BY <2>1, <3>1 DEF OrderOf, EachOp
      <4> QED
        BY <1>1, <1>2, <1>4, <2>1, <3>1, <4>1 DEF OrderOf, EachOp
    <3>2. CASE w[i] = e
      BY <1>1, <1>4, <1>6, <3>2 DEF Dummy
    <3> QED
      BY <2>2, <3>1, <3>2
  <2>4. InSteps(t, w, f)
    <3> SUFFICES ASSUME NEW i \in DOMAIN w, i + 1 \in DOMAIN w PROVE FollowsOf(t, f, w[i], w[i + 1])
      BY DEF InSteps
    <3>1. i \in DOMAIN s
      BY <1>2, <2>1
    <3>2. CASE i + 1 \in DOMAIN s
      BY <2>1, <3>1, <3>2 DEF OrderOf, InSteps
    <3>3. CASE i + 1 \notin DOMAIN s
      <4>1. i = c /\ w[i] = s[c] /\ w[i + 1] = e /\ s # <<>>
        BY <1>2, <2>1, <2>2, <3>1, <3>3
      <4> QED
        BY <1>1, <1>4, <1>6, <4>1 DEF FollowsOf
    <3> QED
      BY <3>2, <3>3
  <2>5. Rising(w)
    <3> SUFFICES ASSUME NEW i \in DOMAIN w, NEW j \in DOMAIN w, i < j, w[i].pass > 0
                 PROVE  /\ w[j].pass >= w[i].pass
                        /\ w[i].layer = NumLayers + 1 \/ w[j].layer = 0 => w[j].pass > w[i].pass
      BY DEF Rising
    <3>1. i \in DOMAIN s
      BY <1>2, <2>1
    <3>2. CASE j \in DOMAIN s
      BY <2>1, <3>1, <3>2 DEF OrderOf, Rising
    <3>3. CASE w[j] = e
      BY <1>1, <1>2, <1>4, <2>1, <3>1, <3>3
    <3> QED
      BY <2>2, <3>2, <3>3
  <2>6. FirstOp(w, f)
    <3>1. CASE s # <<>>
      <4>1. 1 \in DOMAIN s
        BY <1>2, <3>1 DEF c
      <4> QED
        BY <2>1, <3>1, <4>1 DEF OrderOf, FirstOp
    <3>2. CASE s = <<>>
      <4>1. c = 0
        BY <3>2, EmptySeq DEF c
      <4> QED
        BY <1>4, <2>1, <3>2, <4>1 DEF FirstOp
    <3> QED
      BY <3>1, <3>2
  <2>7. LastOp(t, w, k, f)
    BY <1>1, <1>6, <2>1 DEF LastOp
  <2>8. g # "wait" => w # <<>> /\ w[1].op = "copy"
    <3> SUFFICES ASSUME g # "wait" PROVE w[1].op = "copy"
      BY <2>1
    <3>1. s # <<>> /\ s[1].op = "copy"
      BY DEF OrderOf
    <3>2. 1 \in DOMAIN s
      BY <1>2, <3>1 DEF c
    <3> QED
      BY <2>1, <3>1, <3>2
  <2> QED
    BY <1>1, <1>3, <1>4, <2>3, <2>4, <2>5, <2>6, <2>7, <2>8 DEF OrderOf
<1> QED
  BY <1>5, <1>6

\* Where the ends of the dummy forwards are.
DummyEndsAt(s) == {i \in DOMAIN s : IsDummyEnd(s[i])}

\* The number of the dummy forwards on a stream.
LEMMA EndsType ==
    ASSUME NEW s \in Seq(Op)
    PROVE  /\ IsFiniteSet(DummyEndsAt(s)) /\ DummyEnds(s) \in Nat
           /\ DummyEnds(s) = Cardinality(DummyEndsAt(s))
           /\ DummyEnds(s) = 0 <=> \A i \in DOMAIN s : ~IsDummyEnd(s[i])
<1>1. DOMAIN s = 1 .. Len(s) /\ Len(s) \in Nat /\ DummyEnds(s) = Cardinality(DummyEndsAt(s))
  BY DEF DummyEndsAt, DummyEnds
<1>2. IsFiniteSet(DOMAIN s) /\ DummyEndsAt(s) \subseteq DOMAIN s
  BY <1>1, FS_Interval DEF DummyEndsAt
<1>3. IsFiniteSet(DummyEndsAt(s))
  BY <1>2, FS_Subset
<1>4. Cardinality(DummyEndsAt(s)) \in Nat /\ (Cardinality(DummyEndsAt(s)) = 0 <=> DummyEndsAt(s) = {})
  BY <1>3, FS_CardinalityType, FS_EmptySet
<1>5. DummyEndsAt(s) = {} <=> \A i \in DOMAIN s : ~IsDummyEnd(s[i])
  BY DEF DummyEndsAt
<1> QED
  BY <1>1, <1>3, <1>4, <1>5

\* A forward issued to a stream is a dummy forward more, or none.
LEMMA EndsForward ==
    ASSUME NEW s \in Seq(Op), NEW p \in 0 .. MaxPasses
    PROVE  DummyEnds(s \o Forward(p)) = DummyEnds(s) + IF p = Dummy THEN 1 ELSE 0
<1> DEFINE x == Forward(p)
           w == s \o x
           c == Len(s) + NumLayers + 1
<1>1. NumLayers \in Nat \ {0} /\ p \in Nat
  BY RankFacts
<1>2. /\ x \in Seq(Op) /\ Len(x) = NumLayers + 1 /\ x # <<>>
      /\ \A i \in 1 .. NumLayers + 1 : x[i].pass = p /\ x[i].layer = i
  BY <1>1, ForwardFacts, EmptySeq
<1> HIDE DEF x
<1>3. Joined(s, x, w)
  BY <1>2, ConcatOps
<1> HIDE DEF w
<1>4. \A i \in DOMAIN w : i \notin DOMAIN s =>
          (IsDummyEnd(w[i]) <=> p = Dummy /\ i = c)
  <2> SUFFICES ASSUME NEW i \in DOMAIN w, i \notin DOMAIN s
               PROVE  IsDummyEnd(w[i]) <=> p = Dummy /\ i = c
    OBVIOUS
  <2>1. i - Len(s) \in 1 .. NumLayers + 1 /\ Len(s) \in Nat /\ i \in Nat
    BY <1>1, <1>2, <1>3 DEF Joined
  <2>2. Len(s) + (i - Len(s)) = i
    BY <2>1
  <2>3. w[i].pass = p /\ w[i].layer = i - Len(s)
    BY <1>2, <1>3, <2>1, <2>2 DEF Joined
  <2> QED
    BY <1>1, <2>1, <2>3 DEF IsDummyEnd
<1>5. c \in DOMAIN w /\ c \notin DOMAIN s
  BY <1>1, <1>2, <1>3 DEF Joined
<1>6. DummyEndsAt(w) = DummyEndsAt(s) \cup IF p = Dummy THEN {c} ELSE {}
  BY <1>3, <1>4, <1>5 DEF Joined, DummyEndsAt
<1>7. c \notin DummyEndsAt(s) /\ w \in Seq(Op)
  BY <1>3, <1>5 DEF DummyEndsAt, Joined
<1> HIDE DEF c
<1>8. IsFiniteSet(DummyEndsAt(s)) /\ DummyEnds(s) = Cardinality(DummyEndsAt(s))
      /\ DummyEnds(w) = Cardinality(DummyEndsAt(w)) /\ DummyEnds(s) \in Nat
  BY <1>7, EndsType
<1>9. CASE p = Dummy
  BY <1>6, <1>7, <1>8, <1>9, FS_AddElement DEF w, x
<1>10. CASE p # Dummy
  BY <1>6, <1>8, <1>10 DEF w, x
<1> QED
  BY <1>9, <1>10

\* An entry that ends no dummy forward does not change their number.
LEMMA EndsAppend ==
    ASSUME NEW s \in Seq(Op), NEW e \in Op, ~IsDummyEnd(e)
    PROVE  DummyEnds(Append(s, e)) = DummyEnds(s)
<1>1. /\ DOMAIN s = 1 .. Len(s) /\ DOMAIN Append(s, e) = 1 .. Len(s) + 1 /\ Len(s) \in Nat
      /\ \A i \in DOMAIN s : Append(s, e)[i] = s[i]
      /\ Append(s, e)[Len(s) + 1] = e
  BY AppendFacts
<1>2. DummyEndsAt(Append(s, e)) = DummyEndsAt(s)
  BY <1>1 DEF DummyEndsAt
<1> QED
  BY <1>2 DEF DummyEnds, DummyEndsAt

\* The number of the dummy forwards when the head of a stream is done.
LEMMA EndsTail ==
    ASSUME NEW s \in Seq(Op), s # <<>>
    PROVE  DummyEnds(s) = DummyEnds(Tail(s)) + IF IsDummyEnd(s[1]) THEN 1 ELSE 0
<1> DEFINE w == Tail(s)
<1>1. /\ w \in Seq(Op) /\ Len(s) \in Nat \ {0}
      /\ DOMAIN s = 1 .. Len(s) /\ DOMAIN w = 1 .. Len(s) - 1
      /\ \A i \in DOMAIN w : w[i] = s[i + 1] /\ i + 1 \in DOMAIN s
  BY TailOps
<1> HIDE DEF w
<1> DEFINE A == DummyEndsAt(w)
           B == DummyEndsAt(s) \ {1}
           sh == [i \in A |-> i + 1]
<1>2. /\ IsFiniteSet(A) /\ IsFiniteSet(DummyEndsAt(s))
      /\ DummyEnds(w) = Cardinality(A) /\ DummyEnds(s) = Cardinality(DummyEndsAt(s))
      /\ DummyEnds(w) \in Nat /\ DummyEnds(s) \in Nat
  BY <1>1, EndsType
<1>3. \A i \in A : i \in Nat /\ i + 1 \in B
  BY <1>1 DEF DummyEndsAt
<1>4. \A j \in B : j - 1 \in A /\ (j - 1) + 1 = j
  <2> SUFFICES ASSUME NEW j \in B PROVE j - 1 \in A /\ (j - 1) + 1 = j
    OBVIOUS
  <2>1. j \in DOMAIN s /\ j # 1 /\ IsDummyEnd(s[j])
    BY DEF DummyEndsAt
  <2>2. j - 1 \in DOMAIN w /\ (j - 1) + 1 = j
    BY <1>1, <2>1
  <2> QED
    BY <1>1, <2>1, <2>2 DEF DummyEndsAt
<1> HIDE DEF A, B
<1>5. sh \in Bijection(A, B)
  <2>1. sh \in [A -> B]
    BY <1>3
  <2>2. \A i, j \in A : sh[i] = sh[j] => i = j
    BY <1>3
  <2>3. \A j \in B : \E i \in A : sh[i] = j
    BY <1>4
  <2> QED
    BY <2>1, <2>2, <2>3 DEF Bijection, Injection, Surjection, IsInjective
<1>6. Cardinality(B) = Cardinality(A)
  BY <1>2, <1>5, FS_Bijection DEF ExistsBijection
<1>7. 1 \in DummyEndsAt(s) <=> IsDummyEnd(s[1])
  BY <1>1 DEF DummyEndsAt
<1>8. Cardinality(B) = IF 1 \in DummyEndsAt(s) THEN Cardinality(DummyEndsAt(s)) - 1 ELSE Cardinality(DummyEndsAt(s))
  BY <1>2, FS_RemoveElement DEF B
<1> QED
  BY <1>2, <1>6, <1>7, <1>8 DEF w
-----------------------------------------------------------------------------
\* What an inbox can hold.
Issuable == {Dummy, Capture} \cup Batches

\* Values that the variables of a rank can have.
RankTypes(t, s, b, h, f, n) ==
    t \in TPs /\ s \in Seq(Op) /\ b \in Seq(Issuable) /\ h \in HostState /\ f \in Nat /\ n \in Nat

\* The last batch launched is between the last finished and the last issued.
LEMMA LaunchedType ==
    ASSUME NEW t, NEW s, NEW b, NEW h, NEW f, NEW n, NEW g,
           RankTypes(t, s, b, h, f, n), OrderOf(t, s, h, f, n, g)
    PROVE  /\ t \in Nat /\ LaunchedOf(s, h, f) \in Nat
           /\ IsBusy(h) => h.pass > f /\ h.pass \in Nat
           /\ f <= LaunchedOf(s, h, f) /\ LaunchedOf(s, h, f) <= n
<1>1. t \in Nat
  BY RankFacts DEF RankTypes
<1>2. s # <<>> => s[Len(s)].pass \in Nat /\ s[Len(s)] \in Op /\ Len(s) \in DOMAIN s
  <2>1. s # <<>> => Len(s) \in Nat \ {0} /\ DOMAIN s = 1 .. Len(s)
    BY TailFacts DEF RankTypes
  <2>2. s # <<>> => Len(s) \in DOMAIN s
    BY <2>1
  <2> QED
    BY <2>2, OpFacts DEF RankTypes
<1>3. f <= LaunchedOf(s, h, f) /\ LaunchedOf(s, h, f) <= n /\ LastOp(t, s, h, f) /\ EachOp(t, s, f, LaunchedOf(s, h, f))
  BY DEF OrderOf
<1>4. IsBusy(h) => h.pass > f /\ h.pass \in Nat
  <2>1. CASE s # <<>> /\ s[Len(s)].pass > 0
    <3>1. s[Len(s)].pass > f /\ s[Len(s)].pass \in Nat
      BY <1>2, <1>3, <2>1 DEF EachOp
    <3> QED
      BY <1>3, <2>1, <3>1 DEF LastOp, RankTypes
  <2>2. CASE ~(s # <<>> /\ s[Len(s)].pass > 0)
    BY <1>3, <2>2 DEF LastOp, RankTypes
  <2> QED
    BY <2>1, <2>2
<1>5. LaunchedOf(s, h, f) \in Nat
  BY <1>2, <1>4 DEF LaunchedOf, RankTypes
<1> QED
  BY <1>1, <1>3, <1>4, <1>5

\* Which of the two forms the inbox of a rank has.
LEMMA InboxFacts ==
    ASSUME NEW t, NEW s, NEW b, NEW h, NEW f, NEW n, NEW g,
           RankTypes(t, s, b, h, f, n), RankOK(t, s, b, h, f, n, g)
    PROVE  /\ b # <<>> /\ b[1] > 0 => /\ h.phase # "signal" /\ b[1] = LaunchedOf(s, h, f) + 1
                                     /\ LaunchedOf(s, h, f) + Len(b) = n
                                     /\ \A i \in DOMAIN b : b[i] = LaunchedOf(s, h, f) + i
           /\ b # <<>> /\ b[1] <= 0 => \E k \in {Dummy, Capture} :
                                          b = <<k>> /\ h.phase = "idle" /\ n = f
           /\ h.phase = "signal" => b = <<>> /\ n = f /\ h.pass \in {Dummy, Capture}
           /\ b = <<>> => LaunchedOf(s, h, f) = n
           /\ n = f => LaunchedOf(s, h, f) = f /\ ~IsBusy(h)
<1> DEFINE p == LaunchedOf(s, h, f)
<1>1. /\ p \in Nat /\ f <= p /\ p <= n /\ f \in Nat /\ n \in Nat
      /\ IsBusy(h) => h.pass > f /\ h.pass \in Nat
  BY LaunchedType DEF RankOK, RankTypes
<1>2. InboxOf(b, h, f, n, p)
  BY DEF RankOK
<1>3. /\ Len(b) \in Nat /\ DOMAIN b = 1 .. Len(b) /\ (b # <<>> => Len(b) > 0)
  BY TailFacts, EmptySeq DEF RankTypes
<1>4. n = f => p = f /\ ~IsBusy(h)
  <2>1. IsBusy(h) => p = h.pass
    BY DEF LaunchedOf
  <2> HIDE DEF p
  <2> QED
    BY <1>1, <2>1
<1> HIDE DEF p
<1>5. CASE b \in {<<Dummy>>, <<Capture>>} /\ h.phase = "idle" /\ n = f
  <2>1. b[1] <= 0 /\ b # <<>> /\ h.phase # "signal"
    BY <1>5 DEF Dummy, Capture
  <2>2. ~(b[1] > 0)
    BY <1>5 DEF Dummy, Capture
  <2> QED
    BY <1>4, <1>5, <2>1, <2>2 DEF p
<1>6. CASE /\ p + Len(b) = n /\ \A i \in DOMAIN b : b[i] = p + i
           /\ h.phase = "signal" => n = f /\ h.pass \in {Dummy, Capture}
  <2>1. b # <<>> => b[1] = p + 1 /\ b[1] > 0 /\ ~(b[1] <= 0)
    BY <1>1, <1>3, <1>6
  <2>2. b # <<>> => n # f
    BY <1>1, <1>3, <1>6
  <2>3. b = <<>> => p = n
    BY <1>1, <1>6, EmptySeq
  <2> QED
    BY <1>1, <1>4, <1>6, <2>1, <2>2, <2>3 DEF p
<1> QED
  BY <1>2, <1>5, <1>6 DEF InboxOf

\* The model thread goes on with the batch it launches, or with the dummy forward it
\* signals.
LEMMA RankHost ==
    ASSUME NEW t, NEW s, NEW b, NEW h, NEW f, NEW n, NEW g,
           RankTypes(t, s, b, h, f, n), RankOK(t, s, b, h, f, n, g),
           NEW k \in HostState, k.pass = h.pass,
           IsBusy(k) = IsBusy(h), h.phase = "signal" <=> k.phase = "signal",
           h.phase = "idle" => k.phase = "idle"
    PROVE  RankOK(t, s, b, k, f, n, g) /\ DummiesOf(s, b, k) = DummiesOf(s, b, h)
<1>1. LaunchedOf(s, k, f) = LaunchedOf(s, h, f)
  BY DEF LaunchedOf
<1>2. LastOp(t, s, k, f)
  BY DEF RankOK, OrderOf, LastOp
<1>3. OrderOf(t, s, k, f, n, g)
  BY <1>1, <1>2 DEF RankOK, OrderOf
<1>4. InboxOf(b, k, f, n, LaunchedOf(s, k, f))
  BY <1>1 DEF RankOK, InboxOf
<1> QED
  BY <1>3, <1>4 DEF RankOK, DummiesOf, ComingOf

\* The model thread has seen all outputs claimed and issues the forward.
LEMMA RankClaimed ==
    ASSUME NEW t, NEW s, NEW b, NEW h, NEW f, NEW n, NEW g,
           RankTypes(t, s, b, h, f, n), RankOK(t, s, b, h, f, n, g),
           NEW k \in HostState, h.phase = "claim", k.phase = "idle",
           h.pass \in 1 .. MaxPasses
    PROVE  /\ RankOK(t, s \o Forward(h.pass), b, k, f, n, g)
           /\ DummiesOf(s \o Forward(h.pass), b, k) = DummiesOf(s, b, h)
<1>1. /\ t \in Nat /\ s \in Seq(Op) /\ h \in HostState /\ f \in Nat /\ n \in Nat
      /\ h.pass \in 0 .. MaxPasses /\ h.pass > 0 /\ h.pass # Dummy /\ IsBusy(h) /\ ~IsBusy(k)
      /\ OrderOf(t, s, h, f, n, g)
  BY RankFacts DEF RankTypes, RankOK, IsBusy, Dummy
<1>2. /\ OrderOf(t, s \o Forward(h.pass), k, f, n, g)
      /\ LaunchedOf(s \o Forward(h.pass), k, f) = LaunchedOf(s, h, f)
  BY <1>1, OrderForward
<1>3. InboxOf(b, k, f, n, LaunchedOf(s, h, f))
  BY DEF RankOK, InboxOf
<1>4. DummyEnds(s \o Forward(h.pass)) = DummyEnds(s)
  <2>1. DummyEnds(s) \in Nat
    BY <1>1, EndsType
  <2> QED
    BY <1>1, <2>1, EndsForward
<1> QED
  BY <1>2, <1>3, <1>4 DEF RankOK, DummiesOf, ComingOf

\* The model thread has signalled all outputs and issues the dummy forward, or captures
\* it.
LEMMA RankSignalled ==
    ASSUME NEW t, NEW s, NEW b, NEW h, NEW f, NEW n, NEW g,
           RankTypes(t, s, b, h, f, n), RankOK(t, s, b, h, f, n, g),
           NEW k \in HostState, h.phase = "signal", k.phase = "idle"
    PROVE  /\ RankOK(t, IF h.pass = Capture THEN s ELSE s \o Forward(Dummy), b, k, f, n, g)
           /\ DummiesOf(IF h.pass = Capture THEN s ELSE s \o Forward(Dummy), b, k)
                 = DummiesOf(s, b, h)
<1> DEFINE w == IF h.pass = Capture THEN s ELSE s \o Forward(Dummy)
<1> SUFFICES RankOK(t, w, b, k, f, n, g) /\ DummiesOf(w, b, k) = DummiesOf(s, b, h)
  OBVIOUS
<1>1. /\ t \in Nat /\ s \in Seq(Op) /\ h \in HostState /\ f \in Nat /\ n \in Nat
      /\ ~IsBusy(h) /\ ~IsBusy(k) /\ OrderOf(t, s, h, f, n, g) /\ Dummy \in 0 .. MaxPasses
  BY RankFacts DEF RankTypes, RankOK, IsBusy, Dummy
<1>2. b = <<>> /\ n = f /\ h.pass \in {Dummy, Capture} /\ LaunchedOf(s, h, f) = f
  BY InboxFacts
<1>3. DummyEnds(s) \in Nat
  BY <1>1, EndsType
<1>4. CASE h.pass = Capture
  <2>1. LaunchedOf(s, k, f) = LaunchedOf(s, h, f)
    BY <1>1 DEF LaunchedOf
  <2>2. OrderOf(t, s, k, f, n, g)
    BY <1>1, <2>1 DEF OrderOf, LastOp
  <2>3. InboxOf(b, k, f, n, LaunchedOf(s, k, f))
    BY <1>2, <2>1 DEF RankOK, InboxOf
  <2> QED
    BY <1>2, <1>4, <2>2, <2>3 DEF RankOK, DummiesOf, ComingOf, Capture, Dummy
<1>5. CASE h.pass = Dummy
  <2>1. w = s \o Forward(Dummy)
    BY <1>5 DEF Capture, Dummy
  <2>2. OrderOf(t, w, k, f, n, g) /\ LaunchedOf(w, k, f) = f
    <3> DEFINE c == Dummy
    <3>1. /\ t \in Nat /\ s \in Seq(Op) /\ h \in HostState /\ f \in Nat /\ n \in Nat
          /\ ~IsBusy(h) /\ ~IsBusy(k) /\ OrderOf(t, s, h, f, n, g) /\ c \in 0 .. MaxPasses
          /\ c = Dummy /\ LaunchedOf(s, h, f) = f
      BY <1>1, <1>2
    <3> HIDE DEF c
    <3>2. /\ OrderOf(t, s \o Forward(c), k, f, n, g)
          /\ LaunchedOf(s \o Forward(c), k, f) = LaunchedOf(s, h, f)
      BY <3>1, OrderForward
    <3> QED
      BY <1>2, <2>1, <3>1, <3>2
  <2>3. InboxOf(b, k, f, n, f)
    BY <1>2 DEF RankOK, InboxOf
  <2>4. DummyEnds(w) = DummyEnds(s) + 1
    BY <1>1, <2>1, EndsForward
  <2> QED
    BY <1>2, <1>3, <1>5, <2>2, <2>3, <2>4 DEF RankOK, DummiesOf, ComingOf
<1> QED
  BY <1>2, <1>4, <1>5

\* The model thread takes a dummy or a capturing pass from its inbox.
LEMMA RankDummyStart ==
    ASSUME NEW t, NEW s, NEW b, NEW h, NEW f, NEW n, NEW g,
           RankTypes(t, s, b, h, f, n), RankOK(t, s, b, h, f, n, g),
           NEW k \in HostState, b # <<>>, b[1] <= 0, h.phase = "idle",
           k.phase = "signal", k.pass = b[1]
    PROVE  /\ RankOK(t, s, Tail(b), k, f, n, g)
           /\ DummiesOf(s, Tail(b), k) = DummiesOf(s, b, h)
<1>1. PICK c \in {Dummy, Capture} : b = <<c>> /\ n = f
  BY InboxFacts
<1>2. Tail(b) = <<>> /\ k.pass = c
  BY <1>1
<1>3. LaunchedOf(s, h, f) = f /\ LaunchedOf(s, k, f) = LaunchedOf(s, h, f) /\ n \in Nat
  <2>1. LaunchedOf(s, h, f) = f
    BY <1>1, InboxFacts
  <2>2. ~IsBusy(h) /\ ~IsBusy(k)
    BY DEF IsBusy
  <2> QED
    BY <2>1, <2>2 DEF LaunchedOf, RankTypes
<1>4. OrderOf(t, s, k, f, n, g)
  BY <1>3 DEF RankOK, OrderOf, LastOp, IsBusy
<1>5. InboxOf(<<>>, k, f, n, f)
  BY <1>1, <1>2, <1>3 DEF InboxOf
<1>6. ComingOf(<<>>, k) <=> ComingOf(b, h)
  BY <1>1, <1>2 DEF ComingOf
<1> QED
  BY <1>2, <1>3, <1>4, <1>5, <1>6 DEF RankOK, DummiesOf

\* The model thread takes a batch from its inbox: it is the one after the last launched.
LEMMA RankLaunch ==
    ASSUME NEW t, NEW s, NEW b, NEW h, NEW f, NEW n, NEW g,
           RankTypes(t, s, b, h, f, n), RankOK(t, s, b, h, f, n, g),
           NEW k \in HostState, b # <<>>, b[1] > 0, h.phase = "idle",
           k.phase \in {"claim", "full"}, k.pass = b[1],
           NEW e \in Op, e.pass = b[1], e.layer = 0
    PROVE  /\ RankOK(t, IF t = 0 THEN Append(s, e) ELSE s, Tail(b), k, f, n, g)
           /\ DummiesOf(IF t = 0 THEN Append(s, e) ELSE s, Tail(b), k) = DummiesOf(s, b, h)
           /\ LaunchedOf(s, h, f) = b[1] - 1
<1> DEFINE p == LaunchedOf(s, h, f)
           w == IF t = 0 THEN Append(s, e) ELSE s
<1> SUFFICES /\ RankOK(t, w, Tail(b), k, f, n, g)
             /\ DummiesOf(w, Tail(b), k) = DummiesOf(s, b, h)
             /\ p = b[1] - 1
  OBVIOUS
<1>1. /\ t \in Nat /\ s \in Seq(Op) /\ h \in HostState /\ f \in Nat /\ n \in Nat /\ p \in Nat
      /\ ~IsBusy(h) /\ IsBusy(k) /\ OrderOf(t, s, h, f, n, g)
  BY LaunchedType DEF RankTypes, RankOK, IsBusy
<1>2. b[1] = p + 1 /\ p + Len(b) = n /\ \A i \in DOMAIN b : b[i] = p + i
  BY InboxFacts
<1>3. /\ Tail(b) \in Seq(Issuable) /\ Len(Tail(b)) = Len(b) - 1 /\ Len(b) \in Nat \ {0}
      /\ DOMAIN b = 1 .. Len(b) /\ DOMAIN Tail(b) = 1 .. Len(b) - 1
      /\ \A i \in DOMAIN Tail(b) : Tail(b)[i] = b[i + 1]
      /\ b[1] \in Issuable
  BY TailFacts DEF RankTypes
<1>4. b[1] \in 1 .. MaxPasses /\ b[1] <= n
  <2>1. b[1] <= n
    BY <1>1, <1>2, <1>3
  <2>2. b[1] \in Batches
    BY <1>3 DEF Issuable, Dummy, Capture
  <2> QED
    BY <2>1, <2>2 DEF Batches
<1>5. OrderOf(t, w, k, f, n, g) /\ LaunchedOf(w, k, f) = b[1]
  <2> DEFINE c == b[1]
  <2>1. /\ t \in Nat /\ s \in Seq(Op) /\ h \in HostState /\ f \in Nat /\ n \in Nat
        /\ ~IsBusy(h) /\ IsBusy(k) /\ OrderOf(t, s, h, f, n, g)
        /\ c \in 1 .. MaxPasses /\ c = LaunchedOf(s, h, f) + 1 /\ k.pass = c /\ c <= n
        /\ e.pass = c /\ e.layer = 0
    BY <1>1, <1>2, <1>4
  <2> HIDE DEF c
  <2>2. OrderOf(t, IF t = 0 THEN Append(s, e) ELSE s, k, f, n, g)
    BY <2>1, OrderLaunch
  <2> QED
    BY <2>1, <2>2 DEF c, LaunchedOf
<1>6. \A i \in DOMAIN Tail(b) : Tail(b)[i] = b[1] + i
  <2> SUFFICES ASSUME NEW i \in DOMAIN Tail(b) PROVE Tail(b)[i] = b[1] + i
    OBVIOUS
  <2>1. i + 1 \in DOMAIN b /\ i \in Nat
    BY <1>3
  <2>2. Tail(b)[i] = p + (i + 1)
    BY <1>2, <1>3, <2>1
  <2> QED
    BY <1>1, <1>2, <2>1, <2>2
<1>7. InboxOf(Tail(b), k, f, n, b[1])
  BY <1>1, <1>2, <1>3, <1>6 DEF InboxOf
<1>8. ~ComingOf(b, h) /\ ~ComingOf(Tail(b), k)
  <2>1. b # <<Dummy>>
    BY DEF Dummy
  <2>2. Tail(b) # <<Dummy>>
    <3> SUFFICES ASSUME Tail(b) = <<Dummy>> PROVE FALSE
      OBVIOUS
    <3>1. 1 \in DOMAIN Tail(b) /\ Tail(b)[1] = Dummy
      <4>1. \A x : x = <<Dummy>> => 1 \in DOMAIN x /\ x[1] = Dummy
        OBVIOUS
      <4> QED
        BY <4>1
    <3>2. Tail(b)[1] = b[1] + 1
      BY <1>6, <3>1
    <3> QED
      BY <1>1, <1>2, <3>1, <3>2 DEF Dummy
  <2> QED
    BY <2>1, <2>2 DEF ComingOf
<1>9. DummyEnds(w) = DummyEnds(s)
  <2>1. ~IsDummyEnd(e)
    BY RankFacts DEF IsDummyEnd
  <2> QED
    BY <1>1, <2>1, EndsAppend
<1>10. p = b[1] - 1
  BY <1>1, <1>2
<1> QED
  BY <1>5, <1>7, <1>8, <1>9, <1>10 DEF RankOK, DummiesOf

\* The engine issues one more batch to a rank that has answered.
LEMMA RankIssueBatch ==
    ASSUME NEW t, NEW s, NEW b, NEW h, NEW f, NEW n, NEW g,
           RankTypes(t, s, b, h, f, n), RankOK(t, s, b, h, f, n, g),
           \A i \in DOMAIN b : b[i] > 0, h.phase # "signal", n + 1 \in Batches
    PROVE  /\ RankOK(t, s, Append(b, n + 1), h, f, n + 1, g)
           /\ DummiesOf(s, Append(b, n + 1), h) = DummiesOf(s, b, h)
<1> DEFINE p == LaunchedOf(s, h, f)
           w == Append(b, n + 1)
<1>1. /\ f \in Nat /\ n \in Nat /\ p \in Nat /\ p <= n /\ f <= p
      /\ OrderOf(t, s, h, f, n, g)
  BY LaunchedType DEF RankTypes, RankOK
<1>2. /\ w \in Seq(Issuable) /\ w # <<>> /\ Len(w) = Len(b) + 1
      /\ Len(b) \in Nat /\ DOMAIN b = 1 .. Len(b) /\ DOMAIN w = 1 .. Len(b) + 1
      /\ (\A i \in DOMAIN b : w[i] = b[i]) /\ w[Len(b) + 1] = n + 1
  BY AppendFacts DEF RankTypes, Issuable
<1>3. p + Len(b) = n /\ \A i \in DOMAIN b : b[i] = p + i
  <2>1. CASE b = <<>>
    BY <1>1, <1>2, <2>1, InboxFacts, EmptySeq
  <2>2. CASE b # <<>>
    <3>1. 1 \in DOMAIN b
      BY <1>2, <2>2, EmptySeq DEF RankTypes
    <3> QED
      BY <2>2, <3>1, InboxFacts
  <2> QED
    BY <2>1, <2>2
<1>4. OrderOf(t, s, h, f, n + 1, g)
  BY <1>1 DEF OrderOf
<1> HIDE DEF w
<1>5. \A i \in DOMAIN w : w[i] = p + i
  <2> SUFFICES ASSUME NEW i \in DOMAIN w PROVE w[i] = p + i
    OBVIOUS
  <2>1. CASE i \in DOMAIN b
    BY <1>2, <1>3, <2>1
  <2>2. CASE i \notin DOMAIN b
    <3>1. i = Len(b) + 1
      BY <1>2, <2>2
    <3> QED
      BY <1>1, <1>2, <1>3, <3>1
  <2> QED
    BY <2>1, <2>2
<1>6. InboxOf(w, h, f, n + 1, p)
  BY <1>1, <1>2, <1>3, <1>5 DEF InboxOf
<1>7. ~ComingOf(b, h) /\ ~ComingOf(w, h)
  <2>1. ASSUME NEW x, x = <<Dummy>>, \A i \in DOMAIN x : x[i] = p + i PROVE FALSE
    <3>1. 1 \in DOMAIN x /\ x[1] = 0
      BY <2>1 DEF Dummy
    <3> QED
      BY <1>1, <2>1, <3>1
  <2> QED
    BY <1>3, <1>5, <2>1 DEF ComingOf
<1> QED
  BY <1>4, <1>6, <1>7 DEF RankOK, DummiesOf, w

\* The engine issues a dummy or a capturing pass to a rank: every batch has finished, or
\* the rank is quiet.
LEMMA RankIssueDummy ==
    ASSUME NEW t, NEW s, NEW b, NEW h, NEW f, NEW n, NEW g,
           RankTypes(t, s, b, h, f, n), RankOK(t, s, b, h, f, n, g),
           h.phase # "signal", \A i \in DOMAIN b : b[i] > 0, n = f, NEW k \in {Dummy, Capture}
    PROVE  /\ RankOK(t, s, Append(b, k), h, f, n, g)
           /\ DummiesOf(s, Append(b, k), h) = DummiesOf(s, b, h) + IF k = Dummy THEN 1 ELSE 0
<1>1. b = <<>>
  <2> SUFFICES ASSUME b # <<>> PROVE FALSE
    OBVIOUS
  <2>1. 1 \in DOMAIN b /\ Len(b) \in Nat \ {0}
    BY EmptySeq DEF RankTypes
  <2>2. LaunchedOf(s, h, f) + Len(b) = n /\ LaunchedOf(s, h, f) = f /\ f \in Nat
    BY <2>1, InboxFacts DEF RankTypes
  <2> QED
    BY <2>1, <2>2
<1>2. Append(b, k) = <<k>>
  BY <1>1
<1>3. h.phase = "idle"
  <2>1. ~IsBusy(h)
    BY InboxFacts
  <2> QED
    BY <2>1 DEF IsBusy, RankTypes, HostState
<1>4. InboxOf(<<k>>, h, f, n, LaunchedOf(s, h, f))
  BY <1>3 DEF InboxOf
<1>5. ~ComingOf(b, h) /\ (ComingOf(<<k>>, h) <=> k = Dummy)
  BY <1>1, <1>3 DEF ComingOf
<1>6. DummyEnds(s) \in Nat
  BY EndsType DEF RankTypes
<1> QED
  BY <1>2, <1>4, <1>5, <1>6 DEF RankOK, DummiesOf

\* The stream is done with an entry that ends no forward.
LEMMA RankTail ==
    ASSUME NEW t, NEW s, NEW b, NEW h, NEW f, NEW n, NEW g,
           RankTypes(t, s, b, h, f, n), RankOK(t, s, b, h, f, n, g),
           s # <<>>, s[1].op # "reduce"
    PROVE  /\ RankOK(t, Tail(s), b, h, f, n, "wait")
           /\ DummiesOf(Tail(s), b, h) = DummiesOf(s, b, h)
           /\ LaunchedOf(Tail(s), h, f) = LaunchedOf(s, h, f)
<1>1. /\ t \in Nat /\ s \in Seq(Op) /\ h \in HostState /\ f \in Nat /\ n \in Nat
      /\ OrderOf(t, s, h, f, n, g)
  BY RankFacts DEF RankTypes, RankOK
<1>2. s[1] \in Op
  BY <1>1, TailFacts
<1>3. s[1].layer <= NumLayers /\ ~IsDummyEnd(s[1])
  <2>1. s[1].layer # NumLayers + 1 /\ s[1].layer \in 0 .. NumLayers + 1 /\ NumLayers \in Nat
    BY <1>2, OpFacts, RankFacts
  <2> QED
    BY <2>1 DEF IsDummyEnd
<1>4. OrderOf(t, Tail(s), h, f, n, "wait") /\ LaunchedOf(Tail(s), h, f) = LaunchedOf(s, h, f)
  BY <1>1, <1>3, OrderTail
<1>5. DummyEnds(Tail(s)) = DummyEnds(s)
  <2>1. Tail(s) \in Seq(Op)
    BY <1>1, TailFacts
  <2>2. DummyEnds(Tail(s)) \in Nat
    BY <2>1, EndsType
  <2> QED
    BY <1>1, <1>3, <2>2, EndsTail
<1> QED
  BY <1>4, <1>5 DEF RankOK, DummiesOf

\* The stream goes on with the copy at its head.
LEMMA RankStage ==
    ASSUME NEW t, NEW s, NEW b, NEW h, NEW f, NEW n, NEW g,
           RankOK(t, s, b, h, f, n, g), s # <<>>, s[1].op = "copy", NEW k
    PROVE  RankOK(t, s, b, h, f, n, k)
BY DEF RankOK, OrderOf

\* The stream ends a forward: if it is one of a batch, of the batch after the last
\* finished.
LEMMA RankReduce ==
    ASSUME NEW t, NEW s, NEW b, NEW h, NEW f, NEW n, NEW g,
           RankTypes(t, s, b, h, f, n), RankOK(t, s, b, h, f, n, g),
           s # <<>>, s[1].op = "reduce",
           NEW e, e = IF s[1].pass > 0 THEN s[1].pass ELSE f
    PROVE  /\ RankOK(t, Tail(s), b, h, e, n, g)
           /\ DummiesOf(s, b, h) = DummiesOf(Tail(s), b, h) + IF s[1].pass > 0 THEN 0 ELSE 1
           /\ LaunchedOf(Tail(s), h, e) = LaunchedOf(s, h, f)
           /\ DummiesOf(Tail(s), b, h) \in Nat
           /\ s[1].pass > 0 => s[1].pass = f + 1
<1>1. /\ t \in Nat /\ s \in Seq(Op) /\ h \in HostState /\ f \in Nat /\ n \in Nat
      /\ OrderOf(t, s, h, f, n, g)
  BY RankFacts DEF RankTypes, RankOK
<1>2. s[1] \in Op /\ 1 \in DOMAIN s
  <2>1. Head(s) \in Op /\ Head(s) = s[1] /\ DOMAIN s = 1 .. Len(s) /\ Len(s) \in Nat \ {0}
    BY <1>1, TailFacts
  <2> QED
    BY <2>1
<1>3. s[1].layer = NumLayers + 1 /\ s[1].pass \in Nat
  BY <1>2, OpFacts
<1>4. OrderOf(t, Tail(s), h, e, n, g) /\ LaunchedOf(Tail(s), h, e) = LaunchedOf(s, h, f)
  BY <1>1, <1>3, OrderReduce
<1>5. IsDummyEnd(s[1]) <=> ~(s[1].pass > 0)
  BY <1>3 DEF IsDummyEnd, Dummy
<1>6. Tail(s) \in Seq(Op)
  BY <1>1, TailFacts
<1>7. DummyEnds(Tail(s)) \in Nat /\ DummyEnds(s) = DummyEnds(Tail(s)) + IF s[1].pass > 0 THEN 0 ELSE 1
  BY <1>1, <1>5, <1>6, EndsType, EndsTail
<1>8. s[1].pass > 0 => s[1].pass = f + 1 /\ n # f
  <2> SUFFICES ASSUME s[1].pass > 0 PROVE s[1].pass = f + 1 /\ n # f
    OBVIOUS
  <2>1. s[1].pass = f + 1
    BY <1>1 DEF OrderOf, FirstOp
  <2>2. s[1].pass <= LaunchedOf(s, h, f) /\ LaunchedOf(s, h, f) <= n /\ LaunchedOf(s, h, f) \in Nat
    BY <1>1, <1>2, LaunchedType DEF OrderOf, EachOp
  <2> QED
    BY <1>1, <2>1, <2>2
<1>9. InboxOf(b, h, e, n, LaunchedOf(s, h, f))
  BY <1>8 DEF RankOK, InboxOf
<1>10. DummiesOf(s, b, h) = DummiesOf(Tail(s), b, h) + IF s[1].pass > 0 THEN 0 ELSE 1
  BY <1>7 DEF DummiesOf
<1>11. DummiesOf(Tail(s), b, h) \in Nat
  BY <1>7 DEF DummiesOf
<1> QED
  BY <1>4, <1>8, <1>9, <1>10, <1>11 DEF RankOK
-----------------------------------------------------------------------------
\* The order of a rank, from the invariants.
LEMMA RankOfState ==
    ASSUME TypeInv, LaunchInv, NEW r \in Ranks
    PROVE  /\ RankTypes(r[2], stream[r], inbox[r], host[r], finished[r[1]], issued[r[1]])
           /\ RankOK(r[2], stream[r], inbox[r], host[r], finished[r[1]], issued[r[1]], stage[r])
           /\ host[r] \in HostState
           /\ IsBusy(host[r]) => host[r].pass \in 1 .. MaxPasses
<1>1. r[1] \in DPs /\ r[2] \in TPs
  BY RankFacts
<1>2. host[r] \in HostState /\ stream[r] \in Seq(Op) /\ inbox[r] \in Seq(Issuable)
  BY DEF TypeInv, HostOK, StreamOK, Issuable
<1>3. finished[r[1]] \in Nat /\ issued[r[1]] \in Nat
  BY <1>1 DEF TypeInv, EngineOK
<1>4. IsBusy(host[r]) => host[r].pass \in 1 .. MaxPasses
  <2>1. IsBusy(host[r]) => host[r].pass > 0
    BY DEF TypeInv, HostOK, Busy
  <2>2. host[r].pass \in Capture .. MaxPasses
    BY <1>2 DEF HostState
  <2> QED
    BY <2>1, <2>2 DEF Capture
<1> QED
  BY <1>1, <1>2, <1>3, <1>4 DEF RankTypes, LaunchInv, RankInv

\* A step of one rank that keeps its order and its dummy forwards keeps the invariant.
LEMMA OneRank ==
    ASSUME TypeInv, LaunchInv, NEW r \in Ranks, finished' = finished, issued' = issued,
           \A q \in Ranks \ {r} : /\ stream'[q] = stream[q] /\ inbox'[q] = inbox[q]
                                  /\ host'[q] = host[q] /\ stage'[q] = stage[q],
           RankOK(r[2], stream'[r], inbox'[r], host'[r], finished[r[1]], issued[r[1]], stage'[r]),
           DummiesOf(stream'[r], inbox'[r], host'[r]) = DummiesOf(stream[r], inbox[r], host[r])
    PROVE  LaunchInv'
<1>1. \A q \in Ranks : RankInv(q)'
  BY DEF RankInv, LaunchInv
<1>2. \A q \in Ranks : Dummies(q)' = Dummies(q)
  BY DEF Dummies
<1>3. \A q \in Ranks : <<q[1], 0>> \in Ranks
  BY RankFacts
<1> QED
  BY <1>1, <1>2, <1>3 DEF LaunchInv

\* A step that touches no variable of the launches.
LEMMA LaunchKeep ==
    ASSUME LaunchInv, UNCHANGED <<stream, inbox, host, finished, issued, stage>>
    PROVE  LaunchInv'
BY DEF LaunchInv, RankInv, Dummies

\* The launches of the initial state.
LEMMA LaunchInit == Init => LaunchInv
<1> SUFFICES ASSUME Init PROVE LaunchInv
  OBVIOUS
<1>1. ASSUME NEW r \in Ranks
      PROVE  /\ stream[r] = <<>> /\ inbox[r] = <<>> /\ stage[r] = "wait"
             /\ host[r].phase = "idle" /\ finished[r[1]] = 0 /\ issued[r[1]] = 0
  BY RankFacts DEF Init
<1>2. ASSUME NEW r \in Ranks PROVE RankInv(r) /\ Dummies(r) = 0
  <2> DEFINE s == stream[r]
             h == host[r]
  <2>1. /\ s = <<>> /\ inbox[r] = <<>> /\ stage[r] = "wait"
        /\ h.phase = "idle" /\ finished[r[1]] = 0 /\ issued[r[1]] = 0
    BY <1>1
  <2> HIDE DEF s, h
  <2>2. ~IsBusy(h) /\ LaunchedOf(s, h, 0) = 0
    BY <2>1 DEF IsBusy, LaunchedOf
  <2>3. DOMAIN s = {} /\ Len(<<>>) = 0 /\ DOMAIN <<>> = {} /\ s = <<>>
    BY <2>1
  <2>4. OrderOf(r[2], s, h, 0, 0, "wait")
    BY <2>1, <2>2, <2>3 DEF OrderOf, EachOp, InSteps, Rising, FirstOp, LastOp
  <2>5. InboxOf(<<>>, h, 0, 0, 0)
    BY <2>1, <2>3 DEF InboxOf
  <2>6. ~ComingOf(<<>>, h)
    BY <2>1 DEF ComingOf
  <2>7. DummyEnds(s) = 0
    BY <2>3, FS_EmptySet DEF DummyEnds
  <2> QED
    BY <2>1, <2>2, <2>4, <2>5, <2>6, <2>7 DEF RankInv, RankOK, Dummies, DummiesOf, s, h
<1>3. \A r \in Ranks : <<r[1], 0>> \in Ranks
  BY RankFacts
<1> QED
  BY <1>2, <1>3 DEF LaunchInv

\* A step of a model thread keeps the order of the launches.
LEMMA LaunchHost ==
    ASSUME TypeInv, LaunchInv, TypeInv', NEW r \in Ranks, HostNext(r) \/ ClaimTimeout(r)
    PROVE  LaunchInv'
<1> USE DEF engineVars, hostVars, threadVars, streamVars, flagVars
<1> DEFINE t == r[2]
           s == stream[r]
           b == inbox[r]
           h == host[r]
           f == finished[r[1]]
           n == issued[r[1]]
           g == stage[r]
<1>1. /\ RankTypes(t, s, b, h, f, n) /\ RankOK(t, s, b, h, f, n, g) /\ h \in HostState
      /\ IsBusy(h) => h.pass \in 1 .. MaxPasses
  BY RankOfState
<1>2. /\ host \in [Ranks -> HostState] /\ host' \in [Ranks -> HostState] /\ host'[r] \in HostState
      /\ stream \in [Ranks -> Seq(Op)] /\ inbox \in [Ranks -> Seq(Issuable)]
  BY DEF TypeInv, HostOK, StreamOK, Issuable
<1>3. CASE LaunchStart(r)
  <2> DEFINE e == [op |-> "prepare", pass |-> Head(b), layer |-> 0]
             w == IF t = 0 THEN Append(s, e) ELSE s
  <2>1. /\ h.phase = "idle" /\ b # <<>> /\ Head(b) > 0 /\ Head(b) = b[1]
        /\ inbox' = [inbox EXCEPT ![r] = Tail(b)]
        /\ UNCHANGED <<finished, issued, stage>>
    BY <1>3 DEF LaunchStart
  <2>2. /\ \A q \in Ranks \ {r} : host'[q] = host[q] /\ stream'[q] = stream[q]
        /\ host'[r].pass = b[1] /\ host'[r].phase \in {"claim", "full"} /\ stream'[r] = w
    <3>1. CASE t = 0
      BY <1>2, <1>3, <2>1, <3>1 DEF LaunchStart
    <3>2. CASE t # 0
      BY <1>2, <1>3, <2>1, <3>2 DEF LaunchStart
    <3> QED
      BY <3>1, <3>2
  <2>3. e \in Op /\ e.pass = b[1] /\ e.layer = 0
    <3>1. b[1] \in Batches
      <4>1. b[1] \in Issuable
        BY <1>2, <2>1, TailFacts
      <4> QED
        BY <2>1, <4>1 DEF Issuable, Dummy, Capture
    <3> QED
      BY <2>1, <3>1, RankFacts DEF Op, OpAt, Batches
  <2> HIDE DEF e
  <2>4. /\ RankOK(t, w, Tail(b), host'[r], f, n, g)
        /\ DummiesOf(w, Tail(b), host'[r]) = DummiesOf(s, b, h)
    <3> HIDE DEF t, s, b, h, f, n, g, w
    <3>1. w = IF t = 0 THEN Append(s, e) ELSE s
      BY DEF w
    <3> QED
      BY <1>1, <1>2, <2>1, <2>2, <2>3, <3>1, RankLaunch
  <2> HIDE DEF w
  <2>5. /\ \A q \in Ranks \ {r} : inbox'[q] = inbox[q]
        /\ inbox'[r] = Tail(b)
    BY <1>2, <2>1
  <2> QED
    BY <2>1, <2>2, <2>4, <2>5, OneRank
<1>4. CASE ClaimSeen(r) /\ host[r].layer < NumLayers
  <2>1. /\ UNCHANGED <<finished, issued, stage, stream, inbox>> /\ h.phase = "claim"
        /\ \A q \in Ranks \ {r} : host'[q] = host[q]
        /\ host'[r].pass = h.pass /\ host'[r].phase = h.phase
    BY <1>2, <1>4 DEF ClaimSeen, HostState
  <2>2. /\ RankOK(t, s, b, host'[r], f, n, g)
        /\ DummiesOf(s, b, host'[r]) = DummiesOf(s, b, h)
    <3>1. IsBusy(host'[r]) = IsBusy(h) /\ (h.phase = "signal" <=> host'[r].phase = "signal")
          /\ (h.phase = "idle" => host'[r].phase = "idle")
      BY <2>1 DEF IsBusy
    <3> HIDE DEF t, s, b, h, f, n, g
    <3> QED
      BY <1>1, <1>2, <2>1, <3>1, RankHost
  <2> QED
    BY <2>1, <2>2, OneRank
<1>5. CASE ClaimSeen(r) /\ ~(host[r].layer < NumLayers)
  <2>1. /\ UNCHANGED <<finished, issued, stage, inbox>> /\ h.phase = "claim"
        /\ \A q \in Ranks \ {r} : host'[q] = host[q] /\ stream'[q] = stream[q]
        /\ host'[r].phase = "idle" /\ stream'[r] = s \o Forward(h.pass)
    BY <1>2, <1>5 DEF ClaimSeen, HostState
  <2>2. /\ RankOK(t, s \o Forward(h.pass), b, host'[r], f, n, g)
        /\ DummiesOf(s \o Forward(h.pass), b, host'[r]) = DummiesOf(s, b, h)
    <3>1. h.pass \in 1 .. MaxPasses
      BY <1>1, <2>1 DEF IsBusy
    <3> HIDE DEF t, s, b, h, f, n, g
    <3> QED
      BY <1>1, <1>2, <2>1, <3>1, RankClaimed
  <2> QED
    BY <2>1, <2>2, OneRank
<1>6. CASE ClaimTimeout(r)
  <2>1. /\ UNCHANGED <<finished, issued, stage, stream, inbox>> /\ h.phase = "claim"
        /\ \A q \in Ranks \ {r} : host'[q] = host[q]
        /\ host'[r].pass = h.pass /\ host'[r].phase = "timeout"
    BY <1>2, <1>6 DEF ClaimTimeout, HostState
  <2>2. /\ RankOK(t, s, b, host'[r], f, n, g)
        /\ DummiesOf(s, b, host'[r]) = DummiesOf(s, b, h)
    <3>1. IsBusy(host'[r]) = IsBusy(h) /\ (h.phase = "signal" <=> host'[r].phase = "signal")
          /\ (h.phase = "idle" => host'[r].phase = "idle")
      BY <2>1 DEF IsBusy
    <3> HIDE DEF t, s, b, h, f, n, g
    <3> QED
      BY <1>1, <1>2, <2>1, <3>1, RankHost
  <2> QED
    BY <2>1, <2>2, OneRank
<1>7. CASE DummyStart(r)
  <2>1. /\ UNCHANGED <<finished, issued, stage, stream>>
        /\ h.phase = "idle" /\ b # <<>> /\ b[1] <= 0
        /\ \A q \in Ranks \ {r} : host'[q] = host[q] /\ inbox'[q] = inbox[q]
        /\ host'[r].pass = b[1] /\ host'[r].phase = "signal" /\ inbox'[r] = Tail(b)
    BY <1>2, <1>7 DEF DummyStart
  <2>2. /\ RankOK(t, s, Tail(b), host'[r], f, n, g)
        /\ DummiesOf(s, Tail(b), host'[r]) = DummiesOf(s, b, h)
    <3> HIDE DEF t, s, b, h, f, n, g
    <3> QED
      BY <1>1, <1>2, <2>1, RankDummyStart
  <2> QED
    BY <2>1, <2>2, OneRank
<1>8. CASE SignalDummy(r) /\ host[r].layer < NumLayers
  <2>1. /\ UNCHANGED <<finished, issued, stage, stream, inbox>> /\ h.phase = "signal"
        /\ \A q \in Ranks \ {r} : host'[q] = host[q]
        /\ host'[r].pass = h.pass /\ host'[r].phase = h.phase
    BY <1>2, <1>8 DEF SignalDummy, HostState
  <2>2. /\ RankOK(t, s, b, host'[r], f, n, g)
        /\ DummiesOf(s, b, host'[r]) = DummiesOf(s, b, h)
    <3>1. IsBusy(host'[r]) = IsBusy(h) /\ (h.phase = "signal" <=> host'[r].phase = "signal")
          /\ (h.phase = "idle" => host'[r].phase = "idle")
      BY <2>1 DEF IsBusy
    <3> HIDE DEF t, s, b, h, f, n, g
    <3> QED
      BY <1>1, <1>2, <2>1, <3>1, RankHost
  <2> QED
    BY <2>1, <2>2, OneRank
<1>9. CASE SignalDummy(r) /\ ~(host[r].layer < NumLayers)
  <2> DEFINE w == IF h.pass = Capture THEN s ELSE s \o Forward(Dummy)
  <2>1. /\ UNCHANGED <<finished, issued, stage, inbox>> /\ h.phase = "signal"
        /\ \A q \in Ranks \ {r} : host'[q] = host[q] /\ stream'[q] = stream[q]
        /\ host'[r].phase = "idle" /\ stream'[r] = w
    BY <1>2, <1>9 DEF SignalDummy, HostState
  <2>2. /\ RankOK(t, w, b, host'[r], f, n, g)
        /\ DummiesOf(w, b, host'[r]) = DummiesOf(s, b, h)
    <3> HIDE DEF t, s, b, h, f, n, g, w
    <3>1. w = IF h.pass = Capture THEN s ELSE s \o Forward(Dummy)
      BY DEF w
    <3> QED
      BY <1>1, <1>2, <2>1, <3>1, RankSignalled
  <2> HIDE DEF w
  <2> QED
    BY <2>1, <2>2, OneRank
<1> QED
  BY <1>3, <1>4, <1>5, <1>6, <1>7, <1>8, <1>9 DEF HostNext

\* A step of a model stream keeps the order of the launches.
LEMMA LaunchStream ==
    ASSUME TypeInv, LaunchInv, NEW r \in Ranks, StreamNext(r)
    PROVE  LaunchInv'
<1> USE DEF engineVars, hostVars, threadVars, streamVars, flagVars
<1> DEFINE t == r[2]
           s == stream[r]
           b == inbox[r]
           h == host[r]
           f == finished[r[1]]
           n == issued[r[1]]
           g == stage[r]
<1>1. /\ RankTypes(t, s, b, h, f, n) /\ RankOK(t, s, b, h, f, n, g) /\ h \in HostState
      /\ stream \in [Ranks -> Seq(Op)]
      /\ stage \in [Ranks -> {"wait", "copying", "copied", "release"}]
      /\ s # <<>> => Head(s) = s[1]
  BY RankOfState DEF TypeInv, StreamOK
<1>2. CASE PrepareInputs(r) \/ Release(r)
  <2>1. /\ UNCHANGED <<finished, issued, inbox, host>>
        /\ s # <<>> /\ s[1].op # "reduce"
        /\ stream' = [stream EXCEPT ![r] = Tail(s)]
        /\ PrepareInputs(r) => s[1].op = "prepare" /\ stage' = stage
        /\ Release(r) => stage' = [stage EXCEPT ![r] = "wait"]
    BY <1>1, <1>2 DEF PrepareInputs, Release, Advance, AtCopy
  <2>2. PrepareInputs(r) => stage[r] = "wait"
    BY <1>1, <2>1 DEF RankOK, OrderOf
  <2>3. /\ stage'[r] = "wait" /\ stream'[r] = Tail(s)
        /\ \A q \in Ranks \ {r} : stage'[q] = stage[q] /\ stream'[q] = stream[q]
    BY <1>1, <1>2, <2>1, <2>2
  <2>4. /\ RankOK(t, Tail(s), b, h, f, n, "wait")
        /\ DummiesOf(Tail(s), b, h) = DummiesOf(s, b, h)
    <3> HIDE DEF t, s, b, h, f, n, g
    <3> QED
      BY <1>1, <2>1, RankTail
  <2> QED
    BY <2>1, <2>3, <2>4, OneRank
<1>3. CASE CopyBegin(r) \/ CopyEnd(r) \/ ResetReady(r)
  <2>1. /\ UNCHANGED <<finished, issued, inbox, host, stream>> /\ s # <<>> /\ s[1].op = "copy"
        /\ \A q \in Ranks \ {r} : stage'[q] = stage[q]
    BY <1>1, <1>3 DEF CopyBegin, CopyEnd, ResetReady, AtCopy
  <2>2. RankOK(t, s, b, h, f, n, stage'[r])
    <3> HIDE DEF t, s, b, h, f, n, g
    <3> QED
      BY <1>1, <2>1, RankStage
  <2> QED
    BY <2>1, <2>2, OneRank
<1> QED
  BY <1>2, <1>3 DEF StreamNext

\* Issuing a pass keeps the order of the launches: all ranks of d get the same.
LEMMA LaunchEngine ==
    ASSUME TypeInv, LaunchInv, NEW d \in DPs,
           IssueBatch(d) \/ \E kind \in {Dummy, Capture} : IssueDummy(d, kind)
    PROVE  LaunchInv'
<1> USE DEF engineVars, hostVars, threadVars, streamVars, flagVars
<1>1. \A r \in Ranks : <<r[1], 0>> \in Ranks /\ r[1] \in DPs /\ r = <<r[1], r[2]>> /\ r[2] \in TPs
  BY RankFacts
<1>2. CASE IssueBatch(d)
  <2>1. /\ inbox' = [r \in Ranks |-> IF r[1] = d THEN Append(inbox[r], issued[d] + 1) ELSE inbox[r]]
        /\ UNCHANGED <<finished, host, stream, stage>> /\ Answered(d) /\ passes[d] < MaxPasses
        /\ issued' = [issued EXCEPT ![d] = issued[d] + 1]
    BY <1>2 DEF IssueBatch, Issue
  <2>2. issued[d] + 1 \in Batches /\ issued \in [DPs -> 0 .. MaxPasses]
    BY <2>1, RankFacts DEF TypeInv, EngineOK, Batches
  <2>3. ASSUME NEW r \in Ranks PROVE RankInv(r)' /\ Dummies(r)' = Dummies(r)
    <3>1. CASE r[1] # d
      <4>1. inbox'[r] = inbox[r] /\ issued'[r[1]] = issued[r[1]]
        BY <1>1, <2>1, <2>2, <3>1
      <4> QED
        BY <2>1, <4>1 DEF LaunchInv, RankInv, Dummies
    <3>2. CASE r[1] = d
      <4> DEFINE t == r[2]
                 s == stream[r]
                 b == inbox[r]
                 h == host[r]
                 f == finished[r[1]]
                 n == issued[r[1]]
                 g == stage[r]
      <4>1. RankTypes(t, s, b, h, f, n) /\ RankOK(t, s, b, h, f, n, g)
        BY RankOfState
      <4>2. (\A i \in DOMAIN b : b[i] > 0) /\ h.phase # "signal" /\ n + 1 \in Batches
        <5>1. r = <<d, r[2]>> /\ r[2] \in TPs
          BY <1>1, <3>2
        <5> QED
          BY <2>1, <2>2, <3>2, <5>1 DEF Answered
      <4>3. inbox'[r] = Append(b, n + 1) /\ issued'[r[1]] = n + 1
        BY <2>1, <2>2, <3>2
      <4>4. /\ RankOK(t, s, Append(b, n + 1), h, f, n + 1, g)
            /\ DummiesOf(s, Append(b, n + 1), h) = DummiesOf(s, b, h)
        <5> HIDE DEF t, s, b, h, f, n, g
        <5> QED
          BY <4>1, <4>2, RankIssueBatch
      <4> QED
        BY <2>1, <4>3, <4>4 DEF RankInv, Dummies
    <3> QED
      BY <3>1, <3>2
  <2> QED
    BY <1>1, <2>3 DEF LaunchInv
<1>3. CASE \E kind \in {Dummy, Capture} : IssueDummy(d, kind)
  <2>1. PICK kind \in {Dummy, Capture} : IssueDummy(d, kind)
    BY <1>3
  <2>2. /\ inbox' = [r \in Ranks |-> IF r[1] = d THEN Append(inbox[r], kind) ELSE inbox[r]]
        /\ UNCHANGED <<finished, host, stream, stage, issued>> /\ MayIssueDummy(d)
    BY <2>1 DEF IssueDummy, Issue
  <2>3. ASSUME NEW r \in Ranks
        PROVE  /\ RankInv(r)'
               /\ Dummies(r)' = Dummies(r) + IF r[1] = d /\ kind = Dummy THEN 1 ELSE 0
    <3>1. CASE r[1] # d
      <4>1. inbox'[r] = inbox[r]
        BY <2>2, <3>1
      <4>2. RankInv(r)' /\ Dummies(r)' = Dummies(r)
        BY <2>2, <4>1 DEF LaunchInv, RankInv, Dummies
      <4>3. Dummies(r) \in Nat
        <5>1. DummyEnds(stream[r]) \in Nat
          BY EndsType DEF TypeInv, StreamOK
        <5> QED
          BY <5>1 DEF Dummies, DummiesOf
      <4> QED
        BY <3>1, <4>2, <4>3
    <3>2. CASE r[1] = d
      <4> DEFINE t == r[2]
                 s == stream[r]
                 b == inbox[r]
                 h == host[r]
                 f == finished[r[1]]
                 n == issued[r[1]]
                 g == stage[r]
      <4>1. RankTypes(t, s, b, h, f, n) /\ RankOK(t, s, b, h, f, n, g)
        BY RankOfState
      <4>2. /\ \A i \in DOMAIN b : b[i] > 0
            /\ h.phase # "signal"
            /\ n = f
        <5>1. r = <<d, r[2]>> /\ r[2] \in TPs
          BY <1>1, <3>2
        <5> QED
          BY <2>2, <3>2, <5>1 DEF MayIssueDummy, Answered
      <4>3. inbox'[r] = Append(b, kind)
        BY <2>2, <3>2
      <4>4. /\ RankOK(t, s, Append(b, kind), h, f, n, g)
            /\ DummiesOf(s, Append(b, kind), h) = DummiesOf(s, b, h) + IF kind = Dummy THEN 1 ELSE 0
        <5> HIDE DEF t, s, b, h, f, n, g
        <5> QED
          BY <4>1, <4>2, RankIssueDummy
      <4> QED
        BY <2>2, <3>2, <4>3, <4>4 DEF RankInv, Dummies
    <3> QED
      BY <3>1, <3>2
  <2>4. ASSUME NEW r \in Ranks PROVE Dummies(r)' = Dummies(<<r[1], 0>>)'
    <3> DEFINE q == <<r[1], 0>>
    <3>1. q \in Ranks /\ q[1] = r[1]
      BY <1>1
    <3>2. Dummies(r) = Dummies(q)
      BY DEF LaunchInv
    <3> HIDE DEF q
    <3>3. Dummies(r)' = Dummies(q)'
      BY <2>3, <3>1, <3>2
    <3> QED
      BY <3>3 DEF q
  <2> QED
    BY <2>3, <2>4 DEF LaunchInv
<1> QED
  BY <1>2, <1>3

\* A rank with no dummy forward has only batches on its stream, and none coming.
LEMMA NoDummies ==
    ASSUME NEW t, NEW s, NEW b, NEW h, NEW f, NEW n, NEW g,
           RankTypes(t, s, b, h, f, n), RankOK(t, s, b, h, f, n, g)
    PROVE  /\ DummiesOf(s, b, h) = 0 <=> ~ComingOf(b, h) /\ \A i \in DOMAIN s : s[i].pass > 0
           /\ DummiesOf(s, b, h) \in Nat
<1>1. s \in Seq(Op) /\ EachOp(t, s, f, LaunchedOf(s, h, f))
  BY DEF RankTypes, RankOK, OrderOf
<1>2. DummyEnds(s) \in Nat /\ (DummyEnds(s) = 0 <=> \A i \in DOMAIN s : ~IsDummyEnd(s[i]))
  BY <1>1, EndsType
<1>3. (\A i \in DOMAIN s : ~IsDummyEnd(s[i])) <=> \A i \in DOMAIN s : s[i].pass > 0
  <2>1. \A i \in DOMAIN s : s[i].pass \in Nat
    BY <1>1, OpFacts
  <2>2. ASSUME NEW i \in DOMAIN s, ~(s[i].pass > 0) PROVE \E j \in DOMAIN s : IsDummyEnd(s[j])
    <3>1. s[i].pass = Dummy
      BY <2>1, <2>2 DEF Dummy
    <3> QED
      BY <1>1, <3>1 DEF EachOp
  <2>3. ASSUME NEW i \in DOMAIN s, IsDummyEnd(s[i]) PROVE ~(s[i].pass > 0)
    BY <2>3 DEF IsDummyEnd, Dummy
  <2> QED
    BY <2>2, <2>3
<1> QED
  BY <1>2, <1>3 DEF DummiesOf

\* While a batch is at the head of a stream the rank has no dummy forward: the engine
\* waits for the batches before it issues one.
LEMMA NothingDummyAfter ==
    ASSUME NEW t, NEW s, NEW b, NEW h, NEW f, NEW n, NEW g,
           RankTypes(t, s, b, h, f, n), RankOK(t, s, b, h, f, n, g), s # <<>>, s[1].pass > 0
    PROVE  DummiesOf(s, b, h) = 0 /\ n # f
<1>1. 1 \in DOMAIN s /\ DOMAIN s \subseteq Nat \ {0} /\ \A i \in DOMAIN s : s[i].pass \in Nat
  <2>1. DOMAIN s = 1 .. Len(s) /\ Len(s) \in Nat \ {0} /\ s \in Seq(Op)
    BY TailFacts DEF RankTypes
  <2>2. \A i \in DOMAIN s : s[i].pass \in Nat
    BY <2>1, OpFacts
  <2> QED
    BY <2>1, <2>2
<1>2. \A i \in DOMAIN s : s[i].pass > 0
  <2> SUFFICES ASSUME NEW i \in DOMAIN s PROVE s[i].pass > 0
    OBVIOUS
  <2>1. CASE i = 1
    BY <2>1
  <2>2. CASE 1 < i
    <3>1. s[i].pass >= s[1].pass
      BY <1>1, <2>2 DEF RankOK, OrderOf, Rising
    <3> QED
      BY <1>1, <3>1
  <2> QED
    BY <1>1, <2>1, <2>2
<1>3. s[1].pass > f /\ s[1].pass <= LaunchedOf(s, h, f)
  BY <1>1 DEF RankOK, OrderOf, EachOp
<1>4. LaunchedOf(s, h, f) \in Nat /\ LaunchedOf(s, h, f) <= n
  BY LaunchedType DEF RankOK
<1>5. n # f
  BY <1>1, <1>3, <1>4 DEF RankTypes
<1>6. ~ComingOf(b, h)
  <2>1. b # <<Dummy>>
    <3> SUFFICES ASSUME b = <<Dummy>> PROVE FALSE
      OBVIOUS
    <3>1. b # <<>> /\ b[1] <= 0
      BY DEF Dummy
    <3> QED
      BY <1>5, <3>1, InboxFacts
  <2>2. h.phase # "signal"
    BY <1>5, InboxFacts
  <2> QED
    BY <2>1, <2>2 DEF ComingOf
<1> QED
  BY <1>2, <1>5, <1>6, NoDummies

\* The ranks of d come to the same forward.
LEMMA HeadsAgree ==
    ASSUME TypeInv, LaunchInv, NEW q \in Ranks, NEW r \in Ranks, r[1] = q[1],
           stream[q] # <<>>, stream[q][1].pass > 0
    PROVE  /\ Dummies(r) = 0 /\ issued[r[1]] # finished[r[1]]
           /\ ~ComingOf(inbox[r], host[r])
           /\ \A i \in DOMAIN stream[r] : stream[r][i].pass > 0
<1>1. Dummies(q) = 0 /\ issued[q[1]] # finished[q[1]]
  BY RankOfState, NothingDummyAfter DEF Dummies
<1>2. Dummies(r) = Dummies(q)
  BY DEF LaunchInv
<1>3. DummiesOf(stream[r], inbox[r], host[r]) = 0
  BY <1>1, <1>2 DEF Dummies
<1>4. ~ComingOf(inbox[r], host[r]) /\ \A i \in DOMAIN stream[r] : stream[r][i].pass > 0
  BY <1>3, RankOfState, NoDummies
<1> QED
  BY <1>1, <1>2, <1>4

\* The end of a forward keeps the order of the launches.
LEMMA LaunchReduce ==
    ASSUME TypeInv, LaunchInv, NEW d \in DPs, AllReduce(d)
    PROVE  LaunchInv'
<1> USE DEF engineVars, hostVars, threadVars, streamVars, flagVars
<1>1. /\ \A r \in Ranks : <<r[1], 0>> \in Ranks /\ r[1] \in DPs /\ r = <<r[1], r[2]>> /\ r[2] \in TPs
      /\ <<d, 0>> \in Ranks
  BY RankFacts
<1> DEFINE o == stream[<<d, 0>>][1].pass
           e == IF o > 0 THEN o ELSE finished[d]
<1>2. \A r \in Ranks : r[1] = d => /\ stream[r] # <<>> /\ Head(stream[r]) = stream[r][1]
                                     /\ stream[r][1].op = "reduce" /\ stream[r][1].pass \in Nat
  <2> SUFFICES ASSUME NEW r \in Ranks, r[1] = d
               PROVE  /\ stream[r] # <<>> /\ Head(stream[r]) = stream[r][1]
                      /\ stream[r][1].op = "reduce" /\ stream[r][1].pass \in Nat
    OBVIOUS
  <2>1. stream[r] # <<>> /\ Head(stream[r]).op = "reduce"
    <3>1. r = <<d, r[2]>> /\ r[2] \in TPs
      BY <1>1
    <3> QED
      BY <3>1 DEF AllReduce
  <2>2. Head(stream[r]) = stream[r][1] /\ Head(stream[r]) \in Op
    BY <2>1, TailFacts DEF TypeInv, StreamOK
  <2> QED
    BY <2>1, <2>2, OpFacts
<1>3. \A r \in Ranks : r[1] = d => (stream[r][1].pass > 0 <=> o > 0)
  <2> DEFINE q == <<d, 0>>
  <2>1. q \in Ranks /\ q[1] = d /\ o = stream[q][1].pass
    BY <1>1
  <2> HIDE DEF q, o
  <2>2. \A r \in Ranks : r[1] = d => 1 \in DOMAIN stream[r]
    <3> SUFFICES ASSUME NEW r \in Ranks, r[1] = d PROVE 1 \in DOMAIN stream[r]
      OBVIOUS
    <3>1. Len(stream[r]) \in Nat \ {0} /\ DOMAIN stream[r] = 1 .. Len(stream[r])
      BY <1>2, TailFacts DEF TypeInv, StreamOK
    <3> QED
      BY <3>1
  <2> QED
    BY <1>2, <2>1, <2>2, HeadsAgree
<1>4. \A r \in Ranks : r[1] = d /\ stream[r][1].pass > 0 => stream[r][1].pass = finished[d] + 1
  BY RankOfState, <1>2 DEF RankOK, OrderOf, FirstOp
<1>5. finished \in [DPs -> 0 .. MaxPasses]
  BY DEF TypeInv, EngineOK
<1>6. /\ UNCHANGED <<issued, inbox, host, stage>> /\ finished'[d] = e
      /\ \A c \in DPs \ {d} : finished'[c] = finished[c]
      /\ \A r \in Ranks : stream'[r] = IF r[1] = d THEN Tail(stream[r]) ELSE stream[r]
  <2>1. /\ finished' = [finished EXCEPT ![d] = e]
        /\ UNCHANGED <<issued, inbox, host, stage>>
        /\ stream' = [r \in Ranks |-> IF r[1] = d THEN Tail(stream[r]) ELSE stream[r]]
    BY <1>1, <1>2 DEF AllReduce
  <2> QED
    BY <1>5, <2>1
<1>7. \A r \in Ranks : r[1] = d => e = IF stream[r][1].pass > 0 THEN stream[r][1].pass ELSE finished[d]
  BY <1>1, <1>3, <1>4
<1> HIDE DEF e, o
<1>8. ASSUME NEW r \in Ranks
      PROVE  /\ RankInv(r)' /\ Dummies(r)' \in Nat
             /\ Dummies(r) = Dummies(r)' + IF r[1] = d /\ ~(o > 0) THEN 1 ELSE 0
  <2>1. CASE r[1] # d
    <3>1. finished'[r[1]] = finished[r[1]] /\ stream'[r] = stream[r]
      BY <1>1, <1>6, <2>1
    <3>2. RankInv(r)' /\ Dummies(r)' = Dummies(r)
      BY <1>6, <3>1 DEF LaunchInv, RankInv, Dummies
    <3>3. Dummies(r) \in Nat
      BY RankOfState, NoDummies DEF Dummies
    <3> QED
      BY <2>1, <3>2, <3>3
  <2>2. CASE r[1] = d
    <3> DEFINE t == r[2]
               s == stream[r]
               b == inbox[r]
               h == host[r]
               f == finished[r[1]]
               n == issued[r[1]]
               g == stage[r]
    <3>1. RankTypes(t, s, b, h, f, n) /\ RankOK(t, s, b, h, f, n, g)
      BY RankOfState
    <3>2. s # <<>> /\ s[1].op = "reduce" /\ e = IF s[1].pass > 0 THEN s[1].pass ELSE f
      BY <1>2, <1>7, <2>2
    <3>3. stream'[r] = Tail(s) /\ finished'[r[1]] = e /\ (s[1].pass > 0 <=> o > 0)
      BY <1>3, <1>6, <2>2
    <3>4. /\ RankOK(t, Tail(s), b, h, e, n, g) /\ DummiesOf(Tail(s), b, h) \in Nat
          /\ DummiesOf(s, b, h) = DummiesOf(Tail(s), b, h) + IF s[1].pass > 0 THEN 0 ELSE 1
      <4> HIDE DEF t, s, b, h, f, n, g
      <4> QED
        BY <3>1, <3>2, RankReduce
    <3> QED
      BY <1>6, <2>2, <3>3, <3>4 DEF RankInv, Dummies
  <2> QED
    BY <2>1, <2>2
<1>9. ASSUME NEW r \in Ranks PROVE Dummies(r)' = Dummies(<<r[1], 0>>)'
  <2> DEFINE q == <<r[1], 0>>
  <2>1. q \in Ranks /\ q[1] = r[1]
    BY <1>1
  <2>2. Dummies(r) = Dummies(q)
    BY DEF LaunchInv
  <2> HIDE DEF q
  <2>3. Dummies(r)' = Dummies(q)'
    BY <1>8, <2>1, <2>2
  <2> QED
    BY <2>3 DEF q
<1> QED
  BY <1>8, <1>9 DEF LaunchInv

\* Every step keeps the order of the launches.
LEMMA LaunchStep == TypeInv /\ LaunchInv /\ [Next]_vars => LaunchInv'
<1> SUFFICES ASSUME TypeInv, LaunchInv, [Next]_vars PROVE LaunchInv'
  OBVIOUS
<1> USE DEF engineVars, hostVars, threadVars, streamVars, flagVars
<1>1. TypeInv'
  BY TypeStep
<1>2. CASE UNCHANGED vars
  BY <1>2, LaunchKeep DEF vars
<1>3. ASSUME NEW d \in DPs, ThreadNext(d) PROVE LaunchInv'
  BY <1>3, LaunchKeep DEF ThreadNext, ThreadGet, ThreadWaitEvent, ThreadStageBegin, ThreadStageEnd,
                         ThreadSend
<1>4. ASSUME WorkerNext PROVE LaunchInv'
  BY <1>4, LaunchKeep DEF WorkerNext, WorkerReceive, WorkerClaim, WorkerResetReady,
        WorkerResetConsumed, WorkerComputeBegin, WorkerComputeEnd, WorkerFanOut, WorkerPublish
<1> QED
  BY <1>1, <1>2, <1>3, <1>4, LaunchEngine, LaunchHost, LaunchStream, LaunchReduce DEF Next, Stopped
-----------------------------------------------------------------------------

\* The last batch sent to the worker.
SentOf(q, bt) == IF q # <<>> THEN q[1] ELSE bt
\* The last batch the request thread took from the queue.
HeldOf(q, bt, th) == IF th.phase # "get" THEN th.pass ELSE SentOf(q, bt)
\* The last batch put into the queue.
AskedOf(q, bt, th, qu) == IF qu # 0 THEN qu ELSE HeldOf(q, bt, th)

\* The requests of a d.  The next batch to finish is p; a batch is asked for, taken by
\* the request thread, staged, sent and received in that order, one at a time, and a
\* request that was sent or received is for p, with the inputs of p in the runner's and
\* in the shared buffer.
RequestedOf(f, q, bt, busy, th, qu, la, full, ev, inp, st, prep) ==
    LET p == f + 1
    IN  /\ q # <<>> => q = <<p>> /\ bt = f
        /\ bt \in {f, p}
        /\ bt = f => ~busy
        /\ th.phase # "get" => th.pass = SentOf(q, bt) + 1
        /\ qu # 0 => qu = HeldOf(q, bt, th) + 1
        /\ la = AskedOf(q, bt, th, qu) + IF full THEN 1 ELSE 0
        /\ ev = la
        /\ th.phase = "wait" => th.seen >= th.pass
        /\ th.phase \in {"staging", "send"} => th.pass = p /\ inp = p
        /\ th.phase = "staging" => th.seen = p
        /\ th.phase = "send" => st = p
        /\ inp = IF prep THEN p ELSE f
        /\ SentOf(q, bt) = p => st = p /\ inp = p

\* The worker has still to serve layer l of d.
InWork(d, l) == \E i \in DOMAIN worker.work : worker.work[i].dp = d /\ worker.work[i].layer = l
\* The worker is at a request of d.
HasWork(d) == \E l \in Layers : InWork(d, l)

\* The inputs of the next batch to finish are in the runner's buffer.
PreparedOf(la, s, f) == la > f /\ \A i \in DOMAIN s : s[i].layer = 0 => s[i].pass # f + 1
\* The inputs of the next batch of d to finish are in its buffer.
Prepared(d) == PreparedOf(Launched(<<d, 0>>), stream[<<d, 0>>], finished[d])

\* The requests of d in this state; no dummy forward is on a stream whose next batch has
\* its inputs.
Requested(d) ==
    /\ RequestedOf(finished[d], requests[d], worker.batch[d], HasWork(d), thread[d], queue[d],
                   Launched(<<d, 0>>), host[<<d, 0>>].phase = "full", event[d], inputs[d],
                   staged[d], Prepared(d))
    /\ Prepared(d) => \A i \in DOMAIN stream[<<d, 0>>] : stream[<<d, 0>>][i].pass > 0

\* Rank r has the result of the batch at hand for layer l.
Published(r, l) ==
    /\ worker.batch[r[1]] = finished[r[1]] + 1
    /\ InWork(r[1], l) => /\ worker.step = "publish" /\ Current.dp = r[1] /\ Current.layer = l
                          /\ r[2] < worker.at

\* A batch is at the head of the stream.
GoingOf(s) == s # <<>> /\ s[1].pass > 0
\* The batch at the head has the output of layer l behind it.
ThroughOf(s, g, l) == GoingOf(s) /\ (s[1].layer > l \/ (s[1].layer = l /\ g = "release"))
\* The batch at the head is at the copy of layer l, in one of the states S.
CopyingOf(s, g, l, S) == GoingOf(s) /\ s[1].layer = l /\ g \in S
\* A dummy forward at the head is at the copy of layer l.
DummyCopyingOf(s, g, l) ==
    s # <<>> /\ s[1].pass = Dummy /\ s[1].layer = l /\ g \in {"copying", "copied"}
\* The launch of a batch on the stream saw the output of layer l claimed by the worker.
SawOf(s, h, l) ==
    \/ \E i \in DOMAIN s : s[i].pass > 0 /\ s[i].layer > 0
    \/ h.phase = "claim" /\ h.layer > l

\* One output: its flags rd and cs, what it holds on the host (o) and on the device (v),
\* the last batch taken from it (tk), the last batch finished (f), and whether the
\* worker published it for the batch at hand (pub).  A raised flag means the result of
\* the batch at hand, or the placeholder that a dummy forward armed; the stream copies
\* the one for a batch, the other for a dummy forward.
BoxOf(rd, cs, o, v, tk, f, pub, s, g, h, l) ==
    LET p == f + 1
    IN  /\ rd = 1 /\ (SawOf(s, h, l) \/ cs = 0) => pub
        /\ pub => o = p
        /\ ThroughOf(s, g, l) => pub /\ rd = 0 /\ v = p
        /\ CopyingOf(s, g, l, {"copying", "copied"}) => pub /\ v = p
        /\ pub /\ ~ThroughOf(s, g, l) => rd = 1
        /\ tk = IF ThroughOf(s, g, l) \/ CopyingOf(s, g, l, {"copied"}) THEN p ELSE f
        /\ rd = 1 /\ ~pub => o = Dummy
        /\ DummyCopyingOf(s, g, l) => rd = 1 /\ v = Dummy

\* The output of layer l of rank r in this state.
Box(r, l) ==
    BoxOf(ready[r][l], consumed[r][l], output[r][l], gpu[r][l], taken[r][l], finished[r[1]],
          Published(r, l), stream[r], stage[r], host[r], l)

\* The worker's own place: it serves each layer of each d once, the flags of the output
\* it has claimed are low while it writes there, and the result it fans out is the one
\* of the batch after the last finished.
WorkerInv ==
    LET d == Current.dp
        l == Current.layer
        lowered == {t \in TPs : ready[<<d, t>>][l] = 0}
    IN  /\ \A i, j \in DOMAIN worker.work : worker.work[i] = worker.work[j] => i = j
        /\ worker.step \notin {"reset", "take", "publish", "poll"} => worker.at = 0
        /\ worker.step = "reset" => \A t \in TPs : t < worker.at => t \in lowered
        /\ worker.step = "take" => \A t \in TPs : t <= worker.at => t \in lowered
        /\ worker.step \in {"compute", "computing", "fan"} => \A t \in TPs : t \in lowered
        /\ worker.step = "computing" => worker.seen = finished[d] + 1
        /\ worker.step = "fan" => output[<<d, 0>>][l] = finished[d] + 1
        /\ worker.step = "publish" =>
              \A t \in TPs : /\ output[<<d, t>>][l] = finished[d] + 1
                             /\ t >= worker.at => t \in lowered

\* The exchange: every d has at most one request at hand, every output is in one of the
\* states of BoxOf, and the worker writes only where the flags let it.
ExchangeInv ==
    /\ \A d \in DPs : Requested(d)
    /\ \A r \in Ranks : \A l \in Layers : Box(r, l)
    /\ WorkerInv
-----------------------------------------------------------------------------
\* While a batch is unfinished no dummy forward is coming.
LEMMA NotComing ==
    ASSUME NEW t, NEW s, NEW b, NEW h, NEW f, NEW n, NEW g,
           RankTypes(t, s, b, h, f, n), RankOK(t, s, b, h, f, n, g), n # f
    PROVE  ~ComingOf(b, h) /\ h.phase # "signal"
<1>1. b # <<Dummy>>
  <2> SUFFICES ASSUME b = <<Dummy>> PROVE FALSE
    OBVIOUS
  <2>1. b # <<>> /\ b[1] <= 0
    BY DEF Dummy
  <2> QED
    BY <2>1, InboxFacts
<1>2. h.phase # "signal"
  BY InboxFacts
<1> QED
  BY <1>1, <1>2 DEF ComingOf

\* What a request says of the batches, in numbers.
LEMMA RequestFacts ==
    ASSUME NEW f \in Nat, NEW q, NEW bt, NEW busy, NEW th, NEW qu \in Nat, NEW la \in Nat,
           NEW full \in BOOLEAN, NEW ev, NEW inp, NEW st, NEW prep \in BOOLEAN,
           RequestedOf(f, q, bt, busy, th, qu, la, full, ev, inp, st, prep)
    PROVE  /\ bt \in {f, f + 1} /\ SentOf(q, bt) \in {f, f + 1}
           /\ SentOf(q, bt) = f => q = <<>> /\ bt = f
           /\ bt = f + 1 => q = <<>> /\ SentOf(q, bt) = f + 1
           /\ HeldOf(q, bt, th) >= SentOf(q, bt) /\ HeldOf(q, bt, th) \in Nat
           /\ th.phase # "get" => th.pass = SentOf(q, bt) + 1 /\ HeldOf(q, bt, th) = th.pass
           /\ AskedOf(q, bt, th, qu) >= HeldOf(q, bt, th) /\ AskedOf(q, bt, th, qu) \in Nat
           /\ la >= AskedOf(q, bt, th, qu)
           /\ SentOf(q, bt) = f + 1 => prep /\ st = f + 1 /\ inp = f + 1
<1> USE DEF RequestedOf
<1>1. bt \in {f, f + 1}
  OBVIOUS
<1>2. q # <<>> => q[1] = f + 1 /\ bt = f
  <2>1. q # <<>> => q = <<f + 1>> /\ bt = f
    OBVIOUS
  <2> QED
    BY <2>1
<1>3. /\ SentOf(q, bt) \in {f, f + 1}
      /\ SentOf(q, bt) = f => q = <<>> /\ bt = f
      /\ bt = f + 1 => q = <<>> /\ SentOf(q, bt) = f + 1
  BY <1>1, <1>2 DEF SentOf
<1> DEFINE x == SentOf(q, bt)
<1>4. th.phase # "get" => th.pass = x + 1
  OBVIOUS
<1> HIDE DEF x
<1>5. /\ HeldOf(q, bt, th) >= x /\ HeldOf(q, bt, th) \in Nat
      /\ th.phase # "get" => HeldOf(q, bt, th) = th.pass
  BY <1>3, <1>4 DEF HeldOf, x
<1> DEFINE y == HeldOf(q, bt, th)
<1>6. qu # 0 => qu = y + 1
  OBVIOUS
<1> HIDE DEF y
<1>7. AskedOf(q, bt, th, qu) >= y /\ AskedOf(q, bt, th, qu) \in Nat
  BY <1>5, <1>6 DEF AskedOf, y
<1>8. la >= AskedOf(q, bt, th, qu)
  BY <1>7
<1>9. x = f + 1 => prep /\ st = f + 1 /\ inp = f + 1
  <2>1. x = f + 1 => st = f + 1 /\ inp = f + 1
    BY DEF x
  <2>2. inp = IF prep THEN f + 1 ELSE f
    OBVIOUS
  <2> QED
    BY <2>1, <2>2
<1> QED
  BY <1>1, <1>3, <1>4, <1>5, <1>7, <1>8, <1>9 DEF x, y

\* The parts of the state that a request and its batch relate.
LEMMA RequestTypes ==
    ASSUME TypeInv, LaunchInv, NEW d \in DPs
    PROVE  /\ finished[d] \in Nat /\ issued[d] \in Nat /\ queue[d] \in Nat /\ event[d] \in Nat
           /\ inputs[d] \in Nat /\ thread[d] \in ThreadState /\ thread[d].pass \in Nat
           /\ thread[d].seen \in Nat /\ worker.batch[d] \in Nat
           /\ Launched(<<d, 0>>) \in Nat /\ Launched(<<d, 0>>) <= issued[d]
           /\ <<d, 0>> \in Ranks /\ finished[d] <= Launched(<<d, 0>>)
           /\ Prepared(d) \in BOOLEAN
<1> DEFINE r == <<d, 0>>
<1>1. r \in Ranks /\ r[1] = d
  BY RankFacts
<1>2. /\ finished[d] \in 0 .. MaxPasses /\ queue[d] \in 0 .. MaxPasses /\ event[d] \in 0 .. MaxPasses
      /\ inputs[d] \in 0 .. MaxPasses /\ thread[d] \in ThreadState
      /\ worker.batch[d] \in 0 .. MaxPasses /\ issued[d] \in 0 .. MaxPasses
  BY DEF TypeInv, EngineOK, ThreadOK, InputsOK, WorkerOK, WorkerState
<1>3. thread[d].pass \in Nat /\ thread[d].seen \in Nat
  BY <1>2 DEF ThreadState
<1> HIDE DEF r
<1>4. /\ LaunchedOf(stream[r], host[r], finished[r[1]]) \in Nat
      /\ LaunchedOf(stream[r], host[r], finished[r[1]]) <= issued[r[1]]
      /\ finished[r[1]] <= LaunchedOf(stream[r], host[r], finished[r[1]])
  BY <1>1, RankOfState, LaunchedType DEF RankOK
<1>5. Prepared(d) \in BOOLEAN
  BY DEF Prepared, PreparedOf
<1> QED
  BY <1>1, <1>2, <1>3, <1>4, <1>5 DEF Launched, r

\* The numbers of a request, from the invariants: the batch the worker is at, the one
\* sent, the one held and the one asked for.
LEMMA RequestState ==
    ASSUME TypeInv, LaunchInv, ExchangeInv, NEW d \in DPs,
           NEW sent, sent = SentOf(requests[d], worker.batch[d]),
           NEW held, held = HeldOf(requests[d], worker.batch[d], thread[d]),
           NEW asked, asked = AskedOf(requests[d], worker.batch[d], thread[d], queue[d])
    PROVE  /\ worker.batch[d] \in {finished[d], finished[d] + 1}
           /\ sent \in {finished[d], finished[d] + 1}
           /\ sent = finished[d] => requests[d] = <<>> /\ worker.batch[d] = finished[d]
           /\ worker.batch[d] = finished[d] + 1 => requests[d] = <<>> /\ sent = finished[d] + 1
           /\ held >= sent /\ held \in Nat
           /\ thread[d].phase # "get" => thread[d].pass = sent + 1 /\ held = thread[d].pass
           /\ asked >= held /\ asked \in Nat /\ Launched(<<d, 0>>) >= asked
           /\ sent = finished[d] + 1 => /\ Prepared(d) /\ staged[d] = finished[d] + 1
                                         /\ inputs[d] = finished[d] + 1
<1> DEFINE full == host[<<d, 0>>].phase = "full"
           la == Launched(<<d, 0>>)
           busy == HasWork(d)
           prep == Prepared(d)
           f == finished[d]
           bt == worker.batch[d]
           q == requests[d]
           th == thread[d]
           qu == queue[d]
           ev == event[d]
           inp == inputs[d]
           st == staged[d]
<1>1. RequestedOf(f, q, bt, busy, th, qu, la, full, ev, inp, st, prep)
  BY DEF ExchangeInv, Requested
<1>2. f \in Nat /\ qu \in Nat /\ la \in Nat /\ full \in BOOLEAN /\ prep \in BOOLEAN
  BY RequestTypes
<1> SUFFICES
      /\ bt \in {f, f + 1} /\ sent \in {f, f + 1}
      /\ sent = f => q = <<>> /\ bt = f
      /\ bt = f + 1 => q = <<>> /\ sent = f + 1
      /\ held >= sent /\ held \in Nat
      /\ th.phase # "get" => th.pass = sent + 1 /\ held = th.pass
      /\ asked >= held /\ asked \in Nat /\ la >= asked
      /\ sent = f + 1 => prep /\ st = f + 1 /\ inp = f + 1
  OBVIOUS
<1>3. /\ sent = SentOf(q, bt) /\ held = HeldOf(q, bt, th) /\ asked = AskedOf(q, bt, th, qu)
  OBVIOUS
<1> HIDE DEF full, la, busy, prep, f, bt, q, th, qu, ev, inp, st
<1>4. /\ bt \in {f, f + 1} /\ SentOf(q, bt) \in {f, f + 1}
      /\ SentOf(q, bt) = f => q = <<>> /\ bt = f
      /\ bt = f + 1 => q = <<>> /\ SentOf(q, bt) = f + 1
      /\ HeldOf(q, bt, th) >= SentOf(q, bt) /\ HeldOf(q, bt, th) \in Nat
      /\ th.phase # "get" => th.pass = SentOf(q, bt) + 1 /\ HeldOf(q, bt, th) = th.pass
      /\ AskedOf(q, bt, th, qu) >= HeldOf(q, bt, th) /\ AskedOf(q, bt, th, qu) \in Nat
      /\ la >= AskedOf(q, bt, th, qu)
      /\ SentOf(q, bt) = f + 1 => prep /\ st = f + 1 /\ inp = f + 1
  BY <1>1, <1>2, RequestFacts
<1> QED
  BY <1>3, <1>4

\* While the worker has a batch at hand no rank of d has a dummy forward.
LEMMA AtHand ==
    ASSUME TypeInv, LaunchInv, ExchangeInv, NEW d \in DPs
    PROVE  /\ worker.batch[d] \in {finished[d], finished[d] + 1}
           /\ HasWork(d) => worker.batch[d] = finished[d] + 1
           /\ worker.batch[d] = finished[d] + 1 =>
                 /\ requests[d] = <<>> /\ Prepared(d) /\ staged[d] = finished[d] + 1
                 /\ inputs[d] = finished[d] + 1 /\ issued[d] # finished[d]
                 /\ \A r \in Ranks : r[1] = d =>
                       /\ \A i \in DOMAIN stream[r] : stream[r][i].pass > 0
                       /\ host[r].phase # "signal"
<1>1. /\ RequestedOf(finished[d], requests[d], worker.batch[d], HasWork(d), thread[d], queue[d],
                     Launched(<<d, 0>>), host[<<d, 0>>].phase = "full", event[d], inputs[d],
                     staged[d], Prepared(d))
      /\ Prepared(d) => \A i \in DOMAIN stream[<<d, 0>>] : stream[<<d, 0>>][i].pass > 0
  BY DEF ExchangeInv, Requested
<1>2. /\ worker.batch[d] \in {finished[d], finished[d] + 1}
      /\ HasWork(d) => worker.batch[d] = finished[d] + 1
  BY <1>1, RequestTypes DEF RequestedOf
<1>3. ASSUME worker.batch[d] = finished[d] + 1
      PROVE  /\ requests[d] = <<>> /\ Prepared(d) /\ staged[d] = finished[d] + 1
             /\ inputs[d] = finished[d] + 1
  BY <1>3, RequestState
<1>4. ASSUME worker.batch[d] = finished[d] + 1, NEW r \in Ranks, r[1] = d
      PROVE  /\ issued[d] # finished[d] /\ host[r].phase # "signal"
             /\ \A i \in DOMAIN stream[r] : stream[r][i].pass > 0
  <2> DEFINE q == <<d, 0>>
  <2>1. q \in Ranks /\ q[1] = d
    BY RankFacts
  <2>2. issued[d] # finished[d] /\ \A i \in DOMAIN stream[q] : stream[q][i].pass > 0
    <3>1. Prepared(d) /\ \A i \in DOMAIN stream[q] : stream[q][i].pass > 0
      BY <1>1, <1>3, <1>4
    <3>2. Launched(q) > finished[d]
      BY <3>1 DEF Prepared, PreparedOf
    <3>3. Launched(q) <= issued[d] /\ Launched(q) \in Nat /\ issued[d] \in Nat /\ finished[d] \in Nat
      BY RequestTypes
    <3> QED
      BY <3>1, <3>2, <3>3
  <2> HIDE DEF q
  <2>3. ~ComingOf(inbox[q], host[q]) /\ ~ComingOf(inbox[r], host[r]) /\ host[r].phase # "signal"
    BY <1>4, <2>1, <2>2, RankOfState, NotComing
  <2>4. DummiesOf(stream[q], inbox[q], host[q]) = 0
    BY <2>1, <2>2, <2>3, RankOfState, NoDummies
  <2>5. Dummies(r) = Dummies(<<r[1], 0>>) /\ <<r[1], 0>> = q
    BY <1>4 DEF LaunchInv, q
  <2>6. DummiesOf(stream[r], inbox[r], host[r]) = 0
    BY <2>4, <2>5 DEF Dummies
  <2> QED
    BY <2>2, <2>3, <2>6, RankOfState, NoDummies
<1>5. worker.batch[d] = finished[d] + 1 => issued[d] # finished[d]
  <2>1. <<d, 0>> \in Ranks /\ <<d, 0>>[1] = d
    BY RankFacts
  <2> QED
    BY <1>4, <2>1
<1> QED
  BY <1>2, <1>3, <1>4, <1>5

\* When everything issued is finished, nothing of d is at hand anywhere.
LEMMA AtRest ==
    ASSUME TypeInv, LaunchInv, ExchangeInv, NEW r \in Ranks, issued[r[1]] = finished[r[1]]
    PROVE  /\ worker.batch[r[1]] = finished[r[1]] /\ ~HasWork(r[1])
           /\ requests[r[1]] = <<>> /\ ~Prepared(r[1])
           /\ \A l \in Layers : ~Published(r, l)
           /\ Launched(r) = finished[r[1]] /\ ~IsBusy(host[r])
           /\ \A i \in DOMAIN stream[r] : ~(stream[r][i].pass > 0)
<1> DEFINE d == r[1]
           f == finished[d]
<1>1. r[1] \in DPs
  BY RankFacts
<1>2. worker.batch[d] = f /\ ~HasWork(d)
  BY <1>1, AtHand, RequestTypes
<1>3. Launched(r) = f /\ ~IsBusy(host[r])
  BY RankOfState, InboxFacts DEF Launched
<1>4. ~Prepared(d) /\ Launched(<<d, 0>>) = f
  BY <1>1, RequestTypes DEF Prepared, PreparedOf
<1>5. requests[d] = <<>>
  <2> DEFINE sent == SentOf(requests[d], worker.batch[d])
             held == HeldOf(requests[d], worker.batch[d], thread[d])
             asked == AskedOf(requests[d], worker.batch[d], thread[d], queue[d])
  <2>1. /\ sent \in {f, f + 1} /\ held >= sent /\ asked >= held /\ f >= asked
        /\ held \in Nat /\ asked \in Nat /\ f \in Nat
        /\ sent = f => requests[d] = <<>>
    BY <1>1, <1>4, RequestState, RequestTypes
  <2> HIDE DEF f, sent, held, asked
  <2> QED
    BY <2>1
<1>6. \A i \in DOMAIN stream[r] : ~(stream[r][i].pass > 0)
  <2> SUFFICES ASSUME NEW i \in DOMAIN stream[r], stream[r][i].pass > 0 PROVE FALSE
    OBVIOUS
  <2>1. EachOp(r[2], stream[r], f, Launched(r))
    BY RankOfState DEF RankOK, OrderOf, Launched
  <2>2. stream[r][i].pass > f /\ stream[r][i].pass <= f
    BY <1>3, <2>1 DEF EachOp
  <2>3. stream[r][i].pass \in Nat
    BY OpFacts DEF TypeInv, StreamOK
  <2>4. f \in Nat
    BY <1>1, RequestTypes
  <2> HIDE DEF f
  <2> QED
    BY <2>2, <2>3, <2>4
<1>7. \A l \in Layers : ~Published(r, l)
  <2>1. f \in Nat
    BY <1>1, RequestTypes
  <2>2. \A n \in Nat : n # n + 1
    OBVIOUS
  <2>3. f # f + 1
    BY <2>1, <2>2
  <2> QED
    BY <1>2, <2>3 DEF Published
<1> QED
  BY <1>2, <1>3, <1>4, <1>5, <1>6, <1>7
-----------------------------------------------------------------------------
\* What the box of layer l sees of a model stream is the same after a step.
ViewKept(s, g, w, k, l) ==
    /\ ThroughOf(w, k, l) <=> ThroughOf(s, g, l)
    /\ CopyingOf(w, k, l, {"copied"}) <=> CopyingOf(s, g, l, {"copied"})
    /\ CopyingOf(w, k, l, {"copying", "copied"}) <=> CopyingOf(s, g, l, {"copying", "copied"})
    /\ DummyCopyingOf(w, k, l) => DummyCopyingOf(s, g, l)

\* The head of the stream shows nothing of layer l.
Quiescent(s, g, l) ==
    /\ ~ThroughOf(s, g, l) /\ ~CopyingOf(s, g, l, {"copied"})
    /\ ~CopyingOf(s, g, l, {"copying", "copied"}) /\ ~DummyCopyingOf(s, g, l)

\* A stream that does not move.
LEMMA ViewSame ==
    ASSUME NEW s, NEW g, NEW l
    PROVE  ViewKept(s, g, s, g, l)
BY DEF ViewKept

\* An output nobody touches, on a stream that shows it the same.
LEMMA BoxKeep ==
    ASSUME NEW r \in Ranks, NEW l \in Layers, Box(r, l),
           ready'[r][l] = ready[r][l], consumed'[r][l] = consumed[r][l],
           output'[r][l] = output[r][l], gpu'[r][l] = gpu[r][l], taken'[r][l] = taken[r][l],
           finished'[r[1]] = finished[r[1]], Published(r, l)' <=> Published(r, l),
           ViewKept(stream[r], stage[r], stream'[r], stage'[r], l),
           SawOf(stream'[r], host'[r], l) => SawOf(stream[r], host[r], l) \/ consumed[r][l] = 0
    PROVE  Box(r, l)'
BY DEF Box, BoxOf, ViewKept

\* The head of a stream.
LEMMA StreamHead ==
    ASSUME NEW s \in Seq(Op), s # <<>>
    PROVE  /\ Head(s) = s[1] /\ 1 \in DOMAIN s /\ s[1] \in Op
           /\ s[1].pass \in Nat /\ s[1].layer \in Nat /\ Len(s) \in Nat \ {0}
           /\ DOMAIN s = 1 .. Len(s)
<1>1. Head(s) = s[1] /\ s[1] \in Op /\ Len(s) \in Nat \ {0} /\ DOMAIN s = 1 .. Len(s)
  BY TailFacts
<1>2. 1 \in DOMAIN s
  BY <1>1
<1> QED
  BY <1>1, <1>2, OpFacts

\* A stream that is before its first copy shows nothing.
LEMMA ViewQuiet ==
    ASSUME NEW s \in Seq(Op), NEW g, NEW l \in Layers,
           s # <<>> => s[1].layer <= 1, g = "wait"
    PROVE  Quiescent(s, g, l)
<1>1. l \in Nat /\ l >= 1
  BY RankFacts DEF Layers
<1>2. s # <<>> => s[1].layer \in Nat
  BY StreamHead
<1>3. ~ThroughOf(s, g, l)
  BY <1>1, <1>2 DEF ThroughOf, GoingOf
<1> QED
  BY <1>3 DEF Quiescent, CopyingOf, DummyCopyingOf

\* Work issued behind the work on a stream shows nothing.
LEMMA ViewGrown ==
    ASSUME NEW s \in Seq(Op), NEW w \in Seq(Op), NEW g, NEW l \in Layers,
           \A i \in DOMAIN s : i \in DOMAIN w /\ w[i] = s[i],
           s = <<>> => g = "wait" /\ (w # <<>> => w[1].layer <= 1)
    PROVE  ViewKept(s, g, w, g, l)
<1>1. CASE s = <<>>
  <2>1. Quiescent(s, g, l) /\ Quiescent(w, g, l)
    BY <1>1, ViewQuiet
  <2> QED
    BY <2>1 DEF Quiescent, ViewKept
<1>2. CASE s # <<>>
  <2>1. w # <<>> /\ w[1] = s[1]
    <3>1. 1 \in DOMAIN s
      BY <1>2, StreamHead
    <3>2. 1 \in DOMAIN w
      BY <3>1
    <3> QED
      BY <3>1, <3>2
  <2> QED
    BY <1>2, <2>1 DEF ViewKept, ThroughOf, CopyingOf, DummyCopyingOf, GoingOf
<1> QED
  BY <1>1, <1>2

\* Inputs to stage, behind the work on a stream.
LEMMA ViewAppend ==
    ASSUME NEW s \in Seq(Op), NEW e \in Op, e.layer = 0, NEW g, s = <<>> => g = "wait",
           NEW l \in Layers, NEW h
    PROVE  /\ ViewKept(s, g, Append(s, e), g, l)
           /\ SawOf(Append(s, e), h, l) => SawOf(s, h, l)
<1> DEFINE w == Append(s, e)
<1>1. /\ w \in Seq(Op) /\ (\A i \in DOMAIN s : w[i] = s[i]) /\ w[Len(s) + 1] = e
      /\ DOMAIN s = 1 .. Len(s) /\ DOMAIN w = 1 .. Len(s) + 1 /\ Len(s) \in Nat
  BY AppendFacts
<1>2. /\ \A i \in DOMAIN s : i \in DOMAIN w
      /\ \A i \in DOMAIN w : i \in DOMAIN s \/ i = Len(s) + 1
  BY <1>1
<1>3. s = <<>> => w[1] = e
  <2>1. s = <<>> => Len(s) + 1 = 1
    BY EmptySeq
  <2> QED
    BY <1>1, <2>1
<1> HIDE DEF w
<1>4. ViewKept(s, g, w, g, l)
  BY <1>1, <1>2, <1>3, ViewGrown
<1>5. ASSUME SawOf(w, h, l) PROVE SawOf(s, h, l)
  <2>1. CASE \E i \in DOMAIN w : w[i].pass > 0 /\ w[i].layer > 0
    <3>1. PICK i \in DOMAIN w : w[i].pass > 0 /\ w[i].layer > 0
      BY <2>1
    <3>2. i \in DOMAIN s
      BY <1>1, <1>2, <3>1
    <3> QED
      BY <1>1, <3>1, <3>2 DEF SawOf
  <2>2. CASE h.phase = "claim" /\ h.layer > l
    BY <2>2 DEF SawOf
  <2> QED
    BY <1>5, <2>1, <2>2 DEF SawOf
<1> QED
  BY <1>4, <1>5 DEF w

\* A forward behind the work on a stream.
LEMMA ViewForward ==
    ASSUME NEW s \in Seq(Op), NEW p \in 0 .. MaxPasses, NEW g, s = <<>> => g = "wait",
           NEW l \in Layers
    PROVE  /\ ViewKept(s, g, s \o Forward(p), g, l)
           /\ \A i \in DOMAIN (s \o Forward(p)) :
                 \/ i \in DOMAIN s /\ (s \o Forward(p))[i] = s[i]
                 \/ (s \o Forward(p))[i].pass = p /\ (s \o Forward(p))[i].layer > 0
           /\ \A i \in DOMAIN s : i \in DOMAIN (s \o Forward(p)) /\ (s \o Forward(p))[i] = s[i]
<1> DEFINE x == Forward(p)
           w == s \o x
<1>1. NumLayers \in Nat \ {0}
  BY RankFacts
<1>2. /\ x \in Seq(Op) /\ Len(x) = NumLayers + 1 /\ x # <<>>
      /\ \A i \in 1 .. NumLayers + 1 : x[i].pass = p /\ x[i].layer = i
  BY <1>1, ForwardFacts, EmptySeq
<1> HIDE DEF x
<1>3. Joined(s, x, w)
  BY <1>2, ConcatOps
<1> HIDE DEF w
<1>4. \A i \in DOMAIN s : i \in DOMAIN w /\ w[i] = s[i]
  BY <1>3 DEF Joined
<1>5. ASSUME NEW i \in DOMAIN w, i \notin DOMAIN s
      PROVE  w[i].pass = p /\ w[i].layer = i - Len(s) /\ i - Len(s) > 0
  <2>1. i - Len(s) \in 1 .. NumLayers + 1 /\ Len(s) \in Nat /\ i \in Nat
    BY <1>1, <1>2, <1>3, <1>5 DEF Joined
  <2>2. Len(s) + (i - Len(s)) = i /\ i - Len(s) \in DOMAIN x
    BY <1>2, <1>3, <2>1 DEF Joined
  <2>3. w[i] = x[i - Len(s)]
    BY <1>3, <2>2 DEF Joined
  <2> QED
    BY <1>1, <1>2, <2>1, <2>3
<1>6. s = <<>> => w[1].layer = 1
  <2> SUFFICES ASSUME s = <<>> PROVE w[1].layer = 1
    OBVIOUS
  <2>1. Len(s) = 0 /\ 1 \in DOMAIN x
    BY <1>1, <1>2, <1>3 DEF Joined
  <2>2. w[1] = x[1]
    BY <1>3, <2>1 DEF Joined
  <2> QED
    BY <1>1, <1>2, <2>2
<1>7. w \in Seq(Op)
  BY <1>3 DEF Joined
<1>8. ViewKept(s, g, w, g, l)
  BY <1>4, <1>6, <1>7, ViewGrown
<1> QED
  BY <1>4, <1>5, <1>8 DEF w, x

\* The next op of the stream, once its head is done.
LEMMA StreamNextOp ==
    ASSUME NEW t, NEW s, NEW b, NEW h, NEW f, NEW n, NEW g,
           RankTypes(t, s, b, h, f, n), RankOK(t, s, b, h, f, n, g), s # <<>>
    PROVE  /\ Tail(s) \in Seq(Op)
           /\ Tail(s) # <<>> => Tail(s)[1] = s[2] /\ 2 \in DOMAIN s /\ FollowsOf(t, f, s[1], s[2])
           /\ s[1].layer \in Layers => Tail(s) # <<>>
           /\ s[1].layer = NumLayers + 1 /\ Tail(s) = <<>> => t # 0 \/ ~IsBusy(h)
           /\ \A i \in DOMAIN Tail(s) : i + 1 \in DOMAIN s /\ Tail(s)[i] = s[i + 1]
           /\ \A i \in DOMAIN s : i = 1 \/ (i - 1 \in DOMAIN Tail(s) /\ Tail(s)[i - 1] = s[i])
<1> DEFINE w == Tail(s)
<1>1. s \in Seq(Op) /\ NumLayers \in Nat \ {0}
  BY RankFacts DEF RankTypes
<1>2. /\ w \in Seq(Op) /\ Len(w) = Len(s) - 1 /\ Len(s) \in Nat \ {0}
      /\ DOMAIN s = 1 .. Len(s) /\ DOMAIN w = 1 .. Len(s) - 1
      /\ \A i \in DOMAIN w : w[i] = s[i + 1] /\ i + 1 \in DOMAIN s
      /\ w # <<>> <=> Len(s) > 1
  BY <1>1, TailOps
<1>3. w # <<>> => w[1] = s[2] /\ 2 \in DOMAIN s /\ 1 \in DOMAIN s
  <2> SUFFICES ASSUME w # <<>> PROVE w[1] = s[2] /\ 2 \in DOMAIN s /\ 1 \in DOMAIN s
    OBVIOUS
  <2>1. 1 \in DOMAIN w /\ 1 + 1 = 2 /\ 1 \in DOMAIN s
    BY <1>2
  <2> QED
    BY <1>2, <2>1
<1>4. w # <<>> => FollowsOf(t, f, s[1], s[2])
  <2>1. InSteps(t, s, f) /\ 1 + 1 = 2
    BY DEF RankOK, OrderOf
  <2> QED
    BY <1>3, <2>1 DEF InSteps
<1>5. w = <<>> => s[1].layer = IF IsBusy(h) /\ t = 0 THEN 0 ELSE NumLayers + 1
  <2>1. w = <<>> => Len(s) = 1
    BY <1>2
  <2> QED
    BY <2>1 DEF RankOK, OrderOf, LastOp
<1>6. \A i \in DOMAIN s : i = 1 \/ (i - 1 \in DOMAIN w /\ w[i - 1] = s[i])
  <2> SUFFICES ASSUME NEW i \in DOMAIN s, i # 1 PROVE i - 1 \in DOMAIN w /\ w[i - 1] = s[i]
    OBVIOUS
  <2>1. i - 1 \in DOMAIN w /\ (i - 1) + 1 = i
    BY <1>2
  <2> QED
    BY <1>2, <2>1
<1>7. s[1].layer \in Layers => w # <<>>
  BY <1>1, <1>5 DEF Layers
<1>8. s[1].layer = NumLayers + 1 /\ w = <<>> => t # 0 \/ ~IsBusy(h)
  BY <1>1, <1>5
<1> QED
  BY <1>2, <1>3, <1>4, <1>6, <1>7, <1>8

\* What a launch saw is not forgotten before the stream is done with it.
LEMMA SawTail ==
    ASSUME NEW s, NEW w, NEW h, NEW l, \A i \in DOMAIN w : i + 1 \in DOMAIN s /\ w[i] = s[i + 1],
           SawOf(w, h, l)
    PROVE  SawOf(s, h, l)
BY DEF SawOf

\* The copy of layer l is over and the next op of the stream is at its head.
LEMMA ViewRelease ==
    ASSUME NEW t, NEW s, NEW b, NEW h, NEW f, NEW n,
           RankTypes(t, s, b, h, f, n), RankOK(t, s, b, h, f, n, "release"),
           s # <<>>, NEW l \in Layers, s[1].layer \in Layers
    PROVE  ViewKept(s, "release", Tail(s), "wait", l)
<1> DEFINE w == Tail(s)
<1>1. /\ w \in Seq(Op) /\ w # <<>> /\ w[1] = s[2] /\ FollowsOf(t, f, s[1], s[2])
  BY StreamNextOp
<1>2. s[1].pass \in Nat /\ s[1].layer \in Nat /\ NumLayers \in Nat /\ l \in Nat
      /\ s[1].layer <= NumLayers
  BY StreamHead, RankFacts DEF RankTypes, Layers
<1>3. w[1].layer = s[1].layer + 1 /\ w[1].pass = s[1].pass
  BY <1>1, <1>2 DEF FollowsOf
<1> HIDE DEF w
<1>4. ThroughOf(w, "wait", l) <=> ThroughOf(s, "release", l)
  BY <1>1, <1>2, <1>3 DEF ThroughOf, GoingOf
<1>5. ViewKept(s, "release", w, "wait", l)
  BY <1>4 DEF ViewKept, CopyingOf, DummyCopyingOf
<1> QED
  BY <1>5 DEF w
-----------------------------------------------------------------------------
\* A step that touches nothing of the request of d.
LEMMA RequestKeep ==
    ASSUME NEW d \in DPs, Requested(d),
           finished'[d] = finished[d], requests'[d] = requests[d],
           worker'.batch[d] = worker.batch[d],
           HasWork(d)' <=> HasWork(d), thread'[d] = thread[d], queue'[d] = queue[d],
           Launched(<<d, 0>>)' = Launched(<<d, 0>>),
           host'[<<d, 0>>].phase = "full" <=> host[<<d, 0>>].phase = "full",
           event'[d] = event[d], inputs'[d] = inputs[d], staged'[d] = staged[d],
           Prepared(d)' <=> Prepared(d),
           Prepared(d) => \A i \in DOMAIN stream'[<<d, 0>>] : stream'[<<d, 0>>][i].pass > 0
    PROVE  Requested(d)'
<1> DEFINE r == <<d, 0>>
<1>1. RequestedOf(finished[d], requests[d], worker.batch[d], HasWork(d), thread[d], queue[d],
                  Launched(r), host[r].phase = "full", event[d], inputs[d], staged[d], Prepared(d))
  BY DEF Requested
<1>2. (host'[r].phase = "full") = (host[r].phase = "full") /\ HasWork(d)' = HasWork(d)
      /\ Prepared(d)' = Prepared(d)
  BY DEF HasWork, Prepared, PreparedOf
<1>3. RequestedOf(finished'[d], requests'[d], worker'.batch[d], HasWork(d)', thread'[d], queue'[d],
                  Launched(r)', host'[r].phase = "full", event'[d], inputs'[d], staged'[d], Prepared(d)')
  BY <1>1, <1>2
<1> QED
  BY <1>2, <1>3 DEF Requested

\* The entry of its list the worker is at.
LEMMA CurrentFacts ==
    ASSUME TypeInv, worker.step # "poll"
    PROVE  /\ Current.layer \in Layers /\ Current.dp \in DPs /\ Current \in Work
           /\ worker.work # <<>> /\ worker.work \in Seq(Work) /\ Current = worker.work[1]
           /\ DOMAIN worker.work = 1 .. Len(worker.work) /\ Len(worker.work) \in Nat \ {0}
           /\ 1 \in DOMAIN worker.work
           /\ InWork(Current.dp, Current.layer) /\ HasWork(Current.dp)
           /\ worker.at \in TPs /\ worker \in WorkerState
<1>1. worker.work \in Seq(Work) /\ worker.work # <<>> /\ worker.at \in TPs /\ worker \in WorkerState
  BY DEF TypeInv, WorkerOK, WorkerState
<1> DEFINE w == worker.work
<1>2. /\ Head(w) = w[1] /\ Head(w) \in Work /\ DOMAIN w = 1 .. Len(w) /\ Len(w) \in Nat \ {0}
  BY <1>1, TailFacts
<1>3. 1 \in DOMAIN w
  BY <1>2
<1>4. Current = w[1] /\ Current \in Work /\ Current.layer \in Layers /\ Current.dp \in DPs
  BY <1>2 DEF Current, Work
<1>5. InWork(Current.dp, Current.layer)
  BY <1>3, <1>4 DEF InWork
<1> QED
  BY <1>1, <1>2, <1>3, <1>4, <1>5 DEF HasWork

\* The worker goes on where it was, and nobody touches the output it works on.
LEMMA WorkerKeep ==
    ASSUME WorkerInv, worker' = worker,
           \A t \in TPs : \A l \in Layers :
              worker.step # "poll" /\ l = Current.layer =>
                 /\ ready[<<Current.dp, t>>][l] = 0 => ready'[<<Current.dp, t>>][l] = 0
                 /\ output'[<<Current.dp, t>>][l] = output[<<Current.dp, t>>][l]
                 /\ finished'[Current.dp] = finished[Current.dp],
           TypeInv
    PROVE  WorkerInv'
<1> DEFINE d == Current.dp
           l == Current.layer
<1>1. worker.step # "poll" => l \in Layers
  BY CurrentFacts
<1>2. 0 \in TPs
  BY RankFacts
<1>3. Current' = Current
  BY DEF Current
<1> HIDE DEF d, l
<1>4. worker.step # "poll" =>
         /\ finished'[d] = finished[d]
         /\ \A t \in TPs : /\ ready[<<d, t>>][l] = 0 => ready'[<<d, t>>][l] = 0
                           /\ output'[<<d, t>>][l] = output[<<d, t>>][l]
  BY <1>1, <1>2 DEF d, l
<1>5. d' = d /\ l' = l
  BY <1>3 DEF d, l
<1> DEFINE Low(t) == ready[<<d, t>>][l] = 0
           Low1(t) == ready'[<<d, t>>][l] = 0
<1>6. /\ \A i, j \in DOMAIN worker.work : worker.work[i] = worker.work[j] => i = j
      /\ worker.step \notin {"reset", "take", "publish", "poll"} => worker.at = 0
      /\ worker.step = "reset" => \A t \in TPs : t < worker.at => Low(t)
      /\ worker.step = "take" => \A t \in TPs : t <= worker.at => Low(t)
      /\ worker.step \in {"compute", "computing", "fan"} => \A t \in TPs : Low(t)
      /\ worker.step = "computing" => worker.seen = finished[d] + 1
      /\ worker.step = "fan" => output[<<d, 0>>][l] = finished[d] + 1
      /\ worker.step = "publish" =>
            \A t \in TPs : /\ output[<<d, t>>][l] = finished[d] + 1
                           /\ t >= worker.at => Low(t)
  BY DEF WorkerInv, d, l
<1>7. /\ \A i, j \in DOMAIN worker.work : worker.work[i] = worker.work[j] => i = j
      /\ worker.step \notin {"reset", "take", "publish", "poll"} => worker.at = 0
      /\ worker.step = "reset" => \A t \in TPs : t < worker.at => Low1(t)
      /\ worker.step = "take" => \A t \in TPs : t <= worker.at => Low1(t)
      /\ worker.step \in {"compute", "computing", "fan"} => \A t \in TPs : Low1(t)
      /\ worker.step = "computing" => worker.seen = finished'[d] + 1
      /\ worker.step = "fan" => output'[<<d, 0>>][l] = finished'[d] + 1
      /\ worker.step = "publish" =>
            \A t \in TPs : /\ output'[<<d, t>>][l] = finished'[d] + 1
                           /\ t >= worker.at => Low1(t)
  BY <1>2, <1>4, <1>6
<1> QED
  BY <1>3, <1>7 DEF WorkerInv, d, l

\* What the worker published is the same while it and the batch are.
LEMMA PublishedKeep ==
    ASSUME worker' = worker, NEW r \in Ranks, finished'[r[1]] = finished[r[1]], NEW l
    PROVE  (Published(r, l)' <=> Published(r, l)) /\ (HasWork(r[1])' <=> HasWork(r[1]))
BY DEF Published, InWork, HasWork, Current

\* The stream of a rank takes one step.  Only the inputs, and the box of the layer whose
\* copy is at its head, can change.
LEMMA StreamActs ==
    ASSUME TypeInv, LaunchInv, NEW r \in Ranks, StreamNext(r)
    PROVE  /\ UNCHANGED <<issued, finished, inbox, host, queue, thread, event, requests, staged,
                          output, worker>>
           /\ stream[r] # <<>> /\ stream[r][1].op # "reduce"
           /\ \A q \in Ranks \ {r} : stream'[q] = stream[q] /\ stage'[q] = stage[q]
           /\ stream'[r] = stream[r] \/ stream'[r] = Tail(stream[r])
           /\ Launched(r)' = Launched(r)
           /\ ~PrepareInputs(r) => UNCHANGED inputs /\ stream[r][1].layer \in Layers
           /\ PrepareInputs(r) => /\ r[2] = 0 /\ stream[r][1].layer = 0 /\ stream'[r] = Tail(stream[r])
                                  /\ stream[r][1].pass = finished[r[1]] + 1
                                  /\ stage'[r] = "wait" /\ stage[r] = "wait"
                                  /\ inputs' = [inputs EXCEPT ![r[1]] = finished[r[1]] + 1]
                                  /\ UNCHANGED <<ready, consumed, gpu, taken>>
<1> USE DEF engineVars, hostVars, threadVars, streamVars, flagVars
<1> DEFINE s == stream[r]
<1>1. /\ s \in Seq(Op) /\ stream \in [Ranks -> Seq(Op)]
      /\ stage \in [Ranks -> {"wait", "copying", "copied", "release"}]
  BY DEF TypeInv, StreamOK
<1>2. /\ s # <<>> /\ Head(s).op # "reduce" /\ (~PrepareInputs(r) => Head(s).op = "copy")
      /\ PrepareInputs(r) => Head(s).op = "prepare"
  BY DEF StreamNext, PrepareInputs, CopyBegin, CopyEnd, ResetReady, Release, AtCopy
<1>3. Head(s) = s[1] /\ 1 \in DOMAIN s /\ s[1] \in Op
  BY <1>1, <1>2, StreamHead
<1>4. /\ UNCHANGED <<issued, finished, inbox, host, queue, thread, event, requests, staged, output, worker>>
      /\ \A q \in Ranks \ {r} : stream'[q] = stream[q] /\ stage'[q] = stage[q]
      /\ stream'[r] = s \/ stream'[r] = Tail(s)
  <2>1. CASE PrepareInputs(r)
    BY <1>1, <2>1 DEF PrepareInputs, Advance
  <2>2. CASE CopyBegin(r) \/ CopyEnd(r) \/ ResetReady(r)
    BY <1>1, <2>2 DEF CopyBegin, CopyEnd, ResetReady
  <2>3. CASE Release(r)
    BY <1>1, <2>3 DEF Release, Advance
  <2> QED
    BY <2>1, <2>2, <2>3 DEF StreamNext
<1>5. Launched(r)' = Launched(r)
  <2>1. s[1].op # "reduce"
    BY <1>2, <1>3
  <2>2. LaunchedOf(Tail(s), host[r], finished[r[1]]) = LaunchedOf(s, host[r], finished[r[1]])
    <3> DEFINE t == r[2]
               b == inbox[r]
               h == host[r]
               f == finished[r[1]]
               n == issued[r[1]]
               g == stage[r]
    <3>1. RankTypes(t, s, b, h, f, n) /\ RankOK(t, s, b, h, f, n, g)
      BY RankOfState
    <3>2. LaunchedOf(Tail(s), h, f) = LaunchedOf(s, h, f)
      <4> HIDE DEF t, s, b, h, f, n, g
      <4> QED
        BY <1>2, <2>1, <3>1, RankTail
    <3> QED
      BY <3>2
  <2> QED
    BY <1>4, <2>2 DEF Launched
<1>6. ~PrepareInputs(r) => UNCHANGED inputs /\ s[1].layer \in Layers
  <2>1. ~PrepareInputs(r) => UNCHANGED inputs
    BY DEF StreamNext, CopyBegin, CopyEnd, ResetReady, Release
  <2> QED
    BY <1>2, <1>3, <2>1, OpFacts
<1>7. ASSUME PrepareInputs(r)
      PROVE  /\ r[2] = 0 /\ s[1].layer = 0 /\ s[1].pass = finished[r[1]] + 1
             /\ stage[r] = "wait"
  <2>1. s[1].layer = 0 /\ s[1].op # "copy"
    BY <1>2, <1>3, <1>7, OpFacts
  <2>2. OrderOf(r[2], s, host[r], finished[r[1]], issued[r[1]], stage[r])
    BY RankOfState DEF RankOK
  <2>3. r[2] = 0 /\ s[1].pass > 0
    BY <1>3, <2>1, <2>2 DEF OrderOf, EachOp
  <2> QED
    BY <1>2, <2>1, <2>2, <2>3 DEF OrderOf, FirstOp
<1>8. PrepareInputs(r) => /\ stage' = stage /\ stream'[r] = Tail(s)
                          /\ inputs' = [inputs EXCEPT ![r[1]] = s[1].pass]
                          /\ UNCHANGED <<ready, consumed, gpu, taken>>
  BY <1>1, <1>3 DEF PrepareInputs, Advance
<1> QED
  BY <1>2, <1>3, <1>4, <1>5, <1>6, <1>7, <1>8

\* A step of a stream keeps the requests: staging the inputs prepares the batch after
\* the last finished.
LEMMA StreamRequested ==
    ASSUME TypeInv, LaunchInv, ExchangeInv, NEW r \in Ranks, StreamNext(r), NEW d \in DPs
    PROVE  Requested(d)'
<1> DEFINE q == <<d, 0>>
           s == stream[q]
<1>1. q \in Ranks /\ q[1] = d /\ q[2] = 0 /\ (r[1] = d /\ r[2] = 0 => r = q)
  BY RankFacts
<1>2. /\ UNCHANGED <<issued, finished, inbox, host, queue, thread, event, requests, staged,
                          output, worker>>
      /\ Launched(q)' = Launched(q)
  <2>1. UNCHANGED <<issued, finished, inbox, host, queue, thread, event, requests, staged,
                          output, worker>>
    BY StreamActs
  <2>2. CASE r = q
    BY <2>2, StreamActs
  <2>3. CASE r # q
    <3>1. stream'[q] = s
      BY <1>1, <2>3, StreamActs
    <3> QED
      BY <2>1, <3>1 DEF Launched
  <2> QED
    BY <2>1, <2>2, <2>3
<1>3. Requested(d) /\ finished[d] \in Nat
  BY RequestTypes DEF ExchangeInv
<1>4. HasWork(d)' <=> HasWork(d)
  BY <1>2 DEF HasWork, InWork
<1>5. CASE PrepareInputs(r) /\ r = q
  <2>1. /\ s # <<>> /\ s[1].layer = 0 /\ s[1].pass = finished[d] + 1 /\ stream'[q] = Tail(s)
        /\ inputs' = [inputs EXCEPT ![d] = finished[d] + 1]
    BY <1>1, <1>5, StreamActs
  <2> DEFINE t == q[2]
             b == inbox[q]
             h == host[q]
             f == finished[q[1]]
             n == issued[q[1]]
             g == stage[q]
             w == Tail(s)
  <2>2. RankTypes(t, s, b, h, f, n) /\ RankOK(t, s, b, h, f, n, g)
    BY <1>1, RankOfState
  <2>3. f \in Nat /\ f = finished[d] /\ s[1].pass > 0
    BY <1>1, <1>3, <2>1
  <2>4. /\ \A i \in DOMAIN w : i + 1 \in DOMAIN s /\ w[i] = s[i + 1]
        /\ \A i \in DOMAIN s : s[i].pass > 0
    <3> HIDE DEF t, b, h, f, n, g, s
    <3>1. \A i \in DOMAIN w : i + 1 \in DOMAIN s /\ w[i] = s[i + 1]
      BY <2>1, <2>2, StreamNextOp
    <3>2. DummiesOf(s, b, h) = 0
      BY <2>1, <2>2, <2>3, NothingDummyAfter
    <3> QED
      BY <2>2, <3>1, <3>2, NoDummies
  <2>5. \A i \in DOMAIN w : w[i].layer = 0 => w[i].pass # f + 1
    <3> SUFFICES ASSUME NEW i \in DOMAIN w, w[i].layer = 0 PROVE w[i].pass # f + 1
      OBVIOUS
    <3>1. Rising(s)
      BY <2>2 DEF RankOK, OrderOf
    <3>2. i \in DOMAIN w /\ 1 \in DOMAIN s /\ s[1].pass \in Nat /\ DOMAIN s \subseteq Nat /\ i \in Nat /\ i > 0
      <4>1. s \in Seq(Op)
        BY <2>2 DEF RankTypes
      <4>2. DOMAIN s = 1 .. Len(s) /\ DOMAIN w = 1 .. Len(s) - 1 /\ Len(s) \in Nat \ {0}
        BY <2>1, <4>1, TailFacts
      <4> HIDE DEF s, w
      <4> QED
        BY <2>1, <4>1, <4>2, StreamHead
    <3>3. s[i + 1].pass > s[1].pass
      <4>1. i + 1 \in DOMAIN s /\ 1 < i + 1 /\ s[i + 1].layer = 0
        BY <2>4, <3>2
      <4> HIDE DEF s, w
      <4> QED
        BY <2>3, <3>1, <3>2, <4>1 DEF Rising
    <3>4. w[i] = s[i + 1]
      BY <2>4
    <3> HIDE DEF s, w, f
    <3> QED
      BY <2>1, <2>3, <3>2, <3>3, <3>4
  <2>6. Launched(q) > finished[d]
    <3>1. EachOp(t, s, f, Launched(q)) /\ Launched(q) \in Nat
      BY <2>2, RequestTypes DEF RankOK, OrderOf, Launched
    <3>2. 1 \in DOMAIN s
      BY <2>1, <2>2, StreamHead DEF RankTypes
    <3>3. f + 1 <= Launched(q)
      BY <2>1, <2>3, <3>1, <3>2 DEF EachOp
    <3> QED
      BY <2>3, <3>1, <3>3
  <2>7. Prepared(d)'
    <3>1. Prepared(d)' = PreparedOf(Launched(q)', w, f)
      BY <1>2, <2>1, <2>3 DEF Prepared
    <3>2. PreparedOf(Launched(q), w, f)
      BY <2>3, <2>5, <2>6 DEF PreparedOf
    <3> QED
      BY <1>2, <3>1, <3>2
  <2>8. \A i \in DOMAIN stream'[q] : stream'[q][i].pass > 0
    BY <2>1, <2>4
  <2>9. inputs'[d] = finished[d] + 1
    BY <2>1 DEF TypeInv, InputsOK
  <2>10. RequestedOf(finished[d], requests[d], worker.batch[d], HasWork(d), thread[d], queue[d],
                     Launched(q), host[q].phase = "full", event[d], finished[d] + 1,
                     staged[d], TRUE)
    <3>1. RequestedOf(finished[d], requests[d], worker.batch[d], HasWork(d), thread[d], queue[d],
                     Launched(q), host[q].phase = "full", event[d], inputs[d],
                     staged[d], Prepared(d))
      BY <1>3 DEF Requested
    <3> HIDE DEF q, s
    <3> QED
      BY <3>1 DEF RequestedOf
  <2> QED
    BY <1>2, <1>4, <2>7, <2>8, <2>9, <2>10 DEF Requested, HasWork
<1>6. CASE ~(PrepareInputs(r) /\ r = q)
  <2>1. /\ inputs'[d] = inputs[d]
        /\ stream'[q] = s \/ (stream'[q] = Tail(s) /\ s # <<>> /\ s[1].layer \in Layers /\ r = q)
    <3>1. CASE PrepareInputs(r)
      <4>1. r[1] # d /\ r # q
        BY <1>1, <1>6, <3>1, StreamActs
      <4>2. stream'[q] = s /\ inputs' = [inputs EXCEPT ![r[1]] = finished[r[1]] + 1]
        BY <1>1, <3>1, <4>1, StreamActs
      <4> QED
        BY <4>1, <4>2 DEF TypeInv, InputsOK
    <3>2. CASE ~PrepareInputs(r)
      <4>1. inputs' = inputs /\ stream[r] # <<>> /\ stream[r][1].layer \in Layers
        BY <3>2, StreamActs
      <4>2. CASE r = q
        BY <4>1, <4>2, StreamActs
      <4>3. CASE r # q
        BY <1>1, <4>1, <4>3, StreamActs
      <4> QED
        BY <4>2, <4>3
    <3> QED
      BY <3>1, <3>2
  <2>2. /\ Prepared(d)' <=> Prepared(d)
        /\ Prepared(d) => \A i \in DOMAIN stream'[q] : stream'[q][i].pass > 0
    <3>1. CASE stream'[q] = s
      BY <1>2, <1>3, <3>1 DEF Prepared, Requested
    <3>2. CASE stream'[q] = Tail(s) /\ s # <<>> /\ s[1].layer \in Layers /\ r = q
      <4> DEFINE w == Tail(s)
                 b == inbox[q]
                 h == host[q]
                 f == finished[q[1]]
                 n == issued[q[1]]
                 g == stage[q]
                 t == q[2]
      <4>1. RankTypes(t, s, b, h, f, n) /\ RankOK(t, s, b, h, f, n, g)
        BY <1>1, RankOfState
      <4>2. /\ \A i \in DOMAIN w : i + 1 \in DOMAIN s /\ w[i] = s[i + 1]
            /\ \A i \in DOMAIN s : i = 1 \/ (i - 1 \in DOMAIN w /\ w[i - 1] = s[i])
        <5> HIDE DEF t, s, b, h, f, n, g
        <5> QED
          BY <3>2, <4>1, StreamNextOp
      <4>3. s[1].layer # 0
        BY <3>2, RankFacts DEF Layers
      <4>4. Prepared(d) <=> PreparedOf(Launched(q), w, finished[d])
        <5> HIDE DEF w
        <5>1. \A x : (\A i \in DOMAIN s : s[i].layer = 0 => s[i].pass # x)
                       <=> (\A i \in DOMAIN w : w[i].layer = 0 => w[i].pass # x)
          <6> HIDE DEF s
          <6> QED
            BY <4>2, <4>3
        <5>2. Prepared(d) = PreparedOf(Launched(q), s, finished[d])
          BY DEF Prepared
        <5> HIDE DEF s, q
        <5> QED
          BY <5>1, <5>2 DEF PreparedOf
      <4>5. Prepared(d)' = PreparedOf(Launched(q)', w, finished'[d])
        BY <3>2 DEF Prepared
      <4>6. Prepared(d)' <=> Prepared(d)
        BY <1>2, <4>4, <4>5
      <4>7. Prepared(d) => \A i \in DOMAIN w : w[i].pass > 0
        BY <1>3, <4>2 DEF Requested
      <4> QED
        BY <3>2, <4>6, <4>7
    <3> QED
      BY <2>1, <3>1, <3>2
  <2> QED
    BY <1>2, <1>3, <1>4, <2>1, <2>2, RequestKeep
<1> QED
  BY <1>5, <1>6
-----------------------------------------------------------------------------
\* The wait for the flag is over and the copy of the output begins.
LEMMA BoxCopyBegin ==
    ASSUME NEW cs, NEW o, NEW v, NEW tk, NEW f \in Nat, NEW pub \in BOOLEAN, NEW s \in Seq(Op),
           NEW h,
           NEW l \in Layers, s # <<>>, s[1].layer = l, s[1].pass > 0 \/ ~pub,
           BoxOf(1, cs, o, v, tk, f, pub, s, "wait", h, l)
    PROVE  BoxOf(1, cs, o, o, tk, f, pub, s, "copying", h, l)
<1>1. s[1].layer \in Nat /\ s[1].pass \in Nat /\ 1 \in DOMAIN s
  BY StreamHead
<1>2. s[1].pass > 0 => GoingOf(s)
  BY DEF GoingOf
<1>3. ~ThroughOf(s, "wait", l) /\ ~ThroughOf(s, "copying", l)
  BY <1>1 DEF ThroughOf
<1>4. /\ ~CopyingOf(s, "copying", l, {"copied"}) /\ ~CopyingOf(s, "wait", l, {"copied"})
  BY DEF CopyingOf
<1>5. s[1].pass > 0 => pub /\ o = f + 1
  <2> SUFFICES ASSUME s[1].pass > 0 PROVE pub /\ o = f + 1
    OBVIOUS
  <2>1. SawOf(s, h, l)
    BY <1>1, RankFacts DEF SawOf, Layers
  <2> QED
    BY <2>1 DEF BoxOf
<1>6. CopyingOf(s, "copying", l, {"copying", "copied"}) => pub /\ o = f + 1
  BY <1>5 DEF CopyingOf, GoingOf
<1>7. DummyCopyingOf(s, "copying", l) => o = Dummy
  BY DEF DummyCopyingOf, BoxOf, Dummy
<1> QED
  BY <1>3, <1>4, <1>6, <1>7 DEF BoxOf

\* The copy ends: it is whole, for nobody wrote the output meanwhile.
LEMMA BoxCopyEnd ==
    ASSUME NEW rd, NEW cs, NEW o, NEW v, NEW tk, NEW f \in Nat, NEW pub \in BOOLEAN,
           NEW s \in Seq(Op), NEW h, NEW l, s # <<>>, s[1].layer = l, s[1].pass > 0 \/ ~pub,
           BoxOf(rd, cs, o, v, tk, f, pub, s, "copying", h, l),
           NEW got, got = IF v = o THEN v ELSE Torn,
           NEW tk2, tk2 = IF got > 0 THEN got ELSE tk
    PROVE  BoxOf(rd, cs, o, got, tk2, f, pub, s, "copied", h, l)
<1>1. s[1].layer \in Nat /\ s[1].pass \in Nat /\ 1 \in DOMAIN s
  BY StreamHead
<1>2. ~ThroughOf(s, "copying", l) /\ ~ThroughOf(s, "copied", l)
  BY <1>1 DEF ThroughOf
<1>3. CASE s[1].pass > 0
  <2>1. GoingOf(s) /\ CopyingOf(s, "copying", l, {"copying", "copied"})
        /\ CopyingOf(s, "copied", l, {"copied"}) /\ ~DummyCopyingOf(s, "copied", l)
    BY <1>3 DEF CopyingOf, GoingOf, DummyCopyingOf, Dummy
  <2>2. pub /\ v = f + 1 /\ o = f + 1
    BY <2>1 DEF BoxOf
  <2>3. got = f + 1 /\ got > 0
    BY <2>2
  <2> QED
    BY <1>2, <2>1, <2>2, <2>3 DEF BoxOf
<1>4. CASE ~(s[1].pass > 0)
  <2>1. ~GoingOf(s) /\ DummyCopyingOf(s, "copying", l) /\ ~pub
    BY <1>1, <1>4 DEF GoingOf, DummyCopyingOf, Dummy
  <2>2. rd = 1 /\ v = Dummy /\ o = Dummy
    BY <2>1 DEF BoxOf
  <2>3. got = Dummy /\ ~(got > 0)
    BY <2>2 DEF Dummy
  <2> QED
    BY <1>2, <2>1, <2>2, <2>3 DEF BoxOf, CopyingOf
<1> QED
  BY <1>3, <1>4

\* The stream lowers the flag of the output it copied.
LEMMA BoxReset ==
    ASSUME NEW rd, NEW cs, NEW o, NEW v, NEW tk, NEW f \in Nat, NEW pub \in BOOLEAN,
           NEW s \in Seq(Op), NEW h, NEW l, s # <<>>, s[1].layer = l, s[1].pass > 0 \/ ~pub,
           BoxOf(rd, cs, o, v, tk, f, pub, s, "copied", h, l)
    PROVE  BoxOf(0, cs, o, v, tk, f, pub, s, "release", h, l)
<1>1. s[1].layer \in Nat /\ s[1].pass \in Nat /\ 1 \in DOMAIN s
  BY StreamHead
<1>2. ~ThroughOf(s, "copied", l)
  BY <1>1 DEF ThroughOf
<1>3. /\ ~CopyingOf(s, "release", l, {"copying", "copied"}) /\ ~CopyingOf(s, "release", l, {"copied"})
      /\ ~DummyCopyingOf(s, "release", l)
  BY DEF CopyingOf, DummyCopyingOf
<1>4. CASE s[1].pass > 0
  <2>1. ThroughOf(s, "release", l) /\ CopyingOf(s, "copied", l, {"copying", "copied"})
        /\ CopyingOf(s, "copied", l, {"copied"})
    BY <1>4 DEF ThroughOf, CopyingOf, GoingOf
  <2> QED
    BY <1>2, <1>3, <2>1 DEF BoxOf
<1>5. CASE ~(s[1].pass > 0)
  <2>1. ~ThroughOf(s, "release", l) /\ ~CopyingOf(s, "copied", l, {"copied"}) /\ ~pub
    BY <1>5 DEF ThroughOf, CopyingOf, GoingOf
  <2> QED
    BY <1>2, <1>3, <2>1 DEF BoxOf
<1> QED
  BY <1>4, <1>5

\* The stream gives the output back.
LEMMA BoxRelease ==
    ASSUME NEW rd, NEW cs, NEW o, NEW v, NEW tk, NEW f \in Nat, NEW pub \in BOOLEAN,
           NEW s, NEW w, NEW h, NEW l, ViewKept(s, "release", w, "wait", l),
           SawOf(w, h, l) => SawOf(s, h, l),
           BoxOf(rd, cs, o, v, tk, f, pub, s, "release", h, l)
    PROVE  BoxOf(rd, 1, o, v, tk, f, pub, w, "wait", h, l)
BY DEF BoxOf, ViewKept

\* Copies of other layers show nothing of the box of layer l.
LEMMA ViewElsewhere ==
    ASSUME NEW s, NEW g, NEW k, NEW l, s # <<>>, s[1].layer # l
    PROVE  ViewKept(s, g, s, k, l)
BY DEF ViewKept, ThroughOf, CopyingOf, DummyCopyingOf

\* The types of one rank's outputs.
LEMMA BoxTypes ==
    ASSUME TypeInv, NEW r \in Ranks
    PROVE  /\ r[1] \in DPs /\ finished[r[1]] \in Nat /\ stream[r] \in Seq(Op)
           /\ stage[r] \in {"wait", "copying", "copied", "release"}
           /\ ready \in Grid({0, 1}) /\ consumed \in Grid({0, 1})
           /\ output \in Grid(Torn .. MaxPasses) /\ gpu \in Grid(Torn .. MaxPasses)
           /\ taken \in Grid(0 .. MaxPasses)
           /\ \A l \in Layers : /\ Published(r, l) \in BOOLEAN
                                /\ ready[r][l] \in {0, 1} /\ consumed[r][l] \in {0, 1}
<1>1. r[1] \in DPs
  BY RankFacts
<1>2. finished[r[1]] \in Nat /\ stream[r] \in Seq(Op)
      /\ stage[r] \in {"wait", "copying", "copied", "release"}
  BY <1>1 DEF TypeInv, EngineOK, StreamOK
<1>3. /\ ready \in Grid({0, 1}) /\ consumed \in Grid({0, 1})
      /\ output \in Grid(Torn .. MaxPasses) /\ gpu \in Grid(Torn .. MaxPasses)
      /\ taken \in Grid(0 .. MaxPasses)
  BY DEF TypeInv, FlagsOK, OutputsOK
<1>4. \A l \in Layers : Published(r, l) \in BOOLEAN
  BY DEF Published
<1>5. \A l \in Layers : ready[r][l] \in {0, 1} /\ consumed[r][l] \in {0, 1}
  BY <1>3, GridType
<1> QED
  BY <1>1, <1>2, <1>3, <1>4, <1>5

\* A step of a stream keeps every output in its states, and raises no ready flag.
LEMMA StreamBoxes ==
    ASSUME TypeInv, LaunchInv, ExchangeInv, NEW r \in Ranks, StreamNext(r),
           NEW q \in Ranks, NEW l \in Layers
    PROVE  Box(q, l)' /\ (ready[q][l] = 0 => ready'[q][l] = 0)
<1> USE DEF engineVars, hostVars, threadVars, streamVars, flagVars
<1> DEFINE s == stream[r]
           k == s[1].layer
<1>1. Box(q, l)
  BY DEF ExchangeInv
<1>2. /\ UNCHANGED <<issued, finished, inbox, host, output, worker>>
      /\ s # <<>> /\ s[1].op # "reduce"
      /\ \A x \in Ranks \ {r} : stream'[x] = stream[x] /\ stage'[x] = stage[x]
      /\ ~PrepareInputs(r) => k \in Layers
      /\ stream'[r] = s \/ stream'[r] = Tail(s)
  BY StreamActs
<1>3. Published(q, l)' = Published(q, l)
  BY <1>2, PublishedKeep DEF Published
<1>4. /\ ready \in Grid({0, 1}) /\ consumed \in Grid({0, 1})
      /\ gpu \in Grid(Torn .. MaxPasses) /\ taken \in Grid(0 .. MaxPasses)
      /\ output \in Grid(Torn .. MaxPasses)
      /\ s \in Seq(Op) /\ finished[r[1]] \in Nat /\ Published(r, l) \in BOOLEAN
      /\ stage \in [Ranks -> {"wait", "copying", "copied", "release"}]
      /\ stream \in [Ranks -> Seq(Op)]
  BY BoxTypes DEF TypeInv, StreamOK
<1>5. Head(s) = s[1] /\ 1 \in DOMAIN s /\ s[1].pass \in Nat
  BY <1>2, <1>4, StreamHead
<1>6. s[1].pass > 0 \/ ~Published(r, l)
  <2>1. r[1] \in DPs
    BY RankFacts
  <2> QED
    BY <1>5, <2>1, AtHand DEF Published
<1>7. /\ \A i \in DOMAIN Tail(s) : i + 1 \in DOMAIN s /\ Tail(s)[i] = s[i + 1]
      /\ SawOf(Tail(s), host[r], l) => SawOf(s, host[r], l)
  <2>1. \A i \in DOMAIN Tail(s) : i + 1 \in DOMAIN s /\ Tail(s)[i] = s[i + 1]
    BY <1>2, <1>4, TailOps
  <2> QED
    BY <2>1, SawTail
<1>8. CASE q # r \/ (l # k /\ ~PrepareInputs(r))
  <2>1. /\ ready'[q][l] = ready[q][l] /\ consumed'[q][l] = consumed[q][l]
        /\ gpu'[q][l] = gpu[q][l] /\ taken'[q][l] = taken[q][l]
    <3>1. CASE PrepareInputs(r)
      BY <3>1, StreamActs
    <3>2. CASE CopyBegin(r)
      <4>1. /\ gpu' = [gpu EXCEPT ![r][k] = output[r][k]] /\ UNCHANGED <<ready, consumed, taken>>
        BY <1>5, <3>2 DEF CopyBegin
      <4> QED
        BY <1>4, <1>8, <4>1 DEF Grid
    <3>3. CASE CopyEnd(r)
      <4>1. PICK got, tk : gpu' = [gpu EXCEPT ![r][k] = got] /\ taken' = [taken EXCEPT ![r][k] = tk]
        BY <1>5, <3>3 DEF CopyEnd
      <4>2. UNCHANGED <<ready, consumed>>
        BY <3>3 DEF CopyEnd
      <4> QED
        BY <1>4, <1>8, <4>1, <4>2 DEF Grid
    <3>4. CASE ResetReady(r)
      <4>1. /\ ready' = [ready EXCEPT ![r][k] = 0] /\ UNCHANGED <<gpu, consumed, taken>>
        BY <1>5, <3>4 DEF ResetReady
      <4> QED
        BY <1>4, <1>8, <4>1 DEF Grid
    <3>5. CASE Release(r)
      <4>1. /\ consumed' = [consumed EXCEPT ![r][k] = 1] /\ UNCHANGED <<gpu, ready, taken>>
        BY <1>5, <3>5 DEF Release, Freed
      <4> QED
        BY <1>4, <1>8, <4>1 DEF Grid
    <3> QED
      BY <3>1, <3>2, <3>3, <3>4, <3>5 DEF StreamNext
  <2>2. ViewKept(stream[q], stage[q], stream'[q], stage'[q], l)
    <3>1. CASE q # r
      BY <1>2, <3>1, ViewSame
    <3>2. CASE q = r /\ l # k /\ ~PrepareInputs(r) /\ ~Release(r)
      <4>1. stream' = stream
        BY <3>2 DEF StreamNext, CopyBegin, CopyEnd, ResetReady
      <4> QED
        BY <1>2, <3>2, <4>1, ViewElsewhere
    <3>3. CASE q = r /\ Release(r)
      <4>1. stage[r] = "release" /\ stage'[r] = "wait" /\ stream'[r] = Tail(s) /\ k \in Layers
        BY <1>2, <1>4, <3>3, StreamActs DEF Release, AtCopy, Advance, PrepareInputs
      <4> QED
        BY <1>2, <3>3, <4>1, RankOfState, ViewRelease
    <3> QED
      BY <1>8, <3>1, <3>2, <3>3
  <2>3. SawOf(stream'[q], host'[q], l) => SawOf(stream[q], host[q], l)
    BY <1>2, <1>7
  <2> QED
    BY <1>1, <1>2, <1>3, <2>1, <2>2, <2>3, BoxKeep
<1>9. CASE q = r /\ PrepareInputs(r)
  <2>1. /\ s[1].layer = 0 /\ stage'[r] = "wait" /\ stage[r] = "wait" /\ stream'[r] = Tail(s)
        /\ UNCHANGED <<ready, consumed, gpu, taken>>
    BY <1>9, StreamActs
  <2>2. Quiescent(s, "wait", l)
    BY <1>4, <2>1, ViewQuiet
  <2>3. Tail(s) # <<>> => Tail(s)[1].layer <= 1
    <3>1. Tail(s) # <<>> => FollowsOf(r[2], finished[r[1]], s[1], s[2]) /\ Tail(s)[1] = s[2]
      BY <1>2, RankOfState, StreamNextOp
    <3>2. Tail(s) # <<>> /\ s[1].layer <= NumLayers => Tail(s)[1].layer = s[1].layer + 1
      BY <3>1 DEF FollowsOf
    <3>3. s[1].layer = 0 /\ NumLayers \in Nat \ {0}
      BY <2>1, RankFacts
    <3> QED
      BY ONLY <3>2, <3>3
  <2>4. Quiescent(Tail(s), "wait", l)
    BY <1>2, <1>4, <2>3, ViewQuiet, TailFacts
  <2>5. ViewKept(s, stage[r], stream'[r], stage'[r], l)
    BY <2>1, <2>2, <2>4 DEF Quiescent, ViewKept
  <2> QED
    BY <1>1, <1>2, <1>3, <1>7, <1>9, <2>1, <2>5, BoxKeep
<1>10. CASE q = r /\ l = k /\ ~PrepareInputs(r)
  <2> DEFINE rd == ready[r][l]
             cs == consumed[r][l]
             o == output[r][l]
             v == gpu[r][l]
             tk == taken[r][l]
             f == finished[r[1]]
             pub == Published(r, l)
             h == host[r]
             g == stage[r]
             \* Box(q, l)' with the values it has
             After(rd1, cs1, v1, tk1, s1, g1) == BoxOf(rd1, cs1, o, v1, tk1, f, pub, s1, g1, h, l)
  <2>1. BoxOf(rd, cs, o, v, tk, f, pub, s, g, h, l)
    BY <1>1, <1>10 DEF Box
  <2>2. f \in Nat /\ pub \in BOOLEAN /\ s \in Seq(Op) /\ s # <<>> /\ s[1].layer = l
        /\ (s[1].pass > 0 \/ ~pub)
    BY <1>2, <1>4, <1>6, <1>10
  <2>3. Box(q, l)' <=> After(ready'[r][l], consumed'[r][l], gpu'[r][l], taken'[r][l], stream'[r], stage'[r])
    BY <1>2, <1>3, <1>10 DEF Box
  <2>4. CASE CopyBegin(r)
    <3>1. g = "wait" /\ rd = 1 /\ gpu' = [gpu EXCEPT ![r][k] = output[r][k]]
          /\ stage' = [stage EXCEPT ![r] = "copying"] /\ UNCHANGED <<ready, consumed, taken, stream>>
      BY <1>5, <1>10, <2>4 DEF CopyBegin, AtCopy
    <3>2. gpu'[r][l] = o /\ stage'[r] = "copying"
      BY <1>4, <1>10, <3>1 DEF Grid
    <3>3. After(1, cs, o, tk, s, "copying")
      <4> HIDE DEF s, cs, o, v, tk, f, pub, h, k
      <4> QED
        BY <2>1, <2>2, <3>1, BoxCopyBegin
    <3> QED
      BY <2>3, <3>1, <3>2, <3>3
  <2>5. CASE CopyEnd(r)
    <3> DEFINE got == IF v = o THEN v ELSE Torn
               tk2 == IF got > 0 THEN got ELSE tk
    <3>1. /\ g = "copying" /\ gpu' = [gpu EXCEPT ![r][k] = got]
          /\ taken' = [taken EXCEPT ![r][k] = IF got > 0 THEN got ELSE @]
          /\ stage' = [stage EXCEPT ![r] = "copied"] /\ UNCHANGED <<ready, consumed, stream>>
      BY <1>5, <1>10, <2>5 DEF CopyEnd, AtCopy
    <3>2. gpu'[r][l] = got /\ stage'[r] = "copied" /\ taken'[r][l] = IF got > 0 THEN got ELSE tk
      BY <1>4, <1>10, <3>1 DEF Grid
    <3>3. After(rd, cs, got, tk2, s, "copied")
      <4>1. BoxOf(rd, cs, o, v, tk, f, pub, s, "copying", h, l)
        BY <2>1, <3>1
      <4> HIDE DEF s, rd, cs, o, v, tk, f, pub, h, k
      <4>2. got = (IF v = o THEN v ELSE Torn) /\ tk2 = IF got > 0 THEN got ELSE tk
        OBVIOUS
      <4> HIDE DEF got, tk2
      <4> QED
        BY <2>2, <4>1, <4>2, BoxCopyEnd
    <3> QED
      BY <2>3, <3>1, <3>2, <3>3
  <2>6. CASE ResetReady(r)
    <3>1. g = "copied" /\ ready' = [ready EXCEPT ![r][k] = 0]
          /\ stage' = [stage EXCEPT ![r] = "release"] /\ UNCHANGED <<consumed, gpu, taken, stream>>
      BY <1>5, <1>10, <2>6 DEF ResetReady, AtCopy
    <3>2. ready'[r][l] = 0 /\ stage'[r] = "release"
      BY <1>4, <1>10, <3>1 DEF Grid
    <3>3. After(0, cs, v, tk, s, "release")
      <4> HIDE DEF s, rd, cs, o, v, tk, f, pub, h, k
      <4> QED
        BY <2>1, <2>2, <3>1, BoxReset
    <3> QED
      BY <1>10, <2>3, <3>1, <3>2, <3>3
  <2>7. CASE Release(r)
    <3>1. g = "release" /\ consumed' = [consumed EXCEPT ![r][k] = 1]
          /\ stage' = [stage EXCEPT ![r] = "wait"] /\ UNCHANGED <<ready, gpu, taken>>
          /\ stream'[r] = Tail(s)
      BY <1>4, <1>5, <1>10, <2>7 DEF Release, AtCopy, Freed, Advance
    <3>2. consumed'[r][l] = 1 /\ stage'[r] = "wait"
      BY <1>4, <1>10, <3>1 DEF Grid
    <3>3. ViewKept(s, "release", Tail(s), "wait", l)
      BY <1>2, <1>10, <3>1, RankOfState, ViewRelease
    <3>4. After(rd, 1, v, tk, Tail(s), "wait")
      <4>1. SawOf(Tail(s), h, l) => SawOf(s, h, l)
        BY <1>7
      <4> HIDE DEF s, rd, cs, o, v, tk, f, pub, h, k
      <4> QED
        BY <2>1, <2>2, <3>1, <3>3, <4>1, BoxRelease
    <3> QED
      BY <1>10, <2>3, <3>1, <3>2, <3>4
  <2> QED
    BY <1>10, <2>4, <2>5, <2>6, <2>7 DEF StreamNext
<1> QED
  BY <1>8, <1>9, <1>10

\* A step of a model stream keeps the exchange.
LEMMA ExchangeStream ==
    ASSUME TypeInv, LaunchInv, ExchangeInv, NEW r \in Ranks, StreamNext(r)
    PROVE  ExchangeInv'
<1>1. \A d \in DPs : Requested(d)'
  BY StreamRequested
<1>2. \A q \in Ranks : \A l \in Layers : Box(q, l)' /\ (ready[q][l] = 0 => ready'[q][l] = 0)
  BY StreamBoxes
<1>3. UNCHANGED <<output, finished, worker>>
  BY StreamActs
<1>4. \A t \in TPs : \A l \in Layers : worker.step # "poll" /\ l = Current.layer =>
          (ready[<<Current.dp, t>>][l] = 0 => ready'[<<Current.dp, t>>][l] = 0)
  BY <1>2, CurrentFacts, RankFacts
<1>5. WorkerInv'
  BY <1>3, <1>4, WorkerKeep DEF ExchangeInv
<1> QED
  BY <1>1, <1>2, <1>5 DEF ExchangeInv
-----------------------------------------------------------------------------
\* The exchange before anything is issued.
LEMMA ExchangeInit == Init => ExchangeInv
<1> SUFFICES ASSUME Init PROVE ExchangeInv
  OBVIOUS
<1>1. /\ passes = [d \in DPs |-> 0] /\ finished = passes /\ queue = passes /\ event = passes
      /\ inputs = passes /\ staged = passes /\ requests = [d \in DPs |-> <<>>]
      /\ stream = [r \in Ranks |-> <<>>] /\ stage = [r \in Ranks |-> "wait"]
      /\ ready = Cells(0) /\ consumed = Cells(1) /\ output = Cells(Dummy) /\ taken = Cells(0)
      /\ host = [r \in Ranks |-> [phase |-> "idle", pass |-> 0, layer |-> 1]]
      /\ thread = [d \in DPs |-> [phase |-> "get", pass |-> 0, seen |-> 0]]
      /\ worker = [step |-> "poll", work |-> <<>>, batch |-> passes, at |-> 0, seen |-> 0]
  BY DEF Init
<1>2. DOMAIN worker.work = {} /\ worker.step = "poll"
  BY <1>1, EmptySeq
<1>3. ASSUME NEW d \in DPs PROVE Requested(d)
  <2>1. /\ finished[d] = 0 /\ queue[d] = 0 /\ event[d] = 0 /\ inputs[d] = 0 /\ requests[d] = <<>>
        /\ worker.batch[d] = 0 /\ thread[d].phase = "get"
    BY <1>1
  <2>2. stream[<<d, 0>>] = <<>> /\ host[<<d, 0>>].phase = "idle"
    BY <1>1, RankFacts
  <2>3. Launched(<<d, 0>>) = 0
    BY <2>1, <2>2 DEF Launched, LaunchedOf, IsBusy
  <2>4. ~HasWork(d) /\ ~Prepared(d)
    BY <1>2, <2>1, <2>3 DEF HasWork, InWork, Prepared, PreparedOf
  <2>5. RequestedOf(0, <<>>, 0, HasWork(d), thread[d], 0, 0, host[<<d, 0>>].phase = "full", 0, 0,
                    staged[d], Prepared(d))
    BY <2>1, <2>2, <2>4 DEF RequestedOf, SentOf, HeldOf, AskedOf
  <2> QED
    BY <2>1, <2>3, <2>4, <2>5 DEF Requested
<1>4. ASSUME NEW r \in Ranks, NEW l \in Layers PROVE Box(r, l)
  <2>1. /\ ready[r][l] = 0 /\ consumed[r][l] = 1 /\ output[r][l] = Dummy /\ taken[r][l] = 0
        /\ stream[r] = <<>> /\ host[r].phase = "idle"
    BY <1>1 DEF Cells
  <2>2. finished[r[1]] = 0 /\ worker.batch[r[1]] = 0
    BY <1>1, RankFacts
  <2>3. ~Published(r, l)
    BY <2>2 DEF Published
  <2>4. BoxOf(0, 1, Dummy, gpu[r][l], 0, 0, Published(r, l), <<>>, stage[r], host[r], l)
    BY <2>3 DEF BoxOf, ThroughOf, CopyingOf, DummyCopyingOf, GoingOf
  <2> QED
    BY <2>1, <2>2, <2>4 DEF Box
<1>5. WorkerInv
  BY <1>2 DEF WorkerInv
<1> QED
  BY <1>3, <1>4, <1>5 DEF ExchangeInv

\* A step that touches none of the variables the exchange is about.
LEMMA ExchangeKeep ==
    ASSUME TypeInv, ExchangeInv,
           UNCHANGED <<host, threadVars, event, streamVars, flagVars, output, worker>>
    PROVE  ExchangeInv'
<1> USE DEF threadVars, streamVars, flagVars
<1>1. ASSUME NEW d \in DPs PROVE Requested(d)'
  <2>1. HasWork(d)' = HasWork(d) /\ Launched(<<d, 0>>)' = Launched(<<d, 0>>)
    BY DEF HasWork, InWork, Launched
  <2>2. Prepared(d)' = Prepared(d)
    BY <2>1 DEF Prepared
  <2>3. Requested(d)
    BY DEF ExchangeInv
  <2> QED
    BY <2>1, <2>2, <2>3 DEF Requested
<1>2. ASSUME NEW r \in Ranks, NEW l \in Layers PROVE Box(r, l)'
  <2>1. Published(r, l)' = Published(r, l)
    BY DEF Published, InWork, Current
  <2>2. Box(r, l)
    BY DEF ExchangeInv
  <2> QED
    BY <2>1, <2>2 DEF Box
<1>3. WorkerInv'
  BY WorkerKeep DEF ExchangeInv
<1> QED
  BY <1>1, <1>2, <1>3 DEF ExchangeInv

\* Issuing a pass keeps the exchange.
LEMMA ExchangeEngine ==
    ASSUME TypeInv, ExchangeInv, NEW d \in DPs,
           IssueBatch(d) \/ \E kind \in {Dummy, Capture} : IssueDummy(d, kind)
    PROVE  ExchangeInv'
BY ExchangeKeep DEF IssueBatch, IssueDummy, Issue

\* What the model thread of a rank leaves alone.
LEMMA HostActs ==
    ASSUME TypeInv, NEW r \in Ranks, HostNext(r) \/ ClaimTimeout(r)
    PROVE  /\ UNCHANGED <<issued, finished, requests, staged, inputs, thread, gpu, taken, worker, stage>>
           /\ \A q \in Ranks \ {r} : stream'[q] = stream[q] /\ host'[q] = host[q]
           /\ ~SignalDummy(r) => UNCHANGED <<ready, consumed, output>>
           /\ ~LaunchStart(r) => UNCHANGED <<event, queue>>
           /\ \A d \in DPs : <<d, 0>> # r => event'[d] = event[d] /\ queue'[d] = queue[d]
<1> USE DEF engineVars, hostVars, threadVars, streamVars, flagVars
<1>1. stream \in [Ranks -> Seq(Op)] /\ host \in [Ranks -> HostState]
  BY DEF TypeInv, StreamOK, HostOK
<1>2. CASE LaunchStart(r)
  <2>1. /\ UNCHANGED <<issued, finished, requests, staged, inputs, thread, gpu, taken, worker, stage,
                       ready, consumed, output>>
        /\ ~SignalDummy(r) => UNCHANGED <<ready, consumed, output>>
    BY <1>2 DEF LaunchStart
  <2>2. \A q \in Ranks \ {r} : stream'[q] = stream[q] /\ host'[q] = host[q]
    BY <1>1, <1>2 DEF LaunchStart
  <2>3. \A d \in DPs : <<d, 0>> # r => event'[d] = event[d] /\ queue'[d] = queue[d]
    <3> SUFFICES ASSUME NEW d \in DPs, <<d, 0>> # r PROVE event'[d] = event[d] /\ queue'[d] = queue[d]
      OBVIOUS
    <3>1. event \in [DPs -> 0 .. MaxPasses] /\ queue \in [DPs -> 0 .. MaxPasses] /\ r = <<r[1], r[2]>>
      BY RankFacts DEF TypeInv, ThreadOK
    <3>2. d # r[1] \/ r[2] # 0
      BY <3>1
    <3>3. CASE r[2] # 0
      BY <1>2, <3>3 DEF LaunchStart
    <3>4. CASE r[2] = 0
      <4>1. PICK x, y : event' = [event EXCEPT ![r[1]] = x] /\ queue' = [queue EXCEPT ![r[1]] = y]
        BY <1>2, <3>4 DEF LaunchStart
      <4> QED
        BY <3>1, <3>2, <3>4, <4>1
    <3> QED
      BY <3>3, <3>4
  <2> QED
    BY <1>2, <2>1, <2>2, <2>3
<1>3. CASE ClaimSeen(r)
  BY <1>1, <1>3 DEF ClaimSeen
<1>4. CASE ClaimTimeout(r)
  BY <1>1, <1>4 DEF ClaimTimeout
<1>5. CASE DummyStart(r)
  BY <1>1, <1>5 DEF DummyStart
<1>6. CASE SignalDummy(r)
  <2>1. PICK w, k : host' = [host EXCEPT ![r] = k] /\ stream' = [stream EXCEPT ![r] = w]
    <3>1. CASE host[r].layer < NumLayers
      <4>1. host' = [host EXCEPT ![r] = [host[r] EXCEPT !.layer = @ + 1]] /\ stream' = stream
        BY <1>1, <1>6, <3>1 DEF SignalDummy
      <4>2. stream = [stream EXCEPT ![r] = stream[r]]
        BY <1>1
      <4> QED
        BY <4>1, <4>2
    <3>2. CASE ~(host[r].layer < NumLayers)
      <4>1. host' = [host EXCEPT ![r] = [host[r] EXCEPT !.phase = "idle"]]
            /\ stream' = [stream EXCEPT ![r] =
                             IF host[r].pass = Capture THEN stream[r] ELSE stream[r] \o Forward(Dummy)]
        BY <1>1, <1>6, <3>2 DEF SignalDummy
      <4> QED
        BY <4>1
    <3> QED
      BY <3>1, <3>2
  <2>2. /\ UNCHANGED <<issued, finished, requests, staged, inputs, thread, gpu, taken, worker, stage,
                       event, queue>>
    BY <1>6 DEF SignalDummy
  <2> QED
    BY <1>1, <1>6, <2>1, <2>2
<1> QED
  BY <1>2, <1>3, <1>4, <1>5, <1>6 DEF HostNext
-----------------------------------------------------------------------------
\* Work of a new forward behind the work on a stream.
Grown(s, w) ==
    /\ \A i \in DOMAIN s : i \in DOMAIN w /\ w[i] = s[i]
    /\ \A i \in DOMAIN w : \/ i \in DOMAIN s /\ w[i] = s[i]
                           \/ w[i].layer > 0 /\ w[i].pass > 0

\* The model thread claims an output, times out, or takes a pass: nothing that a box or
\* a request sees of the stream changes.
LEMMA HostClaims ==
    ASSUME TypeInv, LaunchInv, TypeInv', NEW r \in Ranks,
           ClaimSeen(r) \/ ClaimTimeout(r) \/ DummyStart(r), NEW l \in Layers
    PROVE  /\ Launched(r)' = Launched(r)
           /\ ViewKept(stream[r], stage[r], stream'[r], stage[r], l)
           /\ SawOf(stream'[r], host'[r], l) => SawOf(stream[r], host[r], l) \/ consumed[r][l] = 0
           /\ Grown(stream[r], stream'[r])
           /\ host'[r].phase = "full" <=> host[r].phase = "full"
<1> USE DEF engineVars, hostVars, threadVars, streamVars, flagVars
<1> DEFINE t == r[2]
           s == stream[r]
           b == inbox[r]
           h == host[r]
           k == host'[r]
           f == finished[r[1]]
           n == issued[r[1]]
           g == stage[r]
<1>1. /\ RankTypes(t, s, b, h, f, n) /\ RankOK(t, s, b, h, f, n, g) /\ h \in HostState
      /\ IsBusy(h) => h.pass \in 1 .. MaxPasses
  BY RankOfState
<1>2. /\ host \in [Ranks -> HostState] /\ k \in HostState
      /\ stream \in [Ranks -> Seq(Op)] /\ h.layer \in Layers
      /\ Layers \subseteq Nat /\ NumLayers \in Nat /\ l \in Nat /\ l <= NumLayers
  BY RankFacts DEF TypeInv, HostOK, StreamOK, HostState, Layers
<1>3. Grown(s, s) /\ ViewKept(s, g, s, g, l)
  BY ViewSame DEF Grown
<1>4. CASE ClaimSeen(r) /\ host[r].layer < NumLayers
  <2>1. /\ UNCHANGED <<finished, stream>> /\ h.phase = "claim" /\ consumed[r][h.layer] = 0
        /\ k.pass = h.pass /\ k.phase = h.phase /\ k.layer = h.layer + 1
    BY <1>2, <1>4 DEF ClaimSeen, Claimed, HostState
  <2>2. LaunchedOf(s, k, f) = LaunchedOf(s, h, f)
    BY <2>1 DEF LaunchedOf, IsBusy
  <2>3. SawOf(s, k, l) => SawOf(s, h, l) \/ consumed[r][l] = 0
    <3>1. CASE l = h.layer
      BY <2>1, <3>1
    <3>2. CASE l # h.layer
      <4>1. k.layer > l => h.layer > l
        <5>1. h.layer \in Nat /\ k.layer = h.layer + 1 /\ l \in Nat
          BY <1>2, <2>1
        <5> HIDE DEF h, k
        <5> QED
          BY <3>2, <5>1
      <4> QED
        BY <2>1, <4>1 DEF SawOf
    <3> QED
      BY <3>1, <3>2
  <2> QED
    BY <1>3, <2>1, <2>2, <2>3 DEF Launched
<1>5. CASE ClaimSeen(r) /\ ~(host[r].layer < NumLayers)
  <2> DEFINE p == h.pass
             w == s \o Forward(p)
  <2>1. /\ UNCHANGED <<finished>> /\ h.phase = "claim" /\ consumed[r][h.layer] = 0
        /\ k.phase = "idle" /\ stream'[r] = w
    BY <1>2, <1>5 DEF ClaimSeen, Claimed, HostState
  <2>2. IsBusy(h) /\ ~IsBusy(k) /\ p \in 1 .. MaxPasses /\ p \in 0 .. MaxPasses /\ p > 0
    BY <1>1, <2>1 DEF IsBusy
  <2>3. OrderOf(t, s, h, f, n, g) /\ (s = <<>> => g = "wait") /\ s \in Seq(Op) /\ f \in Nat
        /\ t \in Nat /\ n \in Nat
    BY <1>1, RankFacts DEF RankOK, OrderOf, RankTypes
  <2>4. LaunchedOf(w, k, f) = LaunchedOf(s, h, f)
    <3> HIDE DEF t, s, b, h, k, f, n, g, p
    <3>1. p = h.pass
      BY DEF p
    <3> QED
      BY <1>1, <1>2, <2>2, <2>3, <3>1, OrderForward
  <2>5. /\ ViewKept(s, g, w, g, l)
        /\ \A i \in DOMAIN w : (i \in DOMAIN s /\ w[i] = s[i]) \/ (w[i].pass = p /\ w[i].layer > 0)
        /\ \A i \in DOMAIN s : i \in DOMAIN w /\ w[i] = s[i]
    <3> HIDE DEF s, g, p
    <3> QED
      BY <2>2, <2>3, ViewForward
  <2>6. Grown(s, w)
    <3> HIDE DEF w, s, p
    <3> QED
      BY <2>2, <2>5 DEF Grown
  <2>7. SawOf(s, h, l) \/ consumed[r][l] = 0
    <3>1. l = h.layer \/ h.layer > l
      <4>1. h.layer \in Nat /\ ~(h.layer < NumLayers)
        BY <1>2, <1>5
      <4> HIDE DEF h
      <4> QED
        BY <1>2, <4>1
    <3> QED
      BY <2>1, <3>1 DEF SawOf
  <2> QED
    BY <2>1, <2>4, <2>5, <2>6, <2>7 DEF Launched
<1>6. CASE ClaimTimeout(r)
  <2>1. /\ UNCHANGED <<finished, stream>> /\ h.phase = "claim"
        /\ k.pass = h.pass /\ k.phase = "timeout"
    BY <1>2, <1>6 DEF ClaimTimeout, HostState
  <2>2. LaunchedOf(s, k, f) = LaunchedOf(s, h, f)
    BY <2>1 DEF LaunchedOf, IsBusy
  <2> QED
    BY <1>3, <2>1, <2>2 DEF Launched, SawOf
<1>7. CASE DummyStart(r)
  <2>1. /\ UNCHANGED <<finished, stream>> /\ h.phase = "idle" /\ k.phase = "signal"
    BY <1>2, <1>7 DEF DummyStart
  <2>2. LaunchedOf(s, k, f) = LaunchedOf(s, h, f)
    BY <2>1 DEF LaunchedOf, IsBusy
  <2> QED
    BY <1>3, <2>1, <2>2 DEF Launched, SawOf
<1> QED
  BY <1>4, <1>5, <1>6, <1>7

\* A new forward does not change which inputs are prepared.
LEMMA PreparedGrown ==
    ASSUME NEW s, NEW w, Grown(s, w), NEW la, NEW f
    PROVE  /\ PreparedOf(la, w, f) <=> PreparedOf(la, s, f)
           /\ (\A i \in DOMAIN s : s[i].pass > 0) => (\A i \in DOMAIN w : w[i].pass > 0)
<1>1. (\A i \in DOMAIN s : s[i].layer = 0 => s[i].pass # f + 1)
         => (\A i \in DOMAIN w : w[i].layer = 0 => w[i].pass # f + 1)
  BY DEF Grown
<1>2. (\A i \in DOMAIN w : w[i].layer = 0 => w[i].pass # f + 1)
         => (\A i \in DOMAIN s : s[i].layer = 0 => s[i].pass # f + 1)
  BY DEF Grown
<1> QED
  BY <1>1, <1>2 DEF PreparedOf, Grown

\* The model thread of one rank, waiting for its outputs or for its turn.
LEMMA ExchangeClaims ==
    ASSUME TypeInv, LaunchInv, ExchangeInv, TypeInv', NEW r \in Ranks,
           ClaimSeen(r) \/ ClaimTimeout(r) \/ DummyStart(r)
    PROVE  ExchangeInv'
<1>1. /\ UNCHANGED <<finished, requests, staged, inputs, thread, gpu, taken, worker, stage,
                     ready, consumed, output, event, queue>>
      /\ \A q \in Ranks \ {r} : stream'[q] = stream[q] /\ host'[q] = host[q]
  <2>1. HostNext(r) \/ ClaimTimeout(r)
    BY DEF HostNext
  <2>2. ~LaunchStart(r) /\ ~SignalDummy(r)
    <3>1. CASE DummyStart(r)
      <4>1. host[r].phase = "idle" /\ inbox[r] # <<>> /\ Head(inbox[r]) <= 0
        BY <3>1 DEF DummyStart
      <4>2. Head(inbox[r]) \in {Dummy, Capture} \cup Batches
        BY <4>1, TailFacts DEF TypeInv, HostOK
      <4>3. ~(Head(inbox[r]) > 0)
        BY <4>1, <4>2, RankFacts DEF Dummy, Capture, Batches
      <4> QED
        BY <4>1, <4>3 DEF LaunchStart, SignalDummy
    <3>2. CASE ClaimSeen(r) \/ ClaimTimeout(r)
      <4>1. host[r].phase = "claim"
        BY <3>2 DEF ClaimSeen, ClaimTimeout
      <4> QED
        BY <4>1 DEF LaunchStart, SignalDummy
    <3> QED
      BY <3>1, <3>2
  <2> QED
    BY <2>1, <2>2, HostActs
<1>2. 1 \in Layers
  BY RankFacts
<1>3. ASSUME NEW d \in DPs PROVE Requested(d)'
  <2> DEFINE q == <<d, 0>>
  <2>1. q \in Ranks /\ Requested(d)
    BY RankFacts DEF ExchangeInv
  <2>2. HasWork(d)' <=> HasWork(d)
    BY <1>1 DEF HasWork, InWork
  <2>3. /\ Launched(q)' = Launched(q)
        /\ host'[q].phase = "full" <=> host[q].phase = "full"
        /\ Grown(stream[q], stream'[q])
    <3>1. CASE q = r
      BY <1>2, <3>1, HostClaims
    <3>2. CASE q # r
      BY <1>1, <2>1, <3>2 DEF Launched, Grown
    <3> QED
      BY <3>1, <3>2
  <2>4. /\ Prepared(d)' <=> Prepared(d)
        /\ Prepared(d) => \A i \in DOMAIN stream'[q] : stream'[q][i].pass > 0
    <3>1. Prepared(d)' = PreparedOf(Launched(q), stream'[q], finished[d])
      BY <1>1, <2>3 DEF Prepared
    <3>2. Prepared(d) = PreparedOf(Launched(q), stream[q], finished[d])
      BY DEF Prepared
    <3>3. Prepared(d) => \A i \in DOMAIN stream[q] : stream[q][i].pass > 0
      BY <2>1 DEF Requested
    <3> HIDE DEF q
    <3> QED
      BY <2>3, <3>1, <3>2, <3>3, PreparedGrown
  <2> QED
    BY <1>1, <2>1, <2>2, <2>3, <2>4, RequestKeep
<1>4. ASSUME NEW q \in Ranks, NEW l \in Layers PROVE Box(q, l)'
  <2>1. Box(q, l) /\ (Published(q, l)' <=> Published(q, l))
    BY <1>1, PublishedKeep DEF ExchangeInv
  <2>2. /\ ViewKept(stream[q], stage[q], stream'[q], stage[q], l)
        /\ SawOf(stream'[q], host'[q], l) => SawOf(stream[q], host[q], l) \/ consumed[q][l] = 0
    <3>1. CASE q = r
      BY <3>1, HostClaims
    <3>2. CASE q # r
      BY <1>1, <3>2, ViewSame
    <3> QED
      BY <3>1, <3>2
  <2> QED
    BY <1>1, <2>1, <2>2, BoxKeep
<1>5. WorkerInv'
  BY <1>1, WorkerKeep DEF ExchangeInv
<1> QED
  BY <1>3, <1>4, <1>5 DEF ExchangeInv
-----------------------------------------------------------------------------
\* One more batch is launched: its request waits in the queue, or the launch failed
\* because one waits there already.
LEMMA RequestLaunch ==
    ASSUME NEW f \in Nat, NEW q, NEW bt, NEW busy, NEW th, NEW qu \in Nat, NEW la \in Nat,
           NEW ev, NEW inp, NEW st, NEW prep \in BOOLEAN, NEW full \in BOOLEAN, ~full,
           RequestedOf(f, q, bt, busy, th, qu, la, full, ev, inp, st, prep),
           NEW qu2, qu2 = IF qu # 0 THEN qu ELSE la + 1, NEW full2, full2 <=> qu # 0
    PROVE  RequestedOf(f, q, bt, busy, th, qu2, la + 1, full2, la + 1, inp, st, prep)
<1> DEFINE y == HeldOf(q, bt, th)
<1>1. /\ q # <<>> => q = <<f + 1>> /\ bt = f
      /\ bt \in {f, f + 1}
      /\ bt = f => ~busy
      /\ th.phase # "get" => th.pass = SentOf(q, bt) + 1
      /\ th.phase = "wait" => th.seen >= th.pass
      /\ th.phase \in {"staging", "send"} => th.pass = f + 1 /\ inp = f + 1
      /\ th.phase = "staging" => th.seen = f + 1
      /\ th.phase = "send" => st = f + 1
      /\ inp = IF prep THEN f + 1 ELSE f
      /\ SentOf(q, bt) = f + 1 => st = f + 1 /\ inp = f + 1
  BY DEF RequestedOf
<1>2. /\ qu # 0 => qu = y + 1
      /\ la = (IF qu # 0 THEN qu ELSE y) + 0
  BY DEF RequestedOf, AskedOf
<1> HIDE DEF y
<1>3. y \in Nat \/ qu # 0
  <2>1. HeldOf(q, bt, th) \in Nat
    BY RequestFacts
  <2> QED
    BY <2>1 DEF y
<1>4. /\ qu2 # 0 => qu2 = y + 1
      /\ la + 1 = (IF qu2 # 0 THEN qu2 ELSE y) + IF full2 THEN 1 ELSE 0
  <2>1. CASE qu # 0
    BY <1>2, <2>1
  <2>2. CASE qu = 0
    BY <1>2, <1>3, <2>2
  <2> QED
    BY <2>1, <2>2
<1> QED
  BY <1>1, <1>4 DEF RequestedOf, AskedOf, y

\* What a launch does to the rank it is on.
LEMMA LaunchActs ==
    ASSUME TypeInv, LaunchInv, TypeInv', NEW r \in Ranks, LaunchStart(r)
    PROVE  /\ host'[r].layer = 1 /\ host'[r].phase = (IF r[2] = 0 /\ queue[r[1]] # 0 THEN "full" ELSE "claim")
           /\ host[r].phase = "idle" /\ Launched(r)' = Launched(r) + 1 /\ Launched(r) \in Nat
           /\ r[2] # 0 => stream'[r] = stream[r]
           /\ r[2] = 0 => /\ event'[r[1]] = Launched(r) + 1
                          /\ queue'[r[1]] = IF queue[r[1]] # 0 THEN queue[r[1]] ELSE Launched(r) + 1
                          /\ \E e \in Op : /\ e.layer = 0 /\ e.pass = Launched(r) + 1
                                           /\ stream'[r] = Append(stream[r], e)
<1> DEFINE t == r[2]
           s == stream[r]
           b == inbox[r]
           h == host[r]
           k == host'[r]
           f == finished[r[1]]
           n == issued[r[1]]
           g == stage[r]
           e == [op |-> "prepare", pass |-> Head(b), layer |-> 0]
           full == t = 0 /\ queue[r[1]] # 0
<1>1. /\ RankTypes(t, s, b, h, f, n) /\ RankOK(t, s, b, h, f, n, g)
  BY RankOfState
<1>2. /\ host \in [Ranks -> HostState] /\ k \in HostState
      /\ stream \in [Ranks -> Seq(Op)] /\ inbox \in [Ranks -> Seq(Issuable)]
      /\ queue \in [DPs -> 0 .. MaxPasses] /\ event \in [DPs -> 0 .. MaxPasses] /\ r[1] \in DPs
  BY RankFacts DEF TypeInv, HostOK, StreamOK, Issuable, ThreadOK
<1>3. /\ h.phase = "idle" /\ b # <<>> /\ Head(b) > 0 /\ Head(b) = b[1]
      /\ finished' = finished
      /\ k = [phase |-> IF full THEN "full" ELSE "claim", pass |-> Head(b), layer |-> 1]
  BY <1>2 DEF LaunchStart, streamVars
<1>4. /\ t # 0 => stream'[r] = s
      /\ t = 0 => /\ stream'[r] = Append(s, e) /\ event'[r[1]] = Head(b)
                  /\ queue'[r[1]] = IF full THEN queue[r[1]] ELSE Head(b)
  <2>1. CASE t = 0
    BY <1>2, <2>1 DEF LaunchStart
  <2>2. CASE t # 0
    BY <1>2, <2>2 DEF LaunchStart
  <2> QED
    BY <2>1, <2>2
<1>5. b[1] \in Batches
  <2>1. b[1] \in Issuable
    BY <1>2, <1>3, TailFacts
  <2> QED
    BY <1>3, <2>1 DEF Issuable, Dummy, Capture
<1>6. e \in Op /\ e.pass = b[1] /\ e.layer = 0
  BY <1>3, <1>5, RankFacts DEF Op, OpAt, Batches
<1>7. LaunchedOf(s, h, f) = b[1] - 1
  <2>1. k.phase \in {"claim", "full"} /\ k.pass = b[1] /\ b # <<>> /\ b[1] > 0 /\ h.phase = "idle"
    BY <1>3
  <2> DEFINE w == IF t = 0 THEN Append(s, e) ELSE s
  <2> HIDE DEF t, s, b, h, f, n, g, k, e, w
  <2>2. /\ RankOK(t, w, Tail(b), k, f, n, g)
        /\ DummiesOf(w, Tail(b), k) = DummiesOf(s, b, h)
        /\ LaunchedOf(s, h, f) = b[1] - 1
    <3>1. w = IF t = 0 THEN Append(s, e) ELSE s
      BY DEF w
    <3> QED
      BY <1>1, <1>2, <1>6, <2>1, <3>1, RankLaunch
  <2> QED
    BY <2>2
<1>8. b[1] = Launched(r) + 1 /\ Launched(r) \in Nat
  <2> DEFINE la == LaunchedOf(s, h, f)
  <2>1. la = b[1] - 1 /\ b[1] \in Batches
    BY <1>5, <1>7
  <2> HIDE DEF la
  <2>2. b[1] = la + 1 /\ la \in Nat
    BY <2>1 DEF Batches
  <2> QED
    BY <2>2 DEF la, Launched
<1>9. Launched(r)' = b[1]
  BY <1>3 DEF Launched, LaunchedOf, IsBusy
<1> QED
  BY <1>3, <1>4, <1>6, <1>8, <1>9

\* The inputs of a new batch, still to be staged, do not change which inputs are
\* prepared.
LEMMA PreparedLaunch ==
    ASSUME NEW s \in Seq(Op), NEW e \in Op, e.layer = 0, NEW la \in Nat, e.pass = la + 1,
           NEW f \in Nat, f <= la
    PROVE  /\ PreparedOf(la + 1, Append(s, e), f) <=> PreparedOf(la, s, f)
           /\ (\A i \in DOMAIN s : s[i].pass > 0) => \A i \in DOMAIN Append(s, e) : Append(s, e)[i].pass > 0
<1> DEFINE w == Append(s, e)
<1>1. /\ (\A i \in DOMAIN s : w[i] = s[i]) /\ w[Len(s) + 1] = e
      /\ DOMAIN s = 1 .. Len(s) /\ DOMAIN w = 1 .. Len(s) + 1 /\ Len(s) \in Nat
  BY AppendFacts
<1>2. /\ \A i \in DOMAIN s : i \in DOMAIN w
      /\ \A i \in DOMAIN w : i \in DOMAIN s \/ i = Len(s) + 1
      /\ Len(s) + 1 \in DOMAIN w
  BY <1>1
<1> HIDE DEF w
<1>3. (\A i \in DOMAIN s : s[i].pass > 0) => \A i \in DOMAIN w : w[i].pass > 0
  BY <1>1, <1>2
<1>4. CASE la = f
  <2>1. w[Len(s) + 1].layer = 0 /\ w[Len(s) + 1].pass = f + 1
    BY <1>1, <1>4
  <2> QED
    BY <1>2, <1>3, <1>4, <2>1 DEF PreparedOf, w
<1>5. CASE la # f
  <2>1. la > f /\ la + 1 > f /\ e.pass # f + 1
    BY <1>5
  <2>2. (\A i \in DOMAIN w : w[i].layer = 0 => w[i].pass # f + 1)
          <=> (\A i \in DOMAIN s : s[i].layer = 0 => s[i].pass # f + 1)
    BY <1>1, <1>2, <2>1
  <2> QED
    BY <1>3, <2>1, <2>2 DEF PreparedOf, w
<1> QED
  BY <1>4, <1>5

\* The launch of a batch keeps the exchange.
LEMMA ExchangeLaunch ==
    ASSUME TypeInv, LaunchInv, ExchangeInv, TypeInv', NEW r \in Ranks, LaunchStart(r)
    PROVE  ExchangeInv'
<1>1. /\ UNCHANGED <<finished, requests, staged, inputs, thread, gpu, taken, worker, stage,
                     ready, consumed, output>>
      /\ \A q \in Ranks \ {r} : stream'[q] = stream[q] /\ host'[q] = host[q]
      /\ \A d \in DPs : <<d, 0>> # r => event'[d] = event[d] /\ queue'[d] = queue[d]
  <2>1. HostNext(r) \/ ClaimTimeout(r)
    BY DEF HostNext
  <2>2. UNCHANGED <<ready, consumed, output>>
    BY DEF LaunchStart, flagVars
  <2> QED
    BY <2>1, <2>2, HostActs
<1>2. ASSUME NEW d \in DPs PROVE Requested(d)'
  <2> DEFINE q == <<d, 0>>
  <2>1. q \in Ranks /\ Requested(d) /\ q[1] = d /\ q[2] = 0
    BY RankFacts DEF ExchangeInv
  <2>2. HasWork(d)' = HasWork(d)
    BY <1>1 DEF HasWork, InWork
  <2>3. CASE q # r
    <3>1. Launched(q)' = Launched(q) /\ stream'[q] = stream[q] /\ host'[q] = host[q]
      BY <1>1, <2>1, <2>3 DEF Launched
    <3>2. Prepared(d)' = Prepared(d)
      BY <1>1, <3>1 DEF Prepared
    <3>3. Prepared(d) => \A i \in DOMAIN stream'[q] : stream'[q][i].pass > 0
      BY <2>1, <3>1 DEF Requested
    <3> QED
      BY <1>1, <2>1, <2>2, <2>3, <3>1, <3>2, <3>3, RequestKeep
  <2>4. CASE q = r
    <3> DEFINE la == Launched(q)
               f == finished[d]
               s == stream[q]
    <3>1. PICK e \in Op :
            /\ e.layer = 0 /\ e.pass = la + 1 /\ stream'[q] = Append(s, e)
            /\ event'[d] = la + 1 /\ queue'[d] = (IF queue[d] # 0 THEN queue[d] ELSE la + 1)
            /\ (host'[q].phase = "full") = (queue[d] # 0)
            /\ host[q].phase = "idle" /\ Launched(q)' = la + 1
      BY <2>1, <2>4, LaunchActs
    <3>2. /\ f \in Nat /\ la \in Nat /\ f <= la /\ queue[d] \in Nat /\ Prepared(d) \in BOOLEAN
          /\ s \in Seq(Op)
      BY <2>1, RequestTypes DEF TypeInv, StreamOK
    <3>3. /\ Prepared(d) = PreparedOf(la, s, f)
          /\ Prepared(d)' = PreparedOf(la + 1, Append(s, e), f)
      BY <1>1, <3>1 DEF Prepared
    <3>4. /\ Prepared(d)' = Prepared(d)
          /\ Prepared(d) => \A i \in DOMAIN stream'[q] : stream'[q][i].pass > 0
      <4>1. Prepared(d) => \A i \in DOMAIN s : s[i].pass > 0
        BY <2>1 DEF Requested
      <4>2. stream'[q] = Append(s, e)
        BY <3>1
      <4> HIDE DEF la, f, s, q
      <4>3. /\ PreparedOf(la + 1, Append(s, e), f) <=> PreparedOf(la, s, f)
            /\ (\A i \in DOMAIN s : s[i].pass > 0)
                 => \A i \in DOMAIN Append(s, e) : Append(s, e)[i].pass > 0
        BY <3>1, <3>2, PreparedLaunch
      <4>4. Prepared(d)' = Prepared(d)
        BY <3>3, <4>3 DEF PreparedOf
      <4> QED
        BY <4>1, <4>2, <4>3, <4>4
    <3>5. RequestedOf(f, requests[d], worker.batch[d], HasWork(d), thread[d], queue[d], la,
                      FALSE, event[d], inputs[d], staged[d], Prepared(d))
      <4>1. (host[q].phase = "full") = FALSE
        BY <3>1
      <4> QED
        BY <2>1, <4>1 DEF Requested
    <3>6. RequestedOf(f, requests[d], worker.batch[d], HasWork(d), thread[d],
                      IF queue[d] # 0 THEN queue[d] ELSE la + 1, la + 1, queue[d] # 0, la + 1,
                      inputs[d], staged[d], Prepared(d))
      <4> DEFINE x1 == requests[d]
                 x2 == worker.batch[d]
                 x3 == HasWork(d)
                 x4 == thread[d]
                 x5 == queue[d]
                 x6 == event[d]
                 x7 == inputs[d]
                 x8 == staged[d]
                 x9 == Prepared(d)
                 full == FALSE
      <4>1. /\ RequestedOf(f, x1, x2, x3, x4, x5, la, full, x6, x7, x8, x9)
            /\ x5 \in Nat /\ x9 \in BOOLEAN /\ full \in BOOLEAN /\ ~full
        BY <3>2, <3>5
      <4> DEFINE y1 == IF x5 # 0 THEN x5 ELSE la + 1
                 y2 == x5 # 0
      <4> HIDE DEF f, la, x1, x2, x3, x4, x5, x6, x7, x8, x9, full
      <4>2. RequestedOf(f, x1, x2, x3, x4, y1, la + 1, y2, la + 1, x7, x8, x9)
        <5>1. y1 = (IF x5 # 0 THEN x5 ELSE la + 1) /\ (y2 <=> x5 # 0)
          OBVIOUS
        <5> HIDE DEF y1, y2
        <5> QED
          BY <3>2, <4>1, <5>1, RequestLaunch
      <4> QED
        BY <4>2 DEF x1, x2, x3, x4, x5, x6, x7, x8, x9
    <3> QED
      BY <1>1, <2>2, <3>1, <3>4, <3>6 DEF Requested
  <2> QED
    BY <2>3, <2>4
<1>3. ASSUME NEW q \in Ranks, NEW l \in Layers PROVE Box(q, l)'
  <2>1. Box(q, l) /\ (Published(q, l)' <=> Published(q, l))
    BY <1>1, PublishedKeep DEF ExchangeInv
  <2>2. /\ ViewKept(stream[q], stage[q], stream'[q], stage[q], l)
        /\ SawOf(stream'[q], host'[q], l) => SawOf(stream[q], host[q], l)
    <3>1. CASE q = r
      <4>1. host'[q].layer = 1 /\ ~(1 > l)
        BY <3>1, LaunchActs, RankFacts DEF Layers
      <4>2. stream[q] \in Seq(Op) /\ (stream[q] = <<>> => stage[q] = "wait")
        BY <3>1, RankOfState DEF RankTypes, RankOK, OrderOf
      <4>3. SawOf(stream[q], host'[q], l) => SawOf(stream[q], host[q], l)
        BY <4>1 DEF SawOf
      <4>4. CASE r[2] # 0
        BY <3>1, <4>3, <4>4, LaunchActs, ViewSame
      <4>5. CASE r[2] = 0
        <5>1. PICK e \in Op : e.layer = 0 /\ stream'[q] = Append(stream[q], e)
          BY <3>1, <4>5, LaunchActs
        <5> QED
          BY <4>2, <4>3, <5>1, ViewAppend
      <4> QED
        BY <4>4, <4>5
    <3>2. CASE q # r
      BY <1>1, <3>2, ViewSame
    <3> QED
      BY <3>1, <3>2
  <2> QED
    BY <1>1, <2>1, <2>2, BoxKeep
<1>4. WorkerInv'
  BY <1>1, WorkerKeep DEF ExchangeInv
<1> QED
  BY <1>2, <1>3, <1>4 DEF ExchangeInv
-----------------------------------------------------------------------------
\* What signalling an output of a dummy forward does: nothing else of d is at hand.
LEMMA SignalActs ==
    ASSUME TypeInv, LaunchInv, NEW r \in Ranks, SignalDummy(r)
    PROVE  /\ host[r].phase = "signal" /\ host[r].layer \in Layers /\ issued[r[1]] = finished[r[1]]
           /\ host'[r].phase \in {"signal", "idle"}
           /\ ready' = [ready EXCEPT ![r][host[r].layer] = 1]
           /\ consumed' = [consumed EXCEPT ![r][host[r].layer] = 1]
           /\ output' = [output EXCEPT ![r][host[r].layer] = Dummy]
           /\ stream'[r] = stream[r] \/ stream'[r] = stream[r] \o Forward(Dummy)
           /\ \A l \in Layers : ViewKept(stream[r], stage[r], stream'[r], stage[r], l)
           /\ \A i \in DOMAIN stream'[r] : \/ i \in DOMAIN stream[r] /\ stream'[r][i] = stream[r][i]
                                           \/ stream'[r][i].pass = Dummy
           /\ Launched(r)' = Launched(r)
<1> USE DEF engineVars, hostVars, threadVars, streamVars
<1> DEFINE t == r[2]
           s == stream[r]
           b == inbox[r]
           h == host[r]
           k == host'[r]
           f == finished[r[1]]
           n == issued[r[1]]
           g == stage[r]
           w == s \o Forward(Dummy)
<1>1. /\ RankTypes(t, s, b, h, f, n) /\ RankOK(t, s, b, h, f, n, g)
  BY RankOfState
<1>2. /\ host \in [Ranks -> HostState] /\ h.layer \in Layers /\ h.phase = "signal"
      /\ stream \in [Ranks -> Seq(Op)] /\ finished' = finished
      /\ ready' = [ready EXCEPT ![r][host[r].layer] = 1]
      /\ consumed' = [consumed EXCEPT ![r][host[r].layer] = 1]
      /\ output' = [output EXCEPT ![r][host[r].layer] = Dummy]
  BY DEF SignalDummy, Armed, TypeInv, HostOK, StreamOK, HostState
<1>3. n = f /\ LaunchedOf(s, h, f) = f /\ ~IsBusy(h)
  <2> HIDE DEF t, s, b, h, f, n, g
  <2> QED
    BY <1>1, <1>2, InboxFacts
<1>4. /\ k.phase \in {"signal", "idle"} /\ k \in HostState
      /\ stream'[r] = s \/ stream'[r] = w
  <2>1. CASE h.layer < NumLayers
    <3>1. k = [h EXCEPT !.layer = @ + 1] /\ stream' = stream
      BY <1>2, <2>1 DEF SignalDummy
    <3>2. h.layer + 1 \in Layers
      BY <1>2, <2>1, RankFacts DEF Layers
    <3> QED
      BY <1>2, <3>1, <3>2 DEF HostState
  <2>2. CASE ~(h.layer < NumLayers)
    <3>1. k = [h EXCEPT !.phase = "idle"]
          /\ stream'[r] = IF h.pass = Capture THEN s ELSE w
      BY <1>2, <2>2 DEF SignalDummy
    <3> QED
      BY <1>2, <3>1 DEF HostState
  <2> QED
    BY <2>1, <2>2
<1>5. ~IsBusy(k)
  BY <1>4 DEF IsBusy
<1>6. /\ OrderOf(t, s, h, f, n, g) /\ (s = <<>> => g = "wait") /\ s \in Seq(Op) /\ f \in Nat
      /\ t \in Nat /\ n \in Nat /\ Dummy \in 0 .. MaxPasses /\ h \in HostState
  BY <1>1, RankFacts DEF RankOK, OrderOf, RankTypes, Dummy
<1>7. LaunchedOf(s, k, f) = LaunchedOf(s, h, f)
  BY <1>3, <1>5 DEF LaunchedOf
<1>8. LaunchedOf(w, k, f) = LaunchedOf(s, h, f)
  <2> HIDE DEF t, s, b, h, k, f, n, g
  <2> QED
    BY <1>3, <1>4, <1>5, <1>6, OrderForward
<1>9. /\ \A l \in Layers : ViewKept(s, g, w, g, l)
      /\ \A i \in DOMAIN w : (i \in DOMAIN s /\ w[i] = s[i]) \/ w[i].pass = Dummy
  <2>1. ASSUME NEW l \in Layers
        PROVE  /\ ViewKept(s, g, w, g, l)
               /\ \A i \in DOMAIN w : (i \in DOMAIN s /\ w[i] = s[i]) \/ w[i].pass = Dummy
    <3> HIDE DEF s, g
    <3> QED
      BY <1>6, ViewForward
  <2> QED
    BY <2>1, RankFacts
<1>10. \A l \in Layers : ViewKept(s, g, s, g, l)
  BY ViewSame
<1> HIDE DEF w
<1>11. Launched(r)' = Launched(r)
  BY <1>2, <1>4, <1>7, <1>8 DEF Launched
<1>12. /\ \A l \in Layers : ViewKept(s, g, stream'[r], g, l)
       /\ \A i \in DOMAIN stream'[r] : (i \in DOMAIN s /\ stream'[r][i] = s[i]) \/ stream'[r][i].pass = Dummy
  BY <1>4, <1>9, <1>10
<1> QED
  BY <1>2, <1>3, <1>4, <1>11, <1>12 DEF w

\* Signalling a dummy forward keeps the exchange: nobody copies or computes.
LEMMA ExchangeSignal ==
    ASSUME TypeInv, LaunchInv, ExchangeInv, NEW r \in Ranks, SignalDummy(r)
    PROVE  ExchangeInv'
<1> DEFINE k == host[r].layer
<1>1. /\ UNCHANGED <<finished, requests, staged, inputs, thread, gpu, taken, worker, stage, event, queue>>
      /\ \A q \in Ranks \ {r} : stream'[q] = stream[q] /\ host'[q] = host[q]
  <2>1. (HostNext(r) \/ ClaimTimeout(r)) /\ ~LaunchStart(r)
    BY DEF HostNext, SignalDummy, LaunchStart
  <2> QED
    BY <2>1, HostActs
<1>2. /\ k \in Layers /\ host'[r].phase \in {"signal", "idle"}
      /\ issued[r[1]] = finished[r[1]] /\ Launched(r)' = Launched(r)
      /\ ready \in Grid({0, 1}) /\ consumed \in Grid({0, 1}) /\ output \in Grid(Torn .. MaxPasses)
      /\ r[1] \in DPs
  BY SignalActs, BoxTypes
<1>3. /\ ready' = [ready EXCEPT ![r][k] = 1] /\ consumed' = [consumed EXCEPT ![r][k] = 1]
      /\ output' = [output EXCEPT ![r][k] = Dummy]
  BY SignalActs
<1> HIDE DEF k
<1>4. /\ ~HasWork(r[1]) /\ ~Prepared(r[1]) /\ (\A l \in Layers : ~Published(r, l))
      /\ Launched(r) = finished[r[1]]
      /\ \A i \in DOMAIN stream[r] : ~(stream[r][i].pass > 0)
  BY <1>2, AtRest
<1>5. \A i \in DOMAIN stream'[r] : ~(stream'[r][i].pass > 0)
  BY <1>4, SignalActs DEF Dummy
<1>6. /\ \A q \in Ranks : \A l \in Layers : q # r \/ l # k =>
            ready'[q][l] = ready[q][l] /\ consumed'[q][l] = consumed[q][l] /\ output'[q][l] = output[q][l]
      /\ ready'[r][k] = 1 /\ consumed'[r][k] = 1 /\ output'[r][k] = Dummy
  <2>1. 1 \in {0, 1} /\ Dummy \in Torn .. MaxPasses
    BY RankFacts DEF Dummy, Torn
  <2>2. \A q \in Ranks : \A l \in Layers : ready'[q][l] = IF q = r /\ l = k THEN 1 ELSE ready[q][l]
    BY <1>2, <1>3 DEF Grid
  <2>3. \A q \in Ranks : \A l \in Layers : consumed'[q][l] = IF q = r /\ l = k THEN 1 ELSE consumed[q][l]
    BY <1>2, <1>3 DEF Grid
  <2>4. \A q \in Ranks : \A l \in Layers : output'[q][l] = IF q = r /\ l = k THEN Dummy ELSE output[q][l]
    BY <1>2, <1>3 DEF Grid
  <2> QED
    BY <1>2, <2>2, <2>3, <2>4
<1>7. ASSUME NEW d \in DPs PROVE Requested(d)'
  <2> DEFINE q == <<d, 0>>
  <2>1. q \in Ranks /\ Requested(d) /\ q[1] = d
    BY RankFacts DEF ExchangeInv
  <2>2. HasWork(d)' <=> HasWork(d)
    BY <1>1 DEF HasWork, InWork
  <2>3. Launched(q)' = Launched(q) /\ (host'[q].phase = "full" <=> host[q].phase = "full")
    <3>1. CASE q = r
      BY <1>2, <3>1 DEF SignalDummy
    <3>2. CASE q # r
      BY <1>1, <2>1, <3>2 DEF Launched
    <3> QED
      BY <3>1, <3>2
  <2>4. /\ Prepared(d)' <=> Prepared(d)
        /\ Prepared(d) => \A i \in DOMAIN stream'[q] : stream'[q][i].pass > 0
    <3>1. CASE q = r
      <4>1. ~Prepared(d) /\ Launched(q)' = finished'[d] /\ finished[d] \in Nat
        BY <1>1, <1>2, <1>4, <2>1, <3>1, RequestTypes
      <4>2. ~Prepared(d)'
        BY <1>1, <4>1 DEF Prepared, PreparedOf
      <4> QED
        BY <4>1, <4>2
    <3>2. CASE q # r
      <4>1. stream'[q] = stream[q]
        BY <1>1, <2>1, <3>2
      <4> QED
        BY <1>1, <2>1, <2>3, <4>1 DEF Prepared, Requested
    <3> QED
      BY <3>1, <3>2
  <2> QED
    BY <1>1, <2>1, <2>2, <2>3, <2>4, RequestKeep
<1>8. ASSUME NEW q \in Ranks, NEW l \in Layers PROVE Box(q, l)'
  <2>1. Box(q, l) /\ (Published(q, l)' <=> Published(q, l))
    BY <1>1, PublishedKeep DEF ExchangeInv
  <2>2. ViewKept(stream[q], stage[q], stream'[q], stage'[q], l)
    BY <1>1, SignalActs, ViewSame
  <2>3. q = r => ~SawOf(stream'[q], host'[q], l)
    BY <1>2, <1>5 DEF SawOf
  <2>4. CASE q # r \/ l # k
    <3>1. SawOf(stream'[q], host'[q], l) => SawOf(stream[q], host[q], l)
      BY <1>1, <2>3
    <3> QED
      BY <1>1, <1>6, <2>1, <2>2, <2>4, <3>1, BoxKeep
  <2>5. CASE q = r /\ l = k
    <3>1. ~Published(q, l) /\ ~Published(q, l)' /\ Published(q, l)' \in BOOLEAN
      BY <1>4, <2>1, <2>5 DEF Published
    <3>2. ready'[q][l] = 1 /\ consumed'[q][l] = 1 /\ output'[q][l] = Dummy
          /\ gpu'[q][l] = gpu[q][l] /\ taken'[q][l] = taken[q][l] /\ finished'[q[1]] = finished[q[1]]
      BY <1>1, <1>6, <2>5
    <3>3. BoxOf(ready[q][l], consumed[q][l], output[q][l], gpu[q][l], taken[q][l], finished[q[1]],
                Published(q, l), stream[q], stage[q], host[q], l)
      BY <2>1 DEF Box
    <3>4. BoxOf(1, 1, Dummy, gpu[q][l], taken[q][l], finished[q[1]], Published(q, l)',
                stream'[q], stage'[q], host'[q], l)
      BY <2>2, <2>3, <2>5, <3>1, <3>3 DEF BoxOf, ViewKept
    <3> QED
      BY <3>2, <3>4 DEF Box
  <2> QED
    BY <2>4, <2>5
<1>9. WorkerInv'
  <2>1. ASSUME worker.step # "poll" PROVE Current.dp # r[1]
    BY <1>4, <2>1, CurrentFacts
  <2>2. \A t \in TPs : \A l \in Layers :
              worker.step # "poll" /\ l = Current.layer =>
                 /\ ready[<<Current.dp, t>>][l] = 0 => ready'[<<Current.dp, t>>][l] = 0
                 /\ output'[<<Current.dp, t>>][l] = output[<<Current.dp, t>>][l]
    <3> SUFFICES ASSUME NEW t \in TPs, NEW l \in Layers, worker.step # "poll", l = Current.layer
                 PROVE  /\ ready'[<<Current.dp, t>>][l] = ready[<<Current.dp, t>>][l]
                        /\ output'[<<Current.dp, t>>][l] = output[<<Current.dp, t>>][l]
      OBVIOUS
    <3>1. <<Current.dp, t>> \in Ranks /\ <<Current.dp, t>> # r
      BY <2>1, CurrentFacts, RankFacts
    <3> QED
      BY <1>6, <3>1
  <2> QED
    BY <1>1, <2>2, WorkerKeep DEF ExchangeInv
<1> QED
  BY <1>7, <1>8, <1>9 DEF ExchangeInv

\* A step of a model thread keeps the exchange.
LEMMA ExchangeHost ==
    ASSUME TypeInv, LaunchInv, ExchangeInv, TypeInv', NEW r \in Ranks,
           HostNext(r) \/ ClaimTimeout(r)
    PROVE  ExchangeInv'
BY ExchangeClaims, ExchangeLaunch, ExchangeSignal DEF HostNext
-----------------------------------------------------------------------------
\* The request thread takes a request from the queue.
LEMMA RequestGet ==
    ASSUME NEW f \in Nat, NEW q, NEW bt, NEW busy, NEW th, NEW qu \in Nat, NEW la \in Nat,
           NEW full \in BOOLEAN, NEW ev, NEW inp, NEW st, NEW prep \in BOOLEAN,
           RequestedOf(f, q, bt, busy, th, qu, la, full, ev, inp, st, prep),
           th.phase = "get", qu # 0, NEW th2, th2.phase = "taken", th2.pass = qu
    PROVE  RequestedOf(f, q, bt, busy, th2, 0, la, full, ev, inp, st, prep)
BY DEF RequestedOf, AskedOf, HeldOf

\* The request thread notes which record of the event to wait for.
LEMMA RequestWait ==
    ASSUME NEW f \in Nat, NEW q, NEW bt, NEW busy, NEW th, NEW qu \in Nat, NEW la \in Nat,
           NEW full \in BOOLEAN, NEW ev, NEW inp, NEW st, NEW prep \in BOOLEAN,
           RequestedOf(f, q, bt, busy, th, qu, la, full, ev, inp, st, prep),
           th.phase = "taken", NEW th2, th2.phase = "wait", th2.pass = th.pass, th2.seen = ev
    PROVE  RequestedOf(f, q, bt, busy, th2, qu, la, full, ev, inp, st, prep)
<1>1. /\ HeldOf(q, bt, th2) = HeldOf(q, bt, th)
      /\ AskedOf(q, bt, th2, qu) = AskedOf(q, bt, th, qu)
  BY DEF HeldOf, AskedOf
<1>2. ev >= th.pass
  <2> DEFINE a == AskedOf(q, bt, th, qu)
             y == HeldOf(q, bt, th)
  <2>1. y = th.pass /\ a >= y /\ la >= a /\ a \in Nat /\ y \in Nat
    BY RequestFacts
  <2>2. ev = la
    BY DEF RequestedOf
  <2> HIDE DEF a, y
  <2> QED
    BY <2>1, <2>2
<1> QED
  BY <1>1, <1>2 DEF RequestedOf

\* The event has come: the inputs in the buffer are the ones of the batch to stage.
LEMMA RequestStage ==
    ASSUME NEW f \in Nat, NEW q, NEW bt, NEW busy, NEW th, NEW qu \in Nat, NEW la \in Nat,
           NEW full \in BOOLEAN, NEW ev, NEW inp \in Nat, NEW st, NEW prep \in BOOLEAN,
           RequestedOf(f, q, bt, busy, th, qu, la, full, ev, inp, st, prep),
           th.phase = "wait", inp >= th.seen, th.seen \in Nat, NEW st2,
           NEW th2, th2.phase = "staging", th2.pass = th.pass, th2.seen = inp
    PROVE  RequestedOf(f, q, bt, busy, th2, qu, la, full, ev, inp, st2, prep)
<1>1. /\ HeldOf(q, bt, th2) = HeldOf(q, bt, th)
      /\ AskedOf(q, bt, th2, qu) = AskedOf(q, bt, th, qu)
  BY DEF HeldOf, AskedOf
<1>2. th.pass = f + 1 /\ inp = f + 1 /\ SentOf(q, bt) = f
  <2> DEFINE x == SentOf(q, bt)
  <2>1. x \in {f, f + 1} /\ th.pass = x + 1
    BY RequestFacts
  <2>2. th.seen >= th.pass /\ inp = IF prep THEN f + 1 ELSE f
    BY DEF RequestedOf
  <2> HIDE DEF x
  <2>3. th.pass = f + 1 /\ inp = f + 1 /\ x = f
    BY <2>1, <2>2
  <2> QED
    BY <2>3 DEF x
<1> QED
  BY <1>1, <1>2 DEF RequestedOf

\* The inputs are staged whole, for nobody overwrote them meanwhile.
LEMMA RequestStaged ==
    ASSUME NEW f \in Nat, NEW q, NEW bt, NEW busy, NEW th, NEW qu \in Nat, NEW la \in Nat,
           NEW full \in BOOLEAN, NEW ev, NEW inp, NEW st, NEW prep \in BOOLEAN,
           RequestedOf(f, q, bt, busy, th, qu, la, full, ev, inp, st, prep),
           th.phase = "staging", NEW st2,
           st2 = IF inp = th.seen /\ inp = th.pass THEN inp ELSE Torn,
           NEW th2, th2.phase = "send", th2.pass = th.pass
    PROVE  RequestedOf(f, q, bt, busy, th2, qu, la, full, ev, inp, st2, prep)
<1>1. /\ HeldOf(q, bt, th2) = HeldOf(q, bt, th)
      /\ AskedOf(q, bt, th2, qu) = AskedOf(q, bt, th, qu)
  BY DEF HeldOf, AskedOf
<1>2. st2 = f + 1
  BY DEF RequestedOf
<1> QED
  BY <1>1, <1>2 DEF RequestedOf

\* The request thread sends the request; none of d is under way.
LEMMA RequestSend ==
    ASSUME NEW f \in Nat, NEW q, NEW bt, NEW busy, NEW th, NEW qu \in Nat, NEW la \in Nat,
           NEW full \in BOOLEAN, NEW ev, NEW inp, NEW st, NEW prep \in BOOLEAN,
           RequestedOf(f, q, bt, busy, th, qu, la, full, ev, inp, st, prep),
           th.phase = "send", NEW th2, th2.phase = "get", NEW q2, q2 = Append(q, th.pass)
    PROVE  RequestedOf(f, q2, bt, busy, th2, qu, la, full, ev, inp, st, prep)
<1>1. th.pass = f + 1 /\ st = f + 1 /\ inp = f + 1 /\ th.pass = SentOf(q, bt) + 1
  BY DEF RequestedOf
<1>2. SentOf(q, bt) = f /\ q = <<>> /\ bt = f
  <2> DEFINE x == SentOf(q, bt)
  <2>1. x \in {f, f + 1} /\ th.pass = x + 1 /\ (x = f => q = <<>> /\ bt = f)
    BY RequestFacts
  <2> HIDE DEF x
  <2>2. x = f
    BY <1>1, <2>1
  <2> QED
    BY <2>1, <2>2 DEF x
<1>3. q2 = <<f + 1>> /\ q2 # <<>> /\ q2[1] = f + 1
  BY <1>1, <1>2
<1>4. SentOf(q2, bt) = f + 1 /\ HeldOf(q2, bt, th2) = f + 1 /\ HeldOf(q, bt, th) = f + 1
  BY <1>1, <1>3 DEF SentOf, HeldOf
<1>5. AskedOf(q2, bt, th2, qu) = AskedOf(q, bt, th, qu)
  BY <1>4 DEF AskedOf
<1> QED
  BY <1>2, <1>3, <1>4, <1>5 DEF RequestedOf

\* The request thread of d, and what it leaves alone.
LEMMA ThreadActs ==
    ASSUME TypeInv, NEW d \in DPs, ThreadNext(d)
    PROVE  /\ UNCHANGED <<host, event, streamVars, flagVars, output, worker>>
           /\ \A e \in DPs \ {d} : /\ thread'[e] = thread[e] /\ queue'[e] = queue[e]
                                   /\ requests'[e] = requests[e] /\ staged'[e] = staged[e]
<1> USE DEF hostVars, streamVars, flagVars
<1>1. /\ thread \in [DPs -> ThreadState] /\ queue \in [DPs -> 0 .. MaxPasses]
      /\ requests \in [DPs -> Seq(Batches)] /\ staged \in [DPs -> Torn .. MaxPasses]
  BY DEF TypeInv, ThreadOK, InputsOK
<1>2. CASE ThreadGet(d)
  BY <1>1, <1>2 DEF ThreadGet
<1>3. CASE ThreadWaitEvent(d)
  BY <1>1, <1>3 DEF ThreadWaitEvent
<1>4. CASE ThreadStageBegin(d)
  BY <1>1, <1>4 DEF ThreadStageBegin
<1>5. CASE ThreadStageEnd(d)
  BY <1>1, <1>5 DEF ThreadStageEnd
<1>6. CASE ThreadSend(d)
  BY <1>1, <1>6 DEF ThreadSend
<1> QED
  BY <1>2, <1>3, <1>4, <1>5, <1>6 DEF ThreadNext

\* A step of a request thread keeps the requests.
LEMMA ThreadRequest ==
    ASSUME TypeInv, LaunchInv, ExchangeInv, NEW d \in DPs, ThreadNext(d)
    PROVE  Requested(d)'
<1> DEFINE r == <<d, 0>>
           full == host[r].phase = "full"
           la == Launched(r)
           busy == HasWork(d)
           prep == Prepared(d)
           f == finished[d]
           bt == worker.batch[d]
           q == requests[d]
           th == thread[d]
           qu == queue[d]
           ev == event[d]
           inp == inputs[d]
           st == staged[d]
           th2 == thread'[d]
           q2 == requests'[d]
           st2 == staged'[d]
           qu2 == queue'[d]
<1>1. RequestedOf(f, q, bt, busy, th, qu, la, full, ev, inp, st, prep)
  BY DEF ExchangeInv, Requested
<1>2. /\ f \in Nat /\ qu \in Nat /\ la \in Nat /\ full \in BOOLEAN /\ prep \in BOOLEAN
      /\ inp \in Nat /\ th.seen \in Nat /\ r \in Ranks /\ r[1] = d
  BY RequestTypes
<1>3. /\ thread \in [DPs -> ThreadState] /\ queue \in [DPs -> 0 .. MaxPasses]
      /\ requests \in [DPs -> Seq(Batches)] /\ staged \in [DPs -> Torn .. MaxPasses]
  BY DEF TypeInv, ThreadOK, InputsOK
<1>4. UNCHANGED <<host, event, streamVars, flagVars, output, worker>>
  BY ThreadActs
<1>5. RequestedOf(f, q2, bt, busy, th2, qu2, la, full, ev, inp, st2, prep)
  <2>1. CASE ThreadGet(d)
    <3>1. th.phase = "get" /\ qu # 0 /\ th2.phase = "taken" /\ th2.pass = qu /\ qu2 = 0 /\ q2 = q /\ st2 = st
      BY <1>3, <2>1 DEF ThreadGet
    <3> HIDE DEF full, la, busy, prep, f, bt, q, th, qu, ev, inp, st, th2, q2, st2, qu2
    <3>2. RequestedOf(f, q, bt, busy, th2, 0, la, full, ev, inp, st, prep)
      BY <1>1, <1>2, <3>1, RequestGet
    <3> QED
      BY <3>1, <3>2
  <2>2. CASE ThreadWaitEvent(d)
    <3>1. th.phase = "taken" /\ th2.phase = "wait" /\ th2.pass = th.pass /\ th2.seen = ev
          /\ qu2 = qu /\ q2 = q /\ st2 = st
      BY <1>3, <2>2 DEF ThreadWaitEvent, EventTarget, ThreadState
    <3> HIDE DEF full, la, busy, prep, f, bt, q, th, qu, ev, inp, st, th2, q2, st2, qu2
    <3>2. RequestedOf(f, q, bt, busy, th2, qu, la, full, ev, inp, st, prep)
      BY <1>1, <1>2, <3>1, RequestWait
    <3> QED
      BY <3>1, <3>2
  <2>3. CASE ThreadStageBegin(d)
    <3>1. th.phase = "wait" /\ inp >= th.seen /\ th2.phase = "staging" /\ th2.pass = th.pass
          /\ th2.seen = inp /\ qu2 = qu /\ q2 = q
      BY <1>3, <2>3 DEF ThreadStageBegin, ThreadState
    <3> HIDE DEF full, la, busy, prep, f, bt, q, th, qu, ev, inp, st, th2, q2, st2, qu2
    <3>2. RequestedOf(f, q, bt, busy, th2, qu, la, full, ev, inp, st2, prep)
      BY <1>1, <1>2, <3>1, RequestStage
    <3> QED
      BY <3>1, <3>2
  <2>4. CASE ThreadStageEnd(d)
    <3>1. th.phase = "staging" /\ th2.phase = "send" /\ th2.pass = th.pass
          /\ st2 = (IF inp = th.seen /\ inp = th.pass THEN inp ELSE Torn) /\ qu2 = qu /\ q2 = q
      BY <1>3, <2>4 DEF ThreadStageEnd, ThreadState
    <3> HIDE DEF full, la, busy, prep, f, bt, q, th, qu, ev, inp, st, th2, q2, st2, qu2
    <3>2. RequestedOf(f, q, bt, busy, th2, qu, la, full, ev, inp, st2, prep)
      BY <1>1, <1>2, <3>1, RequestStaged
    <3> QED
      BY <3>1, <3>2
  <2>5. CASE ThreadSend(d)
    <3>1. th.phase = "send" /\ th2.phase = "get" /\ q2 = Append(q, th.pass) /\ qu2 = qu /\ st2 = st
      BY <1>3, <2>5 DEF ThreadSend, ThreadState
    <3> HIDE DEF full, la, busy, prep, f, bt, q, th, qu, ev, inp, st, th2, q2, st2, qu2
    <3>2. RequestedOf(f, q2, bt, busy, th2, qu, la, full, ev, inp, st, prep)
      BY <1>1, <1>2, <3>1, RequestSend
    <3> QED
      BY <3>1, <3>2
  <2> QED
    BY <2>1, <2>2, <2>3, <2>4, <2>5 DEF ThreadNext
<1>6. HasWork(d)' = HasWork(d) /\ Launched(r)' = Launched(r) /\ finished' = finished
      /\ host' = host /\ stream' = stream /\ inputs' = inputs
  BY <1>4 DEF HasWork, InWork, Launched, streamVars
<1>7. Prepared(d)' = Prepared(d)
  BY <1>6 DEF Prepared
<1>8. Prepared(d) => \A i \in DOMAIN stream[r] : stream[r][i].pass > 0
  BY DEF ExchangeInv, Requested
<1> QED
  BY <1>4, <1>5, <1>6, <1>7, <1>8 DEF Requested

\* A step of a request thread keeps the exchange.
LEMMA ExchangeThread ==
    ASSUME TypeInv, LaunchInv, ExchangeInv, NEW d \in DPs, ThreadNext(d)
    PROVE  ExchangeInv'
<1>1. /\ UNCHANGED <<host, event, streamVars, flagVars, output, worker>>
      /\ \A e \in DPs \ {d} : /\ thread'[e] = thread[e] /\ queue'[e] = queue[e]
                              /\ requests'[e] = requests[e] /\ staged'[e] = staged[e]
  BY ThreadActs
<1>2. UNCHANGED <<stream, stage, finished, inputs, gpu, taken, ready, consumed>>
  BY <1>1 DEF streamVars, flagVars
<1>3. ASSUME NEW e \in DPs PROVE Requested(e)'
  <2>1. CASE e = d
    BY <2>1, ThreadRequest
  <2>2. CASE e # d
    <3>1. Requested(e)
      BY DEF ExchangeInv
    <3>2. HasWork(e)' = HasWork(e) /\ Launched(<<e, 0>>)' = Launched(<<e, 0>>)
      BY <1>1, <1>2 DEF HasWork, InWork, Launched
    <3>3. Prepared(e)' = Prepared(e)
      BY <1>2, <3>2 DEF Prepared
    <3> QED
      BY <1>1, <1>2, <2>2, <3>1, <3>2, <3>3, RequestKeep DEF Requested
  <2> QED
    BY <2>1, <2>2
<1>4. ASSUME NEW q \in Ranks, NEW l \in Layers PROVE Box(q, l)'
  BY <1>1, <1>2, PublishedKeep, BoxKeep, ViewSame DEF ExchangeInv
<1>5. WorkerInv'
  BY <1>1, <1>2, WorkerKeep DEF ExchangeInv
<1> QED
  BY <1>3, <1>4, <1>5 DEF ExchangeInv
-----------------------------------------------------------------------------
\* What the boxes see of a rank whose forward ends.
LEMMA ReduceView ==
    ASSUME NEW t, NEW s, NEW b, NEW h, NEW f, NEW n, NEW g,
           RankTypes(t, s, b, h, f, n), RankOK(t, s, b, h, f, n, g),
           s # <<>>, s[1].op = "reduce", NEW l \in Layers
    PROVE  /\ g = "wait" /\ s[1].layer = NumLayers + 1 /\ Quiescent(Tail(s), g, l)
           /\ s[1].pass > 0 => ThroughOf(s, g, l)
           /\ ~(s[1].pass > 0) => Quiescent(s, g, l)
<1> DEFINE w == Tail(s)
<1>1. /\ s \in Seq(Op) /\ s[1] \in Op /\ s[1].pass \in Nat /\ s[1].layer \in Nat
      /\ NumLayers \in Nat \ {0} /\ l \in Nat /\ l <= NumLayers /\ l >= 1
  BY StreamHead, RankFacts DEF RankTypes, Layers
<1>2. s[1].layer = NumLayers + 1
  BY <1>1, OpFacts
<1>3. g = "wait"
  BY DEF RankOK, OrderOf
<1>4. w \in Seq(Op) /\ (w # <<>> => FollowsOf(t, f, s[1], s[2]) /\ w[1] = s[2])
  BY StreamNextOp
<1>5. w # <<>> => w[1].layer <= 1
  BY <1>1, <1>2, <1>4 DEF FollowsOf
<1> HIDE DEF w
<1>6. Quiescent(w, g, l)
  BY <1>3, <1>4, <1>5, ViewQuiet
<1>7. s[1].pass > 0 => ThroughOf(s, g, l)
  BY <1>1, <1>2 DEF ThroughOf, GoingOf
<1>8. ~(s[1].pass > 0) => Quiescent(s, g, l)
  BY <1>1, <1>2 DEF Quiescent, ThroughOf, CopyingOf, DummyCopyingOf, GoingOf
<1> QED
  BY <1>2, <1>3, <1>6, <1>7, <1>8 DEF w

\* When the forward of a batch ends, the inputs of the next one are not staged; a dummy
\* forward changes nothing.
LEMMA ReducePrepared ==
    ASSUME NEW t, NEW s, NEW b, NEW h, NEW f, NEW n, NEW g,
           RankTypes(t, s, b, h, f, n), RankOK(t, s, b, h, f, n, g),
           s # <<>>, s[1].op = "reduce", t = 0
    PROVE  /\ s[1].pass > 0 => ~PreparedOf(LaunchedOf(Tail(s), h, f + 1), Tail(s), f + 1)
           /\ \A x : PreparedOf(x, Tail(s), f) <=> PreparedOf(x, s, f)
<1> DEFINE w == Tail(s)
<1>1. /\ s \in Seq(Op) /\ s[1] \in Op /\ s[1].pass \in Nat /\ f \in Nat /\ NumLayers \in Nat \ {0}
  BY StreamHead, RankFacts DEF RankTypes
<1>2. s[1].layer = NumLayers + 1 /\ s[1].layer # 0
  BY <1>1, OpFacts
<1>3. /\ w # <<>> => w[1] = s[2] /\ FollowsOf(t, f, s[1], s[2])
      /\ w = <<>> => t # 0 \/ ~IsBusy(h)
      /\ \A i \in DOMAIN w : i + 1 \in DOMAIN s /\ w[i] = s[i + 1]
      /\ \A i \in DOMAIN s : i = 1 \/ (i - 1 \in DOMAIN w /\ w[i - 1] = s[i])
      /\ w \in Seq(Op)
  BY <1>2, StreamNextOp
<1>4. s[1].pass > 0 => s[1].pass = f + 1
  BY DEF RankOK, OrderOf, FirstOp
<1>5. ASSUME s[1].pass > 0 PROVE ~PreparedOf(LaunchedOf(w, h, f + 1), w, f + 1)
  <2>1. CASE w = <<>>
    <3>1. LaunchedOf(w, h, f + 1) = f + 1
      BY <1>3, <2>1 DEF LaunchedOf
    <3> QED
      BY <1>1, <3>1 DEF PreparedOf
  <2>2. CASE w # <<>>
    <3>1. w[1].layer = 0 /\ w[1].pass = f + 1 + 1
      BY <1>1, <1>2, <1>3, <1>4, <1>5, <2>2 DEF FollowsOf, Dummy
    <3>2. 1 \in DOMAIN w
      BY <1>3, <2>2, StreamHead
    <3> QED
      BY <3>1, <3>2 DEF PreparedOf
  <2> QED
    BY <2>1, <2>2
<1>6. \A x : PreparedOf(x, w, f) <=> PreparedOf(x, s, f)
  <2>1. (\A i \in DOMAIN s : s[i].layer = 0 => s[i].pass # f + 1)
           <=> (\A i \in DOMAIN w : w[i].layer = 0 => w[i].pass # f + 1)
    <3> HIDE DEF w
    <3> QED
      BY <1>2, <1>3
  <2> QED
    BY <2>1 DEF PreparedOf
<1> QED
  BY <1>5, <1>6

\* The batch is finished: what was asked for it is now the past.
LEMMA RequestFinished ==
    ASSUME NEW f \in Nat, NEW q, NEW bt, NEW busy, NEW th, NEW qu \in Nat, NEW la \in Nat,
           NEW full \in BOOLEAN, NEW ev, NEW inp, NEW st, NEW prep \in BOOLEAN,
           RequestedOf(f, q, bt, busy, th, qu, la, full, ev, inp, st, prep),
           bt = f + 1, ~busy, NEW prep2, ~prep2, NEW f2, f2 = f + 1
    PROVE  RequestedOf(f2, q, bt, busy, th, qu, la, full, ev, inp, st, prep2)
<1>1. q = <<>> /\ SentOf(q, bt) = f + 1 /\ inp = f + 1
  BY RequestFacts
<1>2. th.phase # "get" => th.pass = f + 1 + 1
  BY <1>1 DEF RequestedOf
<1>3. th.phase \notin {"staging", "send"}
  <2>1. th.phase \in {"staging", "send"} => th.pass = f + 1
    BY DEF RequestedOf
  <2> QED
    BY <1>2, <2>1
<1>4. f2 + 1 # f + 1 /\ f2 \in Nat
  OBVIOUS
<1> QED
  BY <1>1, <1>3, <1>4 DEF RequestedOf
-----------------------------------------------------------------------------
\* All ranks of d end the same forward.
LEMMA ReduceActs ==
    ASSUME TypeInv, LaunchInv, NEW d \in DPs, AllReduce(d)
    PROVE  /\ \A r \in Ranks : r[1] = d =>
                 /\ stream[r] # <<>> /\ stream[r][1].op = "reduce"
                 /\ stream[r][1].pass > 0 <=> stream[<<d, 0>>][1].pass > 0
                 /\ stream[r][1].pass > 0 => stream[r][1].pass = finished[d] + 1
           /\ finished'[d] = IF stream[<<d, 0>>][1].pass > 0 THEN finished[d] + 1 ELSE finished[d]
           /\ \A c \in DPs \ {d} : finished'[c] = finished[c]
           /\ \A r \in Ranks : stream'[r] = IF r[1] = d THEN Tail(stream[r]) ELSE stream[r]
           /\ UNCHANGED <<issued, host, queue, thread, requests, staged, event, inputs, stage, gpu,
                          taken, ready, consumed, output, worker>>
<1> USE DEF engineVars, hostVars, threadVars, streamVars, flagVars
<1>1. /\ \A r \in Ranks : <<r[1], 0>> \in Ranks /\ r[1] \in DPs /\ r = <<r[1], r[2]>> /\ r[2] \in TPs
      /\ <<d, 0>> \in Ranks /\ <<d, 0>>[1] = d
  BY RankFacts
<1> DEFINE o == stream[<<d, 0>>][1].pass
           e == IF o > 0 THEN o ELSE finished[d]
<1>2. \A r \in Ranks : r[1] = d => /\ stream[r] # <<>> /\ Head(stream[r]) = stream[r][1]
                                     /\ stream[r][1].op = "reduce" /\ stream[r][1].pass \in Nat
  <2> SUFFICES ASSUME NEW r \in Ranks, r[1] = d
               PROVE  /\ stream[r] # <<>> /\ Head(stream[r]) = stream[r][1]
                      /\ stream[r][1].op = "reduce" /\ stream[r][1].pass \in Nat
    OBVIOUS
  <2>1. stream[r] # <<>> /\ Head(stream[r]).op = "reduce"
    <3>1. r = <<d, r[2]>> /\ r[2] \in TPs
      BY <1>1
    <3> QED
      BY <3>1 DEF AllReduce
  <2>2. Head(stream[r]) = stream[r][1] /\ Head(stream[r]) \in Op
    BY <2>1, TailFacts DEF TypeInv, StreamOK
  <2> QED
    BY <2>1, <2>2, OpFacts
<1>3. \A r \in Ranks : r[1] = d => (stream[r][1].pass > 0 <=> o > 0)
  <2> DEFINE q == <<d, 0>>
  <2>1. q \in Ranks /\ q[1] = d /\ o = stream[q][1].pass
    BY <1>1
  <2> HIDE DEF q, o
  <2>2. \A r \in Ranks : r[1] = d => 1 \in DOMAIN stream[r]
    <3> SUFFICES ASSUME NEW r \in Ranks, r[1] = d PROVE 1 \in DOMAIN stream[r]
      OBVIOUS
    <3>1. Len(stream[r]) \in Nat \ {0} /\ DOMAIN stream[r] = 1 .. Len(stream[r])
      BY <1>2, TailFacts DEF TypeInv, StreamOK
    <3> QED
      BY <3>1
  <2> QED
    BY <1>2, <2>1, <2>2, HeadsAgree
<1>4. \A r \in Ranks : r[1] = d /\ stream[r][1].pass > 0 => stream[r][1].pass = finished[d] + 1
  BY RankOfState, <1>2 DEF RankOK, OrderOf, FirstOp
<1>5. finished \in [DPs -> 0 .. MaxPasses]
  BY DEF TypeInv, EngineOK
<1>6. /\ finished' = [finished EXCEPT ![d] = e]
      /\ stream' = [r \in Ranks |-> IF r[1] = d THEN Tail(stream[r]) ELSE stream[r]]
      /\ UNCHANGED <<issued, host, queue, thread, requests, staged, event, inputs, stage, gpu,
                     taken, ready, consumed, output, worker>>
  BY <1>1, <1>2 DEF AllReduce
<1>7. o > 0 => o = finished[d] + 1
  BY <1>1, <1>4
<1> QED
  BY <1>1, <1>2, <1>3, <1>4, <1>5, <1>6, <1>7

\* At the end of the forward of a batch its results are all copied, so the worker has no
\* request of d.
LEMMA ReduceQuiet ==
    ASSUME TypeInv, LaunchInv, ExchangeInv, NEW d \in DPs, AllReduce(d),
           stream[<<d, 0>>][1].pass > 0
    PROVE  /\ worker.batch[d] = finished[d] + 1 /\ ~HasWork(d)
           /\ \A r \in Ranks : \A l \in Layers : r[1] = d =>
                 /\ ready[r][l] = 0 /\ gpu[r][l] = finished[d] + 1 /\ taken[r][l] = finished[d] + 1
<1>1. \A r \in Ranks : r[1] = d =>
         /\ stream[r] # <<>> /\ stream[r][1].op = "reduce" /\ stream[r][1].pass > 0
  BY ReduceActs
<1>2. \A r \in Ranks : \A l \in Layers : r[1] = d =>
         /\ Published(r, l) /\ ready[r][l] = 0
         /\ gpu[r][l] = finished[d] + 1 /\ taken[r][l] = finished[d] + 1
  <2> SUFFICES ASSUME NEW r \in Ranks, NEW l \in Layers, r[1] = d
               PROVE  /\ Published(r, l) /\ ready[r][l] = 0
                      /\ gpu[r][l] = finished[d] + 1 /\ taken[r][l] = finished[d] + 1
    OBVIOUS
  <2>1. ThroughOf(stream[r], stage[r], l)
    <3> DEFINE t == r[2]
               s == stream[r]
               b == inbox[r]
               h == host[r]
               f == finished[r[1]]
               n == issued[r[1]]
               g == stage[r]
    <3>1. RankTypes(t, s, b, h, f, n) /\ RankOK(t, s, b, h, f, n, g)
      BY RankOfState
    <3>2. s # <<>> /\ s[1].op = "reduce" /\ s[1].pass > 0
      BY <1>1
    <3>3. ThroughOf(s, g, l)
      <4> HIDE DEF t, s, b, h, f, n, g
      <4> QED
        BY <3>1, <3>2, ReduceView
    <3> QED
      BY <3>3
  <2>2. Box(r, l)
    BY DEF ExchangeInv
  <2> QED
    BY <2>1, <2>2 DEF Box, BoxOf
<1>3. worker.batch[d] = finished[d] + 1
  <2>1. <<d, 0>> \in Ranks /\ <<d, 0>>[1] = d /\ 1 \in Layers
    BY RankFacts
  <2>2. Published(<<d, 0>>, 1)
    BY <1>2, <2>1
  <2> QED
    BY <2>1, <2>2 DEF Published
<1>4. ~HasWork(d)
  <2> SUFFICES ASSUME NEW l \in Layers, InWork(d, l) PROVE FALSE
    BY DEF HasWork
  <2> DEFINE t == TPSize - 1
             r == <<d, t>>
  <2>1. t \in TPs /\ TPSize \in Nat
    BY RankFacts DEF TPs
  <2>2. r \in Ranks /\ r[1] = d /\ r[2] = t
    BY <2>1, RankFacts
  <2> HIDE DEF r
  <2>3. worker.step = "publish" /\ t < worker.at
    BY <1>2, <2>2 DEF Published
  <2>4. worker.at \in TPs
    BY DEF TypeInv, WorkerOK, WorkerState
  <2> QED
    BY <2>1, <2>3, <2>4 DEF TPs
<1> QED
  BY <1>2, <1>3, <1>4

\* The end of a forward keeps the requests.
LEMMA ReduceRequested ==
    ASSUME TypeInv, LaunchInv, ExchangeInv, NEW d \in DPs, AllReduce(d)
    PROVE  Requested(d)'
<1> DEFINE q == <<d, 0>>
           t == q[2]
           s == stream[q]
           b == inbox[q]
           h == host[q]
           f == finished[d]
           n == issued[q[1]]
           g == stage[q]
           w == Tail(s)
           f2 == finished'[d]
<1>1. q \in Ranks /\ q[1] = d /\ q[2] = 0
  BY RankFacts
<1>2. /\ s # <<>> /\ s[1].op = "reduce" /\ stream'[q] = w
      /\ f2 = (IF s[1].pass > 0 THEN f + 1 ELSE f) /\ (s[1].pass > 0 => s[1].pass = f + 1)
      /\ UNCHANGED <<issued, host, queue, thread, requests, staged, event, inputs, worker>>
  BY <1>1, ReduceActs
<1>3. RankTypes(t, s, b, h, f, n) /\ RankOK(t, s, b, h, f, n, g) /\ t = 0
  BY <1>1, RankOfState
<1>4. LaunchedOf(w, h, f2) = LaunchedOf(s, h, f)
  <2>1. f2 = IF s[1].pass > 0 THEN s[1].pass ELSE f
    BY <1>2
  <2> HIDE DEF t, s, b, h, f, n, g, f2
  <2> QED
    BY <1>2, <1>3, <2>1, RankReduce
<1>5. Launched(q)' = Launched(q) /\ HasWork(d)' = HasWork(d)
  BY <1>1, <1>2, <1>4 DEF Launched, HasWork, InWork
<1>6. /\ s[1].pass > 0 => ~PreparedOf(LaunchedOf(w, h, f + 1), w, f + 1)
      /\ \A x : PreparedOf(x, w, f) <=> PreparedOf(x, s, f)
  <2> HIDE DEF q, t, s, b, h, f, n, g, f2
  <2> QED
    BY <1>2, <1>3, ReducePrepared
<1>7. ~Prepared(d)'
  <2>1. Prepared(d)' = PreparedOf(Launched(q), w, f2) /\ Launched(q) = LaunchedOf(w, h, f2)
    BY <1>1, <1>2, <1>4, <1>5 DEF Prepared, Launched
  <2>2. CASE s[1].pass > 0
    <3>1. f2 = f + 1
      BY <1>2, <2>2
    <3> QED
      BY <1>6, <2>1, <2>2, <3>1
  <2>3. CASE ~(s[1].pass > 0)
    <3>1. f2 = f
      BY <1>2, <2>3
    <3>2. 1 \in DOMAIN s
      BY <1>2, <1>3, StreamHead DEF RankTypes
    <3>3. ~Prepared(d)
      BY <2>3, <3>2 DEF ExchangeInv, Requested
    <3> QED
      BY <1>6, <2>1, <3>1, <3>3 DEF Prepared
  <2> QED
    BY <2>2, <2>3
<1> DEFINE full == h.phase = "full"
           la == Launched(q)
           busy == HasWork(d)
           prep == Prepared(d)
           bt == worker.batch[d]
           rq == requests[d]
           th == thread[d]
           qu == queue[d]
           ev == event[d]
           inp == inputs[d]
           st == staged[d]
           prep2 == Prepared(d)'
<1>8. RequestedOf(f, rq, bt, busy, th, qu, la, full, ev, inp, st, prep)
  BY DEF ExchangeInv, Requested
<1>9. f \in Nat /\ qu \in Nat /\ la \in Nat /\ full \in BOOLEAN /\ prep \in BOOLEAN /\ prep2 \in BOOLEAN
  BY RequestTypes DEF Prepared, PreparedOf
<1>10. RequestedOf(f2, rq, bt, busy, th, qu, la, full, ev, inp, st, prep2)
  <2>1. CASE s[1].pass > 0
    <3>1. f2 = f + 1 /\ bt = f + 1 /\ ~busy
      BY <1>2, <2>1, ReduceQuiet
    <3>2. ~prep2
      BY <1>7
    <3> HIDE DEF full, la, busy, prep, f, bt, rq, th, qu, ev, inp, st, prep2, f2
    <3> QED
      BY <1>8, <1>9, <3>1, <3>2, RequestFinished
  <2>2. CASE ~(s[1].pass > 0)
    <3>1. 1 \in DOMAIN s
      BY <1>2, <1>3, StreamHead DEF RankTypes
    <3>2. ~Prepared(d)
      BY <2>2, <3>1 DEF ExchangeInv, Requested
    <3>3. f2 = f /\ prep2 = prep
      BY <1>2, <1>7, <1>9, <2>2, <3>2
    <3> HIDE DEF full, la, busy, prep, f, bt, rq, th, qu, ev, inp, st, prep2, f2
    <3> QED
      BY <1>8, <3>3
  <2> QED
    BY <2>1, <2>2
<1> QED
  BY <1>2, <1>5, <1>7, <1>10 DEF Requested
-----------------------------------------------------------------------------
\* The end of a forward keeps every output in its states: those of d are empty and free.
LEMMA ReduceBoxes ==
    ASSUME TypeInv, LaunchInv, ExchangeInv, NEW d \in DPs, AllReduce(d), NEW q \in Ranks,
           NEW l \in Layers
    PROVE  Box(q, l)'
<1>1. /\ UNCHANGED <<issued, host, queue, thread, requests, staged, event, inputs, stage, gpu,
                     taken, ready, consumed, output, worker>>
      /\ stream'[q] = IF q[1] = d THEN Tail(stream[q]) ELSE stream[q]
      /\ q[1] # d => finished'[q[1]] = finished[q[1]]
  <2>1. q[1] \in DPs
    BY RankFacts
  <2>2. \A c \in DPs \ {d} : finished'[c] = finished[c]
    BY ReduceActs
  <2>3. /\ UNCHANGED <<issued, host, queue, thread, requests, staged, event, inputs, stage, gpu,
                       taken, ready, consumed, output, worker>>
        /\ stream'[q] = IF q[1] = d THEN Tail(stream[q]) ELSE stream[q]
    BY ReduceActs
  <2> QED
    BY <2>1, <2>2, <2>3
<1>2. Box(q, l)
  BY DEF ExchangeInv
<1>3. CASE q[1] # d
  <2>1. finished'[q[1]] = finished[q[1]] /\ stream'[q] = stream[q]
    BY <1>1, <1>3
  <2> QED
    BY <1>1, <1>2, <2>1, PublishedKeep, BoxKeep, ViewSame
<1>4. CASE q[1] = d
  <2> DEFINE t == q[2]
             s == stream[q]
             b == inbox[q]
             h == host[q]
             f == finished[q[1]]
             n == issued[q[1]]
             g == stage[q]
             w == Tail(s)
  <2>1. RankTypes(t, s, b, h, f, n) /\ RankOK(t, s, b, h, f, n, g)
    BY RankOfState
  <2>2. s # <<>> /\ s[1].op = "reduce" /\ (s[1].pass > 0 <=> stream[<<d, 0>>][1].pass > 0)
    BY <1>4, ReduceActs
  <2>3. /\ Quiescent(w, g, l) /\ (~(s[1].pass > 0) => Quiescent(s, g, l))
        /\ \A i \in DOMAIN w : i + 1 \in DOMAIN s /\ w[i] = s[i + 1]
    <3> HIDE DEF t, s, b, h, f, n, g
    <3> QED
      BY <2>1, <2>2, ReduceView, StreamNextOp
  <2>4. f \in Nat /\ f = finished[d] /\ stream'[q] = w
    BY <1>1, <1>4, <2>1 DEF RankTypes
  <2>5. CASE s[1].pass > 0
    <3>1. /\ worker.batch[d] = f + 1 /\ ready[q][l] = 0 /\ taken[q][l] = f + 1
      BY <1>4, <2>2, <2>4, <2>5, ReduceQuiet
    <3>2. finished'[d] = f + 1
      BY <2>2, <2>4, <2>5, ReduceActs
    <3>3. ~Published(q, l)' /\ Published(q, l)' \in BOOLEAN
      <4>1. f + 1 # f + 1 + 1
        BY <2>4
      <4> QED
        BY <1>1, <1>4, <3>1, <3>2, <4>1 DEF Published
    <3>4. BoxOf(0, consumed[q][l], output[q][l], gpu[q][l], f + 1, f + 1, Published(q, l)', w, g, h, l)
      BY <2>3, <3>3 DEF BoxOf, Quiescent
    <3> QED
      BY <1>1, <1>4, <2>4, <3>1, <3>2, <3>4 DEF Box
  <2>6. CASE ~(s[1].pass > 0)
    <3>1. finished'[q[1]] = finished[q[1]]
      BY <1>4, <2>2, <2>6, ReduceActs
    <3>2. ViewKept(s, g, w, g, l)
      BY <2>3, <2>6 DEF ViewKept, Quiescent
    <3>3. SawOf(w, h, l) => SawOf(s, h, l)
      BY <2>3, SawTail
    <3> QED
      BY <1>1, <1>2, <2>4, <3>1, <3>2, <3>3, PublishedKeep, BoxKeep
  <2> QED
    BY <2>5, <2>6
<1> QED
  BY <1>3, <1>4

\* The end of a forward keeps the exchange.
LEMMA ExchangeReduce ==
    ASSUME TypeInv, LaunchInv, ExchangeInv, NEW d \in DPs, AllReduce(d)
    PROVE  ExchangeInv'
<1>1. /\ UNCHANGED <<issued, host, queue, thread, requests, staged, event, inputs, stage, gpu,
                     taken, ready, consumed, output, worker>>
      /\ \A c \in DPs \ {d} : finished'[c] = finished[c]
      /\ \A r \in Ranks : stream'[r] = IF r[1] = d THEN Tail(stream[r]) ELSE stream[r]
  BY ReduceActs
<1>2. ASSUME NEW e \in DPs PROVE Requested(e)'
  <2>1. CASE e = d
    BY <2>1, ReduceRequested
  <2>2. CASE e # d
    <3> DEFINE q == <<e, 0>>
    <3>1. q \in Ranks /\ q[1] = e
      BY RankFacts
    <3>2. stream'[q] = stream[q] /\ finished'[e] = finished[e]
      BY <1>1, <2>2, <3>1
    <3>3. Requested(e)
      BY DEF ExchangeInv
    <3>4. HasWork(e)' = HasWork(e) /\ Launched(q)' = Launched(q)
      BY <1>1, <3>1, <3>2 DEF HasWork, InWork, Launched
    <3>5. Prepared(e)' = Prepared(e)
      BY <1>1, <3>2, <3>4 DEF Prepared
    <3>6. Prepared(e) => \A i \in DOMAIN stream'[q] : stream'[q][i].pass > 0
      BY <3>2, <3>3 DEF Requested
    <3> QED
      BY <1>1, <3>2, <3>3, <3>4, <3>5, <3>6, RequestKeep
  <2> QED
    BY <2>1, <2>2
<1>3. \A q \in Ranks : \A l \in Layers : Box(q, l)'
  BY ReduceBoxes
<1>4. WorkerInv'
  <2>1. worker.step # "poll" => finished'[Current.dp] = finished[Current.dp]
    <3> SUFFICES ASSUME worker.step # "poll" PROVE finished'[Current.dp] = finished[Current.dp]
      OBVIOUS
    <3>1. Current.dp \in DPs /\ HasWork(Current.dp)
      BY CurrentFacts
    <3>2. CASE Current.dp # d
      BY <1>1, <3>1, <3>2
    <3>3. CASE Current.dp = d
      <4>1. ~(stream[<<d, 0>>][1].pass > 0)
        BY <3>1, <3>3, ReduceQuiet
      <4> QED
        BY <3>3, <4>1, ReduceActs
    <3> QED
      BY <3>2, <3>3
  <2> QED
    BY <1>1, <2>1, WorkerKeep DEF ExchangeInv
<1> QED
  BY <1>2, <1>3, <1>4 DEF ExchangeInv
-----------------------------------------------------------------------------
\* The box the worker is at: nothing is in it, whatever it writes there.
LEMMA BoxLow ==
    ASSUME NEW rd, NEW cs, NEW o, NEW v, NEW tk, NEW f \in Nat, NEW pub \in BOOLEAN,
           NEW s, NEW g, NEW h, NEW l, ~pub, ~DummyCopyingOf(s, g, l),
           BoxOf(rd, cs, o, v, tk, f, pub, s, g, h, l), NEW cs2, NEW o2
    PROVE  BoxOf(0, cs2, o2, v, tk, f, pub, s, g, h, l)
BY DEF BoxOf

\* The worker raises the flag over the result of the batch at hand.
LEMMA BoxPublish ==
    ASSUME NEW rd, NEW cs, NEW o, NEW v, NEW tk, NEW f \in Nat, NEW pub \in BOOLEAN,
           NEW s, NEW g, NEW h, NEW l, ~pub, ~DummyCopyingOf(s, g, l),
           BoxOf(rd, cs, o, v, tk, f, pub, s, g, h, l), o = f + 1, NEW pub2 \in BOOLEAN, pub2
    PROVE  BoxOf(1, cs, o, v, tk, f, pub2, s, g, h, l)
BY DEF BoxOf

\* The worker has less to do for the batch it received.
LEMMA RequestLess ==
    ASSUME NEW f, NEW q, NEW bt, NEW busy, NEW th, NEW qu, NEW la, NEW full, NEW ev, NEW inp,
           NEW st,
           NEW prep, RequestedOf(f, q, bt, busy, th, qu, la, full, ev, inp, st, prep),
           NEW busy2, busy2 => busy
    PROVE  RequestedOf(f, q, bt, busy2, th, qu, la, full, ev, inp, st, prep)
BY DEF RequestedOf

\* The worker receives the request that was sent.
LEMMA RequestReceived ==
    ASSUME NEW f \in Nat, NEW q, NEW bt, NEW busy, NEW th, NEW qu \in Nat, NEW la \in Nat,
           NEW full \in BOOLEAN, NEW ev, NEW inp, NEW st, NEW prep \in BOOLEAN,
           RequestedOf(f, q, bt, busy, th, qu, la, full, ev, inp, st, prep), q # <<>>,
           NEW busy2
    PROVE  RequestedOf(f, <<>>, q[1], busy2, th, qu, la, full, ev, inp, st, prep)
<1>1. q[1] = f + 1
  <2>1. q = <<f + 1>>
    BY DEF RequestedOf
  <2> QED
    BY <2>1
<1>2. SentOf(<<>>, q[1]) = SentOf(q, bt)
  BY DEF SentOf
<1>3. HeldOf(<<>>, q[1], th) = HeldOf(q, bt, th)
  BY <1>2 DEF HeldOf
<1>4. AskedOf(<<>>, q[1], th, qu) = AskedOf(q, bt, th, qu)
  BY <1>3 DEF AskedOf
<1> QED
  BY <1>1, <1>2, <1>3, <1>4 DEF RequestedOf

\* The work of the worker gets less, or stays.
LEMMA WorkerRequested ==
    ASSUME TypeInv, ExchangeInv, NEW d \in DPs,
           UNCHANGED <<host, threadVars, event, streamVars>>,
           worker'.batch[d] = worker.batch[d], HasWork(d)' => HasWork(d)
    PROVE  Requested(d)'
<1> USE DEF threadVars, streamVars
<1> DEFINE full == host[<<d, 0>>].phase = "full"
           la == Launched(<<d, 0>>)
           busy == HasWork(d)
           busy2 == HasWork(d)'
           prep == Prepared(d)
           f == finished[d]
           bt == worker.batch[d]
           q == requests[d]
           th == thread[d]
           qu == queue[d]
           ev == event[d]
           inp == inputs[d]
           st == staged[d]
<1>1. RequestedOf(f, q, bt, busy, th, qu, la, full, ev, inp, st, prep) /\ (busy2 => busy)
  BY DEF ExchangeInv, Requested
<1>2. RequestedOf(f, q, bt, busy2, th, qu, la, full, ev, inp, st, prep)
  <2> HIDE DEF full, la, busy, prep, f, bt, q, th, qu, ev, inp, st, busy2
  <2> QED
    BY <1>1, RequestLess
<1>3. Launched(<<d, 0>>)' = Launched(<<d, 0>>)
  BY DEF Launched
<1>4. Prepared(d)' = Prepared(d)
  BY <1>3 DEF Prepared
<1>5. Prepared(d) => \A i \in DOMAIN stream[<<d, 0>>] : stream[<<d, 0>>][i].pass > 0
  BY DEF ExchangeInv, Requested
<1> QED
  BY <1>2, <1>3, <1>4, <1>5 DEF Requested

\* The d, the layer and the batch the worker is at.
LEMMA CurrentBox ==
    ASSUME TypeInv, LaunchInv, ExchangeInv, worker.step # "poll"
    PROVE  /\ finished[Current.dp] \in Nat
           /\ worker.batch[Current.dp] = finished[Current.dp] + 1
           /\ staged[Current.dp] = finished[Current.dp] + 1
           /\ \A r \in Ranks : \A l \in Layers : r[1] = Current.dp /\ l = Current.layer =>
                 /\ ~DummyCopyingOf(stream[r], stage[r], l)
                 /\ worker.step # "publish" => ~Published(r, l)
                 /\ Published(r, l) <=> worker.step = "publish" /\ r[2] < worker.at
<1> DEFINE d == Current.dp
<1>1. d \in DPs /\ Current.layer \in Layers /\ HasWork(d) /\ InWork(d, Current.layer)
  BY CurrentFacts
<1>2. /\ finished[d] \in Nat /\ worker.batch[d] = finished[d] + 1 /\ staged[d] = finished[d] + 1
      /\ \A r \in Ranks : r[1] = d => \A i \in DOMAIN stream[r] : stream[r][i].pass > 0
  BY <1>1, AtHand, RequestTypes
<1>3. ASSUME NEW r \in Ranks, NEW l \in Layers, r[1] = Current.dp, l = Current.layer
      PROVE  /\ ~DummyCopyingOf(stream[r], stage[r], l)
             /\ Published(r, l) <=> worker.step = "publish" /\ r[2] < worker.at
  <2>1. stream[r] # <<>> => 1 \in DOMAIN stream[r]
    BY StreamHead DEF TypeInv, StreamOK
  <2>2. stream[r] # <<>> => stream[r][1].pass > 0
    BY <1>2, <1>3, <2>1
  <2>3. ~DummyCopyingOf(stream[r], stage[r], l)
    BY <2>2 DEF DummyCopyingOf, Dummy
  <2>4. Published(r, l) <=> worker.step = "publish" /\ r[2] < worker.at
    BY <1>1, <1>2, <1>3 DEF Published
  <2> QED
    BY <2>3, <2>4
<1> QED
  BY <1>2, <1>3

\* A step of the worker at the box it claims: the flags are low there.
LEMMA WorkerBoxes ==
    ASSUME TypeInv, LaunchInv, ExchangeInv, worker.step \notin {"poll", "publish"},
           UNCHANGED <<host, streamVars>>, worker'.work = worker.work, worker'.batch = worker.batch,
           worker'.step # "publish" \/ worker'.at = 0,
           NEW r \in Ranks, NEW l \in Layers,
           \/ /\ ready'[r][l] = ready[r][l] /\ consumed'[r][l] = consumed[r][l]
              /\ output'[r][l] = output[r][l]
           \/ r[1] = Current.dp /\ l = Current.layer /\ ready'[r][l] = 0
    PROVE  Box(r, l)'
<1> USE DEF streamVars
<1>1. Current.layer \in Layers /\ Current.dp \in DPs /\ InWork(Current.dp, Current.layer)
  BY CurrentFacts
<1>2. Current' = Current
  BY DEF Current
<1>3. InWork(r[1], l)' <=> InWork(r[1], l)
  BY DEF InWork
<1>4. ~(r[2] < 0)
  BY RankFacts DEF TPs
<1>5. Published(r, l)' <=> Published(r, l)
  BY <1>2, <1>3, <1>4 DEF Published
<1>6. Box(r, l)
  BY DEF ExchangeInv
<1>7. CASE /\ ready'[r][l] = ready[r][l] /\ consumed'[r][l] = consumed[r][l]
           /\ output'[r][l] = output[r][l]
  BY <1>5, <1>6, <1>7, BoxKeep, ViewSame
<1>8. CASE r[1] = Current.dp /\ l = Current.layer /\ ready'[r][l] = 0
  <2> DEFINE rd == ready[r][l]
             cs == consumed[r][l]
             o == output[r][l]
             v == gpu[r][l]
             tk == taken[r][l]
             f == finished[r[1]]
             pub == Published(r, l)
             h == host[r]
             s == stream[r]
             g == stage[r]
             cs2 == consumed'[r][l]
             o2 == output'[r][l]
  <2>1. BoxOf(rd, cs, o, v, tk, f, pub, s, g, h, l) /\ ~pub /\ ~DummyCopyingOf(s, g, l)
        /\ pub \in BOOLEAN /\ f \in Nat
    BY <1>6, <1>8, CurrentBox DEF Box, Published
  <2>2. BoxOf(0, cs2, o2, v, tk, f, pub, s, g, h, l)
    <3> HIDE DEF rd, cs, o, v, tk, f, pub, h, s, g, cs2, o2
    <3> QED
      BY <2>1, BoxLow
  <2>3. Published(r, l)' = Published(r, l)
    BY <1>5 DEF Published
  <2> QED
    BY <1>8, <2>2, <2>3 DEF Box
<1> QED
  BY <1>7, <1>8
-----------------------------------------------------------------------------
\* The fields of the worker that a step of it sets.
LEMMA WorkerFields ==
    ASSUME TypeInv, WorkerNext, worker.step # "poll", worker.step # "publish"
    PROVE  /\ UNCHANGED <<host, threadVars, event, streamVars>>
           /\ worker'.work = worker.work /\ worker'.batch = worker.batch
           /\ Current' = Current
           /\ worker.step = "claim" => worker'.step = "reset" /\ worker'.at = 0
           /\ worker.step = "reset" => worker'.step = "take" /\ worker'.at = worker.at
           /\ worker.step = "take" => \/ worker'.step = "reset" /\ worker'.at = worker.at + 1
                                      \/ /\ worker'.step = "compute" /\ worker'.at = 0
                                         /\ worker.at + 1 >= TPSize
           /\ worker.step = "compute" => /\ worker'.step = "computing" /\ worker'.at = worker.at
                                         /\ worker'.seen = staged[Current.dp]
           /\ worker.step = "computing" => worker'.step = "fan" /\ worker'.at = worker.at
           /\ worker.step = "fan" => worker'.step = "publish" /\ worker'.at = worker.at
<1> USE DEF hostVars
<1>1. worker \in WorkerState /\ TPSize \in Nat /\ worker.at \in Nat
  BY RankFacts DEF TypeInv, WorkerOK, WorkerState
<1>2. UNCHANGED <<host, threadVars, event, streamVars>>
  <2>1. CASE WorkerReceive
    BY <2>1 DEF WorkerReceive
  <2> QED
    BY <2>1 DEF WorkerNext, WorkerReceive, WorkerClaim, WorkerResetReady, WorkerResetConsumed,
                WorkerComputeBegin, WorkerComputeEnd, WorkerFanOut, WorkerPublish
<1>3. CASE WorkerClaim
  BY <1>1, <1>2, <1>3 DEF WorkerClaim, WorkerState, Current
<1>4. CASE WorkerResetReady
  BY <1>1, <1>2, <1>4 DEF WorkerResetReady, WorkerState, Current
<1>5. CASE WorkerResetConsumed
  BY <1>1, <1>2, <1>5 DEF WorkerResetConsumed, WorkerState, Current
<1>6. CASE WorkerComputeBegin
  BY <1>1, <1>2, <1>6 DEF WorkerComputeBegin, WorkerState, Current
<1>7. CASE WorkerComputeEnd
  BY <1>1, <1>2, <1>7 DEF WorkerComputeEnd, WorkerState, Current
<1>8. CASE WorkerFanOut
  BY <1>1, <1>2, <1>8 DEF WorkerFanOut, WorkerState, Current
<1>9. ~WorkerReceive /\ ~WorkerPublish
  BY DEF WorkerReceive, WorkerPublish
<1> QED
  BY <1>3, <1>4, <1>5, <1>6, <1>7, <1>8, <1>9 DEF WorkerNext
-----------------------------------------------------------------------------
\* What a step of the worker writes: the output it claims, whose flag is low.
LEMMA WorkerWrites ==
    ASSUME TypeInv, LaunchInv, ExchangeInv, WorkerNext, worker.step # "poll",
           worker.step # "publish"
    PROVE  /\ \A r \in Ranks : \A k \in Layers :
                 \/ /\ ready'[r][k] = ready[r][k] /\ consumed'[r][k] = consumed[r][k]
                    /\ output'[r][k] = output[r][k]
                 \/ r[1] = Current.dp /\ k = Current.layer /\ ready'[r][k] = 0
           /\ \A r \in Ranks : \A k \in Layers : ready[r][k] = 0 => ready'[r][k] = 0
           /\ worker.step = "reset" => ready'[<<Current.dp, worker.at>>][Current.layer] = 0
           /\ worker.step = "computing" => output'[<<Current.dp, 0>>][Current.layer] = finished[Current.dp] + 1
           /\ worker.step = "fan" => \A t \in TPs : output'[<<Current.dp, t>>][Current.layer] = finished[Current.dp] + 1
<1> USE DEF flagVars
<1> DEFINE d == Current.dp
           l == Current.layer
<1>1. /\ ready \in Grid({0, 1}) /\ consumed \in Grid({0, 1}) /\ output \in Grid(Torn .. MaxPasses)
      /\ d \in DPs /\ l \in Layers /\ worker.at \in TPs /\ 0 \in TPs
      /\ \A t \in TPs : <<d, t>> \in Ranks /\ <<d, t>>[1] = d /\ <<d, t>>[2] = t
  BY CurrentFacts, RankFacts DEF TypeInv, FlagsOK, OutputsOK
<1>2. /\ finished[d] \in Nat /\ worker.batch[d] = finished[d] + 1 /\ staged[d] = finished[d] + 1
  BY CurrentBox
<1>3. WorkerInv
  BY DEF ExchangeInv
<1>4. CASE WorkerClaim
  BY <1>4 DEF WorkerClaim
<1>5. CASE WorkerResetReady
  <2>1. worker.step = "reset" /\ ready' = [ready EXCEPT ![<<d, worker.at>>][l] = 0]
        /\ UNCHANGED <<consumed, output>>
    BY <1>5 DEF WorkerResetReady, ClaimedReady
  <2>2. \A r \in Ranks : \A k \in Layers :
           ready'[r][k] = IF r = <<d, worker.at>> /\ k = l THEN 0 ELSE ready[r][k]
    BY <1>1, <2>1 DEF Grid
  <2> QED
    BY <1>1, <2>1, <2>2
<1>6. CASE WorkerResetConsumed
  <2>1. worker.step = "take" /\ consumed' = [consumed EXCEPT ![<<d, worker.at>>][l] = 0]
        /\ UNCHANGED <<ready, output>>
    BY <1>6 DEF WorkerResetConsumed
  <2>2. \A r \in Ranks : \A k \in Layers :
           consumed'[r][k] = IF r = <<d, worker.at>> /\ k = l THEN 0 ELSE consumed[r][k]
    BY <1>1, <2>1 DEF Grid
  <2>3. ready[<<d, worker.at>>][l] = 0
    <3>1. worker.at <= worker.at
      BY <1>1, RankFacts
    <3> QED
      BY <1>1, <1>3, <2>1, <3>1 DEF WorkerInv
  <2> QED
    BY <1>1, <2>1, <2>2, <2>3
<1>7. CASE WorkerComputeBegin
  <2>1. worker.step = "compute" /\ output' = [output EXCEPT ![<<d, 0>>][l] = Torn]
        /\ UNCHANGED <<ready, consumed>>
    BY <1>7 DEF WorkerComputeBegin
  <2>2. \A r \in Ranks : \A k \in Layers :
           output'[r][k] = IF r = <<d, 0>> /\ k = l THEN Torn ELSE output[r][k]
    BY <1>1, <2>1 DEF Grid
  <2>3. ready[<<d, 0>>][l] = 0
    BY <1>1, <1>3, <2>1 DEF WorkerInv
  <2> QED
    BY <1>1, <2>1, <2>2, <2>3
<1>8. CASE WorkerComputeEnd
  <2>1. worker.step = "computing" /\ UNCHANGED <<ready, consumed>>
        /\ output' = [output EXCEPT ![<<d, 0>>][l] =
                         IF staged[d] = worker.seen /\ staged[d] = worker.batch[d] THEN staged[d] ELSE Torn]
    BY <1>8 DEF WorkerComputeEnd
  <2>2. worker.seen = finished[d] + 1 /\ ready[<<d, 0>>][l] = 0
    BY <1>1, <1>3, <2>1 DEF WorkerInv
  <2>3. output' = [output EXCEPT ![<<d, 0>>][l] = finished[d] + 1]
    BY <1>2, <2>1, <2>2
  <2>4. \A r \in Ranks : \A k \in Layers :
           output'[r][k] = IF r = <<d, 0>> /\ k = l THEN finished[d] + 1 ELSE output[r][k]
    BY <1>1, <2>3 DEF Grid
  <2> QED
    BY <1>1, <2>1, <2>2, <2>4
<1>9. CASE WorkerFanOut
  <2>1. worker.step = "fan" /\ UNCHANGED <<ready, consumed>>
        /\ output' = [r \in Ranks |-> IF r[1] = d
                                      THEN [output[r] EXCEPT ![l] = output[<<d, 0>>][l]] ELSE output[r]]
    BY <1>9 DEF WorkerFanOut
  <2>2. \A r \in Ranks : \A k \in Layers :
           output'[r][k] = IF r[1] = d /\ k = l THEN output[<<d, 0>>][l] ELSE output[r][k]
    BY <1>1, <2>1 DEF Grid
  <2>3. output[<<d, 0>>][l] = finished[d] + 1 /\ \A t \in TPs : ready[<<d, t>>][l] = 0
    BY <1>1, <1>3, <2>1 DEF WorkerInv
  <2>4. \A r \in Ranks : r[1] = d => ready[r][l] = 0
    <3> SUFFICES ASSUME NEW r \in Ranks, r[1] = d PROVE ready[r][l] = 0
      OBVIOUS
    <3>1. r[2] \in TPs /\ r = <<d, r[2]>>
      BY RankFacts
    <3> QED
      BY <2>3, <3>1
  <2> QED
    BY <1>1, <2>1, <2>2, <2>3, <2>4
<1>10. ~WorkerReceive /\ ~WorkerPublish
  BY DEF WorkerReceive, WorkerPublish
<1> QED
  BY <1>4, <1>5, <1>6, <1>7, <1>8, <1>9, <1>10 DEF WorkerNext

\* Claiming, computing and fanning out keep the exchange.
LEMMA ExchangeWorks ==
    ASSUME TypeInv, LaunchInv, ExchangeInv, WorkerNext, worker.step # "poll",
           worker.step # "publish"
    PROVE  ExchangeInv'
<1> DEFINE d == Current.dp
           l == Current.layer
<1>1. /\ UNCHANGED <<host, threadVars, event, streamVars>>
      /\ worker'.work = worker.work /\ worker'.batch = worker.batch /\ Current' = Current
  BY WorkerFields
<1>2. d \in DPs /\ l \in Layers /\ worker.at \in TPs /\ worker \in WorkerState /\ finished' = finished
      /\ d' = d /\ l' = l /\ worker.at \in Nat /\ TPs \subseteq Nat /\ TPSize \in Nat
  BY <1>1, CurrentFacts, RankFacts DEF streamVars
<1>3. ASSUME NEW x \in DPs PROVE Requested(x)'
  <2>1. HasWork(x)' => HasWork(x)
    BY <1>1 DEF HasWork, InWork
  <2> QED
    BY <1>1, <2>1, WorkerRequested
<1>4. ASSUME NEW r \in Ranks, NEW k \in Layers PROVE Box(r, k)'
  <2>1. worker'.step # "publish" \/ worker'.at = 0
    BY <1>2, WorkerFields DEF ExchangeInv, WorkerInv, WorkerState
  <2>2. \/ /\ ready'[r][k] = ready[r][k] /\ consumed'[r][k] = consumed[r][k]
           /\ output'[r][k] = output[r][k]
        \/ r[1] = d /\ k = l /\ ready'[r][k] = 0
    BY WorkerWrites
  <2> QED
    BY <1>1, <2>1, <2>2, WorkerBoxes
<1>5. WorkerInv'
  <2> DEFINE Low(t) == ready[<<d, t>>][l] = 0
             Low1(t) == ready'[<<d, t>>][l] = 0
  <2>1. /\ \A t \in TPs : Low(t) => Low1(t)
        /\ worker.step = "reset" => Low1(worker.at)
        /\ worker.step = "computing" => output'[<<d, 0>>][l] = finished[d] + 1
        /\ worker.step = "fan" => \A t \in TPs : output'[<<d, t>>][l] = finished[d] + 1
    BY <1>2, WorkerWrites, RankFacts
  <2>2. /\ \A i, j \in DOMAIN worker.work : worker.work[i] = worker.work[j] => i = j
        /\ worker.step \notin {"reset", "take", "publish", "poll"} => worker.at = 0
        /\ worker.step = "reset" => \A t \in TPs : t < worker.at => Low(t)
        /\ worker.step = "take" => \A t \in TPs : t <= worker.at => Low(t)
        /\ worker.step \in {"compute", "computing", "fan"} => \A t \in TPs : Low(t)
    BY DEF ExchangeInv, WorkerInv
  <2>3. staged[d] = finished[d] + 1
    BY CurrentBox
  <2> HIDE DEF Low, Low1, d, l
  <2>4. /\ worker'.step \notin {"reset", "take", "publish", "poll"} => worker'.at = 0
        /\ worker'.step = "reset" => \A t \in TPs : t < worker'.at => Low1(t)
        /\ worker'.step = "take" => \A t \in TPs : t <= worker'.at => Low1(t)
        /\ worker'.step \in {"compute", "computing", "fan"} => \A t \in TPs : Low1(t)
        /\ worker'.step = "computing" => worker'.seen = finished[d] + 1
        /\ worker'.step = "fan" => output'[<<d, 0>>][l] = finished[d] + 1
        /\ worker'.step = "publish" => \A t \in TPs : /\ output'[<<d, t>>][l] = finished[d] + 1
                                                      /\ t >= worker'.at => Low1(t)
    <3>1. CASE worker.step = "claim"
      BY <1>2, <3>1, WorkerFields
    <3>2. CASE worker.step = "reset"
      <4>1. worker'.step = "take" /\ worker'.at = worker.at
        BY <3>2, WorkerFields
      <4>2. \A t \in TPs : t <= worker.at => t < worker.at \/ t = worker.at
        BY <1>2
      <4> QED
        BY <2>1, <2>2, <3>2, <4>1, <4>2
    <3>3. CASE worker.step = "take"
      <4>1. CASE worker'.step = "reset" /\ worker'.at = worker.at + 1
        <5>1. \A t \in TPs : t < worker.at + 1 => t <= worker.at
          BY <1>2
        <5> QED
          BY <2>1, <2>2, <3>3, <4>1, <5>1
      <4>2. CASE worker'.step = "compute" /\ worker'.at = 0 /\ worker.at + 1 >= TPSize
        <5>1. \A t \in TPs : t <= worker.at
          BY <1>2, <4>2 DEF TPs
        <5> QED
          BY <2>1, <2>2, <3>3, <4>2, <5>1
      <4> QED
        BY <3>3, <4>1, <4>2, WorkerFields
    <3>4. CASE worker.step = "compute"
      <4>1. worker'.step = "computing" /\ worker'.at = worker.at /\ worker'.seen = finished[d] + 1
        BY <2>3, <3>4, WorkerFields DEF d
      <4> QED
        BY <2>1, <2>2, <3>4, <4>1
    <3>5. CASE worker.step = "computing"
      <4>1. worker'.step = "fan" /\ worker'.at = worker.at
        BY <3>5, WorkerFields
      <4> QED
        BY <2>1, <2>2, <3>5, <4>1
    <3>6. CASE worker.step = "fan"
      <4>1. worker'.step = "publish" /\ worker'.at = worker.at
        BY <3>6, WorkerFields
      <4> QED
        BY <2>1, <2>2, <3>6, <4>1
    <3> QED
      BY <1>2, <3>1, <3>2, <3>3, <3>4, <3>5, <3>6 DEF WorkerState
  <2>5. /\ \A i, j \in DOMAIN worker'.work : worker'.work[i] = worker'.work[j] => i = j
        /\ worker'.step \notin {"reset", "take", "publish", "poll"} => worker'.at = 0
        /\ worker'.step = "reset" => \A t \in TPs : t < worker'.at => Low1(t)
        /\ worker'.step = "take" => \A t \in TPs : t <= worker'.at => Low1(t)
        /\ worker'.step \in {"compute", "computing", "fan"} => \A t \in TPs : Low1(t)
        /\ worker'.step = "computing" => worker'.seen = finished'[d] + 1
        /\ worker'.step = "fan" => output'[<<d, 0>>][l] = finished'[d] + 1
        /\ worker'.step = "publish" => \A t \in TPs : /\ output'[<<d, t>>][l] = finished'[d] + 1
                                                      /\ t >= worker'.at => Low1(t)
    <3>1. \A i, j \in DOMAIN worker'.work : worker'.work[i] = worker'.work[j] => i = j
      BY <1>1, <2>2
    <3>2. finished' = finished
      BY <1>2
    <3> QED
      BY <2>4, <3>1, <3>2
  <2> USE DEF Low1
  <2>6. Current' = Current
    BY <1>1
  <2>7. 0 \in TPs
    BY RankFacts
  <2> QED
    BY <2>5, <2>6, <2>7 DEF WorkerInv, d, l
<1> QED
  BY <1>3, <1>4, <1>5 DEF ExchangeInv
-----------------------------------------------------------------------------
\* Publishing raises one flag, and the worker goes to the next rank or to its next work.
LEMMA PublishActs ==
    ASSUME TypeInv, LaunchInv, ExchangeInv, WorkerPublish
    PROVE  /\ worker.step = "publish" /\ UNCHANGED <<host, threadVars, event, streamVars, consumed, output>>
           /\ \A r \in Ranks : \A k \in Layers :
                 ready'[r][k] = IF r = <<Current.dp, worker.at>> /\ k = Current.layer THEN 1
                                ELSE ready[r][k]
           /\ worker'.batch = worker.batch
           /\ \/ /\ worker'.step = "publish" /\ worker'.at = worker.at + 1 /\ worker'.work = worker.work
                 /\ worker.at + 1 < TPSize
              \/ /\ worker'.step \in {"claim", "poll"} /\ worker'.at = 0
                 /\ worker'.work = Tail(worker.work) /\ worker.at + 1 >= TPSize
<1> USE DEF hostVars
<1>1. /\ worker \in WorkerState /\ TPSize \in Nat /\ worker.at \in Nat /\ ready \in Grid({0, 1})
  BY RankFacts DEF TypeInv, WorkerOK, WorkerState, FlagsOK
<1>2. /\ worker.step = "publish" /\ UNCHANGED <<host, threadVars, event, streamVars, consumed, output>>
      /\ ready' = [ready EXCEPT ![<<Current.dp, worker.at>>][Current.layer] = 1]
  BY DEF WorkerPublish
<1>3. \A r \in Ranks : \A k \in Layers :
         ready'[r][k] = IF r = <<Current.dp, worker.at>> /\ k = Current.layer THEN 1 ELSE ready[r][k]
  BY <1>1, <1>2 DEF Grid
<1>4. CASE worker.at + 1 < TPSize
  <2>1. worker' = [worker EXCEPT !.at = worker.at + 1]
    BY <1>4 DEF WorkerPublish
  <2> QED
    BY <1>1, <1>2, <1>3, <1>4, <2>1 DEF WorkerState
<1>5. CASE ~(worker.at + 1 < TPSize)
  <2>1. worker' = [worker EXCEPT !.work = Tail(worker.work), !.at = 0,
                                 !.step = IF Len(worker.work) > 1 THEN "claim" ELSE "poll"]
    BY <1>5 DEF WorkerPublish
  <2>2. worker.at + 1 >= TPSize
    BY <1>1, <1>5
  <2> QED
    BY <1>1, <1>2, <1>3, <2>1, <2>2 DEF WorkerState
<1> QED
  BY <1>4, <1>5

\* What is left to do after the last rank has the result.
LEMMA WorkTail ==
    ASSUME NEW w \in Seq(Work), w # <<>>, \A i, j \in DOMAIN w : w[i] = w[j] => i = j
    PROVE  /\ \A i, j \in DOMAIN Tail(w) : Tail(w)[i] = Tail(w)[j] => i = j
           /\ \A i \in DOMAIN Tail(w) : /\ i + 1 \in DOMAIN w /\ Tail(w)[i] = w[i + 1]
                                        /\ Tail(w)[i] # w[1]
           /\ \A i \in DOMAIN w : i = 1 \/ (i - 1 \in DOMAIN Tail(w) /\ Tail(w)[i - 1] = w[i])
<1> DEFINE v == Tail(w)
<1>1. /\ Len(w) \in Nat \ {0} /\ DOMAIN w = 1 .. Len(w) /\ DOMAIN v = 1 .. Len(w) - 1
      /\ \A i \in DOMAIN v : v[i] = w[i + 1]
  BY TailFacts
<1> HIDE DEF v
<1>2. \A i \in DOMAIN v : i + 1 \in DOMAIN w /\ i + 1 # 1 /\ 1 \in DOMAIN w
  BY <1>1
<1>3. \A i \in DOMAIN v : v[i] # w[1]
  BY <1>1, <1>2
<1>4. \A i, j \in DOMAIN v : v[i] = v[j] => i = j
  <2> SUFFICES ASSUME NEW i \in DOMAIN v, NEW j \in DOMAIN v, v[i] = v[j] PROVE i = j
    OBVIOUS
  <2>1. i + 1 = j + 1
    BY <1>1, <1>2
  <2> QED
    BY <1>1, <2>1
<1>5. \A i \in DOMAIN w : i = 1 \/ (i - 1 \in DOMAIN v /\ v[i - 1] = w[i])
  <2> SUFFICES ASSUME NEW i \in DOMAIN w, i # 1 PROVE i - 1 \in DOMAIN v /\ v[i - 1] = w[i]
    OBVIOUS
  <2>1. i - 1 \in DOMAIN v /\ (i - 1) + 1 = i
    BY <1>1
  <2> QED
    BY <1>1, <2>1
<1> QED
  BY <1>1, <1>2, <1>3, <1>4, <1>5 DEF v

\* A rank has the result once its flag is raised, and the others as before.
LEMMA PublishPublished ==
    ASSUME TypeInv, LaunchInv, ExchangeInv, WorkerPublish, NEW r \in Ranks, NEW k \in Layers
    PROVE  /\ r = <<Current.dp, worker.at>> /\ k = Current.layer => ~Published(r, k) /\ Published(r, k)'
           /\ ~(r = <<Current.dp, worker.at>> /\ k = Current.layer) => (Published(r, k)' <=> Published(r, k))
<1> DEFINE d == Current.dp
           l == Current.layer
           w == worker.work
<1>1. /\ worker.step = "publish" /\ worker'.batch = worker.batch /\ finished' = finished
      /\ \/ /\ worker'.step = "publish" /\ worker'.at = worker.at + 1 /\ worker'.work = w
            /\ worker.at + 1 < TPSize
         \/ /\ worker'.step \in {"claim", "poll"} /\ worker'.at = 0
            /\ worker'.work = Tail(w) /\ worker.at + 1 >= TPSize
  BY PublishActs DEF streamVars
<1>2. /\ d \in DPs /\ l \in Layers /\ w \in Seq(Work) /\ w # <<>> /\ Current = w[1] /\ InWork(d, l)
      /\ worker.at \in Nat /\ TPSize \in Nat /\ 1 \in DOMAIN w
      /\ r[2] \in Nat /\ r[2] < TPSize /\ r = <<r[1], r[2]>>
  BY <1>1, CurrentFacts, RankFacts DEF TPs
<1>3. \A i, j \in DOMAIN w : w[i] = w[j] => i = j
  BY DEF ExchangeInv, WorkerInv
<1>4. worker.batch[d] = finished[d] + 1
  BY <1>1, CurrentBox
<1>5. w \in Seq([layer : Layers, dp : DPs])
  BY <1>2 DEF Work
<1>6. CASE worker'.step = "publish"
  <2>1. worker'.at = worker.at + 1 /\ worker'.work = w
    BY <1>1, <1>6
  <2>2. Current' = Current /\ (InWork(r[1], k)' <=> InWork(r[1], k))
    BY <2>1 DEF Current, InWork
  <2>3. r[1] = d /\ r[2] # worker.at => (r[2] < worker.at <=> r[2] < worker.at + 1)
    BY <1>2
  <2>4. worker.at < worker.at + 1 /\ ~(worker.at < worker.at)
    BY <1>2
  <2> QED
    BY <1>1, <1>2, <1>4, <1>6, <2>1, <2>2, <2>3, <2>4 DEF Published
<1>7. CASE worker'.step # "publish"
  <2>1. worker'.work = Tail(w) /\ worker.at + 1 >= TPSize
    BY <1>1, <1>7
  <2>2. InWork(r[1], k)' <=> InWork(r[1], k) /\ ~(r[1] = d /\ k = l)
    <3> DEFINE v == Tail(w)
    <3>1. /\ \A i \in DOMAIN v : i + 1 \in DOMAIN w /\ v[i] = w[i + 1] /\ v[i] # w[1]
          /\ \A i \in DOMAIN w : i = 1 \/ (i - 1 \in DOMAIN v /\ v[i - 1] = w[i])
      <4> HIDE DEF w
      <4> QED
        BY <1>2, <1>3, WorkTail
    <3>2. InWork(r[1], k)' <=> \E i \in DOMAIN v : v[i].dp = r[1] /\ v[i].layer = k
      BY <2>1 DEF InWork
    <3>3. InWork(r[1], k) <=> \E i \in DOMAIN w : w[i].dp = r[1] /\ w[i].layer = k
      BY DEF InWork
    <3>4. \A i \in DOMAIN w : w[i] \in Work
      <4> HIDE DEF w
      <4> QED
        BY <1>2
    <3>5. w[1] = [layer |-> l, dp |-> d] /\ w[1].dp = d /\ w[1].layer = l
      BY <1>2, <3>4 DEF Work
    <3>6. \A i \in DOMAIN v : ~(v[i].dp = d /\ v[i].layer = l)
      BY <3>1, <3>4, <3>5 DEF Work
    <3> HIDE DEF v, w, d, l
    <3>7. ASSUME NEW i \in DOMAIN w, w[i].dp = r[1], w[i].layer = k, ~(r[1] = d /\ k = l)
          PROVE  \E j \in DOMAIN v : v[j].dp = r[1] /\ v[j].layer = k
      BY <3>1, <3>5, <3>7
    <3>8. ASSUME NEW i \in DOMAIN v, v[i].dp = r[1], v[i].layer = k
          PROVE  (\E j \in DOMAIN w : w[j].dp = r[1] /\ w[j].layer = k) /\ ~(r[1] = d /\ k = l)
      BY <3>1, <3>6, <3>8
    <3> QED
      BY <3>2, <3>3, <3>7, <3>8
  <2>3. CASE r[1] = d /\ k = l
    <3>1. Published(r, k)'
      BY <1>1, <1>4, <2>2, <2>3 DEF Published
    <3>2. Published(r, k) <=> r[2] < worker.at
      BY <1>1, <1>2, <1>4, <2>3 DEF Published
    <3>3. r[2] = worker.at \/ r[2] < worker.at
      BY <1>2, <2>1
    <3>4. ~(worker.at < worker.at)
      BY <1>2
    <3> QED
      BY <1>2, <2>3, <3>1, <3>2, <3>3, <3>4
  <2>4. CASE ~(r[1] = d /\ k = l)
    <3>1. InWork(r[1], k)' <=> InWork(r[1], k)
      BY <2>2, <2>4
    <3>2. InWork(r[1], k) => ~Published(r, k) /\ ~Published(r, k)'
      BY <1>7, <2>4, <3>1 DEF Published
    <3>3. ~InWork(r[1], k) => (Published(r, k)' <=> Published(r, k))
      BY <1>1, <3>1 DEF Published
    <3>4. ~(r = <<d, worker.at>> /\ k = l)
      BY <2>4
    <3> QED
      BY <3>2, <3>3, <3>4
  <2> QED
    BY <2>3, <2>4
<1> QED
  BY <1>6, <1>7
-----------------------------------------------------------------------------
\* The worker raises the ready flag of a rank, and moves on.
LEMMA ExchangePublish ==
    ASSUME TypeInv, LaunchInv, ExchangeInv, WorkerPublish
    PROVE  ExchangeInv'
<1> DEFINE d == Current.dp
           l == Current.layer
           a == worker.at
           w == worker.work
<1>1. /\ worker.step = "publish" /\ UNCHANGED <<host, threadVars, event, streamVars, consumed, output>>
      /\ \A r \in Ranks : \A k \in Layers :
            ready'[r][k] = IF r = <<d, a>> /\ k = l THEN 1 ELSE ready[r][k]
      /\ worker'.batch = worker.batch
      /\ \/ /\ worker'.step = "publish" /\ worker'.at = a + 1 /\ worker'.work = w
            /\ a + 1 < TPSize
         \/ /\ worker'.step \in {"claim", "poll"} /\ worker'.at = 0
            /\ worker'.work = Tail(w) /\ a + 1 >= TPSize
  BY PublishActs
<1>2. /\ d \in DPs /\ l \in Layers /\ a \in TPs /\ a \in Nat /\ TPs \subseteq Nat
      /\ w \in Seq(Work) /\ w # <<>> /\ finished' = finished /\ finished[d] \in Nat
      /\ \A t \in TPs : <<d, t>> \in Ranks /\ <<d, t>>[1] = d /\ <<d, t>>[2] = t
  BY <1>1, CurrentFacts, CurrentBox, RankFacts DEF streamVars
<1>3. /\ \A i, j \in DOMAIN w : w[i] = w[j] => i = j
      /\ \A t \in TPs : /\ output[<<d, t>>][l] = finished[d] + 1
                        /\ t >= a => ready[<<d, t>>][l] = 0
  BY <1>1 DEF ExchangeInv, WorkerInv
<1>4. ASSUME NEW x \in DPs PROVE Requested(x)'
  <2>1. HasWork(x)' => HasWork(x)
    <3>1. ASSUME NEW k \in Layers, NEW i \in DOMAIN worker'.work,
                 worker'.work[i].dp = x, worker'.work[i].layer = k
          PROVE  InWork(x, k)
      <4>1. CASE worker'.work = w
        BY <3>1, <4>1 DEF InWork
      <4>2. CASE worker'.work = Tail(w)
        <5>1. i + 1 \in DOMAIN w /\ w[i + 1] = worker'.work[i]
          <6> HIDE DEF w
          <6> QED
            BY <1>2, <1>3, <3>1, <4>2, WorkTail
        <5> QED
          BY <3>1, <5>1 DEF InWork
      <4> QED
        BY <1>1, <4>1, <4>2
    <3> QED
      BY <3>1 DEF HasWork, InWork
  <2> QED
    BY <1>1, <2>1, WorkerRequested
<1>5. ASSUME NEW r \in Ranks, NEW k \in Layers PROVE Box(r, k)'
  <2>1. Box(r, k)
    BY DEF ExchangeInv
  <2>2. CASE r = <<d, a>> /\ k = l
    <3> DEFINE rd == ready[r][k]
               cs == consumed[r][k]
               o == output[r][k]
               v == gpu[r][k]
               tk == taken[r][k]
               f == finished[r[1]]
               pub == Published(r, k)
               pub2 == Published(r, k)'
               h == host[r]
               s == stream[r]
               g == stage[r]
    <3>1. ~pub /\ pub2 /\ pub \in BOOLEAN /\ pub2 \in BOOLEAN
      <4>1. ~pub /\ pub2
        BY <2>2, PublishPublished
      <4>2. pub \in BOOLEAN /\ pub2 \in BOOLEAN
        BY DEF Published
      <4> QED
        BY <4>1, <4>2
    <3>2. BoxOf(rd, cs, o, v, tk, f, pub, s, g, h, k) /\ ~DummyCopyingOf(s, g, k)
      <4>1. r[1] = d /\ k = l /\ worker.step # "poll"
        BY <1>1, <2>2
      <4>2. ~DummyCopyingOf(s, g, k)
        BY <4>1, CurrentBox
      <4> QED
        BY <2>1, <4>2 DEF Box
    <3>3. f \in Nat /\ o = f + 1
      BY <1>2, <1>3, <2>2
    <3>4. BoxOf(1, cs, o, v, tk, f, pub2, s, g, h, k)
      <4> HIDE DEF rd, cs, o, v, tk, f, pub, pub2, h, s, g
      <4> QED
        BY <3>1, <3>2, <3>3, BoxPublish
    <3>5. ready'[r][k] = 1
      BY <1>1, <2>2
    <3> QED
      BY <1>1, <3>4, <3>5 DEF Box, streamVars
  <2>3. CASE ~(r = <<d, a>> /\ k = l)
    <3>1. Published(r, k)' <=> Published(r, k)
      BY <2>3, PublishPublished
    <3>2. ready'[r][k] = ready[r][k]
      BY <1>1, <2>3
    <3> QED
      BY <1>1, <2>1, <3>1, <3>2, BoxKeep, ViewSame DEF streamVars
  <2> QED
    BY <2>2, <2>3
<1>6. WorkerInv'
  <2>1. CASE worker'.step = "publish"
    <3>1. worker'.at = a + 1 /\ worker'.work = w
      BY <1>1, <2>1
    <3>2. Current' = Current
      BY <3>1 DEF Current
    <3>3. \A t \in TPs : t >= a + 1 => t >= a /\ t # a
      BY <1>2
    <3>4. \A t \in TPs : t >= a + 1 => ready'[<<d, t>>][l] = 0
      <4> SUFFICES ASSUME NEW t \in TPs, t >= a + 1 PROVE ready'[<<d, t>>][l] = 0
        OBVIOUS
      <4>1. t >= a /\ t # a
        BY <3>3
      <4> QED
        BY <1>1, <1>2, <1>3, <4>1
    <3>5. \A t \in TPs : output'[<<d, t>>][l] = finished'[d] + 1
      BY <1>1, <1>2, <1>3
    <3> QED
      BY <1>3, <2>1, <3>1, <3>2, <3>4, <3>5 DEF WorkerInv
  <2>2. CASE worker'.step # "publish"
    <3>1. worker'.step \in {"claim", "poll"} /\ worker'.at = 0 /\ worker'.work = Tail(w)
      BY <1>1, <2>2
    <3>2. \A i, j \in DOMAIN worker'.work : worker'.work[i] = worker'.work[j] => i = j
      <4> HIDE DEF w
      <4> QED
        BY <1>2, <1>3, <3>1, WorkTail
    <3> QED
      BY <3>1, <3>2 DEF WorkerInv
  <2> QED
    BY <2>1, <2>2
<1> QED
  BY <1>4, <1>5, <1>6 DEF ExchangeInv
-----------------------------------------------------------------------------
\* The work the worker takes on when it receives the requests that wait.
LEMMA ReceiveActs ==
    ASSUME TypeInv, WorkerReceive
    PROVE  /\ worker.step = "poll" /\ worker.work = <<>>
           /\ UNCHANGED <<host, queue, thread, staged, event, streamVars, flagVars, output>>
           /\ worker'.step = "claim" /\ worker'.at = 0
           /\ \A d \in DPs : /\ requests'[d] = <<>>
                             /\ requests[d] # <<>> => worker'.batch[d] = requests[d][1] /\ HasWork(d)'
                             /\ requests[d] = <<>> => worker'.batch[d] = worker.batch[d]
                             /\ requests[d] = <<>> => ~HasWork(d)'
                             /\ requests[d] # <<>> => \A l \in Layers : InWork(d, l)'
                             /\ ~HasWork(d)
           /\ \A i, j \in DOMAIN worker'.work : worker'.work[i] = worker'.work[j] => i = j
<1> DEFINE from == {d \in DPs : requests[d] # <<>>}
           batch == [d \in DPs |-> IF d \in from THEN requests[d][1] ELSE worker.batch[d]]
<1>1. worker.step = "poll" /\ worker.work = <<>>
  BY DEF WorkerReceive, TypeInv, WorkerOK
<1>2. PICK order \in SetToSeqs(from) :
         worker' = [step |-> "claim", at |-> 0, seen |-> 0, batch |-> batch,
                    work |-> WorkOf(from, order)]
  BY DEF WorkerReceive, WorkOf
<1>3. /\ UNCHANGED <<host, queue, thread, staged, event, streamVars, flagVars, output>>
      /\ requests' = [d \in DPs |-> <<>>]
  BY DEF WorkerReceive, hostVars
<1>4. from # {} /\ from \in SUBSET DPs
  <2>1. Cardinality(from) > 0
    BY DEF WorkerReceive
  <2> QED
    BY <2>1, FS_EmptySet
<1>5. worker'.step = "claim" /\ worker'.at = 0 /\ worker'.batch = batch
      /\ worker'.work = WorkOf(from, order)
  BY <1>2
<1>6. /\ \A d \in DPs : requests[d] # <<>> => worker'.batch[d] = requests[d][1]
      /\ \A d \in DPs : requests[d] = <<>> => worker'.batch[d] = worker.batch[d]
      /\ \A d \in DPs : d \in from <=> requests[d] # <<>>
  BY <1>5
<1> HIDE DEF from, batch
<1>7. /\ \A i, j \in DOMAIN worker'.work : worker'.work[i] = worker'.work[j] => i = j
      /\ \A i \in DOMAIN worker'.work : worker'.work[i].dp \in from
      /\ \A d \in from : \A l \in Layers : \E i \in DOMAIN worker'.work :
            worker'.work[i].dp = d /\ worker'.work[i].layer = l
  BY <1>4, <1>5, WorkFacts
<1>8. ASSUME NEW d \in DPs PROVE ~HasWork(d)
  BY <1>1 DEF HasWork, InWork
<1>9. ASSUME NEW d \in DPs
      PROVE  /\ requests[d] = <<>> => ~HasWork(d)'
             /\ requests[d] # <<>> => HasWork(d)' /\ \A l \in Layers : InWork(d, l)'
  BY <1>6, <1>7, RankFacts DEF HasWork, InWork
<1> QED
  BY <1>1, <1>3, <1>5, <1>6, <1>7, <1>8, <1>9

\* Receiving requests keeps the exchange.
LEMMA ExchangeReceive ==
    ASSUME TypeInv, LaunchInv, ExchangeInv, WorkerReceive
    PROVE  ExchangeInv'
<1>1. /\ worker.step = "poll" /\ worker.work = <<>>
      /\ UNCHANGED <<host, queue, thread, staged, event, streamVars, flagVars, output>>
      /\ worker'.step = "claim" /\ worker'.at = 0
      /\ \A d \in DPs : /\ requests'[d] = <<>>
                        /\ requests[d] # <<>> => worker'.batch[d] = requests[d][1] /\ HasWork(d)'
                        /\ requests[d] = <<>> => worker'.batch[d] = worker.batch[d]
                        /\ requests[d] = <<>> => ~HasWork(d)'
                        /\ requests[d] # <<>> => \A l \in Layers : InWork(d, l)'
                        /\ ~HasWork(d)
      /\ \A i, j \in DOMAIN worker'.work : worker'.work[i] = worker'.work[j] => i = j
  BY ReceiveActs
<1>2. ASSUME NEW x \in DPs PROVE Requested(x)'
  <2> DEFINE full == host[<<x, 0>>].phase = "full"
             la == Launched(<<x, 0>>)
             busy == HasWork(x)
             busy2 == HasWork(x)'
             prep == Prepared(x)
             f == finished[x]
             bt == worker.batch[x]
             bt2 == worker'.batch[x]
             q == requests[x]
             q2 == requests'[x]
             th == thread[x]
             qu == queue[x]
             ev == event[x]
             inp == inputs[x]
             st == staged[x]
  <2>1. RequestedOf(f, q, bt, busy, th, qu, la, full, ev, inp, st, prep)
    BY DEF ExchangeInv, Requested
  <2>2. f \in Nat /\ qu \in Nat /\ la \in Nat /\ full \in BOOLEAN /\ prep \in BOOLEAN
    BY RequestTypes
  <2>3. q2 = <<>> /\ (q # <<>> => bt2 = q[1]) /\ (q = <<>> => bt2 = bt /\ ~busy2)
    BY <1>1
  <2>4. RequestedOf(f, q2, bt2, busy2, th, qu, la, full, ev, inp, st, prep)
    <3> HIDE DEF full, la, busy, busy2, prep, f, bt, bt2, q, q2, th, qu, ev, inp, st
    <3>1. CASE q # <<>>
      <4>1. q2 = <<>> /\ bt2 = q[1]
        BY <2>3, <3>1
      <4>2. RequestedOf(f, <<>>, q[1], busy2, th, qu, la, full, ev, inp, st, prep)
        BY <2>1, <2>2, <3>1, RequestReceived, ZenonT(60)
      <4> QED
        BY <4>1, <4>2
    <3>2. CASE q = <<>>
      <4>1. q2 = q /\ bt2 = bt /\ (busy2 => busy)
        BY <2>3, <3>2
      <4>2. RequestedOf(f, q, bt, busy2, th, qu, la, full, ev, inp, st, prep)
        BY <2>1, <4>1, RequestLess
      <4> QED
        BY <4>1, <4>2
    <3> QED
      BY <3>1, <3>2
  <2>5. Launched(<<x, 0>>)' = Launched(<<x, 0>>)
    BY <1>1 DEF Launched, streamVars
  <2>6. Prepared(x)' = Prepared(x)
    BY <1>1, <2>5 DEF Prepared, streamVars
  <2>7. Prepared(x) => \A i \in DOMAIN stream[<<x, 0>>] : stream[<<x, 0>>][i].pass > 0
    BY DEF ExchangeInv, Requested
  <2> QED
    BY <1>1, <2>4, <2>5, <2>6, <2>7 DEF Requested, streamVars
<1>3. ASSUME NEW r \in Ranks, NEW k \in Layers PROVE Box(r, k)'
  <2>1. Box(r, k)
    BY DEF ExchangeInv
  <2>2. r[1] \in DPs
    BY RankFacts
  <2>3. Published(r, k)' <=> Published(r, k)
    <3>1. CASE requests[r[1]] = <<>>
      <4>1. ~InWork(r[1], k)' /\ ~InWork(r[1], k)
        BY <1>1, <2>2, <3>1 DEF HasWork
      <4> QED
        BY <1>1, <2>2, <3>1, <4>1 DEF Published, streamVars
    <3>2. CASE requests[r[1]] # <<>>
      <4>1. ~Published(r, k)'
        BY <1>1, <2>2, <3>2 DEF Published
      <4>2. worker.batch[r[1]] # finished[r[1]] + 1
        BY <2>2, <3>2, AtHand
      <4> QED
        BY <4>1, <4>2 DEF Published
    <3> QED
      BY <3>1, <3>2
  <2> QED
    BY <1>1, <2>1, <2>3, BoxKeep, ViewSame DEF streamVars, flagVars
<1>4. WorkerInv'
  BY <1>1 DEF WorkerInv
<1> QED
  BY <1>2, <1>3, <1>4 DEF ExchangeInv

\* Every step keeps the exchange.
LEMMA ExchangeStep == TypeInv /\ LaunchInv /\ ExchangeInv /\ [Next]_vars => ExchangeInv'
<1> SUFFICES ASSUME TypeInv, LaunchInv, ExchangeInv, [Next]_vars PROVE ExchangeInv'
  OBVIOUS
<1>1. TypeInv'
  BY TypeStep
<1>2. CASE UNCHANGED vars
  BY <1>2, ExchangeKeep DEF vars, hostVars
<1>3. CASE \E d \in DPs : IssueBatch(d) \/ \E kind \in {Dummy, Capture} : IssueDummy(d, kind)
  BY <1>3, ExchangeEngine
<1>4. CASE \E d \in DPs : AllReduce(d)
  BY <1>1, <1>4, ExchangeReduce
<1>5. CASE \E d \in DPs : ThreadNext(d)
  BY <1>1, <1>5, ExchangeThread
<1>6. CASE \E r \in Ranks : HostNext(r) \/ ClaimTimeout(r)
  BY <1>1, <1>6, ExchangeHost
<1>7. CASE \E r \in Ranks : StreamNext(r)
  BY <1>1, <1>7, ExchangeStream
<1>8. CASE WorkerNext
  <2>1. CASE worker.step = "poll"
    <3>1. WorkerReceive
      BY <1>8, <2>1 DEF WorkerNext, WorkerClaim, WorkerResetReady, WorkerResetConsumed,
                        WorkerComputeBegin, WorkerComputeEnd, WorkerFanOut, WorkerPublish
    <3> QED
      BY <3>1, ExchangeReceive
  <2>2. CASE worker.step = "publish"
    <3>1. WorkerPublish
      BY <1>8, <2>2 DEF WorkerNext, WorkerReceive, WorkerClaim, WorkerResetReady,
                        WorkerResetConsumed, WorkerComputeBegin, WorkerComputeEnd, WorkerFanOut
    <3> QED
      BY <3>1, ExchangePublish
  <2> QED
    BY <1>8, <2>1, <2>2, ExchangeWorks
<1> QED
  BY <1>2, <1>3, <1>4, <1>5, <1>6, <1>7, <1>8 DEF Next, Stopped
-----------------------------------------------------------------------------
\* The stream has copied the output of layer l and has not yet lowered its flag.
CopiedOf(s, g, l) == s # <<>> /\ s[1].layer = l /\ g = "copied"

\* What the box of an output holds, seen from the mailbox.
MailOf(rd, o, copied) == IF rd = 1 /\ ~copied THEN o ELSE Torn
\* The stream of r has copied layer l.
Copied(r, l) == CopiedOf(stream[r], stage[r], l)
\* What the mailbox has in the box of layer l of rank r.
Mail(r, l) == MailOf(ready[r][l], output[r][l], Copied(r, l))

\* A box that does not move.
MailKept(r, l) == Mail(r, l)' = Mail(r, l) /\ taken'[r][l] = taken[r][l]
\* The steps of one box: none, the next result, a placeholder, the placeholder dropped,
\* the result taken.
MailStep(r, l) ==
    \/ MailKept(r, l)
    \/ Mail(r, l) = Torn /\ Mail(r, l)' = taken[r][l] + 1 /\ taken'[r][l] = taken[r][l]
    \/ Mail(r, l) = Torn /\ Mail(r, l)' = Dummy /\ taken'[r][l] = taken[r][l]
    \/ Mail(r, l) = Dummy /\ Mail(r, l)' = Torn /\ taken'[r][l] = taken[r][l]
    \/ Mail(r, l) \notin {Torn, Dummy} /\ Mail(r, l)' = Torn /\ taken'[r][l] = Mail(r, l)
\* A step of the mailbox: at most one box moves.
MailNext ==
    \/ \A q \in Ranks : \A k \in Layers : MailKept(q, k)
    \/ \E r \in Ranks : \E l \in Layers :
          MailStep(r, l) /\ \A q \in Ranks : \A k \in Layers : ~(q = r /\ k = l) => MailKept(q, k)

\* An output that nobody touches is a box that does not move.
LEMMA MailSame ==
    ASSUME NEW r \in Ranks, NEW l \in Layers, ready'[r][l] = ready[r][l],
           output'[r][l] = output[r][l],
           taken'[r][l] = taken[r][l], Copied(r, l)' <=> Copied(r, l)
    PROVE  MailKept(r, l)
BY DEF MailKept, Mail, MailOf

\* Work behind the work on a stream leaves its head.
LEMMA HeadKept ==
    ASSUME NEW s \in Seq(Op), s # <<>>
    PROVE  /\ \A e \in Op : Append(s, e) # <<>> /\ Append(s, e)[1] = s[1]
           /\ \A w \in Seq(Op) : (s \o w) # <<>> /\ (s \o w)[1] = s[1]
OBVIOUS

\* A copy that is done is at the head of its stream.
LEMMA CopiedHead ==
    ASSUME TypeInv, LaunchInv, NEW r \in Ranks, stage[r] = "copied"
    PROVE  stream[r] # <<>> /\ stream[r][1].op = "copy" /\ Head(stream[r]) = stream[r][1]
<1>1. OrderOf(r[2], stream[r], host[r], finished[r[1]], issued[r[1]], stage[r])
  BY RankOfState DEF RankOK
<1>2. stream[r] \in Seq(Op)
  BY DEF TypeInv, StreamOK
<1> QED
  BY <1>1, <1>2, StreamHead DEF OrderOf

\* A launch, a forward behind the work on a stream, or a timeout.
LEMMA CopiedHost ==
    ASSUME TypeInv, LaunchInv, NEW r \in Ranks, HostNext(r) \/ ClaimTimeout(r),
           NEW q \in Ranks, NEW k \in Layers
    PROVE  Copied(q, k)' <=> Copied(q, k)
<1> USE DEF engineVars, hostVars, threadVars, streamVars, flagVars
<1>1. /\ stage' = stage /\ \A x \in Ranks \ {r} : stream'[x] = stream[x]
      /\ ~SignalDummy(r) => UNCHANGED <<ready, consumed, output>>
  BY HostActs
<1>2. stream \in [Ranks -> Seq(Op)] /\ host \in [Ranks -> HostState]
  BY DEF TypeInv, StreamOK, HostOK
<1>3. ASSUME stage[r] = "copied" PROVE stream'[r] # <<>> /\ stream'[r][1] = stream[r][1]
  <2> DEFINE s == stream[r]
  <2>1. s # <<>> /\ s \in Seq(Op)
    BY <1>2, <1>3, CopiedHead
  <2>2. \/ stream'[r] = s
        \/ \E e : stream'[r] = Append(s, e)
        \/ \E p : stream'[r] = s \o Forward(p)
    <3>1. CASE LaunchStart(r)
      BY <1>2, <3>1 DEF LaunchStart
    <3>2. CASE ClaimSeen(r)
      BY <1>2, <3>2 DEF ClaimSeen
    <3>3. CASE SignalDummy(r)
      BY <1>2, <3>3 DEF SignalDummy
    <3>4. CASE ClaimTimeout(r) \/ DummyStart(r)
      BY <3>4 DEF ClaimTimeout, DummyStart
    <3> QED
      BY <3>1, <3>2, <3>3, <3>4 DEF HostNext
  <2>3. \A p : Len(Forward(p)) = NumLayers + 1
    BY RankFacts DEF Forward
  <2> QED
    BY <2>1, <2>2, HeadKept
<1>4. CASE q = r
  BY <1>1, <1>3, <1>4, CopiedHead DEF Copied, CopiedOf
<1>5. CASE q # r
  BY <1>1, <1>5 DEF Copied, CopiedOf
<1> QED
  BY <1>4, <1>5

\* A model thread moves a box only to put the placeholder of a dummy forward into an
\* empty one.
LEMMA MailHost ==
    ASSUME TypeInv, LaunchInv, ExchangeInv, NEW r \in Ranks, HostNext(r) \/ ClaimTimeout(r)
    PROVE  MailNext
<1>1. /\ \A q \in Ranks : \A k \in Layers : Copied(q, k)' <=> Copied(q, k)
      /\ taken' = taken /\ (~SignalDummy(r) => UNCHANGED <<ready, output>>)
  BY CopiedHost, HostActs
<1>2. CASE ~SignalDummy(r)
  BY <1>1, <1>2, MailSame DEF MailNext
<1>3. CASE SignalDummy(r)
  <2>1. PICK l \in Layers :
        /\ issued[r[1]] = finished[r[1]]
        /\ ready' = [ready EXCEPT ![r][l] = 1] /\ output' = [output EXCEPT ![r][l] = Dummy]
        /\ ready \in Grid({0, 1}) /\ output \in Grid(Torn .. MaxPasses)
    BY <1>3, SignalActs, BoxTypes
  <2>2. \A q \in Ranks : \A k \in Layers :
           /\ ready'[q][k] = IF q = r /\ k = l THEN 1 ELSE ready[q][k]
           /\ output'[q][k] = IF q = r /\ k = l THEN Dummy ELSE output[q][k]
    BY <2>1 DEF Grid
  <2>3. \A q \in Ranks : \A k \in Layers : ~(q = r /\ k = l) => MailKept(q, k)
    <3> SUFFICES ASSUME NEW q \in Ranks, NEW k \in Layers, ~(q = r /\ k = l) PROVE MailKept(q, k)
      OBVIOUS
    <3>1. ready'[q][k] = ready[q][k] /\ output'[q][k] = output[q][k] /\ taken'[q][k] = taken[q][k]
      BY <1>1, <2>2
    <3> QED
      BY <1>1, <3>1, MailSame
  <2>4. ready[r][l] = 1 => output[r][l] = Dummy
    <3>1. ~Published(r, l) /\ Box(r, l)
      BY <2>1, AtRest DEF ExchangeInv
    <3> QED
      BY <3>1 DEF Box, BoxOf
  <2>5. MailStep(r, l)
    <3>1. ready'[r][l] = 1 /\ output'[r][l] = Dummy /\ taken'[r][l] = taken[r][l]
          /\ (Copied(r, l)' <=> Copied(r, l))
      BY <1>1, <2>1, <2>2
    <3> QED
      BY <2>4, <3>1 DEF MailStep, MailKept, Mail, MailOf
  <2> QED
    BY <2>1, <2>3, <2>5 DEF MailNext
<1> QED
  BY <1>2, <1>3

\* The forward of all ranks of d ends: no copy is under way.
LEMMA MailReduce ==
    ASSUME TypeInv, LaunchInv, NEW d \in DPs, AllReduce(d)
    PROVE  MailNext
<1>1. UNCHANGED <<ready, output, taken, stage>>
      /\ stream' = [r \in Ranks |-> IF r[1] = d THEN Tail(stream[r]) ELSE stream[r]]
      /\ \A t \in TPs : stream[<<d, t>>] # <<>> /\ Head(stream[<<d, t>>]).op = "reduce"
  BY DEF AllReduce, flagVars
<1>2. ASSUME NEW q \in Ranks, NEW k \in Layers PROVE Copied(q, k)' <=> Copied(q, k)
  <2>1. CASE q[1] = d
    <3>1. q = <<d, q[2]>> /\ q[2] \in TPs
      BY <2>1, RankFacts
    <3>2. Head(stream[q]).op = "reduce"
      BY <1>1, <3>1
    <3>3. stage[q] # "copied"
      BY <3>2, CopiedHead
    <3> QED
      BY <1>1, <3>3 DEF Copied, CopiedOf
  <2>2. CASE q[1] # d
    BY <1>1, <2>2 DEF Copied, CopiedOf
  <2> QED
    BY <2>1, <2>2
<1> QED
  BY <1>1, <1>2, MailSame DEF MailNext
-----------------------------------------------------------------------------
\* The stream takes the result out of a box when its copy is done.
LEMMA MailCopyEnd ==
    ASSUME TypeInv, LaunchInv, ExchangeInv, NEW r \in Ranks, CopyEnd(r), NEW l \in Layers,
           stream[r] # <<>>, stream[r][1].layer = l
    PROVE  MailStep(r, l)
<1>1. /\ stage[r] = "copying" /\ ready' = ready /\ output' = output /\ stream' = stream
      /\ stage' = [stage EXCEPT ![r] = "copied"] /\ Head(stream[r]) = stream[r][1]
  BY DEF CopyEnd, AtCopy, flagVars
<1>2. /\ r[1] \in DPs /\ finished[r[1]] \in Nat /\ stream[r] \in Seq(Op)
      /\ ready \in Grid({0, 1}) /\ output \in Grid(Torn .. MaxPasses)
      /\ gpu \in Grid(Torn .. MaxPasses) /\ taken \in Grid(0 .. MaxPasses)
      /\ Published(r, l) \in BOOLEAN /\ ready[r][l] \in {0, 1}
      /\ stage \in [Ranks -> {"wait", "copying", "copied", "release"}]
  BY BoxTypes DEF TypeInv, StreamOK
<1>3. stream[r][1].pass \in Nat /\ 1 \in DOMAIN stream[r]
  BY <1>2, StreamHead
<1>4. ~Copied(r, l) /\ Copied(r, l)'
  BY <1>1, <1>2 DEF Copied, CopiedOf
<1>5. Box(r, l)
  BY DEF ExchangeInv
<1> DEFINE got == IF gpu[r][l] = output[r][l] THEN gpu[r][l] ELSE Torn
<1>8. taken' = [taken EXCEPT ![r][l] = IF got > 0 THEN got ELSE @]
  BY <1>1 DEF CopyEnd
<1>9. taken'[r][l] = IF got > 0 THEN got ELSE taken[r][l]
  <2> HIDE DEF got
  <2> QED
    BY <1>2, <1>8 DEF Grid
<1>6. CASE stream[r][1].pass > 0
  <2>1. ~ThroughOf(stream[r], stage[r], l)
    BY <1>1, RankFacts DEF ThroughOf
  <2>2. CopyingOf(stream[r], stage[r], l, {"copying", "copied"})
    BY <1>1, <1>6 DEF CopyingOf, GoingOf
  <2>3. /\ ready[r][l] = 1 /\ output[r][l] = finished[r[1]] + 1 /\ gpu[r][l] = finished[r[1]] + 1
    BY <1>5, <2>1, <2>2 DEF Box, BoxOf
  <2>5. taken'[r][l] = finished[r[1]] + 1
    BY <1>2, <1>9, <2>3
  <2>6. Mail(r, l) = finished[r[1]] + 1 /\ Mail(r, l)' = Torn
    BY <1>1, <1>4, <2>3 DEF Mail, MailOf
  <2> QED
    BY <1>2, <2>5, <2>6 DEF MailStep, Torn, Dummy
<1>7. CASE stream[r][1].pass = Dummy
  <2>1. DummyCopyingOf(stream[r], stage[r], l)
    BY <1>1, <1>7 DEF DummyCopyingOf
  <2>2. ~Published(r, l)
    <3>1. ~(stream[r][1].pass > 0)
      BY <1>7 DEF Dummy
    <3>2. worker.batch[r[1]] # finished[r[1]] + 1
      BY <1>2, <1>3, <3>1, AtHand
    <3> QED
      BY <3>2 DEF Published
  <2>3. ready[r][l] = 1 /\ gpu[r][l] = Dummy /\ output[r][l] = Dummy
    BY <1>5, <2>1, <2>2 DEF Box, BoxOf
  <2>5. taken'[r][l] = taken[r][l]
    BY <1>2, <1>9, <2>3 DEF Dummy
  <2>6. Mail(r, l) = Dummy /\ Mail(r, l)' = Torn
    BY <1>1, <1>4, <2>3 DEF Mail, MailOf
  <2> QED
    BY <2>5, <2>6 DEF MailStep
<1> QED
  BY <1>3, <1>6, <1>7 DEF Dummy

\* A stream moves a box only to take what is in it.
LEMMA MailStream ==
    ASSUME TypeInv, LaunchInv, ExchangeInv, NEW r \in Ranks, StreamNext(r)
    PROVE  MailNext
<1> USE DEF flagVars
<1>1. /\ output' = output /\ stream[r] # <<>>
      /\ \A q \in Ranks \ {r} : stream'[q] = stream[q] /\ stage'[q] = stage[q]
      /\ ~PrepareInputs(r) => stream[r][1].layer \in Layers
      /\ PrepareInputs(r) => /\ stage'[r] = "wait" /\ stage[r] = "wait"
                             /\ UNCHANGED <<ready, taken>>
  BY StreamActs
<1>2. /\ stream[r] \in Seq(Op) /\ Head(stream[r]) = stream[r][1]
      /\ ready \in Grid({0, 1}) /\ output \in Grid(Torn .. MaxPasses)
      /\ taken \in Grid(0 .. MaxPasses)
      /\ stage \in [Ranks -> {"wait", "copying", "copied", "release"}]
  BY <1>1, BoxTypes, StreamHead DEF TypeInv, StreamOK
<1>3. \A q \in Ranks : \A k \in Layers : q # r => (Copied(q, k)' <=> Copied(q, k))
  BY <1>1 DEF Copied, CopiedOf
<1>4. CASE PrepareInputs(r)
  <2>1. \A q \in Ranks : \A k \in Layers : Copied(q, k)' <=> Copied(q, k)
    BY <1>1, <1>3, <1>4 DEF Copied, CopiedOf
  <2> QED
    BY <1>1, <1>4, <2>1, MailSame DEF MailNext
<1>5. CASE CopyBegin(r)
  <2>1. UNCHANGED <<ready, taken>> /\ stage'[r] = "copying" /\ stage[r] = "wait"
    BY <1>2, <1>5 DEF CopyBegin, AtCopy
  <2>2. \A q \in Ranks : \A k \in Layers : Copied(q, k)' <=> Copied(q, k)
    BY <1>3, <2>1 DEF Copied, CopiedOf
  <2> QED
    BY <1>1, <2>1, <2>2, MailSame DEF MailNext
<1>6. CASE CopyEnd(r)
  <2>1. PICK l \in Layers : l = stream[r][1].layer
    BY <1>1, <1>6 DEF PrepareInputs, CopyEnd, AtCopy
  <2>2. MailStep(r, l)
    BY <1>1, <1>6, <2>1, MailCopyEnd
  <2>3. \A q \in Ranks : \A k \in Layers : ~(q = r /\ k = l) =>
           (Copied(q, k)' <=> Copied(q, k)) /\ taken'[q][k] = taken[q][k]
    <3>1. \A k \in Layers : k # l => ~Copied(r, k) /\ ~Copied(r, k)'
      BY <1>6, <2>1 DEF CopyEnd, Copied, CopiedOf
    <3>2. \E v : taken' = [taken EXCEPT ![r][l] = v]
      BY <1>2, <1>6, <2>1 DEF CopyEnd
    <3>3. \A q \in Ranks : \A k \in Layers : ~(q = r /\ k = l) => taken'[q][k] = taken[q][k]
      BY <1>2, <3>2 DEF Grid
    <3> QED
      BY <1>3, <3>1, <3>3
  <2>4. ready' = ready
    BY <1>6 DEF CopyEnd
  <2> QED
    BY <1>1, <2>2, <2>3, <2>4, MailSame DEF MailNext
<1>7. CASE ResetReady(r)
  <2>1. PICK l \in Layers : l = stream[r][1].layer
    BY <1>1, <1>7 DEF PrepareInputs, ResetReady, AtCopy
  <2>2. /\ stage[r] = "copied" /\ stage'[r] = "release" /\ taken' = taken /\ stream' = stream
        /\ ready' = [ready EXCEPT ![r][l] = 0]
    BY <1>2, <1>7, <2>1 DEF ResetReady, AtCopy
  <2>3. \A q \in Ranks : \A k \in Layers :
           ready'[q][k] = IF q = r /\ k = l THEN 0 ELSE ready[q][k]
    BY <1>2, <2>2 DEF Grid
  <2>4. MailKept(r, l)
    <3>1. Copied(r, l) /\ ready'[r][l] = 0
      BY <1>1, <2>1, <2>2, <2>3 DEF Copied, CopiedOf
    <3> QED
      BY <2>2, <3>1 DEF MailKept, Mail, MailOf
  <2>5. \A q \in Ranks : \A k \in Layers : ~(q = r /\ k = l) => MailKept(q, k)
    <3>1. \A k \in Layers : k # l => ~Copied(r, k) /\ ~Copied(r, k)'
      BY <2>1, <2>2 DEF Copied, CopiedOf
    <3> QED
      BY <1>1, <1>3, <2>2, <2>3, <3>1, MailSame
  <2> QED
    BY <2>4, <2>5 DEF MailNext
<1>8. CASE Release(r)
  <2>1. UNCHANGED <<ready, taken>> /\ stage'[r] = "wait" /\ stage[r] = "release"
    BY <1>2, <1>8 DEF Release, AtCopy
  <2>2. \A q \in Ranks : \A k \in Layers : Copied(q, k)' <=> Copied(q, k)
    BY <1>3, <2>1 DEF Copied, CopiedOf
  <2> QED
    BY <1>1, <2>1, <2>2, MailSame DEF MailNext
<1> QED
  BY <1>4, <1>5, <1>6, <1>7, <1>8 DEF StreamNext

\* The worker drops a placeholder when it claims the box, writes only to an empty box,
\* and fills it with the batch that follows the last one taken.
LEMMA MailWorker ==
    ASSUME TypeInv, LaunchInv, ExchangeInv, WorkerNext
    PROVE  MailNext
<1> USE DEF streamVars, flagVars
<1>1. /\ UNCHANGED <<stream, stage, taken>>
      /\ worker.step = "poll" => UNCHANGED <<ready, output>>
  <2>1. worker.step = "poll" => WorkerReceive
    BY DEF WorkerNext, WorkerClaim, WorkerResetReady, WorkerResetConsumed, WorkerComputeBegin,
           WorkerComputeEnd, WorkerFanOut, WorkerPublish
  <2>2. worker.step = "publish" => WorkerPublish
    BY DEF WorkerNext, WorkerReceive, WorkerClaim, WorkerResetReady, WorkerResetConsumed,
           WorkerComputeBegin, WorkerComputeEnd, WorkerFanOut
  <2> QED
    BY <2>1, <2>2, WorkerFields, PublishActs DEF WorkerReceive
<1>2. \A q \in Ranks : \A k \in Layers : Copied(q, k)' <=> Copied(q, k)
  BY <1>1 DEF Copied
<1>3. CASE worker.step = "poll"
  BY <1>1, <1>2, <1>3, MailSame DEF MailNext
<1>4. ready \in Grid({0, 1})
  BY DEF TypeInv, FlagsOK
<1>5. CASE worker.step # "poll" /\ worker.step # "publish" /\ worker.step # "reset"
  <2>1. ASSUME NEW q \in Ranks, NEW k \in Layers PROVE MailKept(q, k)
    <3>1. ready[q][k] = 0 => ready'[q][k] = 0
      BY <1>5, WorkerWrites
    <3>2. CASE ready'[q][k] = ready[q][k] /\ output'[q][k] = output[q][k]
      BY <1>1, <1>2, <3>2, MailSame
    <3>3. CASE ready[q][k] = 0
      BY <1>1, <3>1, <3>3 DEF MailKept, Mail, MailOf
    <3>4. ready[q][k] # 0 => ready'[q][k] = ready[q][k] /\ output'[q][k] = output[q][k]
      <4>1. CASE WorkerClaim
        BY <4>1 DEF WorkerClaim
      <4>2. CASE WorkerResetConsumed
        BY <4>2 DEF WorkerResetConsumed
      <4>3. ASSUME ready' = ready, ready[q][k] # 0, output'[q][k] # output[q][k] PROVE FALSE
        BY <1>5, <4>3, WorkerWrites
      <4>4. CASE WorkerComputeBegin \/ WorkerComputeEnd \/ WorkerFanOut
        BY <4>3, <4>4 DEF WorkerComputeBegin, WorkerComputeEnd, WorkerFanOut
      <4> QED
        BY <1>5, <4>1, <4>2, <4>4
           DEF WorkerNext, WorkerReceive, WorkerResetReady, WorkerPublish
    <3> QED
      BY <3>2, <3>3, <3>4
  <2> QED
    BY <2>1 DEF MailNext
<1>6. CASE worker.step = "reset"
  <2>1. WorkerResetReady
    BY <1>6 DEF WorkerNext, WorkerReceive, WorkerClaim, WorkerResetConsumed, WorkerComputeBegin,
                WorkerComputeEnd, WorkerFanOut, WorkerPublish
  <2>2. PICK r \in Ranks, l \in Layers : r = <<Current.dp, worker.at>> /\ l = Current.layer
    BY <1>6, CurrentFacts, RankFacts
  <2>3. ready' = [ready EXCEPT ![r][l] = 0] /\ output' = output
    BY <2>1, <2>2 DEF WorkerResetReady, ClaimedReady
  <2>4. \A q \in Ranks : \A k \in Layers :
           ready'[q][k] = IF q = r /\ k = l THEN 0 ELSE ready[q][k]
    BY <1>4, <2>3 DEF Grid
  <2>5. ready[r][l] = 1 => output[r][l] = Dummy
    <3>1. r[1] = Current.dp
      BY <2>2
    <3>2. ~Published(r, l) /\ Box(r, l)
      BY <1>6, <2>2, <3>1, CurrentBox DEF ExchangeInv
    <3> QED
      BY <3>2 DEF Box, BoxOf
  <2>6. MailStep(r, l)
    BY <1>1, <1>4, <2>4, <2>5, GridType DEF MailStep, MailKept, Mail, MailOf
  <2>7. \A q \in Ranks : \A k \in Layers : ~(q = r /\ k = l) => MailKept(q, k)
    BY <1>1, <1>2, <2>3, <2>4, MailSame
  <2> QED
    BY <2>6, <2>7 DEF MailNext
<1>7. CASE worker.step = "publish"
  <2>1. WorkerPublish
    BY <1>7 DEF WorkerNext, WorkerReceive, WorkerClaim, WorkerResetReady, WorkerResetConsumed,
                WorkerComputeBegin, WorkerComputeEnd, WorkerFanOut
  <2>2. PICK r \in Ranks, l \in Layers : r = <<Current.dp, worker.at>> /\ l = Current.layer
    BY <1>7, CurrentFacts, RankFacts
  <2>3. /\ \A q \in Ranks : \A k \in Layers :
              ready'[q][k] = IF q = r /\ k = l THEN 1 ELSE ready[q][k]
        /\ output' = output
    BY <2>1, <2>2, PublishActs
  <2>4. r[1] = Current.dp /\ ~Published(r, l) /\ ~DummyCopyingOf(stream[r], stage[r], l)
    <3>1. r[1] = Current.dp
      BY <2>2
    <3> QED
      BY <1>7, <2>1, <2>2, <3>1, CurrentBox, PublishPublished
  <2>5. Box(r, l) /\ finished[r[1]] \in Nat /\ stream[r] \in Seq(Op)
    BY BoxTypes DEF ExchangeInv
  <2>6. ready[r][l] = 0 /\ output[r][l] = finished[r[1]] + 1
    <3>1. worker.at \in TPs /\ worker.at >= worker.at
      BY <1>7, CurrentFacts, RankFacts
    <3> QED
      BY <1>7, <2>2, <2>4, <3>1 DEF ExchangeInv, WorkerInv
  <2>7. ~ThroughOf(stream[r], stage[r], l) /\ ~CopyingOf(stream[r], stage[r], l, {"copying", "copied"})
    BY <2>4, <2>5 DEF Box, BoxOf
  <2>8. taken[r][l] = finished[r[1]] /\ ~Copied(r, l)
    <3>1. ~CopyingOf(stream[r], stage[r], l, {"copied"})
      BY <2>7 DEF CopyingOf
    <3>2. taken[r][l] = finished[r[1]]
      BY <2>5, <2>7, <3>1 DEF Box, BoxOf
    <3>3. stream[r] # <<>> => stream[r][1].pass \in Nat
      BY <2>5, StreamHead
    <3>4. ~Copied(r, l)
      BY <2>4, <3>1, <3>3 DEF Copied, CopiedOf, CopyingOf, DummyCopyingOf, GoingOf, Dummy
    <3> QED
      BY <3>2, <3>4
  <2>9. MailStep(r, l)
    <3>1. ready'[r][l] = 1 /\ output'[r][l] = output[r][l] /\ taken'[r][l] = taken[r][l]
      BY <1>1, <2>3
    <3> QED
      BY <1>2, <2>6, <2>8, <3>1 DEF MailStep, Mail, MailOf
  <2>10. \A q \in Ranks : \A k \in Layers : ~(q = r /\ k = l) => MailKept(q, k)
    BY <1>1, <1>2, <2>3, MailSame
  <2> QED
    BY <2>9, <2>10 DEF MailNext
<1> QED
  BY <1>3, <1>5, <1>6, <1>7
-----------------------------------------------------------------------------
\* Nothing else moves a box.
LEMMA MailAlways == TypeInv /\ LaunchInv /\ ExchangeInv /\ [Next]_vars => MailNext
<1> SUFFICES ASSUME TypeInv, LaunchInv, ExchangeInv, [Next]_vars PROVE MailNext
  OBVIOUS
<1>1. ASSUME UNCHANGED <<ready, output, taken, stream, stage>> PROVE MailNext
  BY <1>1, MailSame DEF MailNext, Copied
<1>2. CASE UNCHANGED vars
  BY <1>1, <1>2 DEF vars, flagVars, streamVars
<1>3. CASE \E d \in DPs : IssueBatch(d) \/ \E kind \in {Dummy, Capture} : IssueDummy(d, kind)
  BY <1>1, <1>3 DEF IssueBatch, IssueDummy, Issue, flagVars, streamVars
<1>4. CASE \E d \in DPs : ThreadNext(d)
  BY <1>1, <1>4 DEF ThreadNext, ThreadGet, ThreadWaitEvent, ThreadStageBegin, ThreadStageEnd,
                    ThreadSend, flagVars, streamVars
<1> QED
  BY <1>2, <1>3, <1>4, MailReduce, MailHost, MailStream, MailWorker DEF Next, Stopped

\* The variable box of the mailbox, as the refinement mapping defines it.
boxView == [b \in Ranks \X Layers |->
             IF ready[b[1]][b[2]] = 1 /\ ~(AtCopy(b[1], "copied") /\ Head(stream[b[1]]).layer = b[2])
             THEN output[b[1]][b[2]] ELSE Torn]
\* The variable taken of the mailbox.
takenView == [b \in Ranks \X Layers |-> taken[b[1]][b[2]]]

\* The refinement mapping, in terms of the invariants.
LEMMA BoxView == TypeInv /\ LaunchInv => boxView = [b \in Ranks \X Layers |-> Mail(b[1], b[2])]
<1> SUFFICES ASSUME TypeInv, LaunchInv PROVE boxView = [b \in Ranks \X Layers |-> Mail(b[1], b[2])]
  OBVIOUS
<1>1. ASSUME NEW r \in Ranks, NEW l \in Layers
      PROVE  AtCopy(r, "copied") /\ Head(stream[r]).layer = l <=> Copied(r, l)
  BY CopiedHead DEF AtCopy, Copied, CopiedOf
<1>2. ASSUME NEW b \in Ranks \X Layers PROVE boxView[b] = Mail(b[1], b[2])
  BY <1>1 DEF boxView, Mail, MailOf
<1> QED
  BY <1>2 DEF boxView

\* The same after a step.
LEMMA BoxViewAfter ==
    TypeInv' /\ LaunchInv' => (boxView = [b \in Ranks \X Layers |-> Mail(b[1], b[2])])'
BY BoxView, PTL

\* Functions that differ at most at one place.
LEMMA BoxMoves ==
    ASSUME NEW B, NEW x, NEW t, NEW y, NEW u, NEW b \in B,
           x = [c \in B |-> x[c]], y = [c \in B |-> y[c]],
           t = [c \in B |-> t[c]], u = [c \in B |-> u[c]],
           \A c \in B : c # b => y[c] = x[c] /\ u[c] = t[c]
    PROVE  /\ y[b] = x[b] => y = x
           /\ u[b] = t[b] => u = t
           /\ \A v : y[b] = v => y = [x EXCEPT ![b] = v]
           /\ \A v : u[b] = v => u = [t EXCEPT ![b] = v]
OBVIOUS

\* The actions of the mailbox, with its two variables named.
LEMMA MailboxActs ==
    /\ \A b \in Ranks \X Layers :
          /\ boxView[b] = Torn /\ boxView' = [boxView EXCEPT ![b] = takenView[b] + 1] /\ takenView' = takenView
                => Mailbox!Publish(b)
          /\ boxView[b] = Torn /\ boxView' = [boxView EXCEPT ![b] = Dummy] /\ takenView' = takenView
                => Mailbox!Arm(b)
          /\ boxView[b] = Dummy /\ boxView' = [boxView EXCEPT ![b] = Torn] /\ takenView' = takenView
                => Mailbox!Drop(b)
          /\ boxView[b] \notin {Torn, Dummy} /\ takenView' = [takenView EXCEPT ![b] = boxView[b]]
             /\ boxView' = [boxView EXCEPT ![b] = Torn]
                => Mailbox!Take(b)
    /\ boxView' = boxView /\ takenView' = takenView => UNCHANGED Mailbox!vars
BY DEF Mailbox!Publish, Mailbox!Arm, Mailbox!Drop, Mailbox!Take, Mailbox!vars, boxView, takenView

\* The initial state is one of the mailbox.
LEMMA MailboxInit == Init => Mailbox!Init
<1> SUFFICES ASSUME Init PROVE Mailbox!Init
  OBVIOUS
<1>1. \A r \in Ranks : \A l \in Layers : ready[r][l] = 0 /\ taken[r][l] = 0
  BY DEF Init, Cells
<1> QED
  BY <1>1 DEF Mailbox!Init

\* Every step is a step of the mailbox, or leaves all its boxes.
LEMMA MailboxStep ==
    TypeInv /\ LaunchInv /\ ExchangeInv /\ [Next]_vars => [Mailbox!Next]_(Mailbox!vars)
<1> SUFFICES ASSUME TypeInv, LaunchInv, ExchangeInv, [Next]_vars
             PROVE  [Mailbox!Next]_(Mailbox!vars)
  OBVIOUS
<1>1. TypeInv' /\ LaunchInv' /\ MailNext
  BY TypeStep, LaunchStep, MailAlways
<1> DEFINE B == Ranks \X Layers
           x == [b \in B |-> Mail(b[1], b[2])]
           y == [b \in B |-> Mail(b[1], b[2])']
           t == [b \in B |-> taken[b[1]][b[2]]]
           u == [b \in B |-> taken'[b[1]][b[2]]]
<1>2. boxView = x /\ boxView' = y /\ takenView = t /\ takenView' = u
  BY <1>1, BoxView, BoxViewAfter DEF takenView
<1>3. CASE \A q \in Ranks : \A k \in Layers : MailKept(q, k)
  <2>1. y = x /\ u = t
    BY <1>3 DEF MailKept
  <2>2. boxView' = boxView /\ takenView' = takenView
    BY <1>2, <2>1
  <2> QED
    BY <2>2 DEF Mailbox!vars, boxView, takenView
<1>4. ASSUME NEW r \in Ranks, NEW l \in Layers, MailStep(r, l),
             \A q \in Ranks : \A k \in Layers : ~(q = r /\ k = l) => MailKept(q, k)
      PROVE  [Mailbox!Next]_(Mailbox!vars)
  <2> DEFINE b == <<r, l>>
  <2>1. /\ b \in B /\ x[b] = Mail(r, l) /\ y[b] = Mail(r, l)' /\ t[b] = taken[r][l]
        /\ u[b] = taken'[r][l]
    OBVIOUS
  <2>2. \A c \in B : c # b => y[c] = x[c] /\ u[c] = t[c]
    <3> SUFFICES ASSUME NEW c \in B, c # b PROVE y[c] = x[c] /\ u[c] = t[c]
      OBVIOUS
    <3>1. c[1] \in Ranks /\ c[2] \in Layers /\ ~(c[1] = r /\ c[2] = l)
      OBVIOUS
    <3>2. MailKept(c[1], c[2])
      BY <1>4, <3>1
    <3> QED
      BY <3>2 DEF MailKept
  <2>3. /\ \A v : y[b] = v => y = [x EXCEPT ![b] = v]
        /\ \A v : u[b] = v => u = [t EXCEPT ![b] = v]
        /\ y[b] = x[b] => y = x
        /\ u[b] = t[b] => u = t
    <3>1. DOMAIN x = B /\ DOMAIN y = B /\ DOMAIN t = B /\ DOMAIN u = B
      OBVIOUS
    <3>2. x = [c \in B |-> x[c]] /\ y = [c \in B |-> y[c]] /\ t = [c \in B |-> t[c]] /\ u = [c \in B |-> u[c]]
      OBVIOUS
    <3>3. b \in B
      BY <2>1
    <3> HIDE DEF x, y, t, u, b, B
    <3> QED
      BY ONLY <2>2, <3>2, <3>3, BoxMoves
  <2>4. boxView = x /\ boxView' = y /\ takenView = t /\ takenView' = u
    BY <1>2
  <2>5. CASE MailKept(r, l)
    <3>1. y[b] = x[b] /\ u[b] = t[b]
      BY <2>1, <2>5 DEF MailKept
    <3> HIDE DEF x, y, t, u, b, B
    <3>2. boxView' = boxView /\ takenView' = takenView
      BY <2>3, <2>4, <3>1
    <3> QED
      BY <3>2, MailboxActs
  <2>6. CASE Mail(r, l) = Torn /\ Mail(r, l)' = taken[r][l] + 1 /\ taken'[r][l] = taken[r][l]
    <3>1. b \in B /\ x[b] = Torn /\ y[b] = t[b] + 1 /\ u[b] = t[b]
      BY <2>1, <2>6
    <3>2. Mailbox!Publish(b)
      <4> HIDE DEF x, y, t, u, b
      <4> QED
        BY <2>3, <2>4, <3>1, MailboxActs
    <3> QED
      BY <3>1, <3>2 DEF Mailbox!Next
  <2>7. CASE Mail(r, l) = Torn /\ Mail(r, l)' = Dummy /\ taken'[r][l] = taken[r][l]
    <3>1. b \in B /\ x[b] = Torn /\ y[b] = Dummy /\ u[b] = t[b]
      BY <2>1, <2>7
    <3>2. Mailbox!Arm(b)
      <4> HIDE DEF x, y, t, u, b
      <4> QED
        BY <2>3, <2>4, <3>1, MailboxActs
    <3> QED
      BY <3>1, <3>2 DEF Mailbox!Next
  <2>8. CASE Mail(r, l) = Dummy /\ Mail(r, l)' = Torn /\ taken'[r][l] = taken[r][l]
    <3>1. b \in B /\ x[b] = Dummy /\ y[b] = Torn /\ u[b] = t[b]
      BY <2>1, <2>8
    <3>2. Mailbox!Drop(b)
      <4> HIDE DEF x, y, t, u, b
      <4> QED
        BY <2>3, <2>4, <3>1, MailboxActs
    <3> QED
      BY <3>1, <3>2 DEF Mailbox!Next
  <2>9. CASE Mail(r, l) \notin {Torn, Dummy} /\ Mail(r, l)' = Torn /\ taken'[r][l] = Mail(r, l)
    <3>1. b \in B /\ x[b] \notin {Torn, Dummy} /\ y[b] = Torn /\ u[b] = x[b]
      BY <2>1, <2>9
    <3>2. Mailbox!Take(b)
      <4> HIDE DEF x, y, t, u, b
      <4> QED
        BY <2>3, <2>4, <3>1, MailboxActs
    <3> QED
      BY <3>1, <3>2 DEF Mailbox!Next
  <2> QED
    BY <1>4, <2>5, <2>6, <2>7, <2>8, <2>9 DEF MailStep
<1> QED
  BY <1>1, <1>3, <1>4 DEF MailNext

\* The inductive invariant of the exchange.
IInv == TypeInv /\ LaunchInv /\ ExchangeInv

\* It holds in every state.
LEMMA Inductive == Spec => []IInv
<1>1. Init => IInv
  BY TypeInit, LaunchInit, ExchangeInit DEF IInv
<1>2. IInv /\ [Next]_vars => IInv'
  BY TypeStep, LaunchStep, ExchangeStep DEF IInv
<1> QED
  BY <1>1, <1>2, PTL DEF Spec

\* A forward that has come to its end has on every rank, for every layer, the whole
\* result computed from its own inputs: no zeros of a dummy forward, no result of
\* another batch and no half-written one, for any number of ranks, layers and batches in
\* flight.
THEOREM OwnOutputAlways == Spec => []OwnOutput
<1>1. IInv => OwnOutput
  <2> SUFFICES ASSUME IInv, NEW r \in Ranks, stream[r] # <<>>, Head(stream[r]).op = "reduce",
                      Head(stream[r]).pass > 0, NEW l \in Layers
               PROVE  gpu[r][l] = Head(stream[r]).pass
    BY DEF OwnOutput
  <2>1. /\ stream[r] \in Seq(Op) /\ Head(stream[r]) = stream[r][1] /\ stream[r][1] \in Op
    BY StreamHead DEF IInv, TypeInv, StreamOK
  <2>2. stream[r][1].layer = NumLayers + 1
    BY <2>1, OpFacts
  <2>3. stream[r][1].pass = finished[r[1]] + 1
    BY <2>1, RankOfState DEF IInv, RankOK, OrderOf, FirstOp
  <2>4. NumLayers + 1 > l
    BY RankFacts DEF Layers
  <2>5. ThroughOf(stream[r], stage[r], l)
    BY <2>1, <2>2, <2>4 DEF ThroughOf, GoingOf
  <2>6. Box(r, l)
    BY DEF IInv, ExchangeInv
  <2> QED
    BY <2>1, <2>3, <2>5, <2>6 DEF Box, BoxOf
<1> QED
  BY <1>1, Inductive, PTL

\* The worker never has two requests of one data-parallel rank, so that the request it
\* would drop as a duplicate (_handle_requests) does not exist: a batch is asked for
\* only when the one before it was copied by all ranks.
THEOREM OneRequest == Spec => []NoDuplicateRequest
<1>1. IInv => NoDuplicateRequest
  <2> SUFFICES ASSUME IInv, NEW d \in DPs
               PROVE  Len(requests[d]) + (IF \E i \in DOMAIN worker.work : worker.work[i].dp = d
                                          THEN 1 ELSE 0) <= 1
    BY DEF NoDuplicateRequest
  <2>1. CASE requests[d] = <<>>
    BY <2>1
  <2>2. CASE requests[d] # <<>>
    <3>1. Requested(d) /\ finished[d] \in Nat
      BY RequestTypes DEF IInv, ExchangeInv
    <3>2. requests[d] = <<finished[d] + 1>> /\ ~HasWork(d)
      BY <2>2, <3>1 DEF Requested, RequestedOf
    <3>3. ~\E i \in DOMAIN worker.work : worker.work[i].dp = d
      <4> SUFFICES ASSUME NEW i \in DOMAIN worker.work, worker.work[i].dp = d PROVE FALSE
        OBVIOUS
      <4>1. worker.work \in Seq(Work)
        BY DEF IInv, TypeInv, WorkerOK, WorkerState
      <4>2. worker.work[i] \in Work
        BY <4>1
      <4>3. worker.work[i].layer \in Layers
        BY <4>2 DEF Work
      <4> QED
        BY <3>2, <4>3 DEF HasWork, InWork
    <3>4. Len(requests[d]) = 1
      BY <3>2
    <3> QED
      BY <3>3, <3>4
  <2> QED
    BY <2>1, <2>2
<1> QED
  BY <1>1, Inductive, PTL

\* The two flags of an output implement the mailbox: every step of the threads, the
\* streams and the worker either leaves all boxes or is one step of one box, which is
\* filled with the next result only when empty and emptied only by taking what is in it,
\* or by dropping a placeholder.
THEOREM ImplementsMailbox == Spec => MailboxSpec
<1>1. IInv /\ [Next]_vars => [Mailbox!Next]_(Mailbox!vars)
  BY MailboxStep DEF IInv
<1>2. Spec => Mailbox!Init /\ [][Mailbox!Next]_(Mailbox!vars)
  BY <1>1, MailboxInit, Inductive, PTL DEF Spec
<1> QED
  BY <1>2, PTL DEF MailboxSpec, Mailbox!Spec

\* What a dummy forward copies are zeros: the result of a batch, or part of one, is left
\* to that batch, however many dummy forwards overlap and whatever flags they lower for
\* one another, for any number of ranks, layers and batches in flight.
THEOREM DummiesLeaveResultsAlways == Spec => []DummiesLeaveResults
<1>1. IInv => DummiesLeaveResults
  <2> SUFFICES ASSUME IInv, NEW r \in Ranks, AtCopy(r, "copying") \/ AtCopy(r, "copied"),
                      Head(stream[r]).pass = Dummy
               PROVE  gpu[r][Head(stream[r]).layer] = Dummy
    BY DEF DummiesLeaveResults
  <2>1. /\ stream[r] \in Seq(Op) /\ stream[r] # <<>> /\ Head(stream[r]).op = "copy"
        /\ stage[r] \in {"copying", "copied"}
    BY DEF IInv, TypeInv, StreamOK, AtCopy
  <2>2. Head(stream[r]) = stream[r][1] /\ stream[r][1].layer \in Layers
    BY <2>1, StreamHead, OpFacts
  <2>3. DummyCopyingOf(stream[r], stage[r], stream[r][1].layer)
    BY <2>1, <2>2 DEF DummyCopyingOf
  <2>4. Box(r, stream[r][1].layer)
    BY <2>2 DEF IInv, ExchangeInv
  <2> QED
    BY <2>2, <2>3, <2>4 DEF Box, BoxOf
<1> QED
  BY <1>1, Inductive, PTL
=============================================================================

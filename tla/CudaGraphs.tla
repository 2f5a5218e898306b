----------------------------- MODULE CudaGraphs -----------------------------
(***************************************************************************)
(* Which graphs are captured and which one a batch replays                 *)
(* (v1/worker/gpu/cudagraph_utils.py).                                     *)
(*                                                                         *)
(* A full graph is captured for a number of tokens, of requests and, for   *)
(* decodes, for a query length; a piecewise one only for a number of       *)
(* tokens.  The sizes come from the configuration, are rounded to whole    *)
(* requests for each query length of the decodes, and every token count up *)
(* to the largest one gets the list of the graphs of the next size.        *)
(***************************************************************************)
EXTENDS Integers, Sequences, FiniteSets, SequencesExt

CONSTANTS
    Sizes,          \* cudagraph_capture_sizes
    MaxNumReqs,     \* max_num_seqs
    QueryLens,      \* tokens of a decode, several with dynamic speculation
    LoraCases       \* numbers of active adapters graphs are captured for

GraphAssumption ==
    /\ Sizes \subseteq Nat \ {0} /\ IsFiniteSet(Sizes) /\ Sizes # {}
    /\ MaxNumReqs \in Nat \ {0} /\ QueryLens \subseteq Nat \ {0} /\ LoraCases \subseteq Nat

MaxOf(S) == CHOOSE m \in S : \A n \in S : n <= m
MinOf(S) == CHOOSE m \in S : \A n \in S : m <= n
Smaller(m, n) == IF m <= n THEN m ELSE n
Ascending(S) == SetToSortSeq(S, LAMBDA m, n : m < n)

Free == 0   \* None in a field of a descriptor: no constraint

\* CUDAGraphMode: the graphs of decodes and those of other batches.  Decodes have
\* their own unless both are the same.
CgModes == {[decode |-> "FULL", mixed |-> "FULL"], [decode |-> "PIECEWISE", mixed |-> "PIECEWISE"],
            [decode |-> "FULL", mixed |-> "NONE"], [decode |-> "FULL", mixed |-> "PIECEWISE"]}
Separate(mode) == mode.decode # mode.mixed

Configs == [mode : CgModes, varlen : BOOLEAN]

MaxQueryLen == MaxOf(QueryLens)
MaxSize == MaxOf(Sizes)

Eager(tokens, reqs, loras) ==
    [cg |-> "NONE", tokens |-> tokens, reqs |-> reqs, uniform |-> Free, maxQuery |-> Free,
     loras |-> loras]
-----------------------------------------------------------------------------
(* _init_candidates                                                        *)

RoundUp(n, q) == ((n + q - 1) \div q) * q

VarlenDescs(c, size, loras) ==
    IF size <= MaxNumReqs * MaxQueryLen
    THEN <<[cg |-> c.mode.decode, tokens |-> size, reqs |-> Smaller(size, MaxNumReqs),
            uniform |-> Free, maxQuery |-> MaxQueryLen, loras |-> loras]>>
    ELSE <<>>

\* A size rounded to whole decodes, if that many may be scheduled and captured.
UniformDescs(c, size, loras) ==
    LET desc(q) == [cg |-> c.mode.decode, tokens |-> RoundUp(size, q),
                    reqs |-> RoundUp(size, q) \div q, uniform |-> q, maxQuery |-> Free, loras |-> loras]
        fits(d) == d.tokens <= MaxNumReqs * MaxQueryLen /\ d.tokens <= MaxSize /\ d.reqs <= MaxNumReqs
    IN  SelectSeq([i \in 1 .. Cardinality(QueryLens) |-> desc(Ascending(QueryLens)[i])], fits)

\* Mutant: the graph of a mixed batch has one request.
MixedDescsMutant(c, size, loras) ==
    IF c.mode.mixed = "NONE" THEN <<>>
    ELSE <<[cg |-> c.mode.mixed, tokens |-> size,
            reqs |-> IF c.mode.mixed = "FULL" THEN 1 ELSE Free, uniform |-> Free, maxQuery |-> Free, loras |-> loras]>>

MixedDescs(c, size, loras) ==
    IF c.mode.mixed = "NONE" THEN <<>>
    ELSE <<[cg |-> c.mode.mixed, tokens |-> size,
            reqs |-> IF c.mode.mixed = "FULL" THEN Smaller(size, MaxNumReqs) ELSE Free,
            uniform |-> Free, maxQuery |-> Free, loras |-> loras]>>

DecodeDescs(c, size, loras) ==
    IF ~ Separate(c.mode) THEN <<>>
    ELSE IF c.varlen THEN VarlenDescs(c, size, loras) ELSE UniformDescs(c, size, loras)

\* Every descriptor once, in the order of the sizes and, within one, of the
\* adapters: those of the decodes come first.
AllDescs(c) ==
    LET of(size, loras) == DecodeDescs(c, size, loras) \o MixedDescs(c, size, loras)
        ofSize(size) == FlattenSeq([i \in 1 .. Cardinality(LoraCases) |->
                                       of(size, Ascending(LoraCases)[i])])
        once(seq, d) == IF Contains(seq, d) THEN seq ELSE Append(seq, d)
    IN  FoldLeft(once, <<>>, FlattenSeq([i \in 1 .. Cardinality(Sizes) |-> ofSize(Ascending(Sizes)[i])]))

\* The graphs for a number of tokens: those of the next size there is.
Candidates(c, tokens, loras) ==
    LET counts == {d.tokens : d \in ToSet(AllDescs(c))}
        next == {n \in counts : n >= tokens}
    IN  IF next = {} THEN <<>>
        ELSE SelectSeq(AllDescs(c), LAMBDA d : d.tokens = MinOf(next) /\ d.loras = loras)

\* capture: one graph for each full descriptor; piecewise ones are the compiler's.
Captured(c) == {d \in ToSet(AllDescs(c)) : d.cg = "FULL"}
-----------------------------------------------------------------------------
(* dispatch                                                                *)

\* The smallest case captured that serves the adapters of a batch.
EffectiveLoras(loras) ==
    LET cases == LoraCases \ {0}
    IN  IF loras = 0 \/ cases = {} THEN loras
        ELSE IF loras > MaxOf(cases) THEN MaxOf(cases) ELSE MinOf({k \in cases : k >= loras})

\* Mutant: a graph of uniform decodes takes any batch that fits.
IsCompatibleMutant(d, b) ==
    /\ d.maxQuery # Free => d.maxQuery >= b.maxQuery
    /\ d.reqs # Free => d.reqs >= b.reqs
    /\ d.tokens >= b.tokens
    /\ d.loras = EffectiveLoras(b.loras)

IsCompatible(d, b) ==
    /\ d.uniform # Free => d.uniform = b.uniform
    /\ d.maxQuery # Free => d.maxQuery >= b.maxQuery
    /\ d.reqs # Free => d.reqs >= b.reqs
    /\ d.tokens >= b.tokens
    /\ d.loras = EffectiveLoras(b.loras)

\* A batch: its tokens, its requests, its longest query, the query length all of
\* them share if they are decodes (Free if not), and its adapters.
Dispatch(c, b) ==
    LET fitting == SelectSeq(Candidates(c, b.tokens, EffectiveLoras(b.loras)),
                             LAMBDA d : IsCompatible(d, b))
    IN  IF fitting = <<>> THEN Eager(b.tokens, b.reqs, EffectiveLoras(b.loras)) ELSE fitting[1]

\* prepare_inputs_to_capture: the lengths of the queries a graph was captured with.
CapturedQueries(d) ==
    IF d.uniform # Free THEN [i \in 1 .. d.reqs |-> d.uniform]
    ELSE [i \in 1 .. d.reqs |-> d.tokens \div d.reqs
                                + (IF i > d.reqs - (d.tokens % d.reqs) THEN 1 ELSE 0)]
-----------------------------------------------------------------------------
\* The batches the scheduler can make: queries of the requests, in order, as lengths.
Batches ==
    LET lens == UNION {[1 .. n -> 1 .. MaxSize] : n \in 1 .. MaxNumReqs}
        sum(s) == FoldLeft(LAMBDA a, x : a + x, 0, s)
        longest(s) == MaxOf(ToSet(s))
    IN  {[tokens |-> sum(s), reqs |-> Len(s), maxQuery |-> longest(s), loras |-> l,
          uniform |-> IF prefill \/ Cardinality(ToSet(s)) > 1 THEN Free ELSE longest(s)] :
            s \in {t \in lens : IsSorted(t, LAMBDA m, n : m <= n)},
            l \in 0 .. MaxNumReqs, prefill \in BOOLEAN}

Fitting(c, b) == {d \in ToSet(AllDescs(c)) : IsCompatible(d, b)}

\* Those with no graph of any shape between the batch and them.
Nearest(c, b) ==
    {d \in Fitting(c, b) : \A e \in ToSet(AllDescs(c)) : e.tokens \notin b.tokens .. d.tokens - 1}

WholeDecodes == \A size \in Sizes, q \in QueryLens : size % q = 0

\* A batch replays a full graph only if one was captured, for as many tokens and
\* requests at least and for queries as long.  It finds a graph just when one that fits
\* has none of another shape between the batch and itself, and a full one if there is a
\* full one of those.  So where sizes are rounded to decodes of several lengths, some
\* batches run without a graph although one fits them; where every size is whole decodes
\* of every length, none does, and with graphs for batches that are not decodes every batch
\* up to the largest size has one (cudagraph_utils.py:259, 288, 396, 417).
GraphFits(c, b) ==
    LET d == Dispatch(c, b)
        queries == CapturedQueries(d)
    IN  /\ d.cg = "FULL" =>
            /\ d \in Captured(c)
            /\ d.tokens >= b.tokens /\ d.reqs >= b.reqs
            /\ FoldLeft(LAMBDA sum, q : sum + q, 0, queries) = d.tokens
            /\ Separate(c.mode) => \/ d.maxQuery >= b.maxQuery
                                   \/ b.uniform # Free /\ \A i \in DOMAIN queries : queries[i] = b.uniform
        /\ d.cg = "NONE" <=> Nearest(c, b) = {}
        /\ d.cg = "PIECEWISE" => \A e \in Nearest(c, b) : e.cg = "PIECEWISE"
        /\ WholeDecodes /\ d.cg = "NONE" =>
            Fitting(c, b) = {} /\ (c.mode.mixed = "NONE" \/ b.tokens > MaxSize)
=============================================================================

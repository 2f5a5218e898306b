------------------------------ MODULE QsaCache ------------------------------
(***************************************************************************)
(* The side caches of the sparse attention (common/qsa_cache.py) and what  *)
(* is read from them (nvidia/ops/qsa.py, nvidia/qsa.py).                   *)
(*                                                                         *)
(* The index keys of R consecutive tokens are pooled into one compressed   *)
(* key when the last of them arrives.  The raw keys of the group that is   *)
(* still open wait in a ring of the request; drafts are written into it    *)
(* before anybody knows whether they are accepted.  A query scores the     *)
(* complete groups it may see, takes the best of them and attends their    *)
(* tokens and those of its open group.                                     *)
(***************************************************************************)
EXTENDS Integers, Sequences, FiniteSets, SequencesExt

CONSTANTS
    R,              \* compress_ratio
    NumSpec,        \* num_speculative_tokens
    StorageBlock,   \* compressed keys of a block
    Table,          \* the blocks of the request
    MaxRows,        \* bound: tokens of a step
    MaxReqs, Starts, Queries,   \* bound: the batches whose metadata is built
    BlockTopK,      \* groups a query may choose
    BlockN,         \* columns of a tile
    TargetSplits    \* splits of the selection, a power of two

QsaAssumption ==
    /\ {R, StorageBlock, MaxRows, MaxReqs, BlockTopK, BlockN, TargetSplits} \subseteq Nat \ {0}
    /\ NumSpec \in Nat /\ Starts \subseteq Nat /\ Queries \subseteq Nat
    /\ Table \in Seq(Nat) /\ IsInjective(Table)

VARIABLES
    computed,   \* tokens of the request that are computed and accepted
    drafted,    \* steps of the draft loop since then
    ring,       \* its raw keys: slot -> position of the token, or why it is none
    keys        \* the compressed keys: slot -> the raw keys pooled
vars == <<computed, drafted, ring, keys>>

Pad      == -1      \* PAD_SLOT_ID, and a column without a token
Rejected == -2      \* the key of a draft, which may be another token's
Stale    == -3      \* left by another request
Ceil(n, d) == (n + d - 1) \div d
Smaller(m, n) == IF m <= n THEN m ELSE n
Columns == Len(Table) * StorageBlock
MaxLen == Columns * R

\* A batch is a sequence of requests, which may have no token in the step.
Requests == [start : Starts, q : Queries]
Batches ==
    {b \in UNION {[1 .. n -> Requests] : n \in 1 .. MaxReqs} : \E i \in DOMAIN b : b[i].q > 0}
-----------------------------------------------------------------------------
(* The metadata of a step, _build_qsa_metadata_kernel.  It numbers         *)
(* requests, rows and items of work from zero.                             *)

\* Where the requests start in a list in which request i has counts[i + 1]
\* entries, and where the last one ends.
Offsets(counts) ==
    [i \in 0 .. Len(counts) |-> FoldLeft(LAMBDA sum, c : sum + c, 0, SubSeq(counts, 1, i))]

\* The request an entry belongs to, the last that starts at or before it, by a
\* binary search.
OwnerOf(offsets, n, entry) ==
    LET bits == CHOOSE k \in 0 .. n : 2^k >= n /\ \A j \in 0 .. k - 1 : 2^j < n
        advance(c, step) ==
            IF c + step < n /\ offsets[c + step] <= entry THEN c + step ELSE c
    IN  FoldLeft(advance, 0, [k \in 1 .. bits |-> 2^(bits - k)])

QueryStart(b) == Offsets([i \in DOMAIN b |-> b[i].q])
NumTokens(b) == QueryStart(b)[Len(b)]

Request(b, row) == OwnerOf(QueryStart(b), Len(b), row)
Position(b, row) == b[Request(b, row) + 1].start + row - QueryStart(b)[Request(b, row)]
Rows(b, i) == QueryStart(b)[i] .. QueryStart(b)[i + 1] - 1

\* Slots of a ring.  Mutant: it holds whole groups, but has no room for drafts.
CapacityMutant == R
Capacity == R * Ceil(R + NumSpec, R)

\* circular_qsa_slot_mapping: the last rows of the request, each at its position
\* modulo the capacity, in the one block the request has.
RingSlot(b, row) ==
    IF row + Capacity >= QueryStart(b)[Request(b, row) + 1]
    THEN Position(b, row) % Capacity ELSE Pad

\* _logical_to_physical_qsa_slots
PhysicalSlot(index) ==
    IF index \div StorageBlock < Len(Table)
    THEN Table[index \div StorageBlock + 1] * StorageBlock + (index % StorageBlock)
    ELSE Pad

\* compressed_qsa_slot_mapping: the row that completes a group has its slot.
Closes(position) == (position + 1) % R = 0
KeySlot(b, row) ==
    IF Closes(Position(b, row)) THEN PhysicalSlot(Position(b, row) \div R) ELSE Pad

\* The items of work of the pre-indexer: one for each group a request completes,
\* and at least one, since item zero stores the raw keys.
NumGroups(r) == (r.start + r.q) \div R - r.start \div R
WorkCount(r) ==
    CASE r.q = 0                     -> 0
      [] r.q > 0 /\ NumGroups(r) = 0 -> 1
      [] OTHER                       -> NumGroups(r)

\* The length of the list is known on the host, from the number of tokens and
\* of requests.  Mutant: every request has as many items as its tokens fill.
MaxWorkMutant(b) == Ceil(NumTokens(b), R)
MaxWork(b) == (NumTokens(b) + (R - 1) * Len(b)) \div R

Work(b) ==
    LET offsets == Offsets([i \in DOMAIN b |-> WorkCount(b[i])])
        owner(w) == OwnerOf(offsets, Len(b), w)
    IN  [w \in 0 .. MaxWork(b) - 1 |->
            IF w < offsets[Len(b)] THEN <<owner(w), w - offsets[owner(w)]>> ELSE <<Pad, Pad>>]
-----------------------------------------------------------------------------
(* A step of the index side branch.                                        *)

\* _compress_qsa_groups_kernel: the members of the group the row completes, from
\* the ring or, if they are of this step, from its rows.
Pooled(b, row, raw) ==
    LET chunkStart == b[Request(b, row) + 1].start
        member(p) == IF p >= chunkStart
                     THEN raw[QueryStart(b)[Request(b, row)] + p - chunkStart]
                     ELSE ring[p % Capacity]
    IN  [o \in 1 .. R |-> member(Position(b, row) - R + o)]

\* qsa_store_cache_rows
StoreRows(cache, slotOf, value) ==
    [s \in DOMAIN cache |->
        IF \E row \in DOMAIN slotOf : slotOf[row] = s
        THEN value[CHOOSE row \in DOMAIN slotOf : slotOf[row] = s] ELSE cache[s]]

\* The groups are pooled before the ring takes the rows of the step.
IndexStep(b, raw) ==
    LET rows == DOMAIN raw
    IN  /\ keys' = StoreRows(keys, [row \in rows |-> KeySlot(b, row)],
                             [row \in {t \in rows : KeySlot(b, t) # Pad} |-> Pooled(b, row, raw)])
        /\ ring' = StoreRows(ring, [row \in rows |-> RingSlot(b, row)], raw)

\* A step of the request with n tokens, the last of which are drafts and at most
\* NumSpec of them rejected.
Forward(n, accepted) ==
    /\ accepted \in 1 .. n /\ n - accepted <= NumSpec
    /\ computed + n <= MaxLen
    /\ IndexStep(<<[start |-> computed, q |-> n]>>,
                 [t \in 0 .. n - 1 |-> IF t < accepted THEN computed + t ELSE Rejected])
    /\ computed' = computed + accepted
    /\ drafted' = 0

\* A step of the draft loop: one token, whose position is one further on than that
\* of the step before.  update_draft_decode_metadata builds its metadata.
Draft ==
    /\ drafted < NumSpec - 1
    /\ computed > 0 /\ computed + drafted < MaxLen
    /\ IndexStep(<<[start |-> computed + drafted, q |-> 1]>>, [t \in {0} |-> Rejected])
    /\ drafted' = drafted + 1
    /\ UNCHANGED computed

\* The request is preempted and comes back with a prefix hit of whole blocks; its
\* ring is another's.
Resume ==
    /\ \E n \in 0 .. computed \div (StorageBlock * R) :
        /\ computed' = n * StorageBlock * R
        /\ keys' = [s \in DOMAIN keys |->
                        IF \E k \in 1 .. n : s \div StorageBlock = Table[k] THEN keys[s] ELSE <<>>]
    /\ ring' = [s \in DOMAIN ring |-> Stale]
    /\ drafted' = 0

KeySlots == {PhysicalSlot(g) : g \in 0 .. Columns - 1}

Init ==
    /\ computed = 0
    /\ drafted = 0
    /\ ring = [s \in 0 .. Capacity - 1 |-> Stale]
    /\ keys = [s \in KeySlots |-> <<>>]

Next ==
    \/ \E n \in 1 .. MaxRows : \E accepted \in 1 .. n : Forward(n, accepted)
    \/ Draft
    \/ Resume

Spec == Init /\ [][Next]_vars
-----------------------------------------------------------------------------
(* What a query at a position of a sequence attends.                       *)

\* The groups it scores.  Mutant: its open group is one of them.
VisibleMutant(position, len) == Smaller((position + R) \div R, len \div R)
Visible(position, len) == Smaller((position + 1) \div R, len \div R)

\* The groups in the order of their scores: the invisible ones are masked, and come
\* last.  Columns that no group is left for are padded.
TopK(k, visible) ==
    {s \in [1 .. k -> 0 .. Columns - 1] :
        IsInjective(s) /\ \A i \in 1 .. Smaller(k, visible) : s[i] < visible}

Rankings(position, len) ==
    LET k == Smaller(BlockTopK, Columns)
    IN  {blocks \o [i \in 1 .. BlockTopK - k |-> Pad] : blocks \in TopK(k, Visible(position, len))}

\* _expand_qsa_indices_kernel: the tokens of the groups taken, and the open group.
Width == BlockTopK * R + R - 1
Selected(position, len, blocks) ==
    LET expanded == Smaller(Visible(position, len), BlockTopK) * R
        tailStart == ((position + 1) \div R) * R
        token(c) == IF c < expanded THEN blocks[c \div R + 1] * R + (c % R)
                    ELSE IF c - expanded < position + 1 - tailStart THEN tailStart + c - expanded
                    ELSE Pad
    IN  [c \in 0 .. Width - 1 |-> IF token(c) \in 0 .. len - 1 THEN token(c) ELSE Pad]

\* qsa_sparse_paged_attention: as many splits as there are tiles for, rounded down
\* to a power of two.
NumTiles == Ceil(Width, BlockN)
NumSplits ==
    Smaller(TargetSplits, 2^(CHOOSE k \in 0 .. NumTiles : 2^k <= NumTiles /\ 2^(k + 1) > NumTiles))

\* The tiles of a split.  Mutant: every split has as many.
SplitTilesMutant(s) == s * (NumTiles \div NumSplits) .. (s + 1) * (NumTiles \div NumSplits) - 1
SplitTiles(s) == (s * NumTiles) \div NumSplits .. ((s + 1) * NumTiles) \div NumSplits - 1

\* The columns that carry a token, in the split and the tile that reads them.
Reads(position, len, blocks, token) ==
    {at \in (0 .. NumSplits - 1) \X (0 .. Width - 1) :
        /\ at[2] \div BlockN \in SplitTiles(at[1])
        /\ Selected(position, len, blocks)[at[2]] = token}
-----------------------------------------------------------------------------
TypeOK ==
    /\ computed \in 0 .. MaxLen /\ drafted \in 0 .. NumSpec
    /\ ring \in [0 .. Capacity - 1 -> -3 .. MaxLen - 1]
    /\ DOMAIN keys = KeySlots

\* Whatever was drafted and rejected in between, and wherever the steps cut the
\* sequence, the compressed key of a complete group is pooled from the raw keys of
\* its own accepted tokens.  (The ring is as large as it is so that a rejected
\* draft does not overwrite a key the next step needs, qsa_cache.py:836.)
KeysPooledRight ==
    \A g \in 0 .. computed \div R - 1 : keys[PhysicalSlot(g)] = [o \in 1 .. R |-> g * R + o - 1]

\* Every row of a batch knows its request and its position, every group completed in
\* the step has exactly one item of work in the list, as long as it was reserved,
\* and so has a request that completes none (qsa_cache.py:309, 607).
EachGroupOnce(b) ==
    /\ \A i \in 0 .. Len(b) - 1 : \A row \in Rows(b, i) :
        Request(b, row) = i /\ Position(b, row) = b[i + 1].start + row - QueryStart(b)[i]
    /\ \A i \in 0 .. Len(b) - 1 :
        LET items == {w \in DOMAIN Work(b) : Work(b)[w][1] = i}
            closing == {row \in Rows(b, i) : Closes(Position(b, row))}
        IN  /\ {Work(b)[w][2] : w \in items} = 0 .. Cardinality(items) - 1
            /\ Cardinality(items) = IF closing = {} /\ b[i + 1].q > 0 THEN 1 ELSE Cardinality(closing)

\* However the scores rank the groups, a query attends no token after its own, none
\* twice, its whole open group, and as many complete groups as it may choose; so if
\* there are no more than that, everything up to itself (ops/qsa.py:55, 296, 949).
SelectsOnce(position, len) ==
    \A blocks \in Rankings(position, len) :
        LET times(token) == Cardinality(Reads(position, len, blocks, token))
            attended == {token \in 0 .. len - 1 : times(token) > 0}
            groups == {g \in 0 .. Columns : \A o \in 0 .. R - 1 : g * R + o \in attended}
            open == (position + 1) \div R
        IN  /\ \A token \in attended : times(token) = 1 /\ token <= position
            /\ open * R .. position \subseteq attended
            /\ Cardinality(groups) = Smaller(open, BlockTopK)
            /\ \A token \in attended : token \div R \in groups \union {open}
=============================================================================

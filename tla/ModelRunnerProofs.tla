-------------------------- MODULE ModelRunnerProofs --------------------------
(***************************************************************************)
(* What the model runner keeps of a request agrees with what the scheduler *)
(* announces, whatever is still on its way, and each step is given the     *)
(* tokens that belong where it computes.  At the end, the cache of raw and *)
(* pooled keys that the steps and the draft loop of a worker write, and    *)
(* what a query selects from it.                                           *)
(***************************************************************************)
EXTENDS ModelRunner, FiniteSetTheorems, SequenceTheorems, WellFoundedInduction, TLAPS

-----------------------------------------------------------------------------
(* The invariant.                                                          *)

\* A running request has a row, and no two requests have the same.
PlaceInv ==
    /\ \A r \in Reqs : status[r] = "running" => rowOf[r] # 0 /\ r \notin left
    /\ \A r, o \in Reqs : rowOf[r] = rowOf[o] /\ rowOf[r] # 0 => r = o
    /\ \A r \in Reqs : status[r] # "finished" => known[r] < MaxLen

\* Past its prefill a row has the token of its next position, and drafts the first n
\* of which are right.
DecodeReady(row) ==
    row.computed >= row.prefill =>
        /\ row.sampled = row.computed
        /\ \E n \in 0 .. NumSpec :
            row.drafts = [i \in 1 .. NumSpec |-> IF i <= n THEN row.computed + i ELSE Wrong]

RowInv == \A r \in Reqs : rowOf[r] # 0 => DecodeReady(states[rowOf[r]])

\* The first n drafts of an entry are those the target chooses.
DraftsRight(e) ==
    \E n \in 0 .. e.drafts : \A i \in 1 .. e.drafts :
        e.input[e.q - e.drafts + i] = IF i <= n THEN e.start + e.q - e.drafts + i - 1 ELSE Wrong

\* An entry of a step agrees with its row: a chunk of the prompt, or one token and drafts.
EntryInv(e) ==
    /\ e.row = rowOf[e.req] /\ e.start = states[e.row].computed /\ e.input \in [1 .. e.q -> Int]
    /\ e.start + e.q <= MaxLen /\ e.start + e.q <= e.upper
    /\ IF e.start < states[e.row].prefill
       THEN e.drafts = 0 /\ e.start + e.q <= states[e.row].prefill
       ELSE e.q = 1 + e.drafts
    /\ \A j \in 1 .. e.q - e.drafts : e.input[j] = e.start + j - 1
    /\ DraftsRight(e)

StepInv ==
    /\ \A i \in DOMAIN step : EntryInv(step[i])
    /\ \A i, j \in DOMAIN step : i < j =>
        /\ step[i].row # step[j].row
        /\ step[j].q <= DecodeQueryLen => step[i].q <= DecodeQueryLen

\* Where a request is when the step that is not sampled yet is.
ReachedIn(entries, r, computed) ==
    LET mine == {i \in DOMAIN entries : entries[i].req = r}
        e == entries[CHOOSE i \in mine : TRUE]
    IN  IF mine = {} THEN computed ELSE e.start + e.q
Reached(r) == ReachedIn(step, r, states[rowOf[r]].computed)

RejectedIn(out, r) == IF r \in DOMAIN out THEN out[r].rejected ELSE 0
TokensIn(out, r)   == IF r \in DOMAIN out THEN out[r].tokens ELSE 0

\* f[i]: what the scheduler takes to be computed when i more outputs have arrived.  It
\* is ahead by the drafts that they reject, and ahead only past the prefill.
Settles(r, f) ==
    /\ f[0] = announced[r] /\ f[Len(inFlight)] = Reached(r)
    /\ \A i \in 1 .. Len(inFlight) : f[i] = f[i - 1] - RejectedIn(inFlight[i], r)
    /\ \A i, j \in 0 .. Len(inFlight) : i <= j => f[i] >= f[j]
    /\ \A i \in 0 .. Len(inFlight) :
        f[i] # f[Len(inFlight)] => states[rowOf[r]].computed >= states[rowOf[r]].prefill

AheadInv ==
    \A r \in Reqs : status[r] = "running" =>
        \E f \in [0 .. Len(inFlight) -> 0 .. MaxLen] : Settles(r, f)

\* How many tokens of a request there are, sampled and sent or not: one more than it
\* has computed, or its prompt.
Due(r) ==
    LET row == states[rowOf[r]]
    IN  IF row.computed >= row.prefill THEN row.computed + 1 ELSE row.prefill

\* g[i]: the tokens the scheduler knows when i more outputs have arrived.
Learns(r, g) ==
    /\ g[0] = known[r]
    /\ \A i \in 1 .. Len(inFlight) : g[i] = g[i - 1] + TokensIn(inFlight[i], r)
    /\ status[r] = "running" => g[Len(inFlight)] = Due(r)

KnownInv ==
    \A r \in Reqs : \E g \in [0 .. Len(inFlight) -> 1 .. MaxLen + 1] : Learns(r, g)

IInv == TypeOK /\ PlaceInv /\ RowInv /\ StepInv /\ AheadInv /\ KnownInv
-----------------------------------------------------------------------------
(* Rows and entries by themselves.                                         *)

\* The constants are numbers.
LEMMA Constants ==
    RunnerAssumption =>
        /\ IsFiniteSet(Reqs) /\ NumSpec \in Nat /\ Prompt \in Nat \ {0} /\ NumRows \in Nat \ {0}
        /\ MaxLen \in Nat \ {0} /\ MaxChunk \in Nat \ {0} /\ MaxInFlight \in Nat \ {0}
        /\ MaxPreemptions \in Nat /\ Prompt < MaxLen
BY DEF RunnerAssumption

\* The input of a chunk of the prompt is the tokens after those computed.
LEMMA ChunkInput ==
    ASSUME NEW row \in RowSet, NEW e, e.q \in Nat \ {0}, MaxLen \in Nat,
           row.computed + e.q <= row.prefill
    PROVE  Prepared(e, row, TRUE).input = [j \in 1 .. e.q |-> row.computed + j - 1]
<1>1. DecodeInput(row, e, PrefillInput(row, e)) = PrefillInput(row, e)
  BY DEF DecodeInput
<1>2. row.computed \in Nat /\ row.prefill \in Nat
  BY DEF RowSet
<1>3. PrefillInput(row, e) = [j \in 1 .. e.q |-> row.computed + j - 1]
  BY <1>2 DEF PrefillInput
<1> QED
  BY <1>1, <1>3 DEF Prepared

\* The input of a decode is the token sampled last and the drafts.
LEMMA DecodeTokens ==
    ASSUME NEW row \in RowSet, NEW e, NEW hasPrefill, e.drafts \in Nat, e.q = 1 + e.drafts,
           MaxLen \in Nat, row.computed >= row.prefill
    PROVE  Prepared(e, row, hasPrefill).input =
             [j \in 1 .. e.q |-> IF j = 1 THEN row.sampled ELSE row.drafts[j - 1]]
<1>1. row.computed \in Nat /\ row.prefill \in Nat
  BY DEF RowSet
<1> DEFINE other == IF hasPrefill THEN PrefillInput(row, e) ELSE [j \in 1 .. e.q |-> Old]
<1>2. DecodeInput(row, e, other) =
        [j \in 1 .. e.q |-> LET k == j - (e.q - NumLogits(e))
                            IN  CASE k < 1 -> other[j]
                                  [] k = 1 -> row.sampled
                                  [] OTHER -> row.drafts[k - 1]]
  BY <1>1 DEF DecodeInput
<1> HIDE DEF other
<1>3. ASSUME NEW j \in 1 .. e.q
      PROVE  (LET k == j - (e.q - NumLogits(e))
              IN  CASE k < 1 -> other[j]
                    [] k = 1 -> row.sampled
                    [] OTHER -> row.drafts[k - 1])
             = IF j = 1 THEN row.sampled ELSE row.drafts[j - 1]
  <2>1. j - (e.q - NumLogits(e)) = j
    BY <1>3 DEF NumLogits
  <2> QED
    BY <1>3, <2>1
<1>4. DecodeInput(row, e, other) =
        [j \in 1 .. e.q |-> IF j = 1 THEN row.sampled ELSE row.drafts[j - 1]]
  BY <1>2, <1>3
<1> QED
  BY <1>4 DEF Prepared, other

\* Of the drafts of an entry the first n are accepted.
LEMMA AcceptedInRange ==
    ASSUME NEW e, e.drafts \in Nat, e.start \in Nat, e.q \in Nat, e.drafts < e.q, DraftsRight(e)
    PROVE  Accepted(e) \in 0 .. e.drafts
<1>1. PICK n \in 0 .. e.drafts : \A i \in 1 .. e.drafts :
        e.input[e.q - e.drafts + i] = IF i <= n THEN e.start + e.q - e.drafts + i - 1 ELSE Wrong
  BY DEF DraftsRight
<1> DEFINE P(a) == /\ \A i \in 1 .. a : e.input[e.q - e.drafts + i] # Wrong
                   /\ a < e.drafts => e.input[e.q - e.drafts + a + 1] = Wrong
<1>2. ASSUME NEW i \in 1 .. n
      PROVE  e.input[e.q - e.drafts + i] # Wrong
  <2>1. i \in 1 .. e.drafts /\ i <= n
    BY <1>1, <1>2
  <2>2. e.input[e.q - e.drafts + i] = e.start + e.q - e.drafts + i - 1
    BY <1>1, <2>1
  <2> QED
    BY <2>2, <2>1 DEF Wrong
<1>3. ASSUME n < e.drafts
      PROVE  e.input[e.q - e.drafts + n + 1] = Wrong
  <2>1. n + 1 \in 1 .. e.drafts /\ ~ (n + 1 <= n)
    BY <1>1, <1>3
  <2>2. e.input[e.q - e.drafts + (n + 1)] = Wrong
    BY <1>1, <2>1
  <2>3. e.q - e.drafts + (n + 1) = e.q - e.drafts + n + 1
    BY <1>1
  <2> QED
    BY <2>2, <2>3
<1>4. P(n)
  BY <1>2, <1>3
<1> HIDE DEF P
<1>5. Accepted(e) = CHOOSE a \in 0 .. e.drafts : P(a)
  BY DEF Accepted, P
<1> QED
  BY <1>1, <1>4, <1>5

\* What sampling makes of a row: it stays a row that is ready for a decode.
LEMMA PostUpdated ==
    ASSUME NEW e \in EntrySet, NEW right \in 0 .. NumSpec, RunnerAssumption, EntryInv(e),
           states \in [1 .. NumRows -> RowSet]
    PROVE  LET row == states[e.row]
               new == PostUpdate(row, e, right)
           IN  /\ new \in RowSet /\ DecodeReady(new)
               /\ new.prefill = row.prefill
               /\ new.computed = e.start + e.q - NumRejected(e)
               /\ NumSampled(e) \in 0 .. NumSpec + 1 /\ NumRejected(e) \in 0 .. NumSpec
               /\ new.computed \in e.start + 1 .. e.start + e.q
               /\ NumRejected(e) # 0 => new.computed >= row.prefill
               /\ row.computed >= row.prefill => new.computed >= row.prefill
               /\ (IF new.computed >= row.prefill THEN new.computed + 1 ELSE row.prefill)
                    = (IF row.computed >= row.prefill THEN row.computed + 1 ELSE row.prefill)
                        + NumSampled(e)
<1> DEFINE row == states[e.row]
<1> DEFINE new == PostUpdate(row, e, right)
<1> DEFINE next == e.start + e.q - NumRejected(e)
<1>0. NumSpec \in Nat /\ MaxLen \in Nat
  BY Constants
<1>1. /\ e.row \in 1 .. NumRows /\ e.start \in Nat /\ e.q \in Nat \ {0} /\ e.drafts \in Nat
      /\ e.drafts <= NumSpec
  BY <1>0 DEF EntrySet
<1>2. /\ row \in RowSet /\ row.prefill \in Nat /\ row.computed = e.start
      /\ row.computed \in Nat
  BY <1>0, <1>1 DEF RowSet, EntryInv
<1>3. e.start + e.q <= MaxLen
  BY DEF EntryInv
<1>4. e.drafts < e.q /\ DraftsRight(e)
  BY <1>1, <1>2 DEF EntryInv
<1>5. Accepted(e) \in 0 .. e.drafts
  BY <1>1, <1>4, AcceptedInRange
<1>6. Samples(e) <=> e.start + e.q >= row.prefill
  BY DEF Samples
<1>7. e.start < row.prefill => e.drafts = 0 /\ e.start + e.q <= row.prefill
  BY DEF EntryInv
<1>8. e.start >= row.prefill => e.q = 1 + e.drafts
  BY <1>1, <1>2 DEF EntryInv
<1>9. /\ NumSampled(e) = IF e.start + e.q >= row.prefill THEN Accepted(e) + 1 ELSE 0
      /\ NumRejected(e) = IF e.start + e.q >= row.prefill THEN e.drafts - Accepted(e) ELSE 0
  BY <1>6 DEF NumSampled, NumRejected
<1>10. new = [row EXCEPT !.computed = next,
                         !.sampled = IF Samples(e) THEN next ELSE row.sampled,
                         !.drafts = [i \in 1 .. NumSpec |->
                                        IF Samples(e) /\ i <= right THEN next + i ELSE Wrong]]
  BY DEF PostUpdate
<1>11. next \in e.start + 1 .. e.start + e.q
  BY SMTT(30), <1>1, <1>2, <1>4, <1>5, <1>9
<1>12. next \in 0 .. MaxLen
  BY <1>0, <1>1, <1>3, <1>11
<1>13. /\ new.prefill = row.prefill /\ new.computed = next /\ new.upper = row.upper
       /\ new.sampled = IF Samples(e) THEN next ELSE row.sampled
       /\ new.drafts = [i \in 1 .. NumSpec |->
                            IF Samples(e) /\ i <= right THEN next + i ELSE Wrong]
  BY <1>2, <1>10 DEF RowSet
<1>14. new \in RowSet
  <2>1. new.sampled \in Int
    BY <1>2, <1>12, <1>13 DEF RowSet
  <2>2. new.drafts \in [1 .. NumSpec -> Int]
    BY <1>12, <1>13 DEF Wrong
  <2>3. new = [prefill |-> row.prefill, computed |-> next, upper |-> row.upper,
               sampled |-> new.sampled, drafts |-> new.drafts]
    BY <1>2, <1>10, <1>13 DEF RowSet
  <2> HIDE DEF new, next
  <2> QED
    BY <1>2, <1>12, <2>1, <2>2, <2>3 DEF RowSet
<1>15. ASSUME next >= row.prefill
       PROVE  Samples(e)
  BY <1>1, <1>2, <1>6, <1>11, <1>15
<1>16. DecodeReady(new)
  <2>1. SUFFICES ASSUME next >= row.prefill
                 PROVE  /\ new.sampled = next
                        /\ \E n \in 0 .. NumSpec :
                             new.drafts =
                               [i \in 1 .. NumSpec |-> IF i <= n THEN next + i ELSE Wrong]
    BY <1>13 DEF DecodeReady
  <2>2. Samples(e)
    BY <1>15, <2>1
  <2> QED
    BY <1>13, <2>2
<1> HIDE DEF new, next
<1>17. /\ NumSampled(e) \in 0 .. NumSpec + 1 /\ NumRejected(e) \in 0 .. NumSpec
  BY <1>0, <1>1, <1>5, <1>9
<1>18. NumRejected(e) # 0 => next >= row.prefill
  BY <1>1, <1>2, <1>5, <1>7, <1>9, <1>11
<1>19. row.computed >= row.prefill => next >= row.prefill
  BY <1>1, <1>2, <1>11
<1>20. next = e.start + e.q - NumRejected(e)
  BY DEF next
<1>21. (IF next >= row.prefill THEN next + 1 ELSE row.prefill)
         = (IF row.computed >= row.prefill THEN row.computed + 1 ELSE row.prefill) + NumSampled(e)
  <2>1. CASE e.start < row.prefill
    <3>1. Accepted(e) = 0 /\ e.drafts = 0
      BY <1>5, <1>7, <2>1
    <3>2. CASE e.start + e.q >= row.prefill
      BY <1>1, <1>2, <1>7, <1>9, <1>20, <2>1, <3>1, <3>2
    <3>3. CASE ~ (e.start + e.q >= row.prefill)
      BY SMTT(30), <1>1, <1>2, <1>9, <1>20, <2>1, <3>3
    <3> QED
      BY <3>2, <3>3
  <2>2. CASE e.start >= row.prefill
    <3>1. e.start + e.q >= row.prefill
      BY <1>1, <1>2, <2>2
    <3>2. NumSampled(e) = Accepted(e) + 1 /\ NumRejected(e) = e.drafts - Accepted(e)
      BY <1>9, <3>1
    <3>3. e.q = 1 + e.drafts
      BY <1>8, <2>2
    <3>4. next = e.start + 1 + Accepted(e)
      <4>1. \A s, q, d, a \in Nat : q = 1 + d => s + q - (d - a) = s + 1 + a
        OBVIOUS
      <4>2. e.start \in Nat /\ e.q \in Nat /\ e.drafts \in Nat /\ Accepted(e) \in Nat
        BY <1>1, <1>5
      <4>3. e.start + e.q - (e.drafts - Accepted(e)) = e.start + 1 + Accepted(e)
        BY ONLY <3>3, <4>1, <4>2
      <4> QED
        BY ONLY <1>20, <3>2, <4>3
    <3> QED
      <4>1. \A s, p, a, n \in Nat : s >= p /\ n = s + 1 + a =>
                (IF n >= p THEN n + 1 ELSE p) = (IF s >= p THEN s + 1 ELSE p) + (a + 1)
        OBVIOUS
      <4>2. row.computed \in Nat /\ row.prefill \in Nat /\ Accepted(e) \in Nat /\ next \in Nat
        BY <1>1, <1>2, <1>5, <3>4
      <4> QED
        BY SMTT(30), <1>2, <2>2, <3>2, <3>4, <4>1, <4>2
  <2> QED
    BY <1>1, <1>2, <2>1, <2>2
<1> QED
  BY <1>11, <1>13, <1>14, <1>16, <1>17, <1>18, <1>19, <1>20, <1>21 DEF new
-----------------------------------------------------------------------------
(* A step and what is in flight.                                           *)

\* A request and a row are in a step once.
LEMMA EntriesApart ==
    ASSUME TypeOK, StepInv, NEW i \in DOMAIN step, NEW j \in DOMAIN step,
           step[i].req = step[j].req \/ step[i].row = step[j].row
    PROVE  i = j
<1>1. step[i].row = step[j].row
  BY DEF StepInv, EntryInv
<1>2. i \in Int /\ j \in Int
  BY DEF TypeOK
<1>3. ~ (i < j) /\ ~ (j < i)
  BY <1>1 DEF StepInv
<1> QED
  BY <1>2, <1>3

\* A request of the step will have reached the end of its entry.
LEMMA ReachedByEntry ==
    ASSUME NEW entries, NEW i \in DOMAIN entries, NEW computed,
           \A k \in DOMAIN entries : entries[k].req = entries[i].req => k = i
    PROVE  ReachedIn(entries, entries[i].req, computed) = entries[i].start + entries[i].q
<1> DEFINE mine == {k \in DOMAIN entries : entries[k].req = entries[i].req}
<1>1. i \in mine
  OBVIOUS
<1>2. (CHOOSE k \in mine : TRUE) \in mine
  BY <1>1
<1>3. (CHOOSE k \in mine : TRUE) = i
  BY <1>2
<1> QED
  BY <1>1, <1>3 DEF ReachedIn

LEMMA ReachedInStep ==
    ASSUME TypeOK, StepInv, NEW i \in DOMAIN step
    PROVE  Reached(step[i].req) = step[i].start + step[i].q
<1>1. \A k \in DOMAIN step : step[k].req = step[i].req => k = i
  BY EntriesApart
<1> QED
  BY <1>1, ReachedByEntry DEF Reached

\* Any other is where its row is.
LEMMA ReachedByRow ==
    ASSUME NEW entries, NEW r, NEW computed, \A i \in DOMAIN entries : entries[i].req # r
    PROVE  ReachedIn(entries, r, computed) = computed
<1>1. {k \in DOMAIN entries : entries[k].req = r} = {}
  OBVIOUS
<1> QED
  BY <1>1 DEF ReachedIn

LEMMA ReachedIdle ==
    ASSUME NEW r, \A i \in DOMAIN step : step[i].req # r
    PROVE  Reached(r) = states[rowOf[r]].computed
BY ReachedByRow DEF Reached

\* What an output brings of a request is a small number.
LEMMA OutputTypes ==
    ASSUME NEW out \in Outputs, NEW r, RunnerAssumption
    PROVE  /\ RejectedIn(out, r) \in 0 .. NumSpec /\ TokensIn(out, r) \in 0 .. NumSpec + 1
           /\ DOMAIN out \subseteq Reqs
           /\ r \in DOMAIN out => RejectedIn(out, r) = out[r].rejected
                               /\ TokensIn(out, r) = out[r].tokens
           /\ r \notin DOMAIN out => RejectedIn(out, r) = 0 /\ TokensIn(out, r) = 0
<1>1. NumSpec \in Nat
  BY Constants
<1>2. PICK R \in SUBSET Reqs : out \in [R -> Outcomes]
  BY DEF Outputs
<1>3. r \in DOMAIN out => out[r] \in Outcomes
  BY <1>2
<1> QED
  BY <1>1, <1>2, <1>3 DEF Outcomes, RejectedIn, TokensIn

\* Dropping requests from the outputs in flight leaves the others as they are.
LEMMA DropKeeps ==
    ASSUME NEW outputs \in Seq(Outputs), NEW gone \in SUBSET Reqs, RunnerAssumption
    PROVE  /\ Drop(outputs, gone) \in Seq(Outputs) /\ Len(Drop(outputs, gone)) = Len(outputs)
           /\ \A i \in 1 .. Len(outputs), r \in Reqs \ gone :
                /\ RejectedIn(Drop(outputs, gone)[i], r) = RejectedIn(outputs[i], r)
                /\ TokensIn(Drop(outputs, gone)[i], r) = TokensIn(outputs[i], r)
           /\ \A i \in 1 .. Len(outputs), r \in gone : TokensIn(Drop(outputs, gone)[i], r) = 0
<1> DEFINE cut(i) == [r \in DOMAIN outputs[i] \ gone |-> outputs[i][r]]
<1>1. Drop(outputs, gone) = [i \in 1 .. Len(outputs) |-> cut(i)]
  BY DEF Drop
<1>2. ASSUME NEW i \in 1 .. Len(outputs)
      PROVE  cut(i) \in Outputs
  <2>0. outputs[i] \in Outputs
    OBVIOUS
  <2>1. PICK R \in SUBSET Reqs : outputs[i] \in [R -> Outcomes]
    BY <2>0 DEF Outputs
  <2>2. cut(i) \in [R \ gone -> Outcomes]
    BY <2>1
  <2> HIDE DEF cut
  <2>3. [R \ gone -> Outcomes] \in {[S -> Outcomes] : S \in SUBSET Reqs}
    OBVIOUS
  <2> QED
    BY <2>2, <2>3 DEF Outputs
<1>3. ASSUME NEW i \in 1 .. Len(outputs), NEW r \in Reqs
      PROVE  /\ r \notin gone => /\ RejectedIn(cut(i), r) = RejectedIn(outputs[i], r)
                                 /\ TokensIn(cut(i), r) = TokensIn(outputs[i], r)
             /\ r \in gone => TokensIn(cut(i), r) = 0
  BY DEF RejectedIn, TokensIn
<1> HIDE DEF cut
<1>4. [i \in 1 .. Len(outputs) |-> cut(i)] \in Seq(Outputs)
  BY <1>2
<1>5. Len([i \in 1 .. Len(outputs) |-> cut(i)]) = Len(outputs)
  OBVIOUS
<1> QED
  BY <1>1, <1>3, <1>4, <1>5

\* In the initial states nothing is in flight.
LEMMA InitInv == RunnerAssumption /\ Init => IInv
<1> SUFFICES ASSUME RunnerAssumption, Init PROVE IInv
  OBVIOUS
<1>0. /\ NumSpec \in Nat /\ MaxLen \in Nat \ {0} /\ Prompt \in Nat \ {0} /\ Prompt < MaxLen
      /\ NumRows \in Nat \ {0} /\ MaxInFlight \in Nat \ {0} /\ MaxPreemptions \in Nat
  BY Constants
<1>1. TypeOK
  <2>1. Empty \in RowSet
    BY <1>0 DEF Empty, RowSet, Old
  <2>2. known \in [Reqs -> 1 .. MaxLen + 1]
    BY <1>0 DEF Init
  <2> QED
    BY <1>0, <2>1, <2>2 DEF Init, TypeOK
<1>2. PlaceInv
  BY <1>0 DEF Init, PlaceInv
<1>3. RowInv /\ StepInv /\ AheadInv
  BY DEF Init, RowInv, StepInv, AheadInv
<1>4. KnownInv
  <2>1. SUFFICES ASSUME NEW r \in Reqs
                 PROVE  \E g \in [0 .. Len(inFlight) -> 1 .. MaxLen + 1] : Learns(r, g)
    BY DEF KnownInv
  <2> DEFINE g == [i \in 0 .. 0 |-> Prompt]
  <2>2. Len(inFlight) = 0
    BY DEF Init
  <2>3. g \in [0 .. 0 -> 1 .. MaxLen + 1]
    BY <1>0
  <2>4. Learns(r, g)
    BY <2>2 DEF Learns, Init
  <2> QED
    BY <2>2, <2>3, <2>4
<1> QED
  BY <1>1, <1>2, <1>3, <1>4 DEF IInv

\* What a preemption, an arrival or nothing at all leaves of rows and step.
LEMMA RowsKept ==
    ASSUME UNCHANGED <<rowOf, states, step>>
    PROVE  /\ RowInv => RowInv'
           /\ StepInv => StepInv'
           /\ \A r \in Reqs : Reached(r)' = Reached(r) /\ Due(r)' = Due(r)
<1>1. RowInv => RowInv'
  BY DEF RowInv, DecodeReady
<1>2. ASSUME NEW e
      PROVE  EntryInv(e)' <=> EntryInv(e)
  BY DEF EntryInv, DraftsRight
<1>3. StepInv => StepInv'
  BY <1>2 DEF StepInv, DecodeQueryLen
<1>4. \A r \in Reqs : Reached(r)' = Reached(r) /\ Due(r)' = Due(r)
  BY DEF Reached, ReachedIn, Due
<1> QED
  BY <1>1, <1>3, <1>4
-----------------------------------------------------------------------------
(* The actions.                                                            *)

\* Preempting a request moves no other.
LEMMA PreemptInv ==
    ASSUME RunnerAssumption, IInv, NEW v \in Reqs, NEW kept \in BOOLEAN, Preempt(v, kept)
    PROVE  IInv'
<1>0. /\ NumSpec \in Nat /\ MaxLen \in Nat \ {0} /\ MaxInFlight \in Nat \ {0}
      /\ MaxPreemptions \in Nat
  BY Constants
<1>1. TypeOK /\ PlaceInv /\ RowInv /\ StepInv /\ AheadInv /\ KnownInv
  BY DEF IInv
<1>2. /\ UNCHANGED <<known, announced, rowOf, states, step>>
      /\ inFlight' = inFlight \/ inFlight' = Drop(inFlight, {v})
      /\ status' = [status EXCEPT ![v] = "waiting"] /\ status[v] = "running"
      /\ left' = left \union {v} /\ preemptions' = preemptions + 1 /\ preemptions < MaxPreemptions
  BY DEF Preempt
<1>3. inFlight \in Seq(Outputs) /\ status \in [Reqs -> {"waiting", "running", "finished"}]
  BY <1>1 DEF TypeOK
<1>4. /\ inFlight' \in Seq(Outputs) /\ Len(inFlight') = Len(inFlight)
      /\ \A i \in 1 .. Len(inFlight), r \in Reqs \ {v} :
            /\ RejectedIn(inFlight'[i], r) = RejectedIn(inFlight[i], r)
            /\ TokensIn(inFlight'[i], r) = TokensIn(inFlight[i], r)
      /\ \/ inFlight' = inFlight
         \/ \A i \in 1 .. Len(inFlight) : TokensIn(inFlight'[i], v) = 0
  <2>1. {v} \in SUBSET Reqs
    OBVIOUS
  <2> QED
    BY <1>2, <1>3, <2>1, DropKeeps
<1>5. TypeOK'
  BY <1>0, <1>1, <1>2, <1>4 DEF TypeOK
<1>6. PlaceInv'
  BY <1>1, <1>2, <1>3 DEF PlaceInv
<1>7. /\ RowInv' /\ StepInv'
      /\ \A r \in Reqs : Reached(r)' = Reached(r) /\ Due(r)' = Due(r)
  BY <1>1, <1>2, RowsKept
<1>8. \A r \in Reqs : status'[r] = "running" => r # v /\ status[r] = "running"
  BY <1>2, <1>3
<1>9. AheadInv'
  <2>1. SUFFICES ASSUME NEW r \in Reqs, status'[r] = "running"
                 PROVE  \E f \in [0 .. Len(inFlight') -> 0 .. MaxLen] : Settles(r, f)'
    BY DEF AheadInv
  <2>2. PICK f \in [0 .. Len(inFlight) -> 0 .. MaxLen] : Settles(r, f)
    BY <1>1, <1>8, <2>1 DEF AheadInv
  <2>3. Settles(r, f)'
    BY <1>2, <1>4, <1>7, <1>8, <2>1, <2>2 DEF Settles
  <2> QED
    BY <1>4, <2>2, <2>3
<1>10. KnownInv'
  <2>1. SUFFICES ASSUME NEW r \in Reqs
                 PROVE  \E g \in [0 .. Len(inFlight') -> 1 .. MaxLen + 1] : Learns(r, g)'
    BY DEF KnownInv
  <2>2. PICK g \in [0 .. Len(inFlight) -> 1 .. MaxLen + 1] : Learns(r, g)
    BY <1>1 DEF KnownInv
  <2>3. CASE r # v \/ inFlight' = inFlight
    <3>1. Learns(r, g)'
      BY <1>2, <1>4, <1>7, <1>8, <2>2, <2>3 DEF Learns
    <3> QED
      BY <1>4, <2>2, <3>1
  <2>4. CASE r = v /\ inFlight' # inFlight
    <3>1. known[v] \in 1 .. MaxLen + 1 /\ Len(inFlight) \in Nat
      BY <1>1 DEF TypeOK
    <3>2. PICK h \in [0 .. Len(inFlight) -> 1 .. MaxLen + 1] :
                \A i \in 0 .. Len(inFlight) : h[i] = known[v]
      <4>1. [i \in 0 .. Len(inFlight) |-> known[v]] \in [0 .. Len(inFlight) -> 1 .. MaxLen + 1]
        BY <3>1
      <4> QED
        BY <4>1
    <3>3. \A i \in 1 .. Len(inFlight) : h[i] = h[i - 1] + TokensIn(inFlight'[i], v)
      BY <1>4, <2>4, <3>1, <3>2
    <3>4. h[0] = known'[v]
      BY <1>2, <3>1, <3>2
    <3>5. Learns(r, h)'
      BY <1>4, <1>8, <2>4, <3>3, <3>4 DEF Learns
    <3> QED
      BY <1>4, <3>2, <3>5
  <2> QED
    BY <2>3, <2>4
<1> QED
  BY <1>5, <1>6, <1>7, <1>9, <1>10 DEF IInv

\* An output that arrives is the first step of every chain of counts.
LEMMA ArriveInv ==
    ASSUME RunnerAssumption, IInv, Arrive
    PROVE  IInv'
<1> DEFINE out == inFlight[1]
<1> DEFINE n == [r \in Reqs |-> IF r \in DOMAIN out THEN known[r] + out[r].tokens ELSE known[r]]
<1> DEFINE stopped == {r \in DOMAIN out : status[r] = "running" /\ n[r] >= MaxLen}
<1> DEFINE L == Len(inFlight)
<1>0. /\ NumSpec \in Nat /\ MaxLen \in Nat \ {0} /\ MaxInFlight \in Nat \ {0}
      /\ MaxPreemptions \in Nat
  BY Constants
<1>1. TypeOK /\ PlaceInv /\ RowInv /\ StepInv /\ AheadInv /\ KnownInv
  BY DEF IInv
<1>2. /\ inFlight \in Seq(Outputs) /\ inFlight # <<>> /\ L \in Nat \ {0} /\ Head(inFlight) = out
      /\ out \in Outputs
  BY <1>1 DEF TypeOK, Arrive
<1>3. /\ known' = n
      /\ announced' = [r \in Reqs |-> IF r \in DOMAIN out /\ status[r] = "running"
                                      THEN announced[r] - out[r].rejected ELSE announced[r]]
      /\ status' = [r \in Reqs |-> IF r \in stopped \/ n[r] >= MaxLen THEN "finished"
                                   ELSE status[r]]
      /\ left' = left \union stopped
      /\ inFlight' = Drop(Tail(inFlight), stopped)
      /\ UNCHANGED <<preemptions, rowOf, states, step>>
  BY <1>2 DEF Arrive
<1>4. /\ Tail(inFlight) \in Seq(Outputs) /\ Len(Tail(inFlight)) = L - 1
      /\ \A i \in 1 .. L - 1 : Tail(inFlight)[i] = inFlight[i + 1]
  BY <1>2
<1>5. /\ DOMAIN out \subseteq Reqs
      /\ \A r \in Reqs : /\ RejectedIn(out, r) \in 0 .. NumSpec
                         /\ TokensIn(out, r) \in 0 .. NumSpec + 1
                         /\ r \in DOMAIN out => RejectedIn(out, r) = out[r].rejected
                                             /\ TokensIn(out, r) = out[r].tokens
                         /\ r \notin DOMAIN out => RejectedIn(out, r) = 0 /\ TokensIn(out, r) = 0
  BY <1>2, OutputTypes
<1>6. stopped \in SUBSET Reqs
  BY <1>5
<1>7. /\ inFlight' \in Seq(Outputs) /\ Len(inFlight') = L - 1
      /\ \A i \in 1 .. L - 1, r \in Reqs \ stopped :
            /\ RejectedIn(inFlight'[i], r) = RejectedIn(inFlight[i + 1], r)
            /\ TokensIn(inFlight'[i], r) = TokensIn(inFlight[i + 1], r)
      /\ \A i \in 1 .. L - 1, r \in stopped : TokensIn(inFlight'[i], r) = 0
  <2> DEFINE rest == Tail(inFlight)
  <2>1. /\ rest \in Seq(Outputs) /\ Len(rest) = L - 1 /\ inFlight' = Drop(rest, stopped)
        /\ \A i \in 1 .. L - 1 : rest[i] = inFlight[i + 1]
    BY <1>3, <1>4
  <2> HIDE DEF rest, stopped, L, out, n
  <2>2. /\ inFlight' \in Seq(Outputs) /\ Len(inFlight') = Len(rest)
        /\ \A i \in 1 .. Len(rest), r \in Reqs \ stopped :
              /\ RejectedIn(inFlight'[i], r) = RejectedIn(rest[i], r)
              /\ TokensIn(inFlight'[i], r) = TokensIn(rest[i], r)
        /\ \A i \in 1 .. Len(rest), r \in stopped : TokensIn(inFlight'[i], r) = 0
    BY ONLY RunnerAssumption, <1>6, <2>1, DropKeeps
  <2> QED
    BY ONLY <2>1, <2>2
<1>8. \A r \in Reqs : n[r] = known[r] + TokensIn(out, r)
  BY <1>1, <1>5 DEF TypeOK
<1>9. \A r \in Reqs : status'[r] = "running" =>
            /\ status[r] = "running" /\ r \notin stopped
            /\ announced'[r] = announced[r] - RejectedIn(out, r)
  BY <1>1, <1>3, <1>5 DEF TypeOK
<1>10. \A r \in Reqs : status'[r] # "finished" => n[r] < MaxLen
  <2>1. SUFFICES ASSUME NEW r \in Reqs, status'[r] # "finished"
                 PROVE  n[r] < MaxLen
    OBVIOUS
  <2>2. n[r] \in Nat
    BY <1>1, <1>5, <1>8 DEF TypeOK
  <2>3. ~ (n[r] >= MaxLen)
    BY <1>3, <2>1
  <2> HIDE DEF n
  <2> QED
    BY <1>0, <2>2, <2>3
<1>11. /\ RowInv' /\ StepInv'
       /\ \A r \in Reqs : Reached(r)' = Reached(r) /\ Due(r)' = Due(r)
  BY <1>1, <1>3, RowsKept
<1> HIDE DEF out, n, stopped
<1>12. \A r \in Reqs : \A f : status[r] = "running" /\ Settles(r, f)
            => f[1] = announced[r] - RejectedIn(out, r)
  <2>1. 1 \in 1 .. L /\ 1 - 1 = 0
    BY <1>2
  <2> QED
    BY <2>1 DEF Settles, out
<1>13. \A r \in Reqs : \A g : Learns(r, g) => g[1] = n[r]
  <2>1. 1 \in 1 .. L /\ 1 - 1 = 0
    BY <1>2
  <2> QED
    BY <1>8, <2>1 DEF Learns, out
<1>14. TypeOK'
  <2>1. known' \in [Reqs -> 1 .. MaxLen + 1]
    <3>1. SUFFICES ASSUME NEW r \in Reqs PROVE n[r] \in 1 .. MaxLen + 1
      BY <1>3 DEF n
    <3>2. PICK g \in [0 .. L -> 1 .. MaxLen + 1] : Learns(r, g)
      BY <1>1 DEF KnownInv
    <3>3. g[1] = n[r] /\ 1 \in 0 .. L
      BY <1>2, <1>13, <3>2
    <3> QED
      BY <3>2, <3>3
  <2>2. announced' \in [Reqs -> 0 .. MaxLen]
    <3>1. SUFFICES ASSUME NEW r \in Reqs, r \in DOMAIN out, status[r] = "running"
                   PROVE  announced[r] - out[r].rejected \in 0 .. MaxLen
      BY <1>1, <1>3 DEF TypeOK
    <3>2. PICK f \in [0 .. L -> 0 .. MaxLen] : Settles(r, f)
      BY <1>1, <3>1 DEF AheadInv
    <3>3. f[1] = announced[r] - RejectedIn(out, r) /\ 1 \in 0 .. L
      BY <1>2, <1>12, <3>1, <3>2
    <3> QED
      BY <1>5, <3>1, <3>2, <3>3
  <2>3. status' \in [Reqs -> {"waiting", "running", "finished"}]
    BY <1>1, <1>3 DEF TypeOK
  <2>4. Len(inFlight') + (IF step = <<>> THEN 0 ELSE 1) <= MaxInFlight
    BY <1>0, <1>1, <1>2, <1>7 DEF TypeOK
  <2> QED
    BY <1>1, <1>3, <1>6, <1>7, <2>1, <2>2, <2>3, <2>4 DEF TypeOK
<1>15. PlaceInv'
  <2>1. \A r \in Reqs : status'[r] = "running" => rowOf'[r] # 0 /\ r \notin left'
    BY <1>1, <1>3, <1>9 DEF PlaceInv
  <2>2. \A r \in Reqs : status'[r] # "finished" => known'[r] < MaxLen
    BY <1>3, <1>10
  <2>3. \A r, o \in Reqs : rowOf'[r] = rowOf'[o] /\ rowOf'[r] # 0 => r = o
    BY <1>1, <1>3 DEF PlaceInv
  <2> QED
    BY <2>1, <2>2, <2>3 DEF PlaceInv
<1>16. AheadInv'
  <2>1. SUFFICES ASSUME NEW r \in Reqs, status'[r] = "running"
                 PROVE  \E f \in [0 .. Len(inFlight') -> 0 .. MaxLen] : Settles(r, f)'
    BY DEF AheadInv
  <2>2. status[r] = "running" /\ r \notin stopped
    BY <1>9, <2>1
  <2>3. PICK f \in [0 .. L -> 0 .. MaxLen] : Settles(r, f)
    BY <1>1, <2>2 DEF AheadInv
  <2>4. PICK h \in [0 .. L - 1 -> 0 .. MaxLen] : \A i \in 0 .. L - 1 : h[i] = f[i + 1]
    <3>1. [i \in 0 .. L - 1 |-> f[i + 1]] \in [0 .. L - 1 -> 0 .. MaxLen]
      BY <1>2, <2>3
    <3> QED
      BY <3>1
  <2>5. h[0] = announced'[r] /\ h[L - 1] = f[L]
    <3>1. 0 \in 0 .. L - 1 /\ L - 1 \in 0 .. L - 1 /\ 0 + 1 = 1 /\ L - 1 + 1 = L
      BY <1>2
    <3> QED
      BY <1>9, <1>12, <2>1, <2>2, <2>3, <2>4, <3>1
  <2>6. \A i \in 1 .. L - 1 : h[i] = h[i - 1] - RejectedIn(inFlight'[i], r)
    <3>1. SUFFICES ASSUME NEW i \in 1 .. L - 1
                   PROVE  h[i] = h[i - 1] - RejectedIn(inFlight'[i], r)
      OBVIOUS
    <3>2. /\ i \in 0 .. L - 1 /\ i - 1 \in 0 .. L - 1 /\ i - 1 + 1 = i
          /\ i + 1 \in 1 .. L /\ i + 1 - 1 = i
      BY <1>2
    <3>3. h[i] = f[i + 1] /\ h[i - 1] = f[i]
      BY <2>4, <3>2
    <3>4. f[i + 1] = f[i] - RejectedIn(inFlight[i + 1], r)
      BY <2>3, <3>2 DEF Settles
    <3> QED
      BY <1>7, <2>2, <3>3, <3>4
  <2>7. \A i, j \in 0 .. L - 1 : i <= j => h[i] >= h[j]
    <3>1. SUFFICES ASSUME NEW i \in 0 .. L - 1, NEW j \in 0 .. L - 1, i <= j
                   PROVE  h[i] >= h[j]
      OBVIOUS
    <3>2. i + 1 \in 0 .. L /\ j + 1 \in 0 .. L /\ i + 1 <= j + 1
      BY <1>2, <3>1
    <3> QED
      BY <2>3, <2>4, <3>2 DEF Settles
  <2>8. \A i \in 0 .. L - 1 :
            h[i] # h[L - 1] => states[rowOf[r]].computed >= states[rowOf[r]].prefill
    <3>1. \A i \in 0 .. L - 1 : i + 1 \in 0 .. L
      BY <1>2
    <3> QED
      BY <2>3, <2>4, <2>5, <3>1 DEF Settles
  <2>9. Settles(r, h)'
    BY <1>3, <1>7, <1>11, <2>3, <2>5, <2>6, <2>7, <2>8 DEF Settles
  <2> QED
    BY <1>7, <2>4, <2>9
<1>17. KnownInv'
  <2>1. SUFFICES ASSUME NEW r \in Reqs
                 PROVE  \E g \in [0 .. Len(inFlight') -> 1 .. MaxLen + 1] : Learns(r, g)'
    BY DEF KnownInv
  <2>2. PICK g \in [0 .. L -> 1 .. MaxLen + 1] : Learns(r, g)
    BY <1>1 DEF KnownInv
  <2>3. g[1] = n[r]
    BY <1>13, <2>2
  <2>4. CASE r \notin stopped
    <3>1. PICK h \in [0 .. L - 1 -> 1 .. MaxLen + 1] : \A i \in 0 .. L - 1 : h[i] = g[i + 1]
      <4>1. [i \in 0 .. L - 1 |-> g[i + 1]] \in [0 .. L - 1 -> 1 .. MaxLen + 1]
        BY <1>2, <2>2
      <4> QED
        BY <4>1
    <3>2. h[0] = n[r] /\ h[L - 1] = g[L]
      <4>1. 0 \in 0 .. L - 1 /\ L - 1 \in 0 .. L - 1 /\ 0 + 1 = 1 /\ L - 1 + 1 = L
        BY <1>2
      <4> QED
        BY <2>3, <3>1, <4>1
    <3>3. \A i \in 1 .. L - 1 : h[i] = h[i - 1] + TokensIn(inFlight'[i], r)
      <4>1. SUFFICES ASSUME NEW i \in 1 .. L - 1
                     PROVE  h[i] = h[i - 1] + TokensIn(inFlight'[i], r)
        OBVIOUS
      <4>2. /\ i \in 0 .. L - 1 /\ i - 1 \in 0 .. L - 1 /\ i - 1 + 1 = i
            /\ i + 1 \in 1 .. L /\ i + 1 - 1 = i
        BY <1>2
      <4>3. h[i] = g[i + 1] /\ h[i - 1] = g[i]
        BY <3>1, <4>2
      <4>4. g[i + 1] = g[i] + TokensIn(inFlight[i + 1], r)
        BY <2>2, <4>2 DEF Learns
      <4> QED
        BY <1>7, <2>4, <4>3, <4>4
    <3>4. status'[r] = "running" => h[L - 1] = Due(r)'
      BY <1>9, <1>11, <2>2, <3>2 DEF Learns
    <3>5. Learns(r, h)'
      BY <1>3, <1>7, <3>2, <3>3, <3>4 DEF Learns
    <3> QED
      BY <1>7, <3>1, <3>5
  <2>5. CASE r \in stopped
    <3>1. n[r] \in 1 .. MaxLen + 1 /\ L - 1 \in Nat
      <4>1. 1 \in 0 .. L
        BY <1>2
      <4> QED
        BY <1>2, <2>2, <2>3, <4>1
    <3>2. PICK h \in [0 .. L - 1 -> 1 .. MaxLen + 1] : \A i \in 0 .. L - 1 : h[i] = n[r]
      <4>1. [i \in 0 .. L - 1 |-> n[r]] \in [0 .. L - 1 -> 1 .. MaxLen + 1]
        BY <3>1
      <4> QED
        BY <4>1
    <3>3. h[0] = known'[r] /\ \A i \in 1 .. L - 1 : h[i] = h[i - 1] + TokensIn(inFlight'[i], r)
      BY <1>3, <1>7, <2>5, <3>1, <3>2
    <3>4. status'[r] # "running"
      BY <1>9, <2>5
    <3>5. Learns(r, h)'
      BY <1>7, <3>3, <3>4 DEF Learns
    <3> QED
      BY <1>7, <3>2, <3>5
  <2> QED
    BY <2>4, <2>5
<1> QED
  BY <1>11, <1>14, <1>15, <1>16, <1>17 DEF IInv

\* What a running request of the step brings; a request that ended since brings nothing.
SampledOut ==
    [r \in {e.req : e \in {x \in ToSet(step) : status[x.req] = "running"}} |->
        LET e == CHOOSE x \in ToSet(step) : x.req = r
        IN  [tokens |-> NumSampled(e), rejected |-> NumRejected(e)]]

\* Sampling moves the rows of the step and appends what it brings.
LEMMA SampleInv ==
    ASSUME RunnerAssumption, IInv, Sample
    PROVE  IInv'
<1> DEFINE L == Len(inFlight)
<1>0. /\ NumSpec \in Nat /\ MaxLen \in Nat \ {0} /\ MaxInFlight \in Nat \ {0}
      /\ MaxPreemptions \in Nat
  BY Constants
<1>1. TypeOK /\ PlaceInv /\ RowInv /\ StepInv /\ AheadInv /\ KnownInv
  BY DEF IInv
<1>2. PICK right \in [DOMAIN step -> 0 .. NumSpec] :
        states' = [i \in 1 .. NumRows |->
                    IF \E k \in DOMAIN step : step[k].row = i
                    THEN LET k == CHOOSE n \in DOMAIN step : step[n].row = i
                         IN  PostUpdate(states[i], step[k], right[k])
                    ELSE states[i]]
  BY DEF Sample
<1>3. /\ inFlight' = Append(inFlight, SampledOut) /\ step # <<>> /\ step' = <<>>
      /\ UNCHANGED <<status, known, announced, left, preemptions, rowOf>>
  BY DEF Sample, SampledOut
<1>4. /\ inFlight \in Seq(Outputs) /\ L \in Nat /\ L + 1 <= MaxInFlight
      /\ states \in [1 .. NumRows -> RowSet] /\ rowOf \in [Reqs -> 0 .. NumRows]
      /\ step \in Seq(EntrySet) /\ DOMAIN step = 1 .. Len(step)
      /\ \A k \in DOMAIN step : step[k] \in EntrySet
  BY <1>1, <1>3 DEF TypeOK
<1>5. ASSUME NEW k \in DOMAIN step
      PROVE  /\ step[k] \in EntrySet /\ EntryInv(step[k]) /\ right[k] \in 0 .. NumSpec
             /\ step[k].row \in 1 .. NumRows /\ step[k].req \in Reqs
             /\ step[k].row = rowOf[step[k].req]
             /\ states'[step[k].row] = PostUpdate(states[step[k].row], step[k], right[k])
  <2>1. step[k] \in EntrySet /\ EntryInv(step[k]) /\ right[k] \in 0 .. NumSpec
    BY <1>1, <1>2, <1>4 DEF StepInv
  <2>2. step[k].row \in 1 .. NumRows /\ step[k].req \in Reqs /\ step[k].row = rowOf[step[k].req]
    BY <2>1 DEF EntrySet, EntryInv
  <2>3. (CHOOSE n \in DOMAIN step : step[n].row = step[k].row) = k
    <3>1. \A n \in DOMAIN step : step[n].row = step[k].row => n = k
      BY <1>1, EntriesApart
    <3> QED
      BY <3>1
  <2> QED
    BY <1>2, <2>1, <2>2, <2>3
\* The rows of the step.
<1>6. ASSUME NEW k \in DOMAIN step
      PROVE  LET e == step[k]
                 row == states[e.row]
                 new == states'[e.row]
             IN  /\ new \in RowSet /\ DecodeReady(new)
                 /\ new.prefill = row.prefill
                 /\ new.computed = e.start + e.q - NumRejected(e)
                 /\ NumSampled(e) \in 0 .. NumSpec + 1 /\ NumRejected(e) \in 0 .. NumSpec
                 /\ new.computed \in e.start + 1 .. e.start + e.q
                 /\ NumRejected(e) # 0 => new.computed >= row.prefill
                 /\ row.computed >= row.prefill => new.computed >= row.prefill
                 /\ (IF new.computed >= row.prefill THEN new.computed + 1 ELSE row.prefill)
                      = (IF row.computed >= row.prefill THEN row.computed + 1 ELSE row.prefill)
                          + NumSampled(e)
  BY <1>4, <1>5, PostUpdated
\* The other rows.
<1>7. ASSUME NEW i \in 1 .. NumRows, \A k \in DOMAIN step : step[k].row # i
      PROVE  states'[i] = states[i]
  BY <1>2, <1>7
<1>8. states' \in [1 .. NumRows -> RowSet]
  <2>1. states' = [i \in 1 .. NumRows |-> states'[i]]
    BY <1>2
  <2>2. ASSUME NEW i \in 1 .. NumRows PROVE states'[i] \in RowSet
    <3>1. CASE \E k \in DOMAIN step : step[k].row = i
      BY <1>6, <3>1
    <3>2. CASE \A k \in DOMAIN step : step[k].row # i
      BY <1>4, <1>7, <3>2
    <3> QED
      BY <3>1, <3>2
  <2> QED
    BY <2>1, <2>2
\* What the step brings.
<1>9. ASSUME NEW k \in DOMAIN step, status[step[k].req] = "running"
      PROVE  /\ step[k].req \in DOMAIN SampledOut
             /\ SampledOut[step[k].req] = [tokens |-> NumSampled(step[k]),
                                           rejected |-> NumRejected(step[k])]
  <2>1. step[k] \in ToSet(step)
    BY DEF ToSet
  <2>2. \A x \in ToSet(step) : x.req = step[k].req => x = step[k]
    BY <1>1, EntriesApart DEF ToSet
  <2>3. (CHOOSE x \in ToSet(step) : x.req = step[k].req) = step[k]
    BY <2>1, <2>2
  <2> QED
    BY <1>9, <2>1, <2>3 DEF SampledOut
<1>10. ASSUME NEW r \in DOMAIN SampledOut
       PROVE  \E k \in DOMAIN step : step[k].req = r /\ status[r] = "running"
  BY DEF SampledOut, ToSet
<1>11. SampledOut \in Outputs
  <2>1. DOMAIN SampledOut \in SUBSET Reqs
    BY <1>5, <1>10
  <2>2. ASSUME NEW r \in DOMAIN SampledOut PROVE SampledOut[r] \in Outcomes
    <3>1. PICK k \in DOMAIN step : step[k].req = r /\ status[r] = "running"
      BY <1>10, <2>2
    <3>2. SampledOut[r] = [tokens |-> NumSampled(step[k]), rejected |-> NumRejected(step[k])]
      BY <1>9, <3>1
    <3>3. NumSampled(step[k]) \in 0 .. NumSpec + 1 /\ NumRejected(step[k]) \in 0 .. NumSpec
      BY <1>6
    <3> QED
      BY <3>2, <3>3 DEF Outcomes
  <2>3. SampledOut \in [DOMAIN SampledOut -> Outcomes]
    <3>1. SampledOut = [r \in DOMAIN SampledOut |-> SampledOut[r]]
      BY DEF SampledOut
    <3> QED
      BY <2>2, <3>1
  <2> QED
    BY <2>1, <2>3 DEF Outputs
<1>12. /\ inFlight' \in Seq(Outputs) /\ Len(inFlight') = L + 1
       /\ \A i \in 1 .. L : inFlight'[i] = inFlight[i]
       /\ inFlight'[L + 1] = SampledOut
  BY <1>3, <1>4, <1>11
<1>13. TypeOK'
  BY <1>1, <1>3, <1>4, <1>8, <1>12 DEF TypeOK
<1>14. PlaceInv'
  BY <1>1, <1>3 DEF PlaceInv
<1>15. RowInv'
  <2>1. SUFFICES ASSUME NEW r \in Reqs, rowOf[r] # 0
                 PROVE  DecodeReady(states'[rowOf[r]])
    BY <1>3 DEF RowInv, DecodeReady
  <2>2. rowOf[r] \in 1 .. NumRows
    BY <1>4, <2>1
  <2>3. CASE \E k \in DOMAIN step : step[k].row = rowOf[r]
    BY <1>6, <2>3
  <2>4. CASE \A k \in DOMAIN step : step[k].row # rowOf[r]
    <3>1. states'[rowOf[r]] = states[rowOf[r]]
      BY <1>7, <2>2, <2>4
    <3> QED
      BY <1>1, <2>1, <3>1 DEF RowInv
  <2> QED
    BY <2>3, <2>4
<1>16. StepInv'
  BY <1>3 DEF StepInv
\* Where a running request is, and how far that is from where it was bound.
<1>17. ASSUME NEW r \in Reqs, status[r] = "running"
       PROVE  /\ Reached(r)' = states'[rowOf[r]].computed
              /\ RejectedIn(SampledOut, r) \in 0 .. NumSpec
              /\ TokensIn(SampledOut, r) \in 0 .. NumSpec + 1
              /\ Reached(r)' = Reached(r) - RejectedIn(SampledOut, r)
              /\ Due(r)' = Due(r) + TokensIn(SampledOut, r)
              /\ Reached(r) \in Nat /\ Reached(r)' \in 0 .. MaxLen
              /\ states'[rowOf[r]].prefill = states[rowOf[r]].prefill
              /\ states[rowOf[r]].computed >= states[rowOf[r]].prefill
                    => states'[rowOf[r]].computed >= states'[rowOf[r]].prefill
              /\ RejectedIn(SampledOut, r) # 0
                    => states'[rowOf[r]].computed >= states'[rowOf[r]].prefill
  <2>1. Reached(r)' = states'[rowOf[r]].computed
    BY <1>3, ReachedByRow DEF Reached
  <2>2. rowOf[r] \in 1 .. NumRows
    BY <1>1, <1>4, <1>17 DEF PlaceInv
  <2>3. Due(r) = LET row == states[rowOf[r]]
                 IN  IF row.computed >= row.prefill THEN row.computed + 1 ELSE row.prefill
    BY DEF Due
  <2>4. Due(r)' = LET row == states'[rowOf[r]]
                  IN  IF row.computed >= row.prefill THEN row.computed + 1 ELSE row.prefill
    BY <1>3 DEF Due
  <2>5. CASE \E k \in DOMAIN step : step[k].req = r
    <3>1. PICK k \in DOMAIN step : step[k].req = r
      BY <2>5
    <3>2. /\ RejectedIn(SampledOut, r) = NumRejected(step[k])
          /\ TokensIn(SampledOut, r) = NumSampled(step[k])
      <4>1. /\ r \in DOMAIN SampledOut
            /\ SampledOut[r] = [tokens |-> NumSampled(step[k]), rejected |-> NumRejected(step[k])]
        BY <1>9, <1>17, <3>1
      <4> QED
        BY <4>1 DEF RejectedIn, TokensIn
    <3>3. Reached(r) = step[k].start + step[k].q
      BY <1>1, <3>1, ReachedInStep
    <3>4. step[k].start \in Nat /\ step[k].q \in Nat /\ step[k].row = rowOf[r]
      BY <1>5, <3>1 DEF EntrySet
    <3>5. states'[rowOf[r]].computed \in 0 .. MaxLen
      BY <1>8, <2>2 DEF RowSet
    <3> QED
      BY <1>6, <2>1, <2>3, <2>4, <3>2, <3>3, <3>4, <3>5
  <2>6. CASE \A k \in DOMAIN step : step[k].req # r
    <3>1. r \notin DOMAIN SampledOut
      BY <1>10, <2>6
    <3>2. \A k \in DOMAIN step : step[k].row # rowOf[r]
      <4>1. SUFFICES ASSUME NEW k \in DOMAIN step, step[k].row = rowOf[r] PROVE FALSE
        OBVIOUS
      <4>2. rowOf[step[k].req] = rowOf[r] /\ rowOf[r] # 0 /\ step[k].req \in Reqs
        BY <1>5, <2>2, <4>1
      <4>3. step[k].req = r
        BY <1>1, <4>2 DEF PlaceInv
      <4> QED
        BY <2>6, <4>3
    <3>3. states'[rowOf[r]] = states[rowOf[r]]
      BY <1>7, <2>2, <3>2
    <3>4. Reached(r) = states[rowOf[r]].computed
      BY <2>6, ReachedIdle
    <3>5. states[rowOf[r]].computed \in 0 .. MaxLen /\ states[rowOf[r]].prefill \in 0 .. MaxLen
      BY <1>4, <2>2 DEF RowSet
    <3>6. RejectedIn(SampledOut, r) = 0 /\ TokensIn(SampledOut, r) = 0
      BY <3>1 DEF RejectedIn, TokensIn
    <3> QED
      BY <1>0, <2>1, <2>3, <2>4, <3>3, <3>4, <3>5, <3>6
  <2> QED
    BY <2>5, <2>6
<1>18. AheadInv'
  <2>1. SUFFICES ASSUME NEW r \in Reqs, status[r] = "running"
                 PROVE  \E f \in [0 .. Len(inFlight') -> 0 .. MaxLen] : Settles(r, f)'
    BY <1>3 DEF AheadInv
  <2>2. PICK f \in [0 .. L -> 0 .. MaxLen] : Settles(r, f)
    BY <1>1, <2>1 DEF AheadInv
  <2>3. PICK h \in [0 .. L + 1 -> 0 .. MaxLen] :
            (\A i \in 0 .. L : h[i] = f[i]) /\ h[L + 1] = Reached(r)'
    <3> DEFINE new == Reached(r)'
    <3>1. new \in 0 .. MaxLen
      BY <1>17, <2>1
    <3> HIDE DEF new
    <3>2. [i \in 0 .. L + 1 |-> IF i = L + 1 THEN new ELSE f[i]] \in [0 .. L + 1 -> 0 .. MaxLen]
      BY <1>4, <2>2, <3>1
    <3>3. \A i \in 0 .. L : i # L + 1 /\ i \in 0 .. L + 1
      BY <1>4
    <3>4. L + 1 \in 0 .. L + 1
      BY <1>4
    <3>5. \E h \in [0 .. L + 1 -> 0 .. MaxLen] :
            (\A i \in 0 .. L : h[i] = f[i]) /\ h[L + 1] = new
      BY <3>2, <3>3, <3>4
    <3> QED
      BY <3>5 DEF new
  <2>4. f[L] = Reached(r) /\ L \in 0 .. L /\ 0 \in 0 .. L
    BY <1>4, <2>2 DEF Settles
  <2>5. \A i \in 1 .. L + 1 : h[i] = h[i - 1] - RejectedIn(inFlight'[i], r)
    <3>1. SUFFICES ASSUME NEW i \in 1 .. L + 1
                   PROVE  h[i] = h[i - 1] - RejectedIn(inFlight'[i], r)
      OBVIOUS
    <3>2. CASE i = L + 1
      <4>1. i - 1 = L
        BY <1>4, <3>2
      <4> QED
        BY <1>12, <1>17, <2>1, <2>3, <2>4, <3>2, <4>1
    <3>3. CASE i # L + 1
      <4>1. i \in 1 .. L /\ i \in 0 .. L /\ i - 1 \in 0 .. L
        BY <1>4, <3>3
      <4>2. f[i] = f[i - 1] - RejectedIn(inFlight[i], r)
        BY <2>2, <4>1 DEF Settles
      <4> QED
        BY <1>12, <2>3, <4>1, <4>2
    <3> QED
      BY <3>2, <3>3
  <2>6. \A i \in 0 .. L : f[i] >= Reached(r)'
    <3>1. SUFFICES ASSUME NEW i \in 0 .. L PROVE f[i] >= Reached(r)'
      OBVIOUS
    <3>2. f[i] >= f[L] /\ f[i] \in Nat
      BY <1>4, <2>2, <2>4 DEF Settles
    <3>3. Reached(r) \in Nat /\ RejectedIn(SampledOut, r) \in Nat
          /\ Reached(r)' = Reached(r) - RejectedIn(SampledOut, r)
      BY <1>0, <1>17, <2>1
    <3> QED
      BY <2>4, <3>2, <3>3
  <2>7. \A i, j \in 0 .. L + 1 : i <= j => h[i] >= h[j]
    <3>1. SUFFICES ASSUME NEW i \in 0 .. L + 1, NEW j \in 0 .. L + 1, i <= j
                   PROVE  h[i] >= h[j]
      OBVIOUS
    <3>2. CASE j = L + 1 /\ i # L + 1
      <4>1. i \in 0 .. L
        BY <1>4, <3>2
      <4> QED
        BY <2>3, <2>6, <3>2, <4>1
    <3>3. CASE j = L + 1 /\ i = L + 1
      <4>1. h[i] \in Nat /\ h[i] = h[j]
        BY <2>3, <3>3
      <4> QED
        BY <4>1
    <3>4. CASE j # L + 1
      <4>1. i \in 0 .. L /\ j \in 0 .. L
        BY <1>4, <3>1, <3>4
      <4> QED
        BY <2>2, <2>3, <3>1, <4>1 DEF Settles
    <3> QED
      BY <3>2, <3>3, <3>4
  <2>8. \A i \in 0 .. L + 1 :
            h[i] # h[L + 1] => states'[rowOf[r]].computed >= states'[rowOf[r]].prefill
    <3>1. SUFFICES ASSUME NEW i \in 0 .. L + 1, h[i] # h[L + 1]
                   PROVE  states'[rowOf[r]].computed >= states'[rowOf[r]].prefill
      OBVIOUS
    <3>2. i \in 0 .. L /\ h[i] = f[i]
      BY <1>4, <2>3, <3>1
    <3>3. CASE f[i] # f[L]
      BY <1>17, <2>1, <2>2, <3>2, <3>3 DEF Settles
    <3>4. CASE f[i] = f[L]
      <4>1. Reached(r)' # Reached(r)
        BY <2>3, <2>4, <3>1, <3>2, <3>4
      <4>2. Reached(r) \in Nat /\ Reached(r)' = Reached(r) - RejectedIn(SampledOut, r)
        BY <1>17, <2>1
      <4>3. RejectedIn(SampledOut, r) # 0
        BY <4>1, <4>2
      <4> QED
        BY <1>17, <2>1, <4>3
    <3> QED
      BY <3>3, <3>4
  <2>9. h[0] = announced'[r] /\ h[L + 1] = Reached(r)'
    BY <1>3, <2>2, <2>3, <2>4 DEF Settles
  <2>10. Settles(r, h)'
    BY <1>3, <1>12, <2>5, <2>7, <2>8, <2>9 DEF Settles
  <2> QED
    BY <1>12, <2>3, <2>10
<1>19. KnownInv'
  <2>1. SUFFICES ASSUME NEW r \in Reqs
                 PROVE  \E g \in [0 .. Len(inFlight') -> 1 .. MaxLen + 1] : Learns(r, g)'
    BY DEF KnownInv
  <2>2. PICK g \in [0 .. L -> 1 .. MaxLen + 1] : Learns(r, g)
    BY <1>1 DEF KnownInv
  <2>3. L \in 0 .. L /\ 0 \in 0 .. L
    BY <1>4
  <2>4. g[L] + TokensIn(SampledOut, r) \in 1 .. MaxLen + 1
    <3>1. CASE status[r] = "running"
      <4>1. g[L] = Due(r) /\ Due(r)' = Due(r) + TokensIn(SampledOut, r)
        BY <1>17, <2>2, <3>1 DEF Learns
      <4>2. rowOf[r] \in 1 .. NumRows
        BY <1>1, <1>4, <3>1 DEF PlaceInv
      <4>3. states'[rowOf[r]].computed \in 0 .. MaxLen /\ states'[rowOf[r]].prefill \in 0 .. MaxLen
        BY <1>8, <4>2 DEF RowSet
      <4>4. Due(r)' <= MaxLen + 1
        BY <1>0, <1>3, <4>3 DEF Due
      <4>5. g[L] \in 1 .. MaxLen + 1 /\ TokensIn(SampledOut, r) \in Nat
        BY <1>0, <1>17, <2>2, <2>3, <3>1
      <4> QED
        BY <1>0, <4>1, <4>4, <4>5
    <3>2. CASE status[r] # "running"
      <4>1. TokensIn(SampledOut, r) = 0
        BY <1>10, <3>2 DEF TokensIn
      <4> QED
        BY <1>0, <2>2, <2>3, <4>1
    <3> QED
      BY <3>1, <3>2
  <2>5. PICK h \in [0 .. L + 1 -> 1 .. MaxLen + 1] :
            (\A i \in 0 .. L : h[i] = g[i]) /\ h[L + 1] = g[L] + TokensIn(SampledOut, r)
    <3> DEFINE new == g[L] + TokensIn(SampledOut, r)
    <3>1. new \in 1 .. MaxLen + 1
      BY <2>4
    <3> HIDE DEF new
    <3>2. [i \in 0 .. L + 1 |-> IF i = L + 1 THEN new ELSE g[i]]
            \in [0 .. L + 1 -> 1 .. MaxLen + 1]
      BY <1>4, <2>2, <3>1
    <3>3. \A i \in 0 .. L : i # L + 1 /\ i \in 0 .. L + 1
      BY <1>4
    <3>4. L + 1 \in 0 .. L + 1
      BY <1>4
    <3>5. \E h \in [0 .. L + 1 -> 1 .. MaxLen + 1] :
            (\A i \in 0 .. L : h[i] = g[i]) /\ h[L + 1] = new
      BY <3>2, <3>3, <3>4
    <3> QED
      BY <3>5 DEF new
  <2>6. \A i \in 1 .. L + 1 : h[i] = h[i - 1] + TokensIn(inFlight'[i], r)
    <3>1. SUFFICES ASSUME NEW i \in 1 .. L + 1
                   PROVE  h[i] = h[i - 1] + TokensIn(inFlight'[i], r)
      OBVIOUS
    <3>2. CASE i = L + 1
      <4>1. i - 1 = L
        BY <1>4, <3>2
      <4> QED
        BY <1>12, <2>3, <2>5, <3>2, <4>1
    <3>3. CASE i # L + 1
      <4>1. i \in 1 .. L /\ i \in 0 .. L /\ i - 1 \in 0 .. L
        BY <1>4, <3>3
      <4>2. g[i] = g[i - 1] + TokensIn(inFlight[i], r)
        BY <2>2, <4>1 DEF Learns
      <4> QED
        BY <1>12, <2>5, <4>1, <4>2
    <3> QED
      BY <3>2, <3>3
  <2>7. status[r] = "running" => h[L + 1] = Due(r)'
    BY <1>17, <2>2, <2>5 DEF Learns
  <2>8. h[0] = known'[r]
    BY <1>3, <2>2, <2>3, <2>5 DEF Learns
  <2>9. Learns(r, h)'
    BY <1>3, <1>12, <2>6, <2>7, <2>8 DEF Learns
  <2> QED
    BY <1>12, <2>5, <2>9
<1> QED
  BY <1>13, <1>14, <1>15, <1>16, <1>18, <1>19 DEF IInv
-----------------------------------------------------------------------------
(* The input of a step.                                                    *)

\* An entry is prepared right from a row that is ready, if the kernel for prefills runs
\* whenever it is in its prompt.
LEMMA PreparedEntry ==
    ASSUME RunnerAssumption, NEW row \in RowSet, NEW e, NEW hasPrefill \in BOOLEAN,
           DecodeReady(row), e.req \in Reqs, e.row \in 1 .. NumRows,
           e.q \in Nat \ {0}, e.drafts \in {0, NumSpec},
           row.computed <= row.upper, row.upper + e.q <= MaxLen,
           IF row.computed < row.prefill
           THEN hasPrefill /\ e.drafts = 0 /\ row.computed + e.q <= row.prefill
           ELSE e.q = 1 + e.drafts
    PROVE  LET x == Prepared(e, row, hasPrefill)
           IN  /\ x \in EntrySet
               /\ x.req = e.req /\ x.row = e.row /\ x.q = e.q /\ x.drafts = e.drafts
               /\ x.start = row.computed /\ x.upper = row.upper + e.q
               /\ x.input \in [1 .. x.q -> Int]
               /\ \A j \in 1 .. x.q - x.drafts : x.input[j] = x.start + j - 1
               /\ DraftsRight(x)
<1> DEFINE x == Prepared(e, row, hasPrefill)
<1>0. NumSpec \in Nat /\ MaxLen \in Nat /\ e.drafts \in Nat /\ e.drafts <= NumSpec
  BY Constants
<1>1. /\ row.computed \in Nat /\ row.prefill \in Nat /\ row.upper \in Nat /\ row.sampled \in Int
      /\ row.computed <= MaxLen /\ row.drafts \in [1 .. NumSpec -> Int]
  BY <1>0 DEF RowSet
<1>2. /\ x.req = e.req /\ x.row = e.row /\ x.q = e.q /\ x.drafts = e.drafts
      /\ x.start = row.computed /\ x.upper = row.upper + e.q
      /\ x = [req |-> x.req, row |-> x.row, q |-> x.q, drafts |-> x.drafts, start |-> x.start,
              upper |-> x.upper, input |-> x.input]
  BY DEF Prepared
<1>3. /\ x.input \in [1 .. x.q -> Int]
      /\ \A j \in 1 .. x.q - x.drafts : x.input[j] = x.start + j - 1
      /\ DraftsRight(x)
  <2>1. CASE row.computed < row.prefill
    <3>1. hasPrefill = TRUE /\ e.drafts = 0
      BY <2>1
    <3>2. x.input = [j \in 1 .. e.q |-> row.computed + j - 1]
      BY <1>0, <2>1, <3>1, ChunkInput
    <3> HIDE DEF x
    <3>3. DraftsRight(x)
      BY <1>2, <3>1 DEF DraftsRight
    <3>4. x.q - x.drafts = x.q
      BY <1>2, <3>1
    <3>5. x.input \in [1 .. x.q -> Int]
      BY <1>1, <1>2, <3>2
    <3> QED
      BY <1>1, <1>2, <3>2, <3>3, <3>4, <3>5
  <2>2. CASE ~ (row.computed < row.prefill)
    <3>1. row.computed >= row.prefill /\ e.q = 1 + e.drafts
      BY <1>1, <2>2
    <3>2. x.input = [j \in 1 .. e.q |-> IF j = 1 THEN row.sampled ELSE row.drafts[j - 1]]
      BY <1>0, <3>1, DecodeTokens
    <3> HIDE DEF x
    <3>3. row.sampled = row.computed
      BY <3>1 DEF DecodeReady
    <3>4. PICK n \in 0 .. NumSpec :
            row.drafts = [i \in 1 .. NumSpec |-> IF i <= n THEN row.computed + i ELSE Wrong]
      BY <3>1 DEF DecodeReady
    <3>5. x.q - x.drafts = 1
      BY <1>0, <1>2, <3>1
    <3>6. \A j \in 1 .. x.q - x.drafts : x.input[j] = x.start + j - 1
      <4>1. 1 \in 1 .. e.q /\ \A j \in 1 .. 1 : j = 1
        BY <3>1, <1>0
      <4>2. x.input[1] = row.computed /\ row.computed + 1 - 1 = row.computed
        BY <1>1, <3>2, <3>3, <4>1
      <4> QED
        BY <1>2, <3>5, <4>1, <4>2
    <3>7. x.input \in [1 .. x.q -> Int]
      <4>1. \A j \in 1 .. e.q : j # 1 => j - 1 \in 1 .. NumSpec
        BY <1>0, <3>1
      <4>2. \A j \in 1 .. e.q : (IF j = 1 THEN row.sampled ELSE row.drafts[j - 1]) \in Int
        BY <1>1, <4>1
      <4> QED
        BY <1>2, <3>2, <4>2
    <3>8. DraftsRight(x)
      <4>1. PICK m \in 0 .. e.drafts : \A i \in 1 .. e.drafts : i <= n <=> i <= m
        <5>1. CASE e.drafts = 0
          <6>1. 0 \in 0 .. e.drafts /\ 1 .. e.drafts = {}
            BY <5>1
          <6> QED
            BY <6>1
        <5>2. CASE e.drafts = NumSpec
          BY <3>4, <5>2
        <5> QED
          BY <5>1, <5>2
      <4>2. ASSUME NEW i \in 1 .. e.drafts
            PROVE  x.input[x.q - x.drafts + i] =
                     IF i <= m THEN x.start + x.q - x.drafts + i - 1 ELSE Wrong
        <5>1. 1 + i \in 1 .. e.q /\ 1 + i # 1 /\ 1 + i - 1 = i /\ i \in 1 .. NumSpec
          BY <1>0, <3>1
        <5>2. x.input[1 + i] = row.drafts[i]
          BY <3>2, <5>1
        <5>3. row.drafts[i] = IF i <= m THEN row.computed + i ELSE Wrong
          BY <3>4, <4>1, <5>1
        <5>4. x.start + x.q - x.drafts + i - 1 = row.computed + i
          <6>1. \A s, q, d, k \in Int : q = 1 + d => s + q - d + k - 1 = s + k
            OBVIOUS
          <6>2. /\ x.start \in Int /\ x.q \in Int /\ x.drafts \in Int /\ i \in Int
                /\ x.q = 1 + x.drafts
            BY <1>0, <1>1, <1>2, <3>1
          <6> QED
            BY <1>2, <6>1, <6>2
        <5> QED
          BY <3>5, <5>2, <5>3, <5>4
      <4> QED
        BY <1>2, <4>1, <4>2 DEF DraftsRight
    <3> QED
      BY <3>6, <3>7, <3>8
  <2> QED
    BY <2>1, <2>2
<1>4. x \in EntrySet
  <2> HIDE DEF x
  <2>1. /\ x.q \in 1 .. MaxLen /\ x.start \in 0 .. MaxLen /\ x.upper \in 0 .. MaxLen
        /\ x.drafts \in {0, NumSpec} /\ x.req \in Reqs /\ x.row \in 1 .. NumRows
    BY <1>0, <1>1, <1>2
  <2>2. x.input \in Seq(Int)
    BY <1>2, <1>3
  <2> QED
    BY <1>2, <2>1, <2>2 DEF EntrySet
<1> QED
  BY <1>2, <1>3, <1>4

\* In the order of the sort no query longer than a decode comes before a shorter one.
LEMMA DecodesFirst ==
    ASSUME RunnerAssumption, NEW a, NEW b, a.q \in Nat, b.q \in Nat,
           a.drafts \in {0, NumSpec}, b.drafts \in {0, NumSpec},
           a.drafts # 0 => a.q = 1 + a.drafts,
           ~ SortsBefore(b, a), b.q <= DecodeQueryLen
    PROVE  a.q <= DecodeQueryLen
<1>0. NumSpec \in Nat
  BY Constants
<1> SUFFICES ASSUME a.q > DecodeQueryLen
             PROVE  SortsBefore(b, a)
  BY <1>0 DEF DecodeQueryLen
<1>1. a.drafts = 0 /\ a.q # DecodeQueryLen /\ b.q < a.q
  BY <1>0 DEF DecodeQueryLen
<1>2. SortKey(a) = <<1, 1, a.q>>
  BY <1>1 DEF SortKey
<1>3. SortKey(b) = <<IF b.drafts > 0 THEN 0 ELSE 1, IF b.q = DecodeQueryLen THEN 0 ELSE 1, b.q>>
  BY DEF SortKey
<1>4. 1 \in DOMAIN SortKey(b) /\ 2 \in DOMAIN SortKey(b) /\ 3 \in DOMAIN SortKey(b)
  BY <1>3
<1>5. CASE b.drafts > 0
  <2>1. SortKey(b)[1] < SortKey(a)[1] /\ \A j \in 1 .. 1 - 1 : SortKey(b)[j] = SortKey(a)[j]
    BY <1>2, <1>3, <1>5
  <2> QED
    BY <1>4, <2>1 DEF SortsBefore
<1>6. CASE b.drafts = 0 /\ b.q = DecodeQueryLen
  <2>1. SortKey(b) = <<1, 0, b.q>>
    BY <1>3, <1>6
  <2>2. SortKey(b)[2] < SortKey(a)[2] /\ \A j \in 1 .. 2 - 1 : SortKey(b)[j] = SortKey(a)[j]
    BY <1>2, <2>1
  <2> QED
    BY <1>4, <2>2 DEF SortsBefore
<1>7. CASE b.drafts = 0 /\ b.q # DecodeQueryLen
  <2>1. SortKey(b) = <<1, 1, b.q>>
    BY <1>3, <1>7
  <2>2. SortKey(b)[3] < SortKey(a)[3] /\ \A j \in 1 .. 3 - 1 : SortKey(b)[j] = SortKey(a)[j]
    BY <1>1, <1>2, <2>1
  <2> QED
    BY <1>4, <2>2 DEF SortsBefore
<1> QED
  BY <1>0, <1>5, <1>6, <1>7

\* The chain of a running request when no step waits to be sampled: its row is behind by
\* what will be rejected, and exactly where it is announced within the prompt.
LEMMA RowOfRunning ==
    ASSUME RunnerAssumption, TypeOK, PlaceInv, AheadInv, RowInv, step = <<>>,
           NEW r \in Reqs, status[r] = "running"
    PROVE  LET row == states[rowOf[r]]
           IN  /\ rowOf[r] \in 1 .. NumRows /\ row \in RowSet /\ DecodeReady(row)
               /\ row.computed <= announced[r]
               /\ announced[r] < row.prefill => row.computed = announced[r]
               /\ announced[r] >= row.prefill => row.computed >= row.prefill
<1> DEFINE row == states[rowOf[r]]
<1>1. rowOf[r] \in 1 .. NumRows /\ rowOf[r] # 0
  BY DEF TypeOK, PlaceInv
<1>2. row \in RowSet /\ DecodeReady(row)
  BY <1>1 DEF TypeOK, RowInv
<1>3. row.computed \in 0 .. MaxLen /\ row.prefill \in 0 .. MaxLen /\ announced[r] \in 0 .. MaxLen
  BY <1>2 DEF RowSet, TypeOK
<1>4. PICK f \in [0 .. Len(inFlight) -> 0 .. MaxLen] : Settles(r, f)
  BY DEF AheadInv
<1>5. Len(inFlight) \in Nat
  BY DEF TypeOK
<1>6. Reached(r) = row.computed
  BY ReachedIdle
<1>7. /\ announced[r] >= row.computed
      /\ announced[r] # row.computed => row.computed >= row.prefill
  <2>1. 0 \in 0 .. Len(inFlight) /\ Len(inFlight) \in 0 .. Len(inFlight) /\ 0 <= Len(inFlight)
    BY <1>5
  <2>2. f[0] = announced[r] /\ f[Len(inFlight)] = row.computed
    BY <1>4, <1>6 DEF Settles
  <2> QED
    BY <1>4, <2>1, <2>2 DEF Settles
<1> QED
  BY <1>1, <1>2, <1>3, <1>7

\* A row that is given to a request.
LEMMA AddedRow ==
    ASSUME NEW n, NEW start, NEW row, row = Added(n, start)
    PROVE  row = [prefill |-> n, computed |-> start, upper |-> start,
                  sampled |-> Old, drafts |-> [i \in 1 .. NumSpec |-> Old]]
BY DEF Added, Empty

\* What may be planned for a request, and what its row then is.
LEMMA Planned ==
    ASSUME RunnerAssumption, TypeOK, PlaceInv, AheadInv, RowInv, step = <<>>,
           NEW r \in Reqs, NEW plan \in Plans(r),
           MayStart(r) \/ status[r] = "running",
           NEW row, row = IF status[r] = "running" THEN Updated(states[rowOf[r]], plan.start)
                          ELSE Added(known[r], plan.start)
    PROVE  /\ row \in RowSet /\ DecodeReady(row)
           /\ plan.start \in Nat /\ plan.q \in Nat \ {0} /\ plan.drafts \in {0, NumSpec}
           /\ row.upper = plan.start /\ row.computed <= row.upper
           /\ row.upper + plan.q <= MaxLen
           /\ IF row.computed < row.prefill
              THEN /\ IsPrefilling(row) /\ plan.drafts = 0
                   /\ row.computed + plan.q <= row.prefill
              ELSE plan.q = 1 + plan.drafts
           /\ status[r] = "running" =>
                /\ plan.start = announced[r]
                /\ row.computed = states[rowOf[r]].computed
                /\ row.prefill = states[rowOf[r]].prefill
           /\ status[r] # "running" =>
                row.computed = plan.start /\ row.prefill = known[r] /\ plan.start < known[r]
<1>0. NumSpec \in Nat /\ MaxLen \in Nat \ {0} /\ MaxChunk \in Nat \ {0}
  BY Constants
<1>1. CASE status[r] = "running"
  <2> DEFINE s == states[rowOf[r]]
  <2>1. /\ rowOf[r] \in 1 .. NumRows /\ s \in RowSet /\ DecodeReady(s)
        /\ s.computed <= announced[r]
        /\ announced[r] < s.prefill => s.computed = announced[r]
        /\ announced[r] >= s.prefill => s.computed >= s.prefill
    BY <1>1, RowOfRunning
  <2>2. s.computed \in Nat /\ s.prefill \in 0 .. MaxLen /\ announced[r] \in 0 .. MaxLen
    BY <1>0, <2>1 DEF RowSet, TypeOK
  <2>3. plan \in IF announced[r] < s.prefill
                 THEN {[start |-> announced[r], q |-> q, drafts |-> 0] :
                         q \in 1 .. Smaller(MaxChunk, s.prefill - announced[r])}
                 ELSE {[start |-> announced[r], q |-> 1 + k, drafts |-> k] :
                         k \in {n \in {0, NumSpec} : announced[r] + 1 + n <= MaxLen}}
    BY <1>1 DEF Plans
  <2>4. /\ plan.start = announced[r] /\ plan.q \in Nat \ {0} /\ plan.drafts \in {0, NumSpec}
        /\ announced[r] + plan.q <= MaxLen
        /\ IF announced[r] < s.prefill
           THEN plan.drafts = 0 /\ announced[r] + plan.q <= s.prefill
           ELSE plan.q = 1 + plan.drafts
    <3>1. CASE announced[r] < s.prefill
      <4>1. PICK n \in 1 .. Smaller(MaxChunk, s.prefill - announced[r]) :
              plan = [start |-> announced[r], q |-> n, drafts |-> 0]
        BY <2>3, <3>1
      <4>2. n \in Nat \ {0} /\ n <= s.prefill - announced[r]
        BY <1>0, <2>2, <3>1, <4>1 DEF Smaller
      <4> QED
        BY <1>0, <2>2, <3>1, <4>1, <4>2
    <3>2. CASE ~ (announced[r] < s.prefill)
      <4>1. PICK k \in {n \in {0, NumSpec} : announced[r] + 1 + n <= MaxLen} :
              plan = [start |-> announced[r], q |-> 1 + k, drafts |-> k]
        BY <2>3, <3>2
      <4> QED
        BY <1>0, <2>2, <3>2, <4>1
    <3> QED
      BY <3>1, <3>2
  <2>5. /\ row.prefill = s.prefill /\ row.computed = s.computed /\ row.upper = announced[r]
        /\ row.sampled = s.sampled /\ row.drafts = s.drafts
        /\ row = [prefill |-> s.prefill, computed |-> s.computed, upper |-> announced[r],
                  sampled |-> s.sampled, drafts |-> s.drafts]
    <3>1. row = Updated(s, plan.start)
      BY <1>1
    <3> QED
      BY <2>1, <2>4, <3>1 DEF Updated, RowSet
  <2>6. row \in RowSet
    BY <2>1, <2>2, <2>5 DEF RowSet
  <2>7. DecodeReady(row)
    BY <2>1, <2>5 DEF DecodeReady
  <2>8. row.computed < row.prefill => IsPrefilling(row)
    BY <2>1, <2>2, <2>5 DEF IsPrefilling, Smaller
  <2>9. IF row.computed < row.prefill
        THEN plan.drafts = 0 /\ row.computed + plan.q <= row.prefill
        ELSE plan.q = 1 + plan.drafts
    BY <2>1, <2>2, <2>4, <2>5
  <2> QED
    BY <1>1, <2>1, <2>2, <2>4, <2>5, <2>6, <2>7, <2>8, <2>9
<1>2. CASE status[r] # "running"
  <2>1. status[r] = "waiting"
    BY <1>2 DEF MayStart
  <2>2. known[r] \in Nat \ {0} /\ known[r] < MaxLen
    BY <1>0, <2>1 DEF TypeOK, PlaceInv
  <2>3. plan \in {[start |-> p[1], q |-> p[2], drafts |-> 0] : p \in
                    {p \in (0 .. known[r] - 1) \X (1 .. MaxChunk) :
                        p[1] \in {0, 2} /\ p[1] + p[2] <= known[r]}}
    BY <2>1 DEF Plans
  <2>4. PICK p \in (0 .. known[r] - 1) \X (1 .. MaxChunk) :
          p[1] + p[2] <= known[r] /\ plan = [start |-> p[1], q |-> p[2], drafts |-> 0]
    BY <2>3
  <2>5. /\ plan.start \in Nat /\ plan.q \in Nat \ {0} /\ plan.drafts = 0
        /\ plan.start + plan.q <= known[r] /\ plan.start < known[r]
    BY <1>0, <2>2, <2>4
  <2>6. /\ row.prefill = known[r] /\ row.computed = plan.start /\ row.upper = plan.start
        /\ row = [prefill |-> known[r], computed |-> plan.start, upper |-> plan.start,
                  sampled |-> Old, drafts |-> [i \in 1 .. NumSpec |-> Old]]
    <3>1. row = Added(known[r], plan.start)
      BY <1>2
    <3>2. row = [prefill |-> known[r], computed |-> plan.start, upper |-> plan.start,
                 sampled |-> Old, drafts |-> [i \in 1 .. NumSpec |-> Old]]
      BY ONLY <3>1, AddedRow
    <3> QED
      BY ONLY <3>2
  <2>7. row \in RowSet
    <3>1. [i \in 1 .. NumSpec |-> Old] \in [1 .. NumSpec -> Int] /\ Old \in Int
      BY DEF Old
    <3>2. known[r] \in 0 .. MaxLen /\ plan.start \in 0 .. MaxLen
      BY <1>0, <2>2, <2>5
    <3> QED
      BY ONLY <2>6, <3>1, <3>2 DEF RowSet
  <2>8. DecodeReady(row)
    BY <2>2, <2>5, <2>6 DEF DecodeReady
  <2>9. IsPrefilling(row)
    BY <2>2, <2>5, <2>6 DEF IsPrefilling, Smaller
  <2> QED
    BY <1>0, <1>2, <2>2, <2>5, <2>6, <2>7, <2>8, <2>9
<1> QED
  BY <1>1, <1>2

\* An enumeration of a finite set has each element once.
LEMMA EnumeratesAll ==
    ASSUME NEW S, IsFiniteSet(S), NEW s \in SetToSeqs(S)
    PROVE  /\ Cardinality(S) \in Nat /\ s \in [1 .. Cardinality(S) -> S]
           /\ DOMAIN s = 1 .. Cardinality(S)
           /\ \A i, j \in DOMAIN s : s[i] = s[j] => i = j
           /\ \A x \in S : \E i \in DOMAIN s : s[i] = x
<1> DEFINE D == 1 .. Cardinality(S)
<1>1. Cardinality(S) \in Nat
  BY FS_CardinalityType
<1>2. s \in [D -> S] /\ \A i, j \in D : i # j => s[i] # s[j]
  BY DEF SetToSeqs
<1>3. IsFiniteSet(D) /\ Cardinality(D) = Cardinality(S)
  BY <1>1, FS_Interval
<1> HIDE DEF D
<1>4. s \in Injection(D, S)
  BY <1>2 DEF Injection, IsInjective
<1>5. s \in Surjection(D, S)
  BY <1>3, <1>4, FS_Injection
<1>6. \A x \in S : \E i \in D : s[i] = x
  BY <1>5 DEF Surjection
<1> QED
  BY <1>1, <1>2, <1>6 DEF D

\* A step is announced: rows change hands, and every entry agrees with its row.
LEMMA StepKeepsInv ==
    ASSUME RunnerAssumption, IInv, Step
    PROVE  IInv'
<1> DEFINE L == Len(inFlight)
<1>0. /\ NumSpec \in Nat /\ MaxLen \in Nat \ {0} /\ MaxInFlight \in Nat \ {0}
      /\ NumRows \in Nat \ {0} /\ MaxPreemptions \in Nat /\ IsFiniteSet(Reqs)
  BY Constants
<1>1. TypeOK /\ PlaceInv /\ RowInv /\ StepInv /\ AheadInv /\ KnownInv
  BY DEF IInv
<1>2. PICK new \in SUBSET {r \in Reqs : MayStart(r)},
           cached \in SUBSET {r \in Reqs : status[r] = "running"} :
        /\ new \union cached \union left # {}
        /\ \E place \in Placements(new, Remaining(left)) :
           \E plan \in [new \union cached -> UNION {Plans(r) : r \in new \union cached}] :
            /\ \A r \in new \union cached : plan[r] \in Plans(r)
            /\ Execute(new, cached, plan, place)
  BY DEF Step
<1>3. PICK place \in Placements(new, Remaining(left)),
           plan \in [new \union cached -> UNION {Plans(r) : r \in new \union cached}] :
        /\ \A r \in new \union cached : plan[r] \in Plans(r)
        /\ Execute(new, cached, plan, place)
  BY <1>2
<1> DEFINE scheduled == new \union cached
<1> DEFINE owner == [r \in Reqs |-> IF r \in new THEN place[r] ELSE Remaining(left)[r]]
<1> DEFINE of(i) == {r \in scheduled : owner[r] = i}
<1> DEFINE row(i) == LET r == CHOOSE o \in of(i) : TRUE
                     IN  IF of(i) = {} THEN states[i]
                         ELSE IF r \in new THEN Added(known[r], plan[r].start)
                         ELSE Updated(states[i], plan[r].start)
<1> DEFINE entry(r) == [req |-> r, row |-> owner[r], q |-> plan[r].q, drafts |-> plan[r].drafts]
<1> DEFINE entries == {entry(r) : r \in scheduled}
<1> DEFINE hasPrefill == \E r \in scheduled : IsPrefilling(row(owner[r]))
<1>4. /\ rowOf' = owner
      /\ states' = [i \in 1 .. NumRows |-> row(i)]
      /\ \E s \in Orders(entries) :
            step' = [i \in DOMAIN s |-> Prepared(s[i], row(s[i].row), hasPrefill)]
      /\ status' = [r \in Reqs |-> IF r \in new THEN "running" ELSE status[r]]
      /\ announced' = [r \in Reqs |-> IF r \in scheduled THEN plan[r].start + plan[r].q
                                      ELSE announced[r]]
      /\ left' = {}
      /\ UNCHANGED <<known, inFlight, preemptions>>
  BY <1>3 DEF Execute
<1>5. step = <<>> /\ L < MaxInFlight /\ L \in Nat /\ inFlight \in Seq(Outputs)
  BY <1>1 DEF Step, TypeOK
\* Who is scheduled.
<1>6. /\ new \subseteq Reqs /\ cached \subseteq Reqs /\ scheduled \subseteq Reqs
      /\ \A r \in new : MayStart(r) /\ status[r] = "waiting"
      /\ \A r \in cached : status[r] = "running" /\ r \notin new
  BY <1>2 DEF MayStart
<1>7. /\ place \in [new -> 1 .. NumRows]
      /\ \A r, o \in new : place[r] = place[o] => r = o
      /\ \A r \in new, o \in Reqs : place[r] # Remaining(left)[o]
  BY <1>3 DEF Placements, IsInjective
<1>8. \A r \in Reqs : Remaining(left)[r] = IF r \in left THEN 0 ELSE rowOf[r]
  BY DEF Remaining
\* Rows change hands.
<1>9. /\ owner \in [Reqs -> 0 .. NumRows]
      /\ \A r \in new : owner[r] = place[r] /\ owner[r] \in 1 .. NumRows
      /\ \A r \in Reqs : status[r] = "running" => owner[r] = rowOf[r] /\ owner[r] \in 1 .. NumRows
      /\ \A r, o \in Reqs : owner[r] = owner[o] /\ owner[r] # 0 => r = o
  <2>1. owner \in [Reqs -> 0 .. NumRows]
    BY <1>0, <1>1, <1>6, <1>7, <1>8 DEF TypeOK
  <2>2. \A r \in new : owner[r] = place[r] /\ owner[r] \in 1 .. NumRows
    BY <1>6, <1>7
  <2>3. \A r \in Reqs : status[r] = "running" => owner[r] = rowOf[r] /\ owner[r] \in 1 .. NumRows
    BY <1>0, <1>1, <1>6, <1>8 DEF PlaceInv, TypeOK
  <2>4. \A r, o \in Reqs : owner[r] = owner[o] /\ owner[r] # 0 => r = o
    <3>1. SUFFICES ASSUME NEW r \in Reqs, NEW o \in Reqs, owner[r] = owner[o], owner[r] # 0
                   PROVE  r = o
      OBVIOUS
    <3>2. CASE r \in new /\ o \in new
      BY <1>7, <3>1, <3>2
    <3>3. CASE r \in new /\ o \notin new
      BY <1>7, <3>1, <3>3
    <3>4. CASE r \notin new /\ o \in new
      BY <1>7, <3>1, <3>4
    <3>5. CASE r \notin new /\ o \notin new
      BY <1>1, <1>8, <3>1, <3>5 DEF PlaceInv
    <3> QED
      BY <3>2, <3>3, <3>4, <3>5
  <2> QED
    BY <2>1, <2>2, <2>3, <2>4
<1>10. ASSUME NEW r \in scheduled
       PROVE  /\ plan[r] \in Plans(r) /\ owner[r] \in 1 .. NumRows /\ r \in Reqs
              /\ MayStart(r) \/ status[r] = "running"
              /\ row(owner[r]) = IF status[r] = "running"
                                 THEN Updated(states[rowOf[r]], plan[r].start)
                                 ELSE Added(known[r], plan[r].start)
  <2>1. owner[r] \in 1 .. NumRows /\ r \in Reqs /\ owner[r] # 0
    <3> HIDE DEF owner
    <3>1. r \in Reqs /\ owner[r] \in 1 .. NumRows
      BY <1>6, <1>9
    <3> QED
      BY <1>0, <3>1
  <2>2. of(owner[r]) = {r}
    BY <1>6, <1>9, <2>1
  <2>3. (CHOOSE o \in of(owner[r]) : TRUE) = r
    BY <2>2
  <2>4. row(owner[r]) = IF r \in new THEN Added(known[r], plan[r].start)
                        ELSE Updated(states[owner[r]], plan[r].start)
    BY <2>2, <2>3
  <2> HIDE DEF row, of
  <2>5. CASE r \in new
    <3>1. status[r] # "running" /\ MayStart(r)
      BY <1>6, <2>5
    <3> QED
      BY <1>3, <2>1, <2>4, <2>5, <3>1
  <2>6. CASE r \notin new
    <3>1. status[r] = "running" /\ owner[r] = rowOf[r]
      BY <1>6, <1>9, <2>1, <2>6
    <3> QED
      BY <1>3, <2>1, <2>4, <2>6, <3>1
  <2> QED
    BY <2>5, <2>6
<1>11. ASSUME NEW i \in 1 .. NumRows, \A r \in scheduled : owner[r] # i
       PROVE  row(i) = states[i]
  <2>1. of(i) = {}
    BY <1>11
  <2> QED
    BY <2>1
<1> HIDE DEF row, of
\* The rows and plans of the step.
<1>12. ASSUME NEW r \in scheduled
       PROVE  LET w == row(owner[r])
              IN  /\ w \in RowSet /\ DecodeReady(w)
                  /\ plan[r].start \in Nat /\ plan[r].q \in Nat \ {0}
                  /\ plan[r].drafts \in {0, NumSpec}
                  /\ w.upper = plan[r].start /\ w.computed <= w.upper
                  /\ w.upper + plan[r].q <= MaxLen
                  /\ IF w.computed < w.prefill
                     THEN /\ IsPrefilling(w) /\ plan[r].drafts = 0
                          /\ w.computed + plan[r].q <= w.prefill
                     ELSE plan[r].q = 1 + plan[r].drafts
                  /\ status[r] = "running" =>
                        /\ plan[r].start = announced[r]
                        /\ w.computed = states[rowOf[r]].computed
                        /\ w.prefill = states[rowOf[r]].prefill
                  /\ status[r] # "running" =>
                        w.computed = plan[r].start /\ w.prefill = known[r]
                        /\ plan[r].start < known[r]
  <2> HIDE DEF owner
  <2>1. /\ plan[r] \in Plans(r) /\ r \in Reqs /\ (MayStart(r) \/ status[r] = "running")
        /\ row(owner[r]) = IF status[r] = "running"
                           THEN Updated(states[rowOf[r]], plan[r].start)
                           ELSE Added(known[r], plan[r].start)
    BY <1>10
  <2> DEFINE w == row(owner[r])
  <2> HIDE DEF w, scheduled, entries, hasPrefill
  <2>2. w = IF status[r] = "running" THEN Updated(states[rowOf[r]], plan[r].start)
            ELSE Added(known[r], plan[r].start)
    BY <2>1 DEF w
  <2>3. /\ w \in RowSet /\ DecodeReady(w)
        /\ plan[r].start \in Nat /\ plan[r].q \in Nat \ {0}
        /\ plan[r].drafts \in {0, NumSpec}
        /\ w.upper = plan[r].start /\ w.computed <= w.upper
        /\ w.upper + plan[r].q <= MaxLen
        /\ IF w.computed < w.prefill
           THEN /\ IsPrefilling(w) /\ plan[r].drafts = 0
                /\ w.computed + plan[r].q <= w.prefill
           ELSE plan[r].q = 1 + plan[r].drafts
        /\ status[r] = "running" =>
              /\ plan[r].start = announced[r]
              /\ w.computed = states[rowOf[r]].computed
              /\ w.prefill = states[rowOf[r]].prefill
        /\ status[r] # "running" =>
              w.computed = plan[r].start /\ w.prefill = known[r] /\ plan[r].start < known[r]
    <3>1. /\ RunnerAssumption /\ TypeOK /\ PlaceInv /\ AheadInv /\ RowInv /\ step = <<>>
          /\ r \in Reqs /\ plan[r] \in Plans(r) /\ (MayStart(r) \/ status[r] = "running")
      BY <1>1, <1>5, <2>1
    <3> QED
      BY ONLY <2>2, <3>1, Planned
  <2> QED
    BY <2>3 DEF w
<1>13. /\ \A i \in 1 .. NumRows : states'[i] = row(i)
       /\ states' \in [1 .. NumRows -> RowSet]
  <2>1. ASSUME NEW i \in 1 .. NumRows PROVE row(i) \in RowSet
    <3>1. CASE \E r \in scheduled : owner[r] = i
      BY <1>12, <3>1
    <3>2. CASE \A r \in scheduled : owner[r] # i
      <4>1. row(i) = states[i]
        BY <1>11, <3>2
      <4>2. states[i] \in RowSet
        BY <1>1 DEF TypeOK
      <4> QED
        BY <4>1, <4>2
    <3> QED
      BY <3>1, <3>2
  <2> QED
    BY <1>4, <2>1
\* The entries.
<1> DEFINE made(r) == Prepared(entry(r), row(owner[r]), hasPrefill)
<1>14. ASSUME NEW r \in scheduled
       PROVE  LET x == made(r)
              IN  /\ x \in EntrySet
                  /\ x.req = r /\ x.row = owner[r] /\ x.q = plan[r].q /\ x.drafts = plan[r].drafts
                  /\ x.start = row(owner[r]).computed
                  /\ x.upper = row(owner[r]).upper + plan[r].q
                  /\ x.input \in [1 .. x.q -> Int]
                  /\ \A j \in 1 .. x.q - x.drafts : x.input[j] = x.start + j - 1
                  /\ DraftsRight(x)
  <2> DEFINE w == row(owner[r])
  <2>1. hasPrefill \in BOOLEAN
    OBVIOUS
  <2>2. IsPrefilling(w) => hasPrefill
    BY DEF hasPrefill
  <2>3. /\ entry(r).req = r /\ entry(r).row = owner[r] /\ entry(r).q = plan[r].q
        /\ entry(r).drafts = plan[r].drafts
    OBVIOUS
  <2>4. r \in Reqs /\ owner[r] \in 1 .. NumRows
    BY <1>10
  <2>5. /\ w \in RowSet /\ DecodeReady(w)
        /\ plan[r].q \in Nat \ {0} /\ plan[r].drafts \in {0, NumSpec}
        /\ w.computed <= w.upper /\ w.upper + plan[r].q <= MaxLen
        /\ IF w.computed < w.prefill
           THEN hasPrefill /\ plan[r].drafts = 0 /\ w.computed + plan[r].q <= w.prefill
           ELSE plan[r].q = 1 + plan[r].drafts
    BY <1>12, <2>2
  <2> HIDE DEF w, entry, hasPrefill, owner
  <2>6. LET x == Prepared(entry(r), w, hasPrefill)
        IN  /\ x \in EntrySet
            /\ x.req = entry(r).req /\ x.row = entry(r).row /\ x.q = entry(r).q
            /\ x.drafts = entry(r).drafts
            /\ x.start = w.computed /\ x.upper = w.upper + entry(r).q
            /\ x.input \in [1 .. x.q -> Int]
            /\ \A j \in 1 .. x.q - x.drafts : x.input[j] = x.start + j - 1
            /\ DraftsRight(x)
    BY <2>1, <2>3, <2>4, <2>5, PreparedEntry
  <2> QED
    BY <2>3, <2>6 DEF w
<1>15. PICK s \in Orders(entries) :
         step' = [i \in DOMAIN s |-> Prepared(s[i], row(s[i].row), hasPrefill)]
  BY <1>4
<1>16. /\ s \in [1 .. Cardinality(entries) -> entries] /\ Cardinality(entries) \in Nat
       /\ \A i, j \in DOMAIN s : s[i] = s[j] => i = j
       /\ \A e \in entries : \E i \in DOMAIN s : s[i] = e
       /\ \A i, j \in DOMAIN s : i < j => ~ SortsBefore(s[j], s[i])
  <2>1. IsFiniteSet(entries)
    <3>1. IsFiniteSet(scheduled)
      BY <1>0, <1>6, FS_Subset
    <3> HIDE DEF scheduled, entry
    <3>2. IsFiniteSet({entry(r) : r \in scheduled})
      <4> DEFINE f == [r \in scheduled |-> entry(r)]
      <4> DEFINE T == {entry(r) : r \in scheduled}
      <4>1. f \in Surjection(scheduled, T)
        BY DEF Surjection
      <4> HIDE DEF f, T
      <4>2. IsFiniteSet(T)
        BY <3>1, <4>1, FS_Surjection
      <4> QED
        BY <4>2 DEF T
    <3> QED
      BY <3>2 DEF entries
  <2> HIDE DEF entries
  <2>2. s \in SetToSeqs(entries) /\ \A i, j \in DOMAIN s : i < j => ~ SortsBefore(s[j], s[i])
    BY DEF Orders
  <2> QED
    BY <2>1, <2>2, EnumeratesAll
<1>17. ASSUME NEW i \in DOMAIN s
       PROVE  \E r \in scheduled : s[i] = entry(r) /\ step'[i] = made(r)
  <2>0. s[i] \in entries
    <3> HIDE DEF entries
    <3> QED
      BY <1>16
  <2>1. PICK r \in scheduled : s[i] = entry(r)
    BY <2>0
  <2>2. s[i].row = owner[r]
    BY <2>1
  <2> QED
    BY <1>15, <2>1, <2>2
<1> HIDE DEF made, entry, hasPrefill, owner
<1>18. DOMAIN step' = DOMAIN s /\ DOMAIN s = 1 .. Cardinality(entries)
  BY <1>15, <1>16
<1>19. step' \in Seq(EntrySet)
  <2>1. \A i \in DOMAIN s : step'[i] \in EntrySet
    BY <1>14, <1>17
  <2>2. step' \in [1 .. Cardinality(entries) -> EntrySet]
    BY <1>15, <1>18, <2>1
  <2> HIDE DEF entries
  <2> QED
    BY <1>16, <2>2
<1>20. TypeOK'
  <2>1. announced' \in [Reqs -> 0 .. MaxLen]
    <3>1. ASSUME NEW r \in scheduled PROVE plan[r].start + plan[r].q \in 0 .. MaxLen
      <4>1. row(owner[r]).upper = plan[r].start
        BY <1>12
      <4>2. /\ plan[r].start \in Nat /\ plan[r].q \in Nat /\ plan[r].start + plan[r].q <= MaxLen
        BY <1>12, <4>1
      <4> QED
        BY <1>0, <4>2
    <3> QED
      BY <1>1, <1>4, <3>1 DEF TypeOK
  <2>2. status' \in [Reqs -> {"waiting", "running", "finished"}]
    BY <1>1, <1>4 DEF TypeOK
  <2>3. Len(inFlight') + (IF step' = <<>> THEN 0 ELSE 1) <= MaxInFlight
    BY <1>0, <1>4, <1>5
  <2> QED
    BY <1>1, <1>4, <1>9, <1>13, <1>19, <2>1, <2>2, <2>3 DEF TypeOK
<1>21. PlaceInv'
  <2>1. \A r \in Reqs : status'[r] = "running" => r \in new \/ status[r] = "running"
    BY <1>4
  <2>2. \A r \in Reqs : status'[r] = "running" => rowOf'[r] # 0 /\ r \notin left'
    BY <1>4, <1>9, <2>1
  <2>3. \A r, o \in Reqs : rowOf'[r] = rowOf'[o] /\ rowOf'[r] # 0 => r = o
    BY <1>4, <1>9
  <2>4. \A r \in Reqs : status'[r] # "finished" => known'[r] < MaxLen
    BY <1>1, <1>4, <1>6 DEF PlaceInv
  <2> QED
    BY <2>2, <2>3, <2>4 DEF PlaceInv
\* A request that is not scheduled keeps its row, or loses it.
<1>22. ASSUME NEW r \in Reqs, r \notin scheduled, owner[r] # 0
       PROVE  /\ owner[r] = rowOf[r] /\ owner[r] \in 1 .. NumRows
              /\ states'[owner[r]] = states[rowOf[r]]
  <2>1. owner[r] = rowOf[r]
    BY <1>8, <1>22 DEF owner
  <2>2. owner[r] \in 1 .. NumRows
    BY <1>0, <1>9, <1>22
  <2>3. \A o \in scheduled : owner[o] # owner[r]
    BY <1>6, <1>9, <1>22
  <2> QED
    BY <1>11, <1>13, <2>1, <2>2, <2>3
<1>23. RowInv'
  <2>1. SUFFICES ASSUME NEW r \in Reqs, owner[r] # 0
                 PROVE  DecodeReady(states'[owner[r]])
    <3>1. rowOf' = owner
      BY <1>4
    <3> QED
      BY <3>1 DEF RowInv, DecodeReady
  <2>2. CASE r \in scheduled
    BY <1>9, <1>10, <1>12, <1>13, <2>2
  <2>3. CASE r \notin scheduled
    BY <1>1, <1>22, <2>1, <2>3 DEF RowInv
  <2> QED
    BY <2>2, <2>3
\* The entries agree with the new rows.
<1>24. ASSUME NEW i \in DOMAIN s
       PROVE  EntryInv(step[i])' /\ step'[i].q \in Nat \ {0} /\ step'[i].drafts \in {0, NumSpec}
              /\ (step'[i].drafts # 0 => step'[i].q = 1 + step'[i].drafts)
  <2>1. PICK r \in scheduled : step'[i] = made(r)
    BY <1>17
  <2> DEFINE x == step'[i]
  <2> DEFINE w == states'[owner[r]]
  <2>2. owner[r] \in 1 .. NumRows /\ w = row(owner[r])
    BY <1>10, <1>13
  <2>3. /\ x.req = r /\ x.row = owner[r] /\ x.q = plan[r].q /\ x.drafts = plan[r].drafts
        /\ x.start = w.computed /\ x.upper = w.upper + plan[r].q
        /\ x.input \in [1 .. x.q -> Int]
        /\ \A j \in 1 .. x.q - x.drafts : x.input[j] = x.start + j - 1
        /\ DraftsRight(x)
    BY <1>14, <2>1, <2>2
  <2>4. /\ w \in RowSet /\ plan[r].q \in Nat \ {0} /\ plan[r].drafts \in {0, NumSpec}
        /\ w.computed <= w.upper /\ w.upper + plan[r].q <= MaxLen
        /\ IF w.computed < w.prefill
           THEN plan[r].drafts = 0 /\ w.computed + plan[r].q <= w.prefill
           ELSE plan[r].q = 1 + plan[r].drafts
    BY <1>12, <2>2
  <2>5. rowOf'[x.req] = x.row /\ states'[x.row] = w
    BY <1>4, <2>3
  <2>6. x.start + x.q <= MaxLen /\ x.start + x.q <= x.upper
    <3>1. w.computed \in Nat /\ w.upper \in Nat
      BY <1>0, <2>4 DEF RowSet
    <3> QED
      BY <1>0, <2>3, <2>4, <3>1
  <2>7. IF x.start < w.prefill
        THEN x.drafts = 0 /\ x.start + x.q <= w.prefill
        ELSE x.q = 1 + x.drafts
    BY <2>3, <2>4
  <2> HIDE DEF w
  <2>8. EntryInv(step[i])'
    BY <2>3, <2>5, <2>6, <2>7 DEF EntryInv, DraftsRight
  <2> QED
    BY <2>3, <2>4, <2>7, <2>8
\* A request is in the step once.
<1>25. ASSUME NEW i \in DOMAIN s, NEW j \in DOMAIN s,
              step'[i].req = step'[j].req \/ step'[i].row = step'[j].row
       PROVE  i = j
  <2>1. PICK r \in scheduled : s[i] = entry(r) /\ step'[i] = made(r)
    BY <1>17
  <2>2. PICK o \in scheduled : s[j] = entry(o) /\ step'[j] = made(o)
    BY <1>17
  <2>3. /\ step'[i].req = r /\ step'[i].row = owner[r]
        /\ step'[j].req = o /\ step'[j].row = owner[o]
    BY <1>14, <2>1, <2>2
  <2>4. r \in Reqs /\ o \in Reqs /\ owner[r] # 0
    BY <1>0, <1>10
  <2>5. r = o
    BY <1>9, <1>25, <2>3, <2>4
  <2> QED
    BY <1>16, <2>1, <2>2, <2>5
<1>26. StepInv'
  <2>1. SUFFICES ASSUME NEW i \in DOMAIN s, NEW j \in DOMAIN s, i < j
                 PROVE  /\ step'[i].row # step'[j].row
                        /\ step'[j].q <= DecodeQueryLen => step'[i].q <= DecodeQueryLen
    <3>1. \A i \in DOMAIN step' : EntryInv(step[i])'
      BY <1>18, <1>24
    <3> HIDE DEF entries
    <3> QED
      BY <1>18, <3>1 DEF StepInv, DecodeQueryLen
  <2>2. i \in Int /\ j \in Int /\ i # j
    BY <1>16, <1>18, <2>1
  <2>3. step'[i].row # step'[j].row
    BY <1>25, <2>2
  <2>4. ASSUME step'[j].q <= DecodeQueryLen
        PROVE  step'[i].q <= DecodeQueryLen
    <3>1. PICK r \in scheduled : s[i] = entry(r) /\ step'[i] = made(r)
      BY <1>17
    <3>2. PICK o \in scheduled : s[j] = entry(o) /\ step'[j] = made(o)
      BY <1>17
    <3>3. /\ s[i].q = step'[i].q /\ s[i].drafts = step'[i].drafts
          /\ s[j].q = step'[j].q /\ s[j].drafts = step'[j].drafts
      BY <1>14, <3>1, <3>2 DEF entry
    <3>4. ~ SortsBefore(s[j], s[i])
      BY <1>16, <2>1
    <3>5. /\ s[i].q \in Nat /\ s[j].q \in Nat
          /\ s[i].drafts \in {0, NumSpec} /\ s[j].drafts \in {0, NumSpec}
          /\ s[i].drafts # 0 => s[i].q = 1 + s[i].drafts
      BY <1>24, <3>3
    <3>6. s[j].q <= DecodeQueryLen
      BY <2>4, <3>3
    <3>7. s[i].q <= DecodeQueryLen
      BY <3>4, <3>5, <3>6, DecodesFirst
    <3> QED
      BY <3>3, <3>7
  <2> QED
    BY <2>3, <2>4
\* Where the requests will be.
<1>27. ASSUME NEW r \in scheduled
       PROVE  Reached(r)' = row(owner[r]).computed + plan[r].q
  <2>1. entry(r) \in entries
    OBVIOUS
  <2>2. PICK i \in DOMAIN s : s[i] = entry(r)
    <3> HIDE DEF entries
    <3> QED
      BY <1>16, <2>1
  <2>3. PICK o \in scheduled : s[i] = entry(o) /\ step'[i] = made(o)
    BY <1>17
  <2>4. o = r
    BY <2>2, <2>3 DEF entry
  <2>5. step'[i].req = r /\ step'[i].start = row(owner[r]).computed /\ step'[i].q = plan[r].q
    BY <1>14, <2>3, <2>4
  <2>6. \A k \in DOMAIN step' : step'[k].req = step'[i].req => k = i
    BY <1>18, <1>25
  <2>7. ReachedIn(step', r, states'[rowOf'[r]].computed) = step'[i].start + step'[i].q
    BY <1>18, <2>5, <2>6, ReachedByEntry
  <2> QED
    BY <2>5, <2>7 DEF Reached
<1>28. ASSUME NEW r \in Reqs, r \notin scheduled
       PROVE  Reached(r)' = states'[owner[r]].computed
  <2>1. \A i \in DOMAIN step' : step'[i].req # r
    BY <1>14, <1>17, <1>18, <1>28
  <2> QED
    BY <1>4, <2>1, ReachedByRow DEF Reached
<1>29. AheadInv'
  <2>1. SUFFICES ASSUME NEW r \in Reqs, status'[r] = "running"
                 PROVE  \E f \in [0 .. L -> 0 .. MaxLen] : Settles(r, f)'
    BY <1>4 DEF AheadInv
  <2>2. 0 \in 0 .. L /\ L \in 0 .. L
    BY <1>5
  <2>3. CASE r \in scheduled
    <3> DEFINE w == row(owner[r])
    <3> DEFINE at == plan[r].start + plan[r].q
    <3>1. /\ owner[r] \in 1 .. NumRows /\ states'[owner[r]] = w /\ rowOf'[r] = owner[r]
          /\ announced'[r] = at /\ Reached(r)' = w.computed + plan[r].q
      BY <1>4, <1>10, <1>13, <1>27, <2>3
    <3>2. /\ w \in RowSet /\ plan[r].start \in Nat /\ plan[r].q \in Nat /\ w.upper = plan[r].start
          /\ plan[r].start + plan[r].q <= MaxLen
      BY <1>12, <2>3
    <3>3. w.computed \in Nat
      BY <1>0, <3>2 DEF RowSet
    <3>4. CASE status[r] = "running"
      <4>1. PICK f \in [0 .. L -> 0 .. MaxLen] : Settles(r, f)
        BY <1>1, <3>4 DEF AheadInv
      <4>2. /\ announced[r] = plan[r].start /\ w.computed = states[rowOf[r]].computed
            /\ w.prefill = states[rowOf[r]].prefill
        BY <1>12, <2>3, <3>4
      <4>3. f[0] = plan[r].start /\ f[L] = w.computed
        BY <1>5, <4>1, <4>2, ReachedIdle DEF Settles
      <4>4. \A i \in 0 .. L : f[i] \in Nat /\ f[i] + plan[r].q \in 0 .. MaxLen
        <5>1. SUFFICES ASSUME NEW i \in 0 .. L
                       PROVE  f[i] \in Nat /\ f[i] + plan[r].q \in 0 .. MaxLen
          OBVIOUS
        <5>2. f[0] >= f[i]
          <6>1. 0 <= i
            BY <1>5
          <6> QED
            BY <2>2, <4>1, <6>1 DEF Settles
        <5> QED
          BY SMTT(30), <1>0, <3>2, <4>1, <4>3, <5>2
      <4>5. PICK h \in [0 .. L -> 0 .. MaxLen] : \A i \in 0 .. L : h[i] = f[i] + plan[r].q
        <5>1. [i \in 0 .. L |-> f[i] + plan[r].q] \in [0 .. L -> 0 .. MaxLen]
          BY <4>4
        <5> QED
          BY <5>1
      <4>6. h[0] = announced'[r] /\ h[L] = Reached(r)'
        BY <2>2, <3>1, <4>3, <4>5
      <4>7. \A i \in 1 .. L : h[i] = h[i - 1] - RejectedIn(inFlight[i], r)
        <5>1. SUFFICES ASSUME NEW i \in 1 .. L
                       PROVE  h[i] = h[i - 1] - RejectedIn(inFlight[i], r)
          OBVIOUS
        <5>2. i \in 0 .. L /\ i - 1 \in 0 .. L
          BY <1>5
        <5>3. h[i] = f[i] + plan[r].q /\ h[i - 1] = f[i - 1] + plan[r].q
          BY <4>5, <5>2
        <5>4. f[i] = f[i - 1] - RejectedIn(inFlight[i], r)
          BY <4>1 DEF Settles
        <5>5. f[i - 1] \in Nat /\ RejectedIn(inFlight[i], r) \in Nat
          <6>1. inFlight[i] \in Outputs
            BY <1>5
          <6> QED
            BY <1>0, <4>4, <5>2, <6>1, OutputTypes
        <5> QED
          BY SMTT(30), <3>2, <5>3, <5>4, <5>5
      <4>8. \A i, j \in 0 .. L : i <= j => h[i] >= h[j]
        <5>1. SUFFICES ASSUME NEW i \in 0 .. L, NEW j \in 0 .. L, i <= j
                       PROVE  h[i] >= h[j]
          OBVIOUS
        <5>2. f[i] >= f[j]
          BY <4>1, <5>1 DEF Settles
        <5> QED
          BY <3>2, <4>4, <4>5, <5>2
      <4>9. \A i \in 0 .. L : h[i] # h[L] => w.computed >= w.prefill
        BY <2>2, <4>1, <4>2, <4>5 DEF Settles
      <4> HIDE DEF w, at
      <4>10. Settles(r, h)'
        BY <1>4, <3>1, <4>6, <4>7, <4>8, <4>9 DEF Settles
      <4> QED
        BY <4>5, <4>10
    <3>5. CASE status[r] # "running"
      <4>1. MayStart(r) /\ w.computed = plan[r].start
        BY <1>10, <1>12, <2>3, <3>5
      <4>2. \A i \in 1 .. L : RejectedIn(inFlight[i], r) = 0
        BY <1>5, <4>1 DEF MayStart, InFlight, RejectedIn
      <4>3. at \in 0 .. MaxLen /\ Reached(r)' = at
        BY <1>0, <3>1, <3>2, <4>1
      <4>4. PICK h \in [0 .. L -> 0 .. MaxLen] : \A i \in 0 .. L : h[i] = at
        <5> HIDE DEF at
        <5>1. [i \in 0 .. L |-> at] \in [0 .. L -> 0 .. MaxLen]
          BY <4>3
        <5> QED
          BY <5>1
      <4>5. h[0] = announced'[r] /\ h[L] = Reached(r)'
        BY <2>2, <3>1, <4>3, <4>4
      <4> HIDE DEF w, at
      <4>6. \A i \in 1 .. L : i \in 0 .. L /\ i - 1 \in 0 .. L
        BY <1>5
      <4>7. \A i \in 1 .. L : h[i] = h[i - 1] - RejectedIn(inFlight[i], r)
        BY <1>0, <4>2, <4>3, <4>4, <4>6
      <4>8. \A i, j \in 0 .. L : h[i] >= h[j]
        BY <1>0, <4>3, <4>4
      <4>9. \A i \in 0 .. L : h[i] = h[L]
        BY <2>2, <4>4
      <4>10. Settles(r, h)'
        BY <1>4, <4>5, <4>7, <4>8, <4>9 DEF Settles
      <4> QED
        BY <4>4, <4>10
    <3> QED
      BY <3>4, <3>5
  <2>4. CASE r \notin scheduled
    <3>1. status[r] = "running" /\ announced'[r] = announced[r] /\ rowOf'[r] = owner[r]
      BY <1>4, <2>1, <2>4
    <3>2. owner[r] = rowOf[r] /\ owner[r] # 0
      BY <1>0, <1>9, <3>1
    <3>3. states'[rowOf'[r]] = states[rowOf[r]]
      BY <1>22, <2>4, <3>1, <3>2
    <3>4. Reached(r)' = Reached(r)
      BY <1>5, <1>28, <2>4, <3>1, <3>3, ReachedIdle
    <3>5. PICK f \in [0 .. L -> 0 .. MaxLen] : Settles(r, f)
      BY <1>1, <3>1 DEF AheadInv
    <3>6. Settles(r, f)'
      BY <1>4, <3>1, <3>3, <3>4, <3>5 DEF Settles
    <3> QED
      BY <3>6
  <2> QED
    BY <2>3, <2>4
<1>30. KnownInv'
  <2>1. SUFFICES ASSUME NEW r \in Reqs
                 PROVE  \E g \in [0 .. L -> 1 .. MaxLen + 1] : Learns(r, g)'
    BY <1>4 DEF KnownInv
  <2>2. known[r] \in 1 .. MaxLen + 1
    BY <1>1 DEF TypeOK
  <2> DEFINE w == states'[owner[r]]
  <2>3. Due(r)' = IF w.computed >= w.prefill THEN w.computed + 1 ELSE w.prefill
    BY <1>4 DEF Due
  <2>4. CASE r \in new
    <3>1. r \in scheduled /\ MayStart(r) /\ status[r] # "running"
      BY <1>6, <2>4
    <3>2. w = row(owner[r])
      BY <1>10, <1>13, <3>1
    <3>3. /\ w.computed = plan[r].start /\ w.prefill = known[r] /\ plan[r].start < known[r]
          /\ plan[r].start \in Nat
      BY <1>12, <3>1, <3>2
    <3>4. Due(r)' = known[r]
      BY <2>2, <2>3, <3>3
    <3>5. \A i \in 1 .. L : TokensIn(inFlight[i], r) = 0
      BY <1>5, <3>1 DEF MayStart, InFlight, TokensIn
    <3>6. PICK g \in [0 .. L -> 1 .. MaxLen + 1] : \A i \in 0 .. L : g[i] = known[r]
      <4>1. [i \in 0 .. L |-> known[r]] \in [0 .. L -> 1 .. MaxLen + 1]
        BY <2>2
      <4> QED
        BY <4>1
    <3>7. 0 \in 0 .. L /\ L \in 0 .. L /\ \A i \in 1 .. L : i \in 0 .. L /\ i - 1 \in 0 .. L
      BY <1>5
    <3>8. \A i \in 1 .. L : g[i] = g[i - 1] + TokensIn(inFlight[i], r)
      BY <1>0, <2>2, <3>5, <3>6, <3>7
    <3>9. g[0] = known[r] /\ g[L] = Due(r)'
      BY <3>4, <3>6, <3>7
    <3>10. Learns(r, g)'
      BY <1>4, <3>8, <3>9 DEF Learns
    <3> QED
      BY <3>10
  <2>5. CASE r \notin new
    <3>1. PICK g \in [0 .. L -> 1 .. MaxLen + 1] : Learns(r, g)
      BY <1>1 DEF KnownInv
    <3>2. ASSUME status'[r] = "running" PROVE g[L] = Due(r)'
      <4>1. status[r] = "running"
        BY <1>4, <2>5, <3>2
      <4>2. w.computed = states[rowOf[r]].computed /\ w.prefill = states[rowOf[r]].prefill
        <5>1. CASE r \in scheduled
          <6>1. w = row(owner[r])
            BY <1>10, <1>13, <5>1
          <6> QED
            BY <1>12, <4>1, <5>1, <6>1
        <5>2. CASE r \notin scheduled
          <6>1. owner[r] # 0 /\ owner[r] = rowOf[r]
            BY <1>0, <1>9, <4>1
          <6> QED
            BY <1>22, <5>2, <6>1
        <5> QED
          BY <5>1, <5>2
      <4>3. g[L] = Due(r)
        BY <3>1, <4>1 DEF Learns
      <4> QED
        BY <2>3, <4>2, <4>3 DEF Due
    <3>3. Learns(r, g)'
      BY <1>4, <3>1, <3>2 DEF Learns
    <3> QED
      BY <3>3
  <2> QED
    BY <2>4, <2>5
<1> QED
  BY <1>20, <1>21, <1>23, <1>26, <1>29, <1>30 DEF IInv
-----------------------------------------------------------------------------
(* The specification.                                                      *)

\* Nothing changes: nor does the invariant.
LEMMA StutterKeepsInv ==
    ASSUME IInv, UNCHANGED vars
    PROVE  IInv'
<1>1. /\ status' = status /\ known' = known /\ announced' = announced /\ left' = left
      /\ inFlight' = inFlight /\ preemptions' = preemptions /\ rowOf' = rowOf
      /\ states' = states /\ step' = step
  BY DEF vars
<1>2. TypeOK' /\ PlaceInv'
  BY <1>1 DEF IInv, TypeOK, PlaceInv
<1>3. RowInv' /\ StepInv'
  BY <1>1 DEF IInv, RowInv, StepInv, EntryInv
<1>4. ASSUME NEW r \in Reqs, NEW f, Settles(r, f) PROVE Settles(r, f)'
  BY <1>1, <1>4 DEF Settles, Reached
<1>5. ASSUME NEW r \in Reqs, NEW g, Learns(r, g) PROVE Learns(r, g)'
  BY <1>1, <1>5 DEF Learns, Due
<1>6. AheadInv'
  BY <1>1, <1>4 DEF IInv, AheadInv
<1>7. KnownInv'
  BY <1>1, <1>5 DEF IInv, KnownInv
<1> QED
  BY <1>2, <1>3, <1>6, <1>7 DEF IInv

\* The invariant holds in every behaviour.
THEOREM Agreement == ASSUME RunnerAssumption PROVE Spec => []IInv
<1>1. Init => IInv
  BY InitInv
<1>2. IInv /\ [Next]_vars => IInv'
  <2> SUFFICES ASSUME IInv, [Next]_vars PROVE IInv'
    OBVIOUS
  <2>1. CASE Step
    BY <2>1, StepKeepsInv
  <2>2. CASE Sample
    BY <2>2, SampleInv
  <2>3. CASE Arrive
    BY <2>3, ArriveInv
  <2>4. ASSUME NEW r \in Reqs, NEW kept \in BOOLEAN, Preempt(r, kept) PROVE IInv'
    BY <2>4, PreemptInv
  <2>5. CASE UNCHANGED vars
    BY <2>5, StutterKeepsInv
  <2> QED
    BY <2>1, <2>2, <2>3, <2>4, <2>5 DEF Next
<1> QED
  BY <1>1, <1>2, PTL DEF Spec

\* Every variable keeps its type: the lengths the host announces and those the GPU
\* counts stay within what a request may have, and no more steps are in flight than
\* allowed (model_runner.py:1180, 2084).
THEOREM TypeCorrect == ASSUME RunnerAssumption PROVE Spec => []TypeOK
<1>1. IInv => TypeOK
  BY DEF IInv
<1> QED
  BY <1>1, Agreement, PTL

\* The rows to sample from are rows of the entry, and its tokens are right.
LEMMA EntryRight ==
    ASSUME RunnerAssumption, NEW e \in EntrySet, EntryInv(e)
    PROVE  /\ \A j \in 1 .. e.q : \/ e.input[j] = e.start + j - 1
                                  \/ j > e.q - e.drafts /\ e.input[j] = Wrong
           /\ e.start + e.q <= e.upper
           /\ NumLogits(e) <= e.q
<1>0. /\ NumSpec \in Nat /\ e.q \in Nat \ {0} /\ e.drafts \in Nat /\ e.start \in Nat
      /\ MaxLen \in Nat
  BY Constants DEF EntrySet
<1>1. e.drafts = 0 \/ e.q = 1 + e.drafts
  BY DEF EntryInv
<1>2. NumLogits(e) <= e.q
  BY <1>0, <1>1 DEF NumLogits
<1>3. ASSUME NEW j \in 1 .. e.q
      PROVE  \/ e.input[j] = e.start + j - 1
             \/ j > e.q - e.drafts /\ e.input[j] = Wrong
  <2>1. CASE j <= e.q - e.drafts
    <3>1. j \in 1 .. e.q - e.drafts
      BY <1>0, <2>1
    <3> QED
      BY <3>1 DEF EntryInv
  <2>2. CASE j > e.q - e.drafts
    <3>1. PICK n \in 0 .. e.drafts : \A i \in 1 .. e.drafts :
            e.input[e.q - e.drafts + i] =
              IF i <= n THEN e.start + e.q - e.drafts + i - 1 ELSE Wrong
      BY DEF EntryInv, DraftsRight
    <3> DEFINE i == j - (e.q - e.drafts)
    <3>2. i \in 1 .. e.drafts /\ e.q - e.drafts + i = j
          /\ e.start + e.q - e.drafts + i - 1 = e.start + j - 1
      BY <1>0, <2>2
    <3> HIDE DEF i
    <3> QED
      BY <2>2, <3>1, <3>2
  <2> QED
    BY <1>0, <2>1, <2>2
<1>4. e.start + e.q <= e.upper
  BY DEF EntryInv
<1> QED
  BY <1>2, <1>3, <1>4

\* Whatever was preempted, rejected or still on its way, every request of a step gets
\* the tokens that belong at the positions it computes, and drafts only after them;
\* its length on the host is no less than the one on the GPU; the rows to sample from
\* are its own; and the requests that count as decodes lead (model_runner.py:1180,
\* 1214, 1283, 2084).
THEOREM StepsFedRight == ASSUME RunnerAssumption PROVE Spec => []InputsRight
<1>1. IInv => InputsRight
  <2> SUFFICES ASSUME IInv PROVE InputsRight
    OBVIOUS
  <2>1. step \in Seq(EntrySet) /\ StepInv
    BY DEF IInv, TypeOK
  <2>2. ASSUME NEW i \in DOMAIN step
        PROVE  LET e == step[i]
               IN  /\ \A j \in 1 .. e.q : \/ e.input[j] = e.start + j - 1
                                          \/ j > e.q - e.drafts /\ e.input[j] = Wrong
                   /\ e.start + e.q <= e.upper
                   /\ NumLogits(e) <= e.q
    <3>1. step[i] \in EntrySet /\ EntryInv(step[i])
      BY <2>1 DEF StepInv
    <3> QED
      BY <3>1, EntryRight
  <2> QED
    BY <2>1, <2>2 DEF InputsRight, StepInv
<1> QED
  BY <1>1, Agreement, PTL
-----------------------------------------------------------------------------
(***************************************************************************)
(* The raw keys of the sparse attention that a worker's steps and draft    *)
(* loop leave (QsaCache), for any ratio, number of drafts, block size and  *)
(* table: the ring of a request never loses a raw key of the group that is *)
(* open, so every complete group is pooled from its own accepted tokens.   *)
(*                                                                         *)
(* The metadata of a step is made by folds.  The steps are of one request, *)
(* so they fold over one element or none (FoldNone, FoldOne, OneOwner).    *)
(* KeysStored and RingStored say what a step leaves in the two caches, and *)
(* the steps of the request are about those.                               *)
(***************************************************************************)
CONSTANTS
    Ratio, Drafts, StorageBlock, Table, MaxRows, MaxReqs, Starts, Queries, BlockTopK, BlockN,
    TargetSplits

VARIABLES written, drafted, ring, keys

\* The cache of a request.
Qsa == INSTANCE QsaCache WITH R <- Ratio, NumSpec <- Drafts, computed <- written

\* The batch of a step.
One(s, n) == <<[start |-> s, q |-> n]>>

-----------------------------------------------------------------------------
(* Folds over one element and none.                                        *)

\* A fold over no element.
LEMMA FoldNone ==
    ASSUME NEW seq, DOMAIN seq = {}
    PROVE  Qsa!FoldLeft(LAMBDA sum, c : sum + c, 0, seq) = 0
<1> DEFINE Sum(f) == [s \in SUBSET {} |->
                          IF s = {} THEN 0
                          ELSE f[s \ {Qsa!Max(s)}] + seq[Qsa!Max(s)]]
           iter == CHOOSE f : f = Sum(f)
           none == [s \in SUBSET {} |-> 0]
<1>1. none = Sum(none)
  OBVIOUS
<1>2. iter = Sum(iter)
  BY <1>1
<1>3. iter[{}] = 0
  <2> HIDE DEF iter
  <2> QED
    BY <1>2
<1> QED
  BY <1>3 DEF Qsa!FoldLeft, Qsa!MapThenFoldSet

\* A fold over one element.
LEMMA FoldOne ==
    ASSUME NEW seq, NEW n \in Nat, DOMAIN seq = {1}, seq[1] = n
    PROVE  Qsa!FoldLeft(LAMBDA sum, c : sum + c, 0, seq) = n
<1> DEFINE Sum(f) == [s \in SUBSET {1} |->
                          IF s = {} THEN 0
                          ELSE f[s \ {Qsa!Max(s)}] + seq[Qsa!Max(s)]]
           iter == CHOOSE f : f = Sum(f)
           one == [s \in SUBSET {1} |-> IF s = {} THEN 0 ELSE n]
<1>0. Qsa!Max({1}) = 1
  BY DEF Qsa!Max
<1>1. one = Sum(one)
  <2> SUFFICES ASSUME NEW s \in SUBSET {1} PROVE one[s] = Sum(one)[s]
    OBVIOUS
  <2>1. CASE s = {}
    BY <2>1
  <2>2. CASE s = {1}
    <3>1. Sum(one)[s] = one[s \ {1}] + n
      BY <2>2, <1>0
    <3>2. s \ {1} = {} /\ one[s \ {1}] = 0 /\ one[s] = n
      BY <2>2
    <3> HIDE DEF one, Sum
    <3> QED
      BY <3>1, <3>2
  <2> QED
    BY <2>1, <2>2
<1>2. iter = Sum(iter)
  <2> HIDE DEF one, Sum
  <2> QED
    BY <1>1
<1>3. iter[{1}] = n
  <2> HIDE DEF iter
  <2>1. iter[{}] = 0
    BY <1>2
  <2>2. iter[{1}] = iter[{1} \ {1}] + n
    BY <1>2, <1>0
  <2> QED
    BY <2>1, <2>2
<1> QED
  BY <1>3 DEF Qsa!FoldLeft, Qsa!MapThenFoldSet

\* The rows of a step of one request start at zero and end after its tokens.
LEMMA OneStart ==
    ASSUME NEW s \in Nat, NEW n \in Nat
    PROVE  /\ DOMAIN Qsa!QueryStart(One(s, n)) = 0 .. 1
           /\ Qsa!QueryStart(One(s, n))[0] = 0 /\ Qsa!QueryStart(One(s, n))[1] = n
           /\ One(s, n)[1].start = s /\ One(s, n)[1].q = n /\ Len(One(s, n)) = 1
<1> DEFINE b == One(s, n)
           counts == [i \in DOMAIN b |-> b[i].q]
<1>1. /\ Len(b) = 1 /\ DOMAIN b = {1} /\ b[1].start = s /\ b[1].q = n
  BY DEF One
<1>2. counts \in Seq(Nat) /\ Len(counts) = 1 /\ DOMAIN counts = {1} /\ counts[1] = n
  <2>1. DOMAIN b = 1 .. 1 /\ counts = [i \in 1 .. 1 |-> b[i].q]
    BY <1>1
  <2>2. \A i \in 1 .. 1 : b[i].q = n
    BY <1>1
  <2> HIDE DEF b, counts
  <2> QED
    BY <2>1, <2>2
<1> HIDE DEF b, counts
<1>3. DOMAIN SubSeq(counts, 1, 0) = {}
  BY <1>2
<1>4. DOMAIN SubSeq(counts, 1, 1) = {1} /\ SubSeq(counts, 1, 1)[1] = n
  BY <1>2
<1>5. Qsa!FoldLeft(LAMBDA sum, c : sum + c, 0, SubSeq(counts, 1, 0)) = 0
  BY <1>3, FoldNone
<1>6. Qsa!FoldLeft(LAMBDA sum, c : sum + c, 0, SubSeq(counts, 1, 1)) = n
  BY <1>4, FoldOne
<1>7. Qsa!QueryStart(b) = Qsa!Offsets(counts)
  BY DEF Qsa!QueryStart, counts
<1>8. /\ DOMAIN Qsa!Offsets(counts) = 0 .. 1
      /\ Qsa!Offsets(counts)[0] = 0 /\ Qsa!Offsets(counts)[1] = n
  <2> DEFINE F(i) == Qsa!FoldLeft(LAMBDA sum, c : sum + c, 0, SubSeq(counts, 1, i))
  <2>1. Qsa!Offsets(counts) = [i \in 0 .. 1 |-> F(i)]
    BY <1>2 DEF Qsa!Offsets
  <2>2. F(0) = 0 /\ F(1) = n
    BY <1>5, <1>6
  <2> HIDE DEF F
  <2> QED
    BY <2>1, <2>2
<1> QED
  BY <1>1, <1>7, <1>8 DEF b

\* A batch of one request: every entry is its own.
LEMMA OneOwner ==
    ASSUME NEW offsets, NEW entry
    PROVE  Qsa!OwnerOf(offsets, 1, entry) = 0
<1> DEFINE bits == CHOOSE k \in 0 .. 1 : 2^k >= 1 /\ \A j \in 0 .. k - 1 : 2^j < 1
           steps == [k \in 1 .. bits |-> 2^(bits - k)]
<1>0. 2^0 = 1
  OBVIOUS
<1>1. bits = 0
  <2>1. 2^0 >= 1 /\ \A j \in 0 .. 0 - 1 : 2^j < 1
    BY <1>0
  <2>2. 0 \in 0 .. 0 /\ ~ (2^0 < 1)
    BY <1>0
  <2>3. ~ \A j \in 0 .. 1 - 1 : 2^j < 1
    BY <2>2
  <2>4. \A k \in 0 .. 1 : k = 0 \/ k = 1
    OBVIOUS
  <2> QED
    BY <2>1, <2>3, <2>4
<1>2. DOMAIN steps = {}
  <2> HIDE DEF bits
  <2>1. DOMAIN steps = 1 .. bits
    OBVIOUS
  <2> QED
    BY <1>1, <2>1
<1> DEFINE adv(c, width) == IF c + width < 1 /\ offsets[c + width] <= entry THEN c + width ELSE c
           Search(f) == [s \in SUBSET {} |->
                           IF s = {} THEN 0 ELSE adv(f[s \ {Qsa!Max(s)}], steps[Qsa!Max(s)])]
           iter == CHOOSE f : f = Search(f)
           none == [s \in SUBSET {} |-> 0]
<1>3. none = Search(none)
  <2> HIDE DEF bits, steps
  <2> QED
    OBVIOUS
<1>4. iter = Search(iter)
  <2> HIDE DEF bits, steps, Search, none
  <2> QED
    BY <1>3
<1>5. iter[{}] = 0
  <2> HIDE DEF iter, bits, steps
  <2> QED
    BY <1>4
<1>6. Qsa!OwnerOf(offsets, 1, entry) = iter[{}]
  <2>1. Qsa!OwnerOf(offsets, 1, entry) = Qsa!FoldLeft(adv, 0, steps)
    BY DEF Qsa!OwnerOf
  <2> HIDE DEF bits, steps
  <2>2. Qsa!FoldLeft(adv, 0, steps) = iter[{}]
    BY <1>2 DEF Qsa!FoldLeft, Qsa!MapThenFoldSet
  <2> QED
    BY <2>1, <2>2
<1> QED
  BY <1>5, <1>6

-----------------------------------------------------------------------------
(* Remainders and groups.                                                  *)

\* Quotient and remainder.
LEMMA ModSplit ==
    ASSUME NEW x \in Nat, NEW n \in Nat \ {0}
    PROVE  /\ x \div n \in Nat /\ x % n \in 0 .. n - 1
           /\ x = n * (x \div n) + (x % n)
<1> DEFINE q == x \div n
           r == x % n
<1>1. q \in Int
  OBVIOUS
<1>2. r \in 0 .. n - 1
  OBVIOUS
<1>3. x = n * q + r
  OBVIOUS
<1> HIDE DEF q, r
<1>4. q <= -1 => n * q <= -n
  BY <1>1
<1>5. q \in Nat
  BY <1>1, <1>2, <1>3, <1>4
<1> QED
  BY <1>2, <1>3, <1>5 DEF q, r

\* A number of this form has this remainder.
LEMMA ModUnique ==
    ASSUME NEW n \in Nat \ {0}, NEW q \in Nat, NEW r \in 0 .. n - 1
    PROVE  (n * q + r) % n = r
<1> DEFINE x == n * q + r
           p == x \div n
           s == x % n
<1>1. n * q \in Nat
  OBVIOUS
<1>2. x \in Nat
  BY <1>1
<1>3. p \in Nat /\ s \in 0 .. n - 1 /\ x = n * p + s
  BY <1>2, ModSplit
<1> HIDE DEF p, s
<1>4. n * (p - q) = n * p - n * q
  BY <1>3
<1>5. n * (p - q) = r - s
  BY <1>1, <1>3, <1>4
<1>6. p - q >= 1 => n * (p - q) >= n
  BY <1>3
<1>7. p - q <= -1 => n * (p - q) <= -n
  BY <1>3
<1>8. p = q
  BY <1>3, <1>5, <1>6, <1>7
<1> QED
  BY <1>3, <1>8, <1>5 DEF s

\* Numbers less than the modulus apart have different remainders.
LEMMA ModApart ==
    ASSUME NEW n \in Nat \ {0}, NEW a \in Nat, NEW b \in Nat, a < b, b < a + n
    PROVE  a % n # b % n
<1> DEFINE p == a \div n
           q == b \div n
<1>1. p \in Nat /\ a % n \in 0 .. n - 1 /\ a = n * p + (a % n)
  BY ModSplit
<1>2. q \in Nat /\ b % n \in 0 .. n - 1 /\ b = n * q + (b % n)
  BY ModSplit
<1> HIDE DEF p, q
<1> SUFFICES ASSUME a % n = b % n PROVE FALSE
  OBVIOUS
<1>3. n * (q - p) = n * q - n * p
  BY <1>1, <1>2
<1>4. n * (q - p) = b - a
  BY <1>1, <1>2, <1>3
<1>5. q - p >= 1 => n * (q - p) >= n
  BY <1>1, <1>2
<1>6. q - p <= 0 => n * (q - p) <= 0
  BY <1>1, <1>2
<1> QED
  BY <1>1, <1>2, <1>4, <1>5, <1>6

\* A number of this form has this quotient.
LEMMA DivUnique ==
    ASSUME NEW n \in Nat \ {0}, NEW q \in Nat, NEW r \in 0 .. n - 1
    PROVE  (n * q + r) \div n = q
<1> DEFINE x == n * q + r
           p == x \div n
<1>1. n * q \in Nat
  OBVIOUS
<1>2. x \in Nat
  BY <1>1
<1>3. p \in Nat /\ x % n = r /\ x = n * p + (x % n)
  BY <1>2, ModSplit, ModUnique
<1>4. n * p = n * q
  BY <1>1, <1>3
<1> HIDE DEF p, x
<1>5. n * (p - q) = n * p - n * q
  BY <1>3
<1>6. p - q >= 1 => n * (p - q) >= n
  BY <1>3
<1>7. p - q <= -1 => n * (p - q) <= -n
  BY <1>3
<1>8. p = q
  BY <1>1, <1>3, <1>4, <1>5, <1>6, <1>7
<1> QED
  BY <1>8 DEF p, x

\* The constants.
LEMMA QsaConstants ==
    ASSUME Qsa!QsaAssumption
    PROVE  /\ Ratio \in Nat \ {0} /\ StorageBlock \in Nat \ {0} /\ Drafts \in Nat
           /\ Len(Table) \in Nat /\ Qsa!Columns \in Nat /\ Qsa!MaxLen \in Nat
           /\ Qsa!Capacity \in Nat \ {0} /\ Qsa!Capacity >= Ratio + Drafts
<1>1. Ratio \in Nat \ {0} /\ StorageBlock \in Nat \ {0} /\ Drafts \in Nat /\ Len(Table) \in Nat
  BY DEF Qsa!QsaAssumption
<1>2. Qsa!Columns \in Nat /\ Qsa!MaxLen \in Nat
  BY <1>1 DEF Qsa!Columns, Qsa!MaxLen
<1> DEFINE c == (Ratio + Drafts + Ratio - 1) \div Ratio
<1>3. Ratio + Drafts + Ratio - 1 \in Nat
  BY <1>1
<1>4. c \in Nat /\ Ratio + Drafts + Ratio - 1 < Ratio * c + Ratio
  <2> DEFINE x == Ratio + Drafts + Ratio - 1
  <2> HIDE DEF x
  <2>1. /\ x \in Nat /\ x \div Ratio \in Nat /\ x % Ratio \in 0 .. Ratio - 1
        /\ x = Ratio * (x \div Ratio) + (x % Ratio)
    BY <1>1, <1>3, ModSplit DEF x
  <2>2. x < Ratio * (x \div Ratio) + Ratio
    BY <1>1, <2>1
  <2> QED
    BY <2>1, <2>2 DEF x
<1>5. Qsa!Capacity = Ratio * c
  BY DEF Qsa!Capacity, Qsa!Ceil
<1> HIDE DEF c
<1>6. Ratio * c \in Nat /\ Ratio * c >= Ratio + Drafts
  BY <1>1, <1>4
<1> QED
  BY <1>1, <1>2, <1>5, <1>6

\* A token and its group.
LEMMA GroupOf ==
    ASSUME Qsa!QsaAssumption, NEW p \in Nat
    PROVE  /\ p \div Ratio \in Nat /\ (p \div Ratio) * Ratio \in Nat
           /\ (p \div Ratio) * Ratio <= p /\ p < (p \div Ratio) * Ratio + Ratio
<1>1. Ratio \in Nat \ {0}
  BY QsaConstants
<1>2. /\ p \div Ratio \in Nat /\ p % Ratio \in 0 .. Ratio - 1
      /\ p = Ratio * (p \div Ratio) + (p % Ratio)
  BY <1>1, ModSplit
<1> DEFINE g == p \div Ratio
<1> HIDE DEF g
<1>3. g \in Nat /\ p % Ratio \in 0 .. Ratio - 1 /\ p = Ratio * g + (p % Ratio)
  BY <1>2 DEF g
<1>4. g * Ratio = Ratio * g /\ g * Ratio \in Nat
  BY <1>1, <1>3
<1>5. g * Ratio <= p /\ p < g * Ratio + Ratio
  BY <1>1, <1>3, <1>4
<1> QED
  BY <1>3, <1>4, <1>5 DEF g

\* Groups begin in their order.
LEMMA GroupsApart ==
    ASSUME Qsa!QsaAssumption, NEW g \in Nat, NEW h \in Nat, g < h
    PROVE  g * Ratio \in Nat /\ h * Ratio \in Nat /\ g * Ratio + Ratio <= h * Ratio
<1>1. Ratio \in Nat \ {0}
  BY QsaConstants
<1>2. (h - g) * Ratio = h * Ratio - g * Ratio /\ g * Ratio \in Nat /\ h * Ratio \in Nat
  BY <1>1
<1>3. h - g >= 1 => (h - g) * Ratio >= Ratio
  BY <1>1
<1> QED
  BY <1>1, <1>2, <1>3

\* The group of a token is the one that it is between the ends of.
LEMMA GroupUnique ==
    ASSUME Qsa!QsaAssumption, NEW p \in Nat, NEW g \in Nat, g * Ratio <= p, p < g * Ratio + Ratio
    PROVE  p \div Ratio = g
<1>1. p \div Ratio \in Nat /\ (p \div Ratio) * Ratio <= p /\ p < (p \div Ratio) * Ratio + Ratio
  BY GroupOf
<1> DEFINE h == p \div Ratio
<1> HIDE DEF h
<1>2. h \in Nat /\ h * Ratio <= p /\ p < h * Ratio + Ratio
  BY <1>1 DEF h
<1>0. Ratio \in Nat \ {0} /\ g * Ratio \in Nat /\ h * Ratio \in Nat
  BY <1>2, QsaConstants
<1>3. ~ (g < h)
  BY <1>0, <1>2, GroupsApart
<1>4. ~ (h < g)
  BY <1>0, <1>2, GroupsApart
<1>5. g = h
  BY <1>2, <1>3, <1>4
<1> QED
  BY <1>5 DEF h

\* The groups of a shorter sequence are complete in a longer one.
LEMMA GroupsMonotone ==
    ASSUME Qsa!QsaAssumption, NEW p \in Nat, NEW t \in Nat, p <= t
    PROVE  p \div Ratio <= t \div Ratio
<1> DEFINE g == p \div Ratio
           h == t \div Ratio
<1>1. /\ g \in Nat /\ g * Ratio \in Nat /\ g * Ratio <= p
      /\ h \in Nat /\ h * Ratio \in Nat /\ t < h * Ratio + Ratio
  BY GroupOf
<1> HIDE DEF g, h
<1>2. Ratio \in Nat \ {0}
  BY QsaConstants
<1>3. ~ (h < g)
  BY <1>1, <1>2, GroupsApart
<1>4. g <= h
  BY <1>1, <1>3
<1> QED
  BY <1>4 DEF g, h

\* A token closes its group if it is the last one of it.
LEMMA ClosesLast ==
    ASSUME Qsa!QsaAssumption, NEW p \in Nat
    PROVE  Qsa!Closes(p) <=> p = (p \div Ratio) * Ratio + Ratio - 1
<1> DEFINE g == p \div Ratio
<1>1. Ratio \in Nat \ {0}
  BY QsaConstants
<1>2. g \in Nat /\ g * Ratio \in Nat /\ g * Ratio <= p /\ p < g * Ratio + Ratio
  BY GroupOf
<1> HIDE DEF g
<1>3. ASSUME p = g * Ratio + Ratio - 1 PROVE Qsa!Closes(p)
  <2>1. p + 1 = Ratio * (g + 1) + 0
    <3>1. Ratio * (g + 1) = Ratio * g + Ratio /\ Ratio * g = g * Ratio
      BY <1>1, <1>2
    <3> QED
      BY <1>1, <1>2, <1>3, <3>1
  <2>2. g + 1 \in Nat /\ 0 \in 0 .. Ratio - 1
    BY <1>1, <1>2
  <2>3. (Ratio * (g + 1) + 0) % Ratio = 0
    BY <1>1, <2>2, ModUnique
  <2> QED
    BY <2>1, <2>3 DEF Qsa!Closes
<1>4. ASSUME p # g * Ratio + Ratio - 1 PROVE ~ Qsa!Closes(p)
  <2>1. p + 1 = Ratio * g + (p + 1 - g * Ratio) /\ p + 1 - g * Ratio \in 1 .. Ratio - 1
    <3>1. Ratio * g = g * Ratio
      BY <1>1, <1>2
    <3> QED
      BY <1>1, <1>2, <1>4, <3>1
  <2> DEFINE r == p + 1 - g * Ratio
  <2> HIDE DEF r
  <2>2. p + 1 = Ratio * g + r /\ r \in 0 .. Ratio - 1 /\ r # 0
    BY <2>1 DEF r
  <2>3. (Ratio * g + r) % Ratio = r
    BY <1>1, <1>2, <2>2, ModUnique
  <2> QED
    BY <2>2, <2>3 DEF Qsa!Closes
<1> QED
  BY <1>3, <1>4 DEF g
-----------------------------------------------------------------------------
(* Slots.                                                                  *)

\* The block of a compressed key is in the table.
LEMMA ColumnBlock ==
    ASSUME Qsa!QsaAssumption, NEW g \in 0 .. Qsa!Columns - 1
    PROVE  /\ g \div StorageBlock \in 0 .. Len(Table) - 1
           /\ g % StorageBlock \in 0 .. StorageBlock - 1
           /\ g = StorageBlock * (g \div StorageBlock) + (g % StorageBlock)
           /\ Table[g \div StorageBlock + 1] \in Nat
<1>1. StorageBlock \in Nat \ {0} /\ Len(Table) \in Nat /\ Qsa!Columns \in Nat
  BY QsaConstants
<1> DEFINE d == g \div StorageBlock
           r == g % StorageBlock
<1>2. d \in Nat /\ r \in 0 .. StorageBlock - 1 /\ g = StorageBlock * d + r
  <2>1. g \in Nat
    BY <1>1
  <2> QED
    BY <1>1, <2>1, ModSplit
<1>3. g < Len(Table) * StorageBlock
  BY <1>1 DEF Qsa!Columns
<1> HIDE DEF d, r
<1>4. d < Len(Table)
  <2> SUFFICES ASSUME d >= Len(Table) PROVE FALSE
    BY <1>1, <1>2
  <2>1. StorageBlock * (d - Len(Table)) = StorageBlock * d - Len(Table) * StorageBlock
    BY <1>1, <1>2
  <2>2. d - Len(Table) \in Nat
    BY <1>1, <1>2
  <2>3. StorageBlock * (d - Len(Table)) >= 0
    BY <1>1, <2>2
  <2> QED
    BY <1>1, <1>2, <1>3, <2>1, <2>3
<1>5. Table[d + 1] \in Nat
  BY <1>1, <1>2, <1>4 DEF Qsa!QsaAssumption
<1> QED
  BY <1>2, <1>4, <1>5, <1>1 DEF d, r

\* A compressed key has a slot in its block.
LEMMA SlotOf ==
    ASSUME Qsa!QsaAssumption, NEW g \in 0 .. Qsa!Columns - 1
    PROVE  /\ Qsa!PhysicalSlot(g) \in Nat
           /\ Qsa!PhysicalSlot(g) \div StorageBlock = Table[g \div StorageBlock + 1]
           /\ Qsa!PhysicalSlot(g) % StorageBlock = g % StorageBlock
<1>1. StorageBlock \in Nat \ {0} /\ Len(Table) \in Nat
  BY QsaConstants
<1> DEFINE t == Table[g \div StorageBlock + 1]
           r == g % StorageBlock
<1>2. t \in Nat /\ r \in 0 .. StorageBlock - 1 /\ g \div StorageBlock < Len(Table)
  BY <1>1, ColumnBlock
<1>3. Qsa!PhysicalSlot(g) = t * StorageBlock + r
  BY <1>2 DEF Qsa!PhysicalSlot
<1> HIDE DEF t, r
<1>4. t * StorageBlock = StorageBlock * t /\ t * StorageBlock \in Nat
  BY <1>1, <1>2
<1>5. (StorageBlock * t + r) \div StorageBlock = t /\ (StorageBlock * t + r) % StorageBlock = r
  BY <1>1, <1>2, DivUnique, ModUnique
<1>6. Qsa!PhysicalSlot(g) = StorageBlock * t + r
  BY <1>3, <1>4
<1>7. Qsa!PhysicalSlot(g) \in Nat
  BY <1>1, <1>2, <1>3, <1>4
<1> QED
  BY <1>5, <1>6, <1>7 DEF t, r

\* No two compressed keys have the same slot.
LEMMA SlotsApart ==
    ASSUME Qsa!QsaAssumption, NEW g \in 0 .. Qsa!Columns - 1, NEW h \in 0 .. Qsa!Columns - 1,
           Qsa!PhysicalSlot(g) = Qsa!PhysicalSlot(h)
    PROVE  g = h
<1>1. Table[g \div StorageBlock + 1] = Table[h \div StorageBlock + 1]
      /\ g % StorageBlock = h % StorageBlock
  BY SlotOf
<1>2. /\ g \div StorageBlock + 1 \in DOMAIN Table /\ h \div StorageBlock + 1 \in DOMAIN Table
  <2>1. DOMAIN Table = 1 .. Len(Table) /\ Len(Table) \in Nat
    BY DEF Qsa!QsaAssumption
  <2>2. g \div StorageBlock \in 0 .. Len(Table) - 1 /\ h \div StorageBlock \in 0 .. Len(Table) - 1
    BY ColumnBlock
  <2> DEFINE d == g \div StorageBlock
             e == h \div StorageBlock
  <2> HIDE DEF d, e
  <2>3. d \in 0 .. Len(Table) - 1 /\ e \in 0 .. Len(Table) - 1
    BY <2>2 DEF d, e
  <2>4. d + 1 \in 1 .. Len(Table) /\ e + 1 \in 1 .. Len(Table)
    BY <2>1, <2>3
  <2> QED
    BY <2>1, <2>4 DEF d, e
<1>3. g \div StorageBlock + 1 = h \div StorageBlock + 1
  BY <1>1, <1>2 DEF Qsa!QsaAssumption, Qsa!IsInjective
<1>4. g \div StorageBlock = h \div StorageBlock
  <2> DEFINE d == g \div StorageBlock
             e == h \div StorageBlock
  <2>1. d \in Int /\ e \in Int /\ d + 1 = e + 1
    BY <1>3, ColumnBlock
  <2> HIDE DEF d, e
  <2>2. d = e
    BY <2>1
  <2> QED
    BY <2>2 DEF d, e
<1>5. /\ g = StorageBlock * (g \div StorageBlock) + (g % StorageBlock)
      /\ h = StorageBlock * (h \div StorageBlock) + (h % StorageBlock)
  BY ColumnBlock
<1> QED
  BY <1>1, <1>4, <1>5
-----------------------------------------------------------------------------
(* A step of one request.                                                  *)

\* Its rows.
LEMMA OneRow ==
    ASSUME NEW s \in Nat, NEW n \in Nat, NEW row \in 0 .. n - 1
    PROVE  /\ Qsa!Request(One(s, n), row) = 0
           /\ Qsa!Position(One(s, n), row) = s + row
           /\ Qsa!RingSlot(One(s, n), row) =
                IF row + Qsa!Capacity >= n THEN (s + row) % Qsa!Capacity ELSE Qsa!Pad
           /\ Qsa!KeySlot(One(s, n), row) =
                IF Qsa!Closes(s + row) THEN Qsa!PhysicalSlot((s + row) \div Ratio) ELSE Qsa!Pad
<1> DEFINE b == One(s, n)
<1>1. /\ Qsa!QueryStart(b)[0] = 0 /\ Qsa!QueryStart(b)[1] = n /\ Len(b) = 1
      /\ b[1].start = s
  BY OneStart
<1> HIDE DEF b
<1>2. Qsa!Request(b, row) = 0
  BY <1>1, OneOwner DEF Qsa!Request
<1>3. Qsa!Position(b, row) = s + row
  <2>1. Qsa!Position(b, row) = b[0 + 1].start + row - Qsa!QueryStart(b)[0]
    BY <1>2 DEF Qsa!Position
  <2>2. 0 + 1 = 1
    OBVIOUS
  <2>3. Qsa!Position(b, row) = s + row - 0
    BY <1>1, <2>1, <2>2
  <2> QED
    BY <2>3
<1>4. Qsa!RingSlot(b, row) = IF row + Qsa!Capacity >= n THEN (s + row) % Qsa!Capacity ELSE Qsa!Pad
  <2>1. Qsa!QueryStart(b)[Qsa!Request(b, row) + 1] = n
    BY <1>1, <1>2
  <2> QED
    BY <1>3, <2>1 DEF Qsa!RingSlot
<1>5. Qsa!KeySlot(b, row) =
        IF Qsa!Closes(s + row) THEN Qsa!PhysicalSlot((s + row) \div Ratio) ELSE Qsa!Pad
  BY <1>3 DEF Qsa!KeySlot
<1> QED
  BY <1>2, <1>3, <1>4, <1>5 DEF b

\* The members of a group in a step at s: those of before from the ring, the others
\* from the rows.
PooledFrom(s, raw, g) ==
    [o \in 1 .. Ratio |-> IF g * Ratio + o - 1 >= s THEN raw[g * Ratio + o - 1 - s]
                      ELSE ring[(g * Ratio + o - 1) % Qsa!Capacity]]

\* The members of the group that a row of it completes.
LEMMA OneGroup ==
    ASSUME Qsa!QsaAssumption, NEW s \in Nat, NEW n \in Nat, NEW row \in 0 .. n - 1, NEW raw,
           NEW g \in Nat, s + row = g * Ratio + Ratio - 1
    PROVE  Qsa!Pooled(One(s, n), row, raw) = PooledFrom(s, raw, g)
<1> DEFINE b == One(s, n)
<1>0. Ratio \in Nat \ {0} /\ g * Ratio \in Nat
  BY QsaConstants
<1>1. /\ Qsa!QueryStart(b)[0] = 0 /\ b[1].start = s
  BY OneStart
<1>2. Qsa!Request(b, row) = 0 /\ Qsa!Position(b, row) = s + row
  BY OneRow
<1> HIDE DEF b
<1> DEFINE chunkStart == b[Qsa!Request(b, row) + 1].start
           first == Qsa!QueryStart(b)[Qsa!Request(b, row)]
           pos(o) == Qsa!Position(b, row) - Ratio + o
<1>3. chunkStart = s /\ first = 0
  BY <1>1, <1>2
<1>4. \A o \in 1 .. Ratio : pos(o) = g * Ratio + o - 1 /\ 0 + pos(o) - s = g * Ratio + o - 1 - s
  BY <1>0, <1>2
<1>5. Qsa!Pooled(b, row, raw) =
        [o \in 1 .. Ratio |-> IF pos(o) >= chunkStart THEN raw[first + pos(o) - chunkStart]
                          ELSE ring[pos(o) % Qsa!Capacity]]
  BY DEF Qsa!Pooled
<1> HIDE DEF chunkStart, first, pos
<1>6. Qsa!Pooled(b, row, raw) =
        [o \in 1 .. Ratio |->
            IF pos(o) >= s THEN raw[0 + pos(o) - s] ELSE ring[pos(o) % Qsa!Capacity]]
  BY <1>3, <1>5
<1>7. Qsa!Pooled(b, row, raw) = PooledFrom(s, raw, g)
  BY <1>4, <1>6 DEF PooledFrom
<1> QED
  BY <1>7 DEF b

\* The group of a token that there is room for has a column.
LEMMA GroupColumn ==
    ASSUME Qsa!QsaAssumption, NEW p \in Nat, p < Qsa!MaxLen
    PROVE  p \div Ratio \in 0 .. Qsa!Columns - 1
<1> DEFINE g == p \div Ratio
<1>1. g \in Nat /\ g * Ratio \in Nat /\ g * Ratio <= p
  BY GroupOf
<1> HIDE DEF g
<1>2. Ratio \in Nat \ {0} /\ Qsa!Columns \in Nat
  BY QsaConstants
<1>3. p < Qsa!Columns * Ratio
  BY DEF Qsa!MaxLen
<1>4. ~ (Qsa!Columns < g)
  BY <1>1, <1>2, <1>3, GroupsApart
<1>5. g # Qsa!Columns
  BY <1>1, <1>2, <1>3
<1>6. g \in 0 .. Qsa!Columns - 1
  BY <1>1, <1>2, <1>4, <1>5
<1> QED
  BY <1>6 DEF g

\* A row has the slot of a group only if it completes the group.
LEMMA KeySlotOf ==
    ASSUME Qsa!QsaAssumption, NEW s \in Nat, NEW n \in Nat, s + n <= Qsa!MaxLen,
           NEW row \in 0 .. n - 1, NEW g \in 0 .. Qsa!Columns - 1
    PROVE  Qsa!KeySlot(One(s, n), row) = Qsa!PhysicalSlot(g) <=> s + row = g * Ratio + Ratio - 1
<1>0. Ratio \in Nat \ {0} /\ Qsa!MaxLen \in Nat /\ Qsa!Columns \in Nat
  BY QsaConstants
<1>1. s + row \in Nat /\ s + row < Qsa!MaxLen
  BY <1>0
<1> DEFINE p == s + row
           h == p \div Ratio
<1>2. Qsa!KeySlot(One(s, n), row) = IF Qsa!Closes(p) THEN Qsa!PhysicalSlot(h) ELSE Qsa!Pad
  BY OneRow
<1>3. h \in 0 .. Qsa!Columns - 1 /\ (Qsa!Closes(p) <=> p = h * Ratio + Ratio - 1)
  BY <1>1, GroupColumn, ClosesLast
<1>4. Qsa!PhysicalSlot(g) # Qsa!Pad
  BY SlotOf DEF Qsa!Pad
<1>5. ASSUME p = g * Ratio + Ratio - 1 PROVE h = g
  <2>1. g \in Nat /\ g * Ratio \in Nat /\ g * Ratio <= p /\ p < g * Ratio + Ratio /\ p \in Nat
    BY <1>0, <1>1, <1>5
  <2> QED
    BY <2>1, GroupUnique
<1> HIDE DEF p, h
<1>6. ASSUME Qsa!KeySlot(One(s, n), row) = Qsa!PhysicalSlot(g) PROVE p = g * Ratio + Ratio - 1
  <2>1. Qsa!Closes(p) /\ Qsa!PhysicalSlot(h) = Qsa!PhysicalSlot(g)
    BY <1>2, <1>4, <1>6
  <2>2. h = g
    BY <1>3, <2>1, SlotsApart
  <2> QED
    BY <1>3, <2>1, <2>2
<1>7. ASSUME p = g * Ratio + Ratio - 1 PROVE Qsa!KeySlot(One(s, n), row) = Qsa!PhysicalSlot(g)
  BY <1>2, <1>3, <1>5, <1>7
<1> QED
  BY <1>6, <1>7 DEF p

\* What a step leaves in the compressed keys: a group that a row completes is pooled,
\* any other is kept.
LEMMA KeysStored ==
    ASSUME Qsa!QsaAssumption, NEW s \in Nat, NEW n \in Nat, s + n <= Qsa!MaxLen,
           NEW raw, DOMAIN raw = 0 .. n - 1, Qsa!IndexStep(One(s, n), raw),
           DOMAIN keys = Qsa!KeySlots
    PROVE  /\ DOMAIN keys' = Qsa!KeySlots
           /\ \A g \in 0 .. Qsa!Columns - 1 :
                  (\A row \in 0 .. n - 1 : s + row # g * Ratio + Ratio - 1)
                      => keys'[Qsa!PhysicalSlot(g)] = keys[Qsa!PhysicalSlot(g)]
           /\ \A g \in 0 .. Qsa!Columns - 1, row \in 0 .. n - 1 :
                  s + row = g * Ratio + Ratio - 1
                      => keys'[Qsa!PhysicalSlot(g)] = PooledFrom(s, raw, g)
<1> DEFINE b == One(s, n)
           slotOf == [row \in 0 .. n - 1 |-> Qsa!KeySlot(b, row)]
           value == [row \in {t \in 0 .. n - 1 : Qsa!KeySlot(b, t) # Qsa!Pad} |->
                        Qsa!Pooled(b, row, raw)]
<1>1. keys' = Qsa!StoreRows(keys, slotOf, value)
  BY DEF Qsa!IndexStep
<1>2. DOMAIN slotOf = 0 .. n - 1 /\ \A row \in 0 .. n - 1 : slotOf[row] = Qsa!KeySlot(b, row)
  OBVIOUS
<1>3. \A row \in 0 .. n - 1 : Qsa!KeySlot(b, row) # Qsa!Pad => value[row] = Qsa!Pooled(b, row, raw)
  OBVIOUS
<1> HIDE DEF b, slotOf, value
<1>4. keys' = [x \in Qsa!KeySlots |->
                 IF \E row \in 0 .. n - 1 : slotOf[row] = x
                 THEN value[CHOOSE row \in 0 .. n - 1 : slotOf[row] = x] ELSE keys[x]]
  BY <1>1, <1>2 DEF Qsa!StoreRows
<1>5. \A g \in 0 .. Qsa!Columns - 1 : Qsa!PhysicalSlot(g) \in Qsa!KeySlots
  BY DEF Qsa!KeySlots
<1>6. \A g \in 0 .. Qsa!Columns - 1, row \in 0 .. n - 1 :
          slotOf[row] = Qsa!PhysicalSlot(g) <=> s + row = g * Ratio + Ratio - 1
  BY <1>2, KeySlotOf DEF b
<1>7. ASSUME NEW g \in 0 .. Qsa!Columns - 1, \A row \in 0 .. n - 1 : s + row # g * Ratio + Ratio - 1
      PROVE  keys'[Qsa!PhysicalSlot(g)] = keys[Qsa!PhysicalSlot(g)]
  <2>1. ~ \E row \in 0 .. n - 1 : slotOf[row] = Qsa!PhysicalSlot(g)
    BY <1>6, <1>7
  <2> QED
    BY <1>4, <1>5, <2>1
<1>8. ASSUME NEW g \in 0 .. Qsa!Columns - 1, NEW row \in 0 .. n - 1, s + row = g * Ratio + Ratio - 1
      PROVE  keys'[Qsa!PhysicalSlot(g)] = PooledFrom(s, raw, g)
  <2> DEFINE x == Qsa!PhysicalSlot(g)
             t == CHOOSE u \in 0 .. n - 1 : slotOf[u] = x
  <2>1. slotOf[row] = x
    BY <1>6, <1>8
  <2>2. t \in 0 .. n - 1 /\ slotOf[t] = x
    BY <2>1
  <2>3. keys'[x] = value[t]
    BY <1>4, <1>5, <2>1
  <2> HIDE DEF t
  <2>4. s + t = g * Ratio + Ratio - 1
    BY <1>6, <2>2
  <2>5. t = row
    <3>1. s + t = s + row
      BY <1>8, <2>4
    <3> QED
      BY <2>2, <3>1
  <2>6. Qsa!KeySlot(b, row) # Qsa!Pad
    BY <1>2, <2>1, SlotOf DEF Qsa!Pad
  <2>7. keys'[x] = Qsa!Pooled(b, row, raw)
    BY <1>3, <2>3, <2>5, <2>6
  <2>8. g \in Nat
    BY QsaConstants
  <2> QED
    BY <1>8, <2>7, <2>8, OneGroup DEF b
<1> QED
  BY <1>4, <1>7, <1>8

\* What a step leaves in the ring: the raw keys of its last rows, and those of the
\* tokens before it that are not a capacity away from its end.
LEMMA RingStored ==
    ASSUME Qsa!QsaAssumption, NEW s \in Nat, NEW n \in Nat,
           NEW raw, DOMAIN raw = 0 .. n - 1, Qsa!IndexStep(One(s, n), raw),
           DOMAIN ring = 0 .. Qsa!Capacity - 1
    PROVE  /\ DOMAIN ring' = 0 .. Qsa!Capacity - 1
           /\ \A x \in 0 .. Qsa!Capacity - 1 :
                  ring'[x] = ring[x] \/ \E row \in 0 .. n - 1 : ring'[x] = raw[row]
           /\ \A row \in 0 .. n - 1 :
                  row + Qsa!Capacity >= n => ring'[(s + row) % Qsa!Capacity] = raw[row]
           /\ \A p \in Nat :
                  p < s /\ s + n <= p + Qsa!Capacity
                      => ring'[p % Qsa!Capacity] = ring[p % Qsa!Capacity]
<1> DEFINE b == One(s, n)
           slotOf == [row \in 0 .. n - 1 |-> Qsa!RingSlot(b, row)]
<1>0. Qsa!Capacity \in Nat \ {0}
  BY QsaConstants
<1>1. ring' = Qsa!StoreRows(ring, slotOf, raw)
  BY DEF Qsa!IndexStep
<1>2. /\ DOMAIN slotOf = 0 .. n - 1
      /\ \A row \in 0 .. n - 1 :
            slotOf[row] = IF row + Qsa!Capacity >= n THEN (s + row) % Qsa!Capacity ELSE Qsa!Pad
  BY OneRow
<1> HIDE DEF b, slotOf
<1>3. ring' = [x \in 0 .. Qsa!Capacity - 1 |->
                 IF \E row \in 0 .. n - 1 : slotOf[row] = x
                 THEN raw[CHOOSE row \in 0 .. n - 1 : slotOf[row] = x] ELSE ring[x]]
  BY <1>1, <1>2 DEF Qsa!StoreRows
<1>4. \A p \in Nat : p % Qsa!Capacity \in 0 .. Qsa!Capacity - 1
  BY <1>0, ModSplit
<1>5. ASSUME NEW x \in 0 .. Qsa!Capacity - 1
      PROVE  ring'[x] = ring[x] \/ \E row \in 0 .. n - 1 : ring'[x] = raw[row]
  <2>1. CASE \E row \in 0 .. n - 1 : slotOf[row] = x
    <3> DEFINE t == CHOOSE row \in 0 .. n - 1 : slotOf[row] = x
    <3>1. t \in 0 .. n - 1 /\ ring'[x] = raw[t]
      BY <1>3, <2>1
    <3> QED
      BY <3>1
  <2>2. CASE ~ \E row \in 0 .. n - 1 : slotOf[row] = x
    BY <1>3, <2>2
  <2> QED
    BY <2>1, <2>2
<1>6. ASSUME NEW row \in 0 .. n - 1, row + Qsa!Capacity >= n
      PROVE  ring'[(s + row) % Qsa!Capacity] = raw[row]
  <2> DEFINE x == (s + row) % Qsa!Capacity
             t == CHOOSE u \in 0 .. n - 1 : slotOf[u] = x
  <2>0. s + row \in Nat
    OBVIOUS
  <2>1. x \in 0 .. Qsa!Capacity - 1
    BY <1>4, <2>0
  <2>2. slotOf[row] = x
    BY <1>2, <1>6
  <2>3. t \in 0 .. n - 1 /\ slotOf[t] = x
    BY <2>2
  <2>4. ring'[x] = raw[t]
    BY <1>3, <2>1, <2>2
  <2> HIDE DEF t
  <2>5. t + Qsa!Capacity >= n /\ (s + t) % Qsa!Capacity = x
    <3>1. x # Qsa!Pad
      BY <2>1 DEF Qsa!Pad
    <3> QED
      BY <1>2, <2>3, <3>1
  <2>6. s + t \in Nat
    BY <2>3
  <2>7. ~ (t < row)
    <3>1. t < row => s + t < s + row /\ s + row < s + t + Qsa!Capacity
      BY <1>0, <2>3, <2>5
    <3> QED
      BY <1>0, <2>0, <2>5, <2>6, <3>1, ModApart
  <2>8. ~ (row < t)
    <3>1. row < t => s + row < s + t /\ s + t < s + row + Qsa!Capacity
      BY <1>0, <1>6, <2>3
    <3> QED
      BY <1>0, <2>0, <2>5, <2>6, <3>1, ModApart
  <2>9. t = row
    BY <2>3, <2>7, <2>8
  <2> QED
    BY <2>4, <2>9
<1>7. ASSUME NEW p \in Nat, p < s, s + n <= p + Qsa!Capacity
      PROVE  ring'[p % Qsa!Capacity] = ring[p % Qsa!Capacity]
  <2> DEFINE x == p % Qsa!Capacity
  <2>1. x \in 0 .. Qsa!Capacity - 1
    BY <1>4
  <2>2. ASSUME NEW row \in 0 .. n - 1 PROVE slotOf[row] # x
    <3>1. CASE row + Qsa!Capacity >= n
      <4>1. s + row \in Nat /\ p < s + row /\ s + row < p + Qsa!Capacity
        BY <1>0, <1>7
      <4>2. p % Qsa!Capacity # (s + row) % Qsa!Capacity
        BY <1>0, <4>1, ModApart
      <4> QED
        BY <1>2, <3>1, <4>2
    <3>2. CASE ~ (row + Qsa!Capacity >= n)
      BY <1>2, <2>1, <3>2 DEF Qsa!Pad
    <3> QED
      BY <3>1, <3>2
  <2> QED
    BY <1>3, <2>1, <2>2
<1>8. DOMAIN ring' = 0 .. Qsa!Capacity - 1
  BY <1>3
<1> QED
  BY <1>5, <1>6, <1>7, <1>8
-----------------------------------------------------------------------------
(* The invariant.                                                          *)

\* The ring has the raw keys of the group that is open.
OpenGroupKept ==
    \A p \in (written \div Ratio) * Ratio .. written - 1 : ring[p % Qsa!Capacity] = p

\* The invariant.
QsaInv == Qsa!TypeOK /\ OpenGroupKept /\ Qsa!KeysPooledRight

\* The first state.
LEMMA QsaInit ==
    ASSUME Qsa!QsaAssumption, Qsa!Init
    PROVE  QsaInv
<1>1. /\ Ratio \in Nat \ {0} /\ Drafts \in Nat /\ Qsa!MaxLen \in Nat /\ Qsa!Capacity \in Nat \ {0}
  BY QsaConstants
<1>2. written = 0 /\ drafted = 0 /\ DOMAIN keys = Qsa!KeySlots
  BY DEF Qsa!Init
<1>3. ring \in [0 .. Qsa!Capacity - 1 -> -3 .. Qsa!MaxLen - 1]
  <2>1. Qsa!Stale \in -3 .. Qsa!MaxLen - 1
    BY <1>1 DEF Qsa!Stale
  <2>2. ring = [x \in 0 .. Qsa!Capacity - 1 |-> Qsa!Stale]
    BY DEF Qsa!Init
  <2> QED
    BY <2>1, <2>2
<1>4. Qsa!TypeOK
  BY <1>1, <1>2, <1>3 DEF Qsa!TypeOK
<1>5. 0 \div Ratio = 0
  <2>1. 0 \in Nat /\ 0 * Ratio <= 0 /\ 0 < 0 * Ratio + Ratio
    BY <1>1
  <2> QED
    BY <2>1, GroupUnique
<1>6. OpenGroupKept
  <2>1. (written \div Ratio) * Ratio .. written - 1 = {}
    BY <1>1, <1>2, <1>5
  <2> QED
    BY <2>1 DEF OpenGroupKept
<1>7. Qsa!KeysPooledRight
  <2>1. 0 .. written \div Ratio - 1 = {}
    BY <1>1, <1>2, <1>5
  <2> QED
    BY <2>1 DEF Qsa!KeysPooledRight
<1> QED
  BY <1>4, <1>6, <1>7 DEF QsaInv

\* A complete group of a sequence that has room has a column, and its members are
\* tokens of the sequence.
LEMMA GroupsOf ==
    ASSUME Qsa!QsaAssumption, NEW len \in 0 .. Qsa!MaxLen, NEW g \in 0 .. len \div Ratio - 1
    PROVE  g \in 0 .. Qsa!Columns - 1 /\ g * Ratio \in Nat /\ g * Ratio + Ratio <= len
<1>0. Ratio \in Nat \ {0} /\ Qsa!MaxLen \in Nat /\ Qsa!Columns \in Nat
  BY QsaConstants
<1> DEFINE h == len \div Ratio
<1>1. len \in Nat /\ h \in Nat /\ h * Ratio \in Nat /\ h * Ratio <= len
  BY <1>0, GroupOf
<1> HIDE DEF h
<1>2. g \in Nat /\ g < h
  BY <1>1 DEF h
<1>3. g * Ratio \in Nat /\ g * Ratio + Ratio <= h * Ratio
  BY <1>1, <1>2, GroupsApart
<1>4. g * Ratio + Ratio <= len
  BY <1>0, <1>1, <1>3
<1>5. g \in 0 .. Qsa!Columns - 1
  <2>1. g * Ratio < Qsa!MaxLen /\ g * Ratio < g * Ratio + Ratio
    BY <1>0, <1>3, <1>4
  <2>2. (g * Ratio) \div Ratio = g
    BY <1>2, <1>3, <2>1, GroupUnique
  <2> QED
    BY <1>3, <2>1, <2>2, GroupColumn
<1> QED
  BY <1>3, <1>4, <1>5

\* What the types say.
LEMMA QsaTypes ==
    ASSUME Qsa!QsaAssumption, Qsa!TypeOK
    PROVE  /\ Ratio \in Nat \ {0} /\ Drafts \in Nat /\ Qsa!Columns \in Nat /\ Qsa!MaxLen \in Nat
           /\ Qsa!Capacity \in Nat \ {0} /\ Qsa!Capacity >= Ratio + Drafts
           /\ written \in Nat /\ written <= Qsa!MaxLen /\ drafted \in Nat /\ drafted <= Drafts
           /\ DOMAIN ring = 0 .. Qsa!Capacity - 1 /\ DOMAIN keys = Qsa!KeySlots
           /\ written \div Ratio \in Nat /\ (written \div Ratio) * Ratio \in Nat
           /\ (written \div Ratio) * Ratio <= written
           /\ written < (written \div Ratio) * Ratio + Ratio
<1>1. /\ Ratio \in Nat \ {0} /\ Drafts \in Nat /\ Qsa!Columns \in Nat /\ Qsa!MaxLen \in Nat
      /\ Qsa!Capacity \in Nat \ {0} /\ Qsa!Capacity >= Ratio + Drafts
  BY QsaConstants
<1>2. /\ written \in Nat /\ written <= Qsa!MaxLen /\ drafted \in Nat /\ drafted <= Drafts
      /\ DOMAIN ring = 0 .. Qsa!Capacity - 1 /\ DOMAIN keys = Qsa!KeySlots
  BY <1>1 DEF Qsa!TypeOK
<1>3. /\ written \div Ratio \in Nat /\ (written \div Ratio) * Ratio \in Nat
      /\ (written \div Ratio) * Ratio <= written /\ written < (written \div Ratio) * Ratio + Ratio
  BY <1>2, GroupOf
<1> QED
  BY <1>1, <1>2, <1>3

\* A ring takes positions of the sequence and rejected drafts.
LEMMA RingType ==
    ASSUME Qsa!QsaAssumption, Qsa!TypeOK, NEW n \in Nat, NEW raw,
           DOMAIN ring' = 0 .. Qsa!Capacity - 1, ring' = [x \in DOMAIN ring' |-> ring'[x]],
           \A x \in 0 .. Qsa!Capacity - 1 :
               ring'[x] = ring[x] \/ \E row \in 0 .. n - 1 : ring'[x] = raw[row],
           \A row \in 0 .. n - 1 : raw[row] \in -3 .. Qsa!MaxLen - 1
    PROVE  ring' \in [0 .. Qsa!Capacity - 1 -> -3 .. Qsa!MaxLen - 1]
<1>1. ASSUME NEW x \in 0 .. Qsa!Capacity - 1 PROVE ring'[x] \in -3 .. Qsa!MaxLen - 1
  <2>1. ring[x] \in -3 .. Qsa!MaxLen - 1
    BY DEF Qsa!TypeOK
  <2> QED
    BY <2>1
<1> QED
  BY <1>1

\* A step of the target model.
LEMMA ForwardStep ==
    ASSUME Qsa!QsaAssumption, QsaInv, NEW n \in 1 .. MaxRows, NEW a \in 1 .. n, Qsa!Forward(n, a)
    PROVE  QsaInv'
<1> DEFINE s == written
           raw == [t \in 0 .. n - 1 |-> IF t < a THEN s + t ELSE Qsa!Rejected]
           g0 == s \div Ratio
           g1 == (s + a) \div Ratio
<1>1. Qsa!TypeOK /\ OpenGroupKept /\ Qsa!KeysPooledRight
  BY DEF QsaInv
<1>2. /\ Ratio \in Nat \ {0} /\ Drafts \in Nat /\ Qsa!Columns \in Nat /\ Qsa!MaxLen \in Nat
      /\ Qsa!Capacity \in Nat \ {0} /\ Qsa!Capacity >= Ratio + Drafts
      /\ s \in Nat /\ s <= Qsa!MaxLen
      /\ DOMAIN ring = 0 .. Qsa!Capacity - 1 /\ DOMAIN keys = Qsa!KeySlots
      /\ g0 \in Nat /\ g0 * Ratio \in Nat /\ g0 * Ratio <= s /\ s < g0 * Ratio + Ratio
  BY <1>1, QsaTypes
<1>3. /\ n \in Nat \ {0} /\ a \in Nat \ {0} /\ a <= n /\ n - a <= Drafts /\ s + n <= Qsa!MaxLen
  <2>1. MaxRows \in Nat \ {0}
    BY DEF Qsa!QsaAssumption
  <2>2. n - a <= Drafts /\ written + n <= Qsa!MaxLen
    BY DEF Qsa!Forward
  <2> QED
    BY <1>2, <2>1, <2>2
<1>4. written' = s + a /\ drafted' = 0
  BY DEF Qsa!Forward
<1>5. Qsa!IndexStep(One(s, n), raw)
  BY DEF Qsa!Forward, One
<1>6. /\ DOMAIN raw = 0 .. n - 1
      /\ \A t \in 0 .. n - 1 : t < a => raw[t] = s + t
      /\ \A t \in 0 .. n - 1 : raw[t] \in -3 .. Qsa!MaxLen - 1
  BY <1>2, <1>3 DEF Qsa!Rejected
<1>7. /\ g1 \in Nat /\ g1 * Ratio \in Nat /\ g1 * Ratio <= s + a /\ s + a < g1 * Ratio + Ratio
  <2>1. s + a \in Nat
    BY <1>2, <1>3
  <2> QED
    BY <2>1, GroupOf
<1> HIDE DEF raw
<1>8. /\ DOMAIN ring' = 0 .. Qsa!Capacity - 1
      /\ \A x \in 0 .. Qsa!Capacity - 1 :
             ring'[x] = ring[x] \/ \E row \in 0 .. n - 1 : ring'[x] = raw[row]
      /\ \A row \in 0 .. n - 1 :
             row + Qsa!Capacity >= n => ring'[(s + row) % Qsa!Capacity] = raw[row]
      /\ \A p \in Nat :
             p < s /\ s + n <= p + Qsa!Capacity => ring'[p % Qsa!Capacity] = ring[p % Qsa!Capacity]
  BY <1>2, <1>3, <1>5, <1>6, RingStored
<1>9. /\ DOMAIN keys' = Qsa!KeySlots
      /\ \A g \in 0 .. Qsa!Columns - 1 :
             (\A row \in 0 .. n - 1 : s + row # g * Ratio + Ratio - 1)
                 => keys'[Qsa!PhysicalSlot(g)] = keys[Qsa!PhysicalSlot(g)]
      /\ \A g \in 0 .. Qsa!Columns - 1, row \in 0 .. n - 1 :
             s + row = g * Ratio + Ratio - 1
                 => keys'[Qsa!PhysicalSlot(g)] = PooledFrom(s, raw, g)
  BY <1>2, <1>3, <1>5, <1>6, KeysStored
<1>10. Qsa!TypeOK'
  <2>1. ring' = [x \in DOMAIN ring' |-> ring'[x]]
    BY <1>5 DEF Qsa!IndexStep, Qsa!StoreRows
  <2>2. ring' \in [0 .. Qsa!Capacity - 1 -> -3 .. Qsa!MaxLen - 1]
    BY <1>1, <1>3, <1>6, <1>8, <2>1, RingType
  <2>3. written' \in 0 .. Qsa!MaxLen /\ drafted' \in 0 .. Drafts
    BY <1>2, <1>3, <1>4
  <2> QED
    BY <1>9, <2>2, <2>3 DEF Qsa!TypeOK
<1> HIDE DEF g0, g1
<1>11. OpenGroupKept'
  <2>a. written' \div Ratio = g1
    BY <1>4 DEF g1
  <2> SUFFICES ASSUME NEW p \in (written' \div Ratio) * Ratio .. written' - 1
               PROVE  ring'[p % Qsa!Capacity] = p
    BY DEF OpenGroupKept
  <2>b. p \in g1 * Ratio .. s + a - 1
    <3>1. (written' \div Ratio) * Ratio = g1 * Ratio
      BY <2>a
    <3>2. written' - 1 = s + a - 1
      BY <1>2, <1>3, <1>4
    <3> QED
      BY <3>1, <3>2
  <2>0. p \in Nat /\ p >= g1 * Ratio /\ p < s + a /\ p + Ratio > s + a
    BY <1>2, <1>3, <1>7, <2>b
  <2>1. CASE p >= s
    <3> DEFINE row == p - s
    <3>1. row \in 0 .. n - 1 /\ row < a /\ s + row = p /\ row + Qsa!Capacity >= n
      BY <1>2, <1>3, <2>0, <2>1
    <3> QED
      BY <1>6, <1>8, <3>1
  <2>2. CASE p < s
    <3>1. s + n <= p + Qsa!Capacity
      BY <1>2, <1>3, <2>0
    <3>2. ring'[p % Qsa!Capacity] = ring[p % Qsa!Capacity]
      BY <1>8, <2>0, <2>2, <3>1
    <3>3. p \in g0 * Ratio .. s - 1
      <4>1. g0 <= g1
        <5>1. s + a \in Nat /\ s <= s + a
          BY <1>2, <1>3
        <5> QED
          BY <1>2, <5>1, GroupsMonotone DEF g0, g1
      <4>2. g0 * Ratio <= g1 * Ratio
        <5>1. CASE g0 = g1
          BY <1>7, <5>1
        <5>2. CASE g0 < g1
          <6>1. g0 * Ratio + Ratio <= g1 * Ratio
            BY <1>2, <1>7, <5>2, GroupsApart
          <6> QED
            BY <1>2, <1>7, <6>1
        <5> QED
          BY <1>2, <1>7, <4>1, <5>1, <5>2
      <4> QED
        BY <1>2, <1>7, <2>0, <2>2, <4>2
    <3>4. ring[p % Qsa!Capacity] = p
      BY <1>1, <3>3 DEF OpenGroupKept, g0
    <3> QED
      BY <3>2, <3>4
  <2> QED
    BY <1>2, <2>0, <2>1, <2>2
<1>12. Qsa!KeysPooledRight'
  <2>a. written' \div Ratio = g1
    BY <1>4 DEF g1
  <2>b. Qsa!KeysPooledRight' <=>
            \A g \in 0 .. g1 - 1 :
                keys'[Qsa!PhysicalSlot(g)] = [o \in 1 .. Ratio |-> g * Ratio + o - 1]
    BY <1>4, <2>a DEF Qsa!KeysPooledRight
  <2> SUFFICES ASSUME NEW g \in 0 .. g1 - 1
               PROVE  keys'[Qsa!PhysicalSlot(g)] = [o \in 1 .. Ratio |-> g * Ratio + o - 1]
    BY <2>b
  <2>0. g \in 0 .. Qsa!Columns - 1 /\ g \in Nat /\ g * Ratio \in Nat /\ g * Ratio + Ratio <= s + a
    <3> DEFINE len == s + a
    <3>1. len \in 0 .. Qsa!MaxLen
      BY <1>2, <1>3
    <3>2. g \in 0 .. len \div Ratio - 1
      BY DEF g1
    <3>3. g \in Nat
      BY <1>7
    <3> HIDE DEF len
    <3>4. g \in 0 .. Qsa!Columns - 1 /\ g * Ratio \in Nat /\ g * Ratio + Ratio <= len
      BY <3>1, <3>2, GroupsOf
    <3> QED
      BY <3>3, <3>4 DEF len
  <2>1. CASE g < g0
    <3>1. g * Ratio + Ratio <= g0 * Ratio
      BY <1>2, <2>0, <2>1, GroupsApart
    <3>2. \A row \in 0 .. n - 1 : s + row # g * Ratio + Ratio - 1
      BY <1>2, <1>3, <2>0, <3>1
    <3>3. keys'[Qsa!PhysicalSlot(g)] = keys[Qsa!PhysicalSlot(g)]
      BY <1>9, <2>0, <3>2
    <3>4. g \in 0 .. g0 - 1
      BY <1>2, <2>0, <2>1
    <3>5. keys[Qsa!PhysicalSlot(g)] = [o \in 1 .. Ratio |-> g * Ratio + o - 1]
      BY <1>1, <3>4 DEF Qsa!KeysPooledRight, g0
    <3> QED
      BY <3>3, <3>5
  <2>2. CASE g >= g0
    <3> DEFINE row == g * Ratio + Ratio - 1 - s
    <3>0. g0 * Ratio <= g * Ratio
      <4>1. CASE g0 = g
        BY <2>0, <4>1
      <4>2. CASE g0 < g
        <5>1. g0 * Ratio + Ratio <= g * Ratio
          BY <1>2, <2>0, <4>2, GroupsApart
        <5> QED
          BY <1>2, <2>0, <5>1
      <4> QED
        BY <1>2, <2>0, <2>2, <4>1, <4>2
    <3>1. row \in 0 .. n - 1 /\ s + row = g * Ratio + Ratio - 1
      BY <1>2, <1>3, <2>0, <3>0
    <3>2. keys'[Qsa!PhysicalSlot(g)] = PooledFrom(s, raw, g)
      <4> HIDE DEF row
      <4> QED
        BY <1>9, <2>0, <3>1
    <3>3. ASSUME NEW o \in 1 .. Ratio
          PROVE  (IF g * Ratio + o - 1 >= s THEN raw[g * Ratio + o - 1 - s]
                  ELSE ring[(g * Ratio + o - 1) % Qsa!Capacity]) = g * Ratio + o - 1
      <4> DEFINE p == g * Ratio + o - 1
      <4>1. p \in Nat /\ p >= g0 * Ratio /\ p < s + a
        BY <1>2, <1>3, <2>0, <3>0
      <4> HIDE DEF p
      <4>2. CASE p >= s
        <5> DEFINE t == p - s
        <5>1. t \in 0 .. n - 1 /\ t < a /\ s + t = p
          BY <1>2, <1>3, <4>1, <4>2
        <5>2. raw[t] = p
          BY <1>6, <5>1
        <5>3. g * Ratio + o - 1 = p /\ p - s = t
          BY DEF p
        <5> HIDE DEF t
        <5> QED
          BY <1>2, <2>0, <4>1, <4>2, <5>2, <5>3
      <4>3. CASE p < s
        <5>1. p \in g0 * Ratio .. s - 1
          BY <1>2, <4>1, <4>3
        <5>2. ring[p % Qsa!Capacity] = p
          BY <1>1, <5>1 DEF OpenGroupKept, g0
        <5>3. ~ (p >= s)
          BY <1>2, <4>1, <4>3
        <5> QED
          BY <5>2, <5>3 DEF p
      <4> QED
        BY <1>2, <4>1, <4>2, <4>3
    <3> QED
      BY <3>2, <3>3 DEF PooledFrom
  <2> QED
    BY <1>2, <2>0, <2>1, <2>2
<1> QED
  BY <1>10, <1>11, <1>12 DEF QsaInv

\* A step of the draft loop: what it writes is further on than the open group, and
\* not a whole capacity.
LEMMA DraftStep ==
    ASSUME Qsa!QsaAssumption, QsaInv, Qsa!Draft
    PROVE  QsaInv'
<1> DEFINE s == written + drafted
           raw == [t \in {0} |-> Qsa!Rejected]
           g0 == written \div Ratio
<1>1. Qsa!TypeOK /\ OpenGroupKept /\ Qsa!KeysPooledRight
  BY DEF QsaInv
<1>2. /\ Ratio \in Nat \ {0} /\ Drafts \in Nat /\ Qsa!Columns \in Nat /\ Qsa!MaxLen \in Nat
      /\ Qsa!Capacity \in Nat \ {0} /\ Qsa!Capacity >= Ratio + Drafts
      /\ written \in Nat /\ written <= Qsa!MaxLen /\ drafted \in Nat
      /\ DOMAIN ring = 0 .. Qsa!Capacity - 1 /\ DOMAIN keys = Qsa!KeySlots
      /\ g0 \in Nat /\ g0 * Ratio \in Nat /\ g0 * Ratio <= written /\ written < g0 * Ratio + Ratio
  BY <1>1, QsaTypes
<1>3. /\ drafted < Drafts - 1 /\ s < Qsa!MaxLen
      /\ written' = written /\ drafted' = drafted + 1
  BY DEF Qsa!Draft
<1>4. s \in Nat /\ s + 1 <= Qsa!MaxLen
  BY <1>2, <1>3
<1>5. Qsa!IndexStep(One(s, 1), raw)
  BY DEF Qsa!Draft, One
<1>6. /\ DOMAIN raw = 0 .. 1 - 1 /\ \A t \in 0 .. 1 - 1 : raw[t] \in -3 .. Qsa!MaxLen - 1
  <2>1. 0 .. 1 - 1 = {0}
    OBVIOUS
  <2>2. Qsa!Rejected \in -3 .. Qsa!MaxLen - 1
    BY <1>2 DEF Qsa!Rejected
  <2> QED
    BY <2>1, <2>2
<1> HIDE DEF raw, s, g0
<1>8. /\ DOMAIN ring' = 0 .. Qsa!Capacity - 1
      /\ \A x \in 0 .. Qsa!Capacity - 1 :
             ring'[x] = ring[x] \/ \E row \in 0 .. 1 - 1 : ring'[x] = raw[row]
      /\ \A p \in Nat :
             p < s /\ s + 1 <= p + Qsa!Capacity => ring'[p % Qsa!Capacity] = ring[p % Qsa!Capacity]
  <2> DEFINE n == 1
  <2>1. n \in Nat /\ DOMAIN raw = 0 .. n - 1 /\ Qsa!IndexStep(One(s, n), raw)
    BY <1>5, <1>6
  <2> HIDE DEF n
  <2>2. /\ DOMAIN ring' = 0 .. Qsa!Capacity - 1
        /\ \A x \in 0 .. Qsa!Capacity - 1 :
               ring'[x] = ring[x] \/ \E row \in 0 .. n - 1 : ring'[x] = raw[row]
        /\ \A row \in 0 .. n - 1 :
               row + Qsa!Capacity >= n => ring'[(s + row) % Qsa!Capacity] = raw[row]
        /\ \A p \in Nat :
               p < s /\ s + n <= p + Qsa!Capacity
                   => ring'[p % Qsa!Capacity] = ring[p % Qsa!Capacity]
    BY <1>2, <1>4, <2>1, RingStored
  <2> QED
    BY <2>2 DEF n
<1>9. /\ DOMAIN keys' = Qsa!KeySlots
      /\ \A g \in 0 .. Qsa!Columns - 1 :
             (\A row \in 0 .. 1 - 1 : s + row # g * Ratio + Ratio - 1)
                 => keys'[Qsa!PhysicalSlot(g)] = keys[Qsa!PhysicalSlot(g)]
  BY <1>2, <1>4, <1>5, <1>6, KeysStored
<1>10. Qsa!TypeOK'
  <2>1. ring' = [x \in DOMAIN ring' |-> ring'[x]]
    BY <1>5 DEF Qsa!IndexStep, Qsa!StoreRows
  <2>2. ring' \in [0 .. Qsa!Capacity - 1 -> -3 .. Qsa!MaxLen - 1]
    <3>1. 1 \in Nat
      OBVIOUS
    <3> QED
      BY <1>1, <1>6, <1>8, <2>1, <3>1, RingType
  <2>3. written' \in 0 .. Qsa!MaxLen /\ drafted' \in 0 .. Drafts
    BY <1>2, <1>3
  <2> QED
    BY <1>9, <2>2, <2>3 DEF Qsa!TypeOK
<1>11. OpenGroupKept'
  <2> SUFFICES ASSUME NEW p \in (written' \div Ratio) * Ratio .. written' - 1
               PROVE  ring'[p % Qsa!Capacity] = p
    BY DEF OpenGroupKept
  <2>1. p \in g0 * Ratio .. written - 1
    BY <1>3 DEF g0
  <2>2. s = written + drafted
    BY DEF s
  <2>3. p \in Nat /\ p < s /\ s + 1 <= p + Qsa!Capacity
    BY <1>2, <1>3, <2>1, <2>2
  <2>4. ring[p % Qsa!Capacity] = p
    BY <1>1, <2>1 DEF OpenGroupKept, g0
  <2> QED
    BY <1>8, <2>3, <2>4
<1>12. Qsa!KeysPooledRight'
  <2> SUFFICES ASSUME NEW g \in 0 .. written' \div Ratio - 1
               PROVE  keys'[Qsa!PhysicalSlot(g)] = [o \in 1 .. Ratio |-> g * Ratio + o - 1]
    BY DEF Qsa!KeysPooledRight
  <2>1. g \in 0 .. written \div Ratio - 1
    BY <1>3
  <2>2. written \in 0 .. Qsa!MaxLen
    BY <1>2
  <2>3. g \in 0 .. Qsa!Columns - 1 /\ g * Ratio \in Nat /\ g * Ratio + Ratio <= written
    BY <2>1, <2>2, GroupsOf
  <2>4. s = written + drafted
    BY DEF s
  <2>5. \A row \in 0 .. 1 - 1 : s + row # g * Ratio + Ratio - 1
    BY <1>2, <1>4, <2>3, <2>4
  <2>6. keys'[Qsa!PhysicalSlot(g)] = keys[Qsa!PhysicalSlot(g)]
    BY <1>9, <2>3, <2>5
  <2>7. keys[Qsa!PhysicalSlot(g)] = [o \in 1 .. Ratio |-> g * Ratio + o - 1]
    BY <1>1, <2>1 DEF Qsa!KeysPooledRight
  <2> QED
    BY <2>6, <2>7
<1> QED
  BY <1>10, <1>11, <1>12 DEF QsaInv

\* A prefix hit of whole blocks: it ends with a group, and the keys of its blocks are
\* there.
LEMMA ResumeStep ==
    ASSUME Qsa!QsaAssumption, QsaInv, Qsa!Resume
    PROVE  QsaInv'
<1>1. Qsa!TypeOK /\ OpenGroupKept /\ Qsa!KeysPooledRight
  BY DEF QsaInv
<1>2. /\ Ratio \in Nat \ {0} /\ Drafts \in Nat /\ Qsa!Columns \in Nat /\ Qsa!MaxLen \in Nat
      /\ Qsa!Capacity \in Nat \ {0}
      /\ written \in Nat /\ written <= Qsa!MaxLen
      /\ DOMAIN ring = 0 .. Qsa!Capacity - 1 /\ DOMAIN keys = Qsa!KeySlots
  BY <1>1, QsaTypes
<1>3. StorageBlock \in Nat \ {0}
  BY QsaConstants
<1> DEFINE size == StorageBlock * Ratio
<1>4. size \in Nat \ {0}
  <2>1. StorageBlock * Ratio \in Nat /\ StorageBlock * Ratio >= StorageBlock
    BY <1>2, <1>3
  <2> QED
    BY <1>3, <2>1
<1>5. PICK n \in 0 .. written \div size :
        /\ written' = n * StorageBlock * Ratio
        /\ keys' = [x \in DOMAIN keys |->
                        IF \E k \in 1 .. n : x \div StorageBlock = Table[k] THEN keys[x] ELSE <<>>]
  BY DEF Qsa!Resume
<1>6. ring' = [x \in 0 .. Qsa!Capacity - 1 |-> Qsa!Stale] /\ drafted' = 0
  BY <1>2 DEF Qsa!Resume
<1> DEFINE m == n * StorageBlock
<1>7. /\ n \in Nat /\ m \in Nat /\ m * Ratio \in Nat /\ m * Ratio <= written
      /\ written' = m * Ratio
  <2> DEFINE d == written \div size
  <2>1. d \in Nat /\ written % size \in 0 .. size - 1 /\ written = size * d + (written % size)
    BY <1>2, <1>4, ModSplit
  <2>2. n \in 0 .. d
    BY <1>5
  <2> HIDE DEF d
  <2>3. n \in Nat /\ n <= d
    BY <2>1, <2>2
  <2> HIDE DEF size
  <2>4. size * d \in Nat /\ size * n \in Nat /\ size * d <= written
    BY <1>2, <1>4, <2>1, <2>3
  <2>5. size * (d - n) = size * d - size * n /\ size * (d - n) >= 0
    BY <1>4, <2>1, <2>3
  <2>6. size * n <= written
    BY <1>2, <2>4, <2>5
  <2>7. n * StorageBlock * Ratio = size * n
    BY <1>2, <1>3, <2>3 DEF size
  <2>8. m \in Nat /\ m * Ratio = size * n
    BY <1>2, <1>3, <2>3, <2>7
  <2> QED
    BY <1>5, <2>3, <2>4, <2>6, <2>7, <2>8
<1> HIDE DEF m, size
<1>8. written' \div Ratio = m
  <2>1. m * Ratio <= m * Ratio /\ m * Ratio < m * Ratio + Ratio
    BY <1>2, <1>7
  <2> QED
    BY <1>7, <2>1, GroupUnique
<1>10. Qsa!TypeOK'
  <2>1. written' \in 0 .. Qsa!MaxLen /\ drafted' \in 0 .. Drafts
    BY <1>2, <1>6, <1>7
  <2>2. Qsa!Stale \in -3 .. Qsa!MaxLen - 1
    BY <1>2 DEF Qsa!Stale
  <2>3. ring' \in [0 .. Qsa!Capacity - 1 -> -3 .. Qsa!MaxLen - 1]
    BY <1>6, <2>2
  <2>4. DOMAIN keys' = Qsa!KeySlots
    BY <1>2, <1>5
  <2> QED
    BY <2>1, <2>3, <2>4 DEF Qsa!TypeOK
<1>11. OpenGroupKept'
  <2>1. (written' \div Ratio) * Ratio .. written' - 1 = {}
    BY <1>7, <1>8
  <2> QED
    BY <2>1 DEF OpenGroupKept
<1>12. Qsa!KeysPooledRight'
  <2> SUFFICES ASSUME NEW g \in 0 .. written' \div Ratio - 1
               PROVE  keys'[Qsa!PhysicalSlot(g)] = [o \in 1 .. Ratio |-> g * Ratio + o - 1]
    BY DEF Qsa!KeysPooledRight
  <2>1. g \in Nat /\ g < m
    BY <1>7, <1>8
  <2>2. m <= written \div Ratio
    <3>1. (m * Ratio) \div Ratio <= written \div Ratio
      BY <1>2, <1>7, GroupsMonotone
    <3> QED
      BY <1>7, <1>8, <3>1
  <2>3. g \in 0 .. written \div Ratio - 1
    <3>1. written \div Ratio \in Nat
      BY <1>2, GroupOf
    <3> QED
      BY <1>7, <2>1, <2>2, <3>1
  <2>4. g \in 0 .. Qsa!Columns - 1
    <3>1. written \in 0 .. Qsa!MaxLen
      BY <1>2
    <3> QED
      BY <2>3, <3>1, GroupsOf
  <2> DEFINE d == g \div StorageBlock
  <2>5. d \in Nat /\ StorageBlock * d <= g
    <3>1. g % StorageBlock \in 0 .. StorageBlock - 1
          /\ g = StorageBlock * d + (g % StorageBlock) /\ d \in Nat
      BY <1>3, <2>1, ModSplit
    <3> HIDE DEF d
    <3> QED
      BY <1>3, <2>1, <3>1
  <2>6. Qsa!PhysicalSlot(g) \div StorageBlock = Table[d + 1]
    BY <2>4, SlotOf
  <2>7. Qsa!PhysicalSlot(g) \in Qsa!KeySlots
    BY <2>4 DEF Qsa!KeySlots
  <2> HIDE DEF d
  <2>8. d + 1 \in 1 .. n
    <3>1. ~ (n <= d)
      <4> SUFFICES ASSUME n <= d PROVE FALSE
        OBVIOUS
      <4>1. StorageBlock * (d - n) = StorageBlock * d - n * StorageBlock
        BY <1>3, <1>7, <2>5
      <4>2. StorageBlock * (d - n) >= 0
        BY <1>3, <1>7, <2>5
      <4>3. n * StorageBlock > g
        BY <2>1 DEF m
      <4> QED
        BY <1>3, <1>7, <2>1, <2>5, <4>1, <4>2, <4>3
    <3> QED
      BY <1>7, <2>5, <3>1
  <2>9. keys'[Qsa!PhysicalSlot(g)] = keys[Qsa!PhysicalSlot(g)]
    BY <1>2, <1>5, <2>6, <2>7, <2>8
  <2> QED
    BY <1>1, <2>3, <2>9 DEF Qsa!KeysPooledRight
<1> QED
  BY <1>10, <1>11, <1>12 DEF QsaInv

\* Every step preserves the invariant.
LEMMA QsaNext ==
    ASSUME Qsa!QsaAssumption, QsaInv, [Qsa!Next]_(Qsa!vars)
    PROVE  QsaInv'
<1>1. ASSUME NEW n \in 1 .. MaxRows, NEW a \in 1 .. n, Qsa!Forward(n, a) PROVE QsaInv'
  BY <1>1, ForwardStep
<1>2. CASE Qsa!Draft
  BY <1>2, DraftStep
<1>3. CASE Qsa!Resume
  BY <1>3, ResumeStep
<1>4. CASE UNCHANGED (Qsa!vars)
  <2>1. written' = written /\ drafted' = drafted /\ ring' = ring /\ keys' = keys
    BY <1>4 DEF Qsa!vars
  <2>2. Qsa!TypeOK'
    BY <2>1 DEF QsaInv, Qsa!TypeOK
  <2>3. OpenGroupKept'
    BY <2>1 DEF QsaInv, OpenGroupKept
  <2>4. Qsa!KeysPooledRight'
    BY <2>1 DEF QsaInv, Qsa!KeysPooledRight
  <2> QED
    BY <2>2, <2>3, <2>4 DEF QsaInv
<1> QED
  BY <1>1, <1>2, <1>3, <1>4 DEF Qsa!Next

\* The invariant holds throughout.
THEOREM QsaInvariant ==
    ASSUME Qsa!QsaAssumption
    PROVE  Qsa!Spec => []QsaInv
<1>1. Qsa!Init => QsaInv
  BY QsaInit
<1>2. QsaInv /\ [Qsa!Next]_(Qsa!vars) => QsaInv'
  BY QsaNext
<1> QED
  BY <1>1, <1>2, PTL DEF Qsa!Spec

\* The compressed key of a complete group is pooled from the raw keys of its own accepted
\* tokens, whatever was drafted and rejected and wherever the steps cut the sequence: a
\* ring of the ratio times the groups that hold one group and the drafts is enough.
THEOREM PooledFromOwnTokens ==
    ASSUME Qsa!QsaAssumption
    PROVE  Qsa!Spec => []Qsa!KeysPooledRight
<1>1. QsaInv => Qsa!KeysPooledRight
  BY DEF QsaInv
<1> QED
  BY <1>1, QsaInvariant, PTL

-----------------------------------------------------------------------------
(* Powers of two, and the splits of the tiles.                             *)

\* A power of two is greater than its exponent: 1 .. n has the subsets 1 .. i.
LEMMA PowerOfTwo ==
    ASSUME NEW n \in Nat
    PROVE  2^n \in Nat /\ n < 2^n
<1> DEFINE S == 1 .. n
           f == [i \in 0 .. n |-> 1 .. i]
<1>1. IsFiniteSet(S) /\ Cardinality(S) = n /\ IsFiniteSet(0 .. n) /\ Cardinality(0 .. n) = n + 1
  BY FS_Interval
<1>2. IsFiniteSet(SUBSET S) /\ Cardinality(SUBSET S) = 2^n
  <2> HIDE DEF S
  <2> QED
    BY <1>1, FS_SUBSET
<1>3. Cardinality(SUBSET S) \in Nat
  <2> HIDE DEF S
  <2> QED
    BY <1>2, FS_CardinalityType
<1>4. f \in Injection(0 .. n, SUBSET S)
  <2>1. f \in [0 .. n -> SUBSET S]
    OBVIOUS
  <2>2. ASSUME NEW i \in 0 .. n, NEW j \in 0 .. n, f[i] = f[j] PROVE i = j
    <3>1. 1 .. i = 1 .. j
      BY <2>2
    <3>2. ~ (i < j)
      <4> SUFFICES ASSUME i < j PROVE FALSE
        OBVIOUS
      <4>1. j \in 1 .. j /\ j \notin 1 .. i
        OBVIOUS
      <4> QED
        BY <3>1, <4>1
    <3>3. ~ (j < i)
      <4> SUFFICES ASSUME j < i PROVE FALSE
        OBVIOUS
      <4>1. i \in 1 .. i /\ i \notin 1 .. j
        OBVIOUS
      <4> QED
        BY <3>1, <4>1
    <3> QED
      BY <3>2, <3>3
  <2> HIDE DEF f, S
  <2> QED
    BY <2>1, <2>2 DEF Injection, IsInjective
<1>5. Cardinality(0 .. n) <= Cardinality(SUBSET S)
  <2> HIDE DEF f, S
  <2> QED
    BY <1>2, <1>4, FS_Injection
<1> HIDE DEF S
<1> QED
  BY <1>1, <1>2, <1>3, <1>5

\* A set of natural numbers that is not empty has a least element.
LEMMA Least ==
    ASSUME NEW T \in SUBSET Nat, T # {}
    PROVE  \E m \in T : \A k \in T : m <= k
<1>1. PICK m \in T : \A k \in T : <<k, m>> \notin OpToRel(<, Nat)
  BY NatLessThanWellFounded, WFMin
<1>2. \A k \in T : ~ (k < m)
  BY <1>1 DEF OpToRel
<1> QED
  BY <1>2

\* A positive number is between a power of two and the next.
LEMMA BetweenPowers ==
    ASSUME NEW n \in Nat \ {0}
    PROVE  \E k \in 0 .. n : 2^k <= n /\ 2^(k + 1) > n
<1> DEFINE T == {k \in Nat : 2^(k + 1) > n}
<1>1. n - 1 \in T
  <2>1. 2^n > n /\ (n - 1) + 1 = n /\ n - 1 \in Nat /\ 2^n \in Nat
    BY PowerOfTwo
  <2> QED
    BY <2>1
<1>2. PICK k \in T : \A j \in T : k <= j
  <2>1. T \subseteq Nat /\ T # {}
    BY <1>1
  <2> HIDE DEF T
  <2> QED
    BY <2>1, Least
<1>3. k \in 0 .. n /\ 2^(k + 1) > n
  <2>1. k <= n - 1 /\ k \in Nat
    BY <1>1, <1>2
  <2> QED
    BY <1>2, <2>1
<1>4. 2^k <= n
  <2>1. CASE k = 0
    <3>1. 2^0 = 1
      OBVIOUS
    <3> QED
      BY <2>1, <3>1
  <2>2. CASE k # 0
    <3>1. k - 1 \in Nat /\ k - 1 < k /\ (k - 1) + 1 = k
      BY <1>3, <2>2
    <3>2. ~ (k - 1 \in T)
      BY <1>2, <1>3, <3>1
    <3>3. ~ (2^k > n)
      BY <3>1, <3>2
    <3>4. 2^k \in Nat
      BY <1>3, PowerOfTwo
    <3> QED
      BY <3>3, <3>4
  <2> QED
    BY <2>1, <2>2
<1> QED
  BY <1>3, <1>4

\* A quotient is below a bound if the number is below its multiple.
LEMMA DivLess ==
    ASSUME NEW x \in Nat, NEW n \in Nat \ {0}, NEW t \in Nat
    PROVE  x \div n < t <=> x < t * n
<1> DEFINE p == x \div n
<1>1. p \in Nat /\ x % n \in 0 .. n - 1 /\ x = n * p + (x % n)
  BY ModSplit
<1> HIDE DEF p
<1>2. n * (t - p) = n * t - n * p /\ n * t = t * n /\ n * t \in Nat /\ n * p \in Nat
  BY <1>1
<1>3. t - p >= 1 => n * (t - p) >= n
  BY <1>1
<1>4. t - p <= 0 => n * (t - p) <= 0
  BY <1>1
<1>5. p < t => x < t * n
  BY <1>1, <1>2, <1>3
<1>6. x < t * n => p < t
  BY <1>1, <1>2, <1>4
<1> QED
  BY <1>5, <1>6 DEF p

\* There are tiles for all columns, and there is a split.
LEMMA TilesAndSplits ==
    ASSUME Qsa!QsaAssumption
    PROVE  /\ Qsa!Width \in Nat \ {0} /\ Qsa!NumTiles \in Nat \ {0} /\ Qsa!NumSplits \in Nat \ {0}
           /\ \A c \in 0 .. Qsa!Width - 1 : c \div BlockN \in 0 .. Qsa!NumTiles - 1
<1>1. Ratio \in Nat \ {0} /\ BlockTopK \in Nat \ {0} /\ BlockN \in Nat \ {0}
      /\ TargetSplits \in Nat \ {0}
  BY DEF Qsa!QsaAssumption
<1>2. Qsa!Width \in Nat \ {0}
  <2>1. BlockTopK * Ratio \in Nat /\ BlockTopK * Ratio >= Ratio
    BY <1>1
  <2> QED
    BY <1>1, <2>1 DEF Qsa!Width
<1> DEFINE w == Qsa!Width
           x == w + BlockN - 1
<1>3. Qsa!NumTiles = x \div BlockN
  BY DEF Qsa!NumTiles, Qsa!Ceil
<1> HIDE DEF w
<1>4. x \in Nat /\ x >= BlockN /\ w \in Nat \ {0}
  BY <1>1, <1>2 DEF w
<1> HIDE DEF x
<1>5. x \div BlockN \in Nat /\ x % BlockN \in 0 .. BlockN - 1
      /\ x = BlockN * (x \div BlockN) + (x % BlockN)
  BY <1>1, <1>4, ModSplit
<1> DEFINE n == x \div BlockN
<1> HIDE DEF n
<1>6. n \in Nat /\ x < BlockN * n + BlockN
  BY <1>1, <1>4, <1>5 DEF n
<1>7. n # 0
  BY <1>1, <1>4, <1>6
<1>8. w <= n * BlockN
  BY <1>1, <1>4, <1>6 DEF x
<1>9. ASSUME NEW c \in 0 .. Qsa!Width - 1 PROVE c \div BlockN \in 0 .. Qsa!NumTiles - 1
  <2>1. c \in Nat /\ c < w
    BY <1>2, <1>4 DEF w
  <2>2. n * BlockN \in Nat
    BY <1>1, <1>6
  <2>3. c < n * BlockN
    BY <1>4, <1>8, <2>1, <2>2
  <2>4. c \div BlockN < n
    BY <1>1, <1>6, <2>1, <2>3, DivLess
  <2>5. c \div BlockN \in Nat
    BY <1>1, <2>1, ModSplit
  <2> QED
    BY <1>3, <1>6, <2>4, <2>5 DEF n
<1>10. Qsa!NumTiles = n /\ n \in Nat \ {0}
  BY <1>3, <1>6, <1>7 DEF n
<1>11. Qsa!NumSplits \in Nat \ {0}
  <2> DEFINE k == CHOOSE j \in 0 .. Qsa!NumTiles : 2^j <= Qsa!NumTiles /\ 2^(j + 1) > Qsa!NumTiles
  <2>1. k \in 0 .. Qsa!NumTiles
    <3>1. \E j \in 0 .. Qsa!NumTiles : 2^j <= Qsa!NumTiles /\ 2^(j + 1) > Qsa!NumTiles
      BY <1>10, BetweenPowers
    <3> QED
      BY <3>1
  <2>2. Qsa!NumSplits = Qsa!Smaller(TargetSplits, 2^k)
    BY DEF Qsa!NumSplits
  <2> HIDE DEF k
  <2>3. k \in Nat
    BY <1>10, <2>1
  <2>4. 2^k \in Nat /\ k < 2^k
    BY <2>3, PowerOfTwo
  <2> QED
    BY <1>1, <2>2, <2>3, <2>4 DEF Qsa!Smaller
<1> QED
  BY <1>2, <1>9, <1>10, <1>11

\* A tile is in one split.
LEMMA OneSplit ==
    ASSUME Qsa!QsaAssumption, NEW t \in 0 .. Qsa!NumTiles - 1
    PROVE  \E s \in 0 .. Qsa!NumSplits - 1 :
               \A u \in 0 .. Qsa!NumSplits - 1 : t \in Qsa!SplitTiles(u) <=> u = s
<1> DEFINE N == Qsa!NumTiles
           S == Qsa!NumSplits
           y == (t + 1) * S
           v == (y - 1) \div N
<1>1. N \in Nat \ {0} /\ S \in Nat \ {0}
  BY TilesAndSplits
<1>2. \A u \in Nat :
        t \in Qsa!SplitTiles(u) <=> (u * N) \div S <= t /\ t <= ((u + 1) * N) \div S - 1
  <2> SUFFICES ASSUME NEW u \in Nat
               PROVE  t \in Qsa!SplitTiles(u) <=>
                        (u * N) \div S <= t /\ t <= ((u + 1) * N) \div S - 1
    OBVIOUS
  <2>1. Qsa!SplitTiles(u) = (u * N) \div S .. ((u + 1) * N) \div S - 1
    BY DEF Qsa!SplitTiles
  <2>2. u * N \in Nat /\ (u + 1) * N \in Nat
    BY <1>1
  <2>3. (u * N) \div S \in Nat /\ ((u + 1) * N) \div S \in Nat
    BY <1>1, <2>2, ModSplit
  <2> HIDE DEF N, S
  <2> DEFINE a == (u * N) \div S
             b == ((u + 1) * N) \div S
  <2> HIDE DEF a, b
  <2>4. Qsa!SplitTiles(u) = a .. b - 1 /\ a \in Nat /\ b \in Nat
    BY <2>1, <2>3 DEF a, b
  <2>5. t \in Int
    OBVIOUS
  <2>6. t \in Qsa!SplitTiles(u) <=> a <= t /\ t <= b - 1
    BY <2>4, <2>5
  <2> QED
    BY <2>6 DEF a, b
<1> HIDE DEF N, S
<1>3. t \in Nat /\ t + 1 \in Nat /\ t + 1 <= N
  BY <1>1 DEF N
<1>4. y \in Nat \ {0} /\ y <= N * S
  <2>1. (N - (t + 1)) * S = N * S - y /\ (N - (t + 1)) * S >= 0
    BY <1>1, <1>3
  <2>2. y \in Nat /\ y >= S /\ N * S \in Nat
    BY <1>1, <1>3
  <2> HIDE DEF y
  <2> QED
    BY <1>1, <2>1, <2>2
<1>5. ASSUME NEW u \in Nat PROVE t \in Qsa!SplitTiles(u) <=> u * N < y /\ y <= (u + 1) * N
  <2>1. u * N \in Nat /\ (u + 1) * N \in Nat
    BY <1>1
  <2>2. (u * N) \div S < t + 1 <=> u * N < y
    BY <1>1, <1>3, <2>1, DivLess
  <2>3. ((u + 1) * N) \div S < t + 1 <=> (u + 1) * N < y
    BY <1>1, <1>3, <2>1, DivLess
  <2>4. (u * N) \div S \in Nat /\ ((u + 1) * N) \div S \in Nat
    BY <1>1, <2>1, ModSplit
  <2> DEFINE a == (u * N) \div S
             b == ((u + 1) * N) \div S
             d == u * N
             e == (u + 1) * N
  <2>5. t \in Qsa!SplitTiles(u) <=> a <= t /\ t <= b - 1
    BY <1>2
  <2>6. /\ a \in Nat /\ b \in Nat /\ d \in Nat /\ e \in Nat
        /\ (a < t + 1 <=> d < y) /\ (b < t + 1 <=> e < y)
    BY <2>1, <2>2, <2>3, <2>4
  <2> HIDE DEF a, b, d, e, y
  <2>7. t \in Qsa!SplitTiles(u) <=> d < y /\ y <= e
    BY <1>3, <1>4, <2>5, <2>6
  <2> QED
    BY <2>7 DEF d, e
<1> HIDE DEF y
<1>6. y - 1 \in Nat
  BY <1>4
<1>7. v \in Nat /\ (y - 1) % N \in 0 .. N - 1 /\ y - 1 = N * v + ((y - 1) % N)
  BY <1>1, <1>6, ModSplit
<1>8. v < S
  <2>1. y - 1 < S * N
    <3>1. N * S = S * N /\ N * S \in Nat
      BY <1>1
    <3> QED
      BY <1>4, <3>1
  <2> QED
    BY <1>1, <1>6, <2>1, DivLess
<1>9. ASSUME NEW u \in Nat PROVE t \in Qsa!SplitTiles(u) <=> u = v
  <2> HIDE DEF v
  <2>1. (u + 1) * N = N * u + N /\ u * N = N * u /\ N * u \in Nat /\ N * v \in Nat
    BY <1>1, <1>7
  <2>2. ASSUME u = v PROVE t \in Qsa!SplitTiles(u)
    <3>1. N * v < y /\ y <= N * v + N
      BY <1>1, <1>4, <1>7, <2>1
    <3> QED
      BY <1>5, <2>1, <2>2, <3>1
  <2>3. ASSUME t \in Qsa!SplitTiles(u) PROVE u = v
    <3>1. N * u < y /\ y <= N * u + N
      BY <1>5, <2>1, <2>3
    <3> DEFINE r == y - 1 - N * u
    <3>2. r \in 0 .. N - 1 /\ y - 1 = N * u + r
      BY <1>1, <1>4, <2>1, <3>1
    <3> HIDE DEF r
    <3>3. (N * u + r) \div N = u
      BY <1>1, <3>2, DivUnique
    <3> QED
      BY <3>2, <3>3 DEF v
  <2> QED
    BY <2>2, <2>3
<1> HIDE DEF v
<1>10. v \in 0 .. Qsa!NumSplits - 1
  BY <1>1, <1>7, <1>8 DEF S
<1>11. \A u \in 0 .. Qsa!NumSplits - 1 : t \in Qsa!SplitTiles(u) <=> u = v
  BY <1>1, <1>9 DEF S
<1> QED
  BY <1>10, <1>11

-----------------------------------------------------------------------------
(* What a query selects.                                                   *)

\* Its open group, how many complete groups it takes, and which.
Open(position) == (position + 1) \div Ratio
Taken(position) == Qsa!Smaller(Open(position), BlockTopK)
Chosen(position, blocks) == {blocks[i] : i \in 1 .. Taken(position)}

\* The groups.
LEMMA OpenGroup ==
    ASSUME Qsa!QsaAssumption, NEW position \in Nat, NEW len \in Nat,
           position < len, len <= Qsa!MaxLen
    PROVE  /\ Ratio \in Nat \ {0} /\ BlockTopK \in Nat \ {0} /\ Qsa!Columns \in Nat
           /\ Open(position) \in 0 .. Qsa!Columns /\ Qsa!Visible(position, len) = Open(position)
           /\ Open(position) * Ratio \in Nat
           /\ Open(position) * Ratio <= position + 1
           /\ position + 1 < Open(position) * Ratio + Ratio
           /\ Taken(position) \in Nat /\ Taken(position) <= BlockTopK
           /\ Taken(position) <= Open(position)
           /\ Taken(position) * Ratio \in Nat
<1>1. Ratio \in Nat \ {0} /\ BlockTopK \in Nat \ {0} /\ Qsa!Columns \in Nat
  BY QsaConstants DEF Qsa!QsaAssumption
<1> DEFINE g == (position + 1) \div Ratio
           h == len \div Ratio
<1>2. /\ g \in Nat /\ g * Ratio \in Nat
      /\ g * Ratio <= position + 1 /\ position + 1 < g * Ratio + Ratio
  BY GroupOf
<1>3. g <= h /\ h \in Nat
  BY GroupsMonotone, GroupOf
<1> HIDE DEF g, h
<1>4. g <= Qsa!Columns
  <2>1. Qsa!Columns * Ratio = Qsa!MaxLen /\ Qsa!MaxLen \in Nat
    BY <1>1 DEF Qsa!MaxLen
  <2>2. ~ (Qsa!Columns < g)
    <3>1. SUFFICES ASSUME Qsa!Columns < g PROVE FALSE
      OBVIOUS
    <3>2. Qsa!Columns * Ratio + Ratio <= g * Ratio
      BY <1>1, <1>2, <3>1, GroupsApart
    <3> QED
      BY <1>1, <1>2, <2>1, <3>2
  <2> QED
    BY <1>1, <1>2, <2>2
<1>5. Open(position) = g /\ Qsa!Visible(position, len) = g
  BY <1>2, <1>3 DEF g, h, Open, Qsa!Visible, Qsa!Smaller
<1>6. Taken(position) \in Nat /\ Taken(position) <= BlockTopK /\ Taken(position) <= g
  BY <1>1, <1>2, <1>5 DEF Taken, Qsa!Smaller
<1>7. Taken(position) * Ratio \in Nat
  BY <1>1, <1>6
<1> QED
  BY <1>1, <1>2, <1>4, <1>5, <1>6, <1>7

\* The best groups are complete, and none is taken twice.
LEMMA RankedGroups ==
    ASSUME Qsa!QsaAssumption, NEW position \in Nat, NEW len \in Nat,
           position < len, len <= Qsa!MaxLen,
           NEW blocks \in Qsa!Rankings(position, len)
    PROVE  /\ \A i \in 1 .. Taken(position) : blocks[i] \in Nat /\ blocks[i] < Open(position)
           /\ \A i, j \in 1 .. Taken(position) : blocks[i] = blocks[j] => i = j
<1> DEFINE k == Qsa!Smaller(BlockTopK, Qsa!Columns)
           open == Open(position)
           m == Taken(position)
           pad == [i \in 1 .. BlockTopK - k |-> Qsa!Pad]
<1>1. /\ BlockTopK \in Nat \ {0} /\ Qsa!Columns \in Nat
      /\ open \in 0 .. Qsa!Columns /\ Qsa!Visible(position, len) = open
  BY OpenGroup
<1>2. PICK s \in Qsa!TopK(k, open) : blocks = s \o pad
  BY <1>1 DEF Qsa!Rankings
<1>3. k \in Nat /\ k <= BlockTopK /\ m \in Nat /\ m <= k /\ Qsa!Smaller(k, open) = m
  BY <1>1 DEF Qsa!Smaller, Taken
<1> HIDE DEF k, open, m
<1>4. s \in [1 .. k -> 0 .. Qsa!Columns - 1] /\ Qsa!IsInjective(s) /\ \A i \in 1 .. m : s[i] < open
  BY <1>2, <1>3 DEF Qsa!TopK
<1>5. \A i \in 1 .. m : blocks[i] = s[i]
  <2>1. s \in Seq(0 .. Qsa!Columns - 1) /\ Len(s) = k
    <3> DEFINE D == 0 .. Qsa!Columns - 1
    <3>1. s \in [1 .. k -> D] /\ k \in Nat
      BY <1>3, <1>4
    <3> HIDE DEF D
    <3>2. s \in Seq(D) /\ Len(s) = k
      BY <3>1
    <3> QED
      BY <3>2 DEF D
  <2>2. pad \in Seq({Qsa!Pad})
    <3>1. BlockTopK - k \in Nat
      BY <1>1, <1>3
    <3> QED
      BY <3>1
  <2> HIDE DEF pad
  <2>3. \A i \in 1 .. k : (s \o pad)[i] = s[i]
    BY <1>3, <2>1, <2>2
  <2> DEFINE both == s \o pad
  <2>4. blocks = both /\ \A i \in 1 .. k : both[i] = s[i]
    BY <1>2, <2>3 DEF pad
  <2> HIDE DEF both
  <2>5. \A i \in 1 .. m : i \in 1 .. k
    BY <1>3
  <2> QED
    BY <2>4, <2>5
<1>6. ASSUME NEW i \in 1 .. m PROVE i \in DOMAIN s /\ s[i] \in Nat
  <2>1. i \in 1 .. k
    BY <1>3
  <2>2. s[i] \in 0 .. Qsa!Columns - 1
    BY <1>4, <2>1
  <2> QED
    BY <1>1, <1>4, <2>1, <2>2
<1>7. \A i, j \in 1 .. m : s[i] = s[j] => i = j
  BY <1>4, <1>6 DEF Qsa!IsInjective
<1> QED
  BY <1>4, <1>5, <1>6, <1>7 DEF m, open

\* The tokens of the columns: those of the groups taken, then those of the open group.
LEMMA ColumnToken ==
    ASSUME Qsa!QsaAssumption, NEW position \in Nat, NEW len \in Nat,
           position < len, len <= Qsa!MaxLen,
           NEW blocks \in Qsa!Rankings(position, len), NEW c \in 0 .. Qsa!Width - 1
    PROVE  LET sel == Qsa!Selected(position, len, blocks)
               e == Open(position) * Ratio
               f == Taken(position) * Ratio
           IN  /\ c < f => /\ c \div Ratio + 1 \in 1 .. Taken(position)
                           /\ sel[c] = blocks[c \div Ratio + 1] * Ratio + (c % Ratio)
               /\ c >= f /\ c - f < position + 1 - e => sel[c] = e + c - f
               /\ c >= f /\ ~ (c - f < position + 1 - e) => sel[c] = Qsa!Pad
<1> DEFINE open == Open(position)
           m == Taken(position)
           token == IF c < m * Ratio THEN blocks[c \div Ratio + 1] * Ratio + (c % Ratio)
                    ELSE IF c - m * Ratio < position + 1 - open * Ratio
                    THEN open * Ratio + c - m * Ratio
                    ELSE Qsa!Pad
<1>0. /\ Ratio \in Nat \ {0} /\ open \in Nat /\ open * Ratio \in Nat /\ open * Ratio <= position + 1
      /\ m \in Nat /\ m * Ratio \in Nat /\ Qsa!Visible(position, len) = open
  BY OpenGroup
<1>1. Qsa!Selected(position, len, blocks)[c] = IF token \in 0 .. len - 1 THEN token ELSE Qsa!Pad
  <2>1. Qsa!Smaller(Qsa!Visible(position, len), BlockTopK) = m /\ ((position + 1) \div Ratio) = open
    BY <1>0 DEF Taken, Open
  <2> HIDE DEF open, m
  <2> QED
    BY <2>1 DEF Qsa!Selected
<1> HIDE DEF open, m
<1>2. c \in Nat
  BY TilesAndSplits
<1>3. c \div Ratio \in Nat /\ c % Ratio \in 0 .. Ratio - 1
  BY <1>0, <1>2, ModSplit
<1>4. ASSUME c < m * Ratio
      PROVE  /\ c \div Ratio + 1 \in 1 .. m
             /\ Qsa!Selected(position, len, blocks)[c] =
                  blocks[c \div Ratio + 1] * Ratio + (c % Ratio)
  <2>1. c \div Ratio < m
    BY <1>0, <1>2, <1>4, DivLess
  <2>2. c \div Ratio + 1 \in 1 .. m
    BY <1>0, <1>3, <2>1
  <2>3. blocks[c \div Ratio + 1] \in Nat /\ blocks[c \div Ratio + 1] < open
    BY <2>2, RankedGroups DEF m, open
  <2> DEFINE b == blocks[c \div Ratio + 1]
             r == c % Ratio
  <2>4. token = b * Ratio + r
    BY <1>4
  <2> HIDE DEF b, r, token
  <2>5. b \in Nat /\ b < open /\ r \in 0 .. Ratio - 1
    BY <1>3, <2>3 DEF b, r
  <2>6. b * Ratio \in Nat /\ b * Ratio + Ratio <= open * Ratio
    BY <1>0, <2>5, GroupsApart
  <2>7. b * Ratio + r \in 0 .. len - 1
    BY <1>0, <2>5, <2>6
  <2> QED
    BY <1>1, <2>2, <2>4, <2>7 DEF b, r
<1>5. ASSUME c >= m * Ratio, c - m * Ratio < position + 1 - open * Ratio
      PROVE  Qsa!Selected(position, len, blocks)[c] = open * Ratio + c - m * Ratio
  <2> DEFINE d == m * Ratio
             e == open * Ratio
  <2>1. d \in Nat /\ e \in Nat
    BY <1>0
  <2>2. ~ (c < d) /\ token = e + c - d
    BY <1>0, <1>2, <1>5
  <2>3. e + c - d \in 0 .. len - 1
    <3> HIDE DEF token, d, e
    <3>1. c >= d /\ c - d < position + 1 - e
      BY <1>5 DEF d, e
    <3> QED
      BY <1>2, <2>1, <3>1
  <2> HIDE DEF token
  <2> QED
    BY <1>1, <2>2, <2>3
<1>6. ASSUME c >= m * Ratio, ~ (c - m * Ratio < position + 1 - open * Ratio)
      PROVE  Qsa!Selected(position, len, blocks)[c] = Qsa!Pad
  <2>1. ~ (c < m * Ratio)
    BY <1>0, <1>2, <1>6
  <2>2. token = Qsa!Pad
    BY <1>6, <2>1
  <2> HIDE DEF token
  <2> QED
    BY <1>1, <2>2
<1> QED
  BY <1>4, <1>5, <1>6 DEF m, open

\* A token of a group taken.
LEMMA TokenOfGroup ==
    ASSUME Qsa!QsaAssumption, NEW position \in Nat, NEW len \in Nat,
           position < len, len <= Qsa!MaxLen,
           NEW blocks \in Qsa!Rankings(position, len), NEW c \in 0 .. Qsa!Width - 1,
           c < Taken(position) * Ratio
    PROVE  LET token == Qsa!Selected(position, len, blocks)[c]
           IN  /\ token \in Nat /\ token < Open(position) * Ratio
               /\ c \div Ratio + 1 \in 1 .. Taken(position)
               /\ token \div Ratio = blocks[c \div Ratio + 1] /\ token % Ratio = c % Ratio
<1> DEFINE b == blocks[c \div Ratio + 1]
           r == c % Ratio
           open == Open(position)
           token == Qsa!Selected(position, len, blocks)[c]
<1>1. Ratio \in Nat \ {0} /\ open \in Nat
  BY OpenGroup
<1>2. c \div Ratio + 1 \in 1 .. Taken(position) /\ token = b * Ratio + r
  BY ColumnToken
<1>3. b \in Nat /\ b < open
  BY <1>2, RankedGroups
<1>4. r \in 0 .. Ratio - 1
  <2>1. c \in Nat
    BY TilesAndSplits
  <2> QED
    BY <1>1, <2>1, ModSplit
<1> HIDE DEF b, r, open, token
<1>5. /\ b * Ratio = Ratio * b /\ b * Ratio \in Nat
      /\ b * Ratio + Ratio <= open * Ratio /\ open * Ratio \in Nat
  BY <1>1, <1>3, GroupsApart
<1>6. (Ratio * b + r) \div Ratio = b /\ (Ratio * b + r) % Ratio = r
  BY <1>1, <1>3, <1>4, DivUnique, ModUnique
<1>7. token \in Nat /\ token < open * Ratio /\ token \div Ratio = b /\ token % Ratio = r
  <2>1. token = Ratio * b + r
    BY <1>2, <1>5 DEF b, r, token
  <2> DEFINE x == b * Ratio
             y == open * Ratio
  <2>2. Ratio * b = x /\ x \in Nat /\ y \in Nat /\ x + Ratio <= y
    BY <1>5
  <2> HIDE DEF x, y
  <2>3. token \in Nat /\ token < y
    BY <1>1, <1>4, <2>1, <2>2
  <2> QED
    BY <1>6, <2>1, <2>3 DEF y
<1> QED
  BY <1>2, <1>7 DEF b, r, open, token

\* A token is in one column if its group was taken or is the open one, and in none otherwise.
LEMMA TokenColumns ==
    ASSUME Qsa!QsaAssumption, NEW position \in Nat, NEW len \in Nat,
           position < len, len <= Qsa!MaxLen,
           NEW blocks \in Qsa!Rankings(position, len), NEW token \in 0 .. len - 1
    PROVE  /\ \A c, d \in 0 .. Qsa!Width - 1 :
                 /\ Qsa!Selected(position, len, blocks)[c] = token
                 /\ Qsa!Selected(position, len, blocks)[d] = token
                 => c = d
           /\ (\E c \in 0 .. Qsa!Width - 1 : Qsa!Selected(position, len, blocks)[c] = token)
                <=> \/ token \div Ratio \in Chosen(position, blocks)
                    \/ token \in Open(position) * Ratio .. position
<1> DEFINE open == Open(position)
           m == Taken(position)
           sel == Qsa!Selected(position, len, blocks)
           e == open * Ratio
           f == m * Ratio
<1>0. /\ Ratio \in Nat \ {0} /\ open \in Nat
      /\ e \in Nat /\ e <= position + 1 /\ position + 1 < e + Ratio
      /\ m \in Nat /\ f \in Nat /\ m <= BlockTopK /\ BlockTopK \in Nat \ {0} /\ m <= open
  BY OpenGroup
<1>1. ASSUME NEW c \in 0 .. Qsa!Width - 1, sel[c] = token
      PROVE  \/ c < f /\ token < e /\ c \div Ratio + 1 \in 1 .. m
                /\ token \div Ratio = blocks[c \div Ratio + 1] /\ token % Ratio = c % Ratio
             \/ c >= f /\ token = e + c - f /\ token >= e /\ token <= position
  <2>0. c \in Nat
    BY TilesAndSplits
  <2>1. CASE c < f
    BY <1>1, <2>1, TokenOfGroup
  <2>2. CASE c >= f /\ c - f < position + 1 - e
    <3>1. sel[c] = e + c - f
      BY <2>2, ColumnToken
    <3> HIDE DEF e, f, sel
    <3> QED
      BY <1>0, <1>1, <2>0, <2>2, <3>1
  <2>3. CASE c >= f /\ ~ (c - f < position + 1 - e)
    <3>1. sel[c] = Qsa!Pad
      BY <2>3, ColumnToken
    <3>2. token # Qsa!Pad
      BY DEF Qsa!Pad
    <3> QED
      BY <1>1, <3>1, <3>2
  <2> HIDE DEF f
  <2> QED
    BY <1>0, <2>0, <2>1, <2>2, <2>3
<1>2. ASSUME NEW c \in 0 .. Qsa!Width - 1, NEW d \in 0 .. Qsa!Width - 1,
             sel[c] = token, sel[d] = token
      PROVE  c = d
  <2>0. c \in Nat /\ d \in Nat
    BY TilesAndSplits
  <2>1. CASE c < f /\ d < f
    <3>1. /\ c \div Ratio + 1 \in 1 .. m /\ d \div Ratio + 1 \in 1 .. m
          /\ blocks[c \div Ratio + 1] = blocks[d \div Ratio + 1] /\ c % Ratio = d % Ratio
      <4> HIDE DEF e, f, m, sel
      <4> QED
        BY <1>0, <1>1, <1>2, <2>0, <2>1
    <3>2. c \div Ratio + 1 = d \div Ratio + 1
      BY <3>1, RankedGroups
    <3>3. /\ c \div Ratio \in Nat /\ c % Ratio \in 0 .. Ratio - 1
          /\ c = Ratio * (c \div Ratio) + (c % Ratio)
          /\ d \div Ratio \in Nat /\ d % Ratio \in 0 .. Ratio - 1
          /\ d = Ratio * (d \div Ratio) + (d % Ratio)
      BY <1>0, <2>0, ModSplit
    <3> DEFINE x == c \div Ratio
               y == d \div Ratio
    <3>4. x \in Nat /\ y \in Nat /\ x + 1 = y + 1
      BY <3>2, <3>3
    <3> HIDE DEF x, y
    <3>5. x = y
      BY <3>4
    <3> QED
      BY <3>1, <3>3, <3>5 DEF x, y
  <2>2. CASE ~ (c < f /\ d < f)
    <3>1. \A x \in 0 .. Qsa!Width - 1 :
            sel[x] = token => \/ x < f /\ token < e
                              \/ x >= f /\ token = e + x - f /\ token >= e
      BY <1>1
    <3> HIDE DEF e, f, sel
    <3> QED
      BY <1>0, <1>2, <2>0, <2>2, <3>1
  <2> QED
    BY <2>1, <2>2
<1>3. ASSUME NEW c \in 0 .. Qsa!Width - 1, sel[c] = token
      PROVE  token \div Ratio \in Chosen(position, blocks) \/ token \in e .. position
  <2>1. CASE c \div Ratio + 1 \in 1 .. m /\ token \div Ratio = blocks[c \div Ratio + 1]
    BY <2>1 DEF Chosen
  <2>2. CASE token >= e /\ token <= position
    <3> HIDE DEF e
    <3> QED
      BY <1>0, <2>2
  <2> QED
    BY <1>1, <1>3, <2>1, <2>2
<1>4. ASSUME token \div Ratio \in Chosen(position, blocks)
      PROVE  \E c \in 0 .. Qsa!Width - 1 : sel[c] = token
  <2>1. PICK i \in 1 .. m : token \div Ratio = blocks[i]
    BY <1>4 DEF Chosen
  <2> DEFINE r == token % Ratio
             q == token \div Ratio
             c == Ratio * (i - 1) + r
  <2>2. q \in Nat /\ r \in 0 .. Ratio - 1 /\ token = Ratio * q + r
    <3>1. token \in Nat
      OBVIOUS
    <3> QED
      BY <1>0, <3>1, ModSplit
  <2>3. i \in Nat /\ i >= 1 /\ i <= m /\ i - 1 \in Nat
    BY <1>0
  <2>4. c \div Ratio = i - 1 /\ c % Ratio = r
    <3> HIDE DEF r
    <3> QED
      BY <1>0, <2>2, <2>3, DivUnique, ModUnique
  <2>5. c \in Nat /\ c < f
    <3> HIDE DEF r, q
    <3>1. /\ (m - i) * Ratio = m * Ratio - i * Ratio /\ (m - i) * Ratio >= 0
          /\ Ratio * (i - 1) = i * Ratio - Ratio
          /\ Ratio * (i - 1) \in Nat /\ m * Ratio \in Nat /\ i * Ratio \in Nat
      BY <1>0, <2>3
    <3> QED
      BY <1>0, <2>2, <2>3, <3>1
  <2>6. c \in 0 .. Qsa!Width - 1
    <3>1. f <= BlockTopK * Ratio /\ BlockTopK * Ratio \in Nat
      <4>1. (BlockTopK - m) * Ratio = BlockTopK * Ratio - m * Ratio /\ (BlockTopK - m) * Ratio >= 0
        BY <1>0
      <4>2. m * Ratio \in Nat /\ BlockTopK * Ratio \in Nat
        BY <1>0
      <4> HIDE DEF m
      <4> QED
        BY <4>1, <4>2
    <3>2. Qsa!Width = BlockTopK * Ratio + Ratio - 1
      BY DEF Qsa!Width
    <3> HIDE DEF c, f
    <3> QED
      BY <1>0, <2>5, <3>1, <3>2
  <2>7. sel[c] = blocks[c \div Ratio + 1] * Ratio + (c % Ratio)
    <3> HIDE DEF c
    <3> QED
      BY <2>5, <2>6, ColumnToken DEF f, m, sel
  <2>8. sel[c] = token
    <3>1. (i - 1) + 1 = i
      BY <2>3
    <3>2. blocks[i] * Ratio + r = token
      <4> HIDE DEF r, c
      <4>1. q = blocks[i] /\ q * Ratio = Ratio * q
        BY <1>0, <2>1, <2>2
      <4> HIDE DEF q
      <4> QED
        BY <2>2, <4>1
    <3> HIDE DEF c, r, sel
    <3> QED
      BY <2>4, <2>7, <3>1, <3>2
  <2> QED
    BY <2>6, <2>8
<1>5. ASSUME token \in e .. position PROVE \E c \in 0 .. Qsa!Width - 1 : sel[c] = token
  <2> DEFINE c == f + token - e
  <2>1. c \in Nat /\ c >= f /\ c - f < position + 1 - e /\ e + c - f = token
    <3> HIDE DEF e, f
    <3> QED
      BY <1>0, <1>5
  <2>2. c \in 0 .. Qsa!Width - 1
    <3>1. f <= BlockTopK * Ratio /\ BlockTopK * Ratio \in Nat
      <4>1. (BlockTopK - m) * Ratio = BlockTopK * Ratio - m * Ratio /\ (BlockTopK - m) * Ratio >= 0
        BY <1>0
      <4>2. m * Ratio \in Nat /\ BlockTopK * Ratio \in Nat
        BY <1>0
      <4> HIDE DEF m
      <4> QED
        BY <4>1, <4>2
    <3>2. Qsa!Width = BlockTopK * Ratio + Ratio - 1
      BY DEF Qsa!Width
    <3> HIDE DEF c, f, e
    <3> QED
      BY <1>0, <2>1, <3>1, <3>2
  <2> HIDE DEF c
  <2>3. sel[c] = e + c - f
    BY <2>1, <2>2, ColumnToken DEF e, f, m, open, sel
  <2> QED
    BY <2>1, <2>2, <2>3
<1> QED
  BY <1>2, <1>3, <1>4, <1>5 DEF e, open, sel

\* A token that is in a column is read once, whatever the tiles and the splits, and any
\* other is not read.
LEMMA ReadOnce ==
    ASSUME Qsa!QsaAssumption, NEW position \in Nat, NEW len \in Nat,
           position < len, len <= Qsa!MaxLen,
           NEW blocks \in Qsa!Rankings(position, len), NEW token \in 0 .. len - 1
    PROVE  Cardinality(Qsa!Reads(position, len, blocks, token)) =
             IF \/ token \div Ratio \in Chosen(position, blocks)
                \/ token \in Open(position) * Ratio .. position
             THEN 1 ELSE 0
<1> DEFINE sel == Qsa!Selected(position, len, blocks)
           reads == Qsa!Reads(position, len, blocks, token)
           Shown == \E c \in 0 .. Qsa!Width - 1 : sel[c] = token
<1>1. reads = {at \in (0 .. Qsa!NumSplits - 1) \X (0 .. Qsa!Width - 1) :
                  at[2] \div BlockN \in Qsa!SplitTiles(at[1]) /\ sel[at[2]] = token}
  BY DEF Qsa!Reads
<1>2. Shown <=> \/ token \div Ratio \in Chosen(position, blocks)
                \/ token \in Open(position) * Ratio .. position
  BY TokenColumns
<1>3. \A c, d \in 0 .. Qsa!Width - 1 : sel[c] = token /\ sel[d] = token => c = d
  BY TokenColumns
<1> HIDE DEF sel, reads
<1>4. ASSUME Shown PROVE Cardinality(reads) = 1
  <2>1. PICK c \in 0 .. Qsa!Width - 1 : sel[c] = token
    BY <1>4
  <2>2. c \div BlockN \in 0 .. Qsa!NumTiles - 1
    BY TilesAndSplits
  <2>3. PICK s \in 0 .. Qsa!NumSplits - 1 :
            \A u \in 0 .. Qsa!NumSplits - 1 : c \div BlockN \in Qsa!SplitTiles(u) <=> u = s
    BY <2>2, OneSplit
  <2>4. <<s, c>> \in reads
    BY <1>1, <2>1, <2>3
  <2>5. \A at \in reads : at = <<s, c>>
    <3> SUFFICES ASSUME NEW at \in reads PROVE at = <<s, c>>
      OBVIOUS
    <3>1. PICK u \in 0 .. Qsa!NumSplits - 1, d \in 0 .. Qsa!Width - 1 : at = <<u, d>>
      BY <1>1
    <3>2. d \div BlockN \in Qsa!SplitTiles(u) /\ sel[d] = token
      BY <1>1, <3>1
    <3>3. d = c
      BY <1>3, <2>1, <3>2
    <3> QED
      BY <2>3, <3>1, <3>2, <3>3
  <2>6. reads = {<<s, c>>}
    BY <2>4, <2>5
  <2> QED
    BY <2>6, FS_Singleton
<1>5. ASSUME ~ Shown PROVE Cardinality(reads) = 0
  <2>1. reads = {}
    BY <1>1, <1>5
  <2> QED
    BY <2>1, FS_EmptySet
<1> HIDE DEF Shown
<1> QED
  BY <1>2, <1>4, <1>5 DEF reads

\* As many groups are taken as may be.
LEMMA ChosenCount ==
    ASSUME Qsa!QsaAssumption, NEW position \in Nat, NEW len \in Nat,
           position < len, len <= Qsa!MaxLen,
           NEW blocks \in Qsa!Rankings(position, len)
    PROVE  Cardinality(Chosen(position, blocks)) = Taken(position)
<1> DEFINE m == Taken(position)
           S == Chosen(position, blocks)
           f == [i \in 1 .. m |-> blocks[i]]
<1>1. m \in Nat
  BY OpenGroup
<1>2. f \in Bijection(1 .. m, S)
  <2>1. \A i, j \in 1 .. m : blocks[i] = blocks[j] => i = j
    BY RankedGroups
  <2>2. f \in [1 .. m -> S] /\ \A x \in S : \E i \in 1 .. m : f[i] = x
    BY DEF Chosen
  <2>3. \A i, j \in 1 .. m : f[i] = f[j] => i = j
    BY <2>1
  <2> HIDE DEF f, S, m
  <2> QED
    BY <2>2, <2>3 DEF Bijection, Injection, Surjection, IsInjective
<1>3. ExistsBijection(1 .. m, S)
  BY <1>2 DEF ExistsBijection
<1>4. IsFiniteSet(1 .. m) /\ Cardinality(1 .. m) = m
  BY <1>1, FS_Interval
<1> HIDE DEF m, S
<1>5. Cardinality(S) = m
  BY <1>3, <1>4, FS_Bijection
<1> QED
  BY <1>5 DEF m, S

\* The cardinality of the instance is that of the standard module.
LEMMA SameCardinality ==
    ASSUME NEW S
    PROVE  Qsa!Cardinality(S) = Cardinality(S)
BY Zenon DEF Qsa!Cardinality, Cardinality

\* However the scores rank the groups, a query attends no token after its own, none twice,
\* its whole open group, and as many complete groups as it may choose: for any ratio, number
\* of groups, size of tiles and number of splits.
THEOREM QuerySelectsOnce ==
    ASSUME Qsa!QsaAssumption, NEW position \in Nat, NEW len \in Nat,
           position < len, len <= Qsa!MaxLen
    PROVE  Qsa!SelectsOnce(position, len)
<1> SUFFICES
      ASSUME NEW blocks \in Qsa!Rankings(position, len)
      PROVE  LET times(token) == Qsa!Cardinality(Qsa!Reads(position, len, blocks, token))
                 attended == {token \in 0 .. len - 1 : times(token) > 0}
                 groups == {g \in 0 .. Qsa!Columns :
                             \A o \in 0 .. Ratio - 1 : g * Ratio + o \in attended}
                 open == (position + 1) \div Ratio
             IN  /\ \A token \in attended : times(token) = 1 /\ token <= position
                 /\ open * Ratio .. position \subseteq attended
                 /\ Qsa!Cardinality(groups) = Qsa!Smaller(open, BlockTopK)
                 /\ \A token \in attended : token \div Ratio \in groups \union {open}
  BY DEF Qsa!SelectsOnce
<1> DEFINE times(token) == Qsa!Cardinality(Qsa!Reads(position, len, blocks, token))
           attended == {token \in 0 .. len - 1 : times(token) > 0}
           groups == {g \in 0 .. Qsa!Columns : \A o \in 0 .. Ratio - 1 : g * Ratio + o \in attended}
           open == Open(position)
           chosen == Chosen(position, blocks)
           e == open * Ratio
<1>0. /\ Ratio \in Nat \ {0} /\ Qsa!Columns \in Nat /\ open \in 0 .. Qsa!Columns
      /\ e \in Nat /\ e <= position + 1 /\ position + 1 < e + Ratio
  BY OpenGroup
<1>1. \A token \in 0 .. len - 1 :
        times(token) = IF token \div Ratio \in chosen \/ token \in e .. position THEN 1 ELSE 0
  BY ReadOnce, SameCardinality
<1>2. \A g \in chosen : g \in Nat /\ g < open
  BY RankedGroups DEF Chosen
<1> HIDE DEF times, open, chosen
<1>3. \A token \in 0 .. len - 1 :
        token \in attended <=> token \div Ratio \in chosen \/ token \in e .. position
  BY <1>1
<1>4. attended \subseteq 0 .. len - 1
  OBVIOUS
<1> HIDE DEF attended
\* A token is of a group.
<1>5. ASSUME NEW g \in Nat, NEW o \in 0 .. Ratio - 1
      PROVE  g * Ratio + o \in Nat /\ (g * Ratio + o) \div Ratio = g
  <2>1. g * Ratio = Ratio * g /\ g * Ratio \in Nat
    BY <1>0
  <2>2. (Ratio * g + o) \div Ratio = g
    BY <1>0, DivUnique
  <2> QED
    BY <1>0, <2>1, <2>2
<1>6. ASSUME NEW g \in Nat, g < open, NEW o \in 0 .. Ratio - 1
      PROVE  g * Ratio + o < e /\ g * Ratio + o \in 0 .. len - 1 /\ g * Ratio + o <= position
  <2>1. g * Ratio \in Nat /\ g * Ratio + Ratio <= e
    BY <1>0, <1>6, GroupsApart
  <2> HIDE DEF e
  <2> QED
    BY <1>0, <2>1
<1>7. ASSUME NEW token \in attended
      PROVE  times(token) = 1 /\ token <= position /\ token \div Ratio \in chosen \union {open}
  <2>1. token \in Nat /\ token \in 0 .. len - 1
    BY <1>4
  <2>2. times(token) = 1
    BY <1>1, <1>3, <2>1
  <2>3. CASE token \div Ratio \in chosen
    <3>1. token \div Ratio \in Nat /\ token \div Ratio < open
      BY <1>2, <2>3
    <3>2. token < e
      BY <1>0, <2>1, <3>1, DivLess
    <3> HIDE DEF e
    <3>3. token <= position
      BY <1>0, <2>1, <3>2
    <3> QED
      BY <2>2, <2>3, <3>3
  <2>4. CASE token \in e .. position
    <3>1. token <= position /\ e <= token /\ token < e + Ratio
      <4> HIDE DEF e
      <4> QED
        BY <1>0, <2>1, <2>4
    <3>2. token \div Ratio = open
      <4>1. open \in Nat
        BY <1>0
      <4> QED
        BY <2>1, <3>1, <4>1, GroupUnique
    <3> QED
      BY <2>2, <3>1, <3>2
  <2> QED
    BY <1>3, <2>1, <2>3, <2>4
<1>8. e .. position \subseteq attended
  <2> SUFFICES ASSUME NEW token \in e .. position PROVE token \in attended
    OBVIOUS
  <2>1. token \in 0 .. len - 1
    <3> HIDE DEF e
    <3> QED
      BY <1>0
  <2> QED
    BY <1>3, <2>1
<1>9. groups = chosen
  <2>1. ASSUME NEW g \in chosen PROVE g \in groups
    <3>1. g \in Nat /\ g < open /\ g \in 0 .. Qsa!Columns
      BY <1>0, <1>2
    <3>2. ASSUME NEW o \in 0 .. Ratio - 1 PROVE g * Ratio + o \in attended
      <4>1. g * Ratio + o \in 0 .. len - 1
        BY <1>6, <3>1
      <4>2. (g * Ratio + o) \div Ratio = g
        BY <1>5, <3>1
      <4> QED
        BY <1>3, <4>1, <4>2
    <3> QED
      BY <3>1, <3>2
  <2>2. ASSUME NEW g \in groups PROVE g \in chosen
    <3>1. g \in Nat /\ \A o \in 0 .. Ratio - 1 : g * Ratio + o \in attended
      BY <1>0
    <3>2. Ratio - 1 \in 0 .. Ratio - 1
      BY <1>0
    <3> DEFINE last == g * Ratio + (Ratio - 1)
    <3>3. last \in attended /\ last \div Ratio = g
      BY <1>5, <3>1, <3>2
    <3>4. last \in 0 .. len - 1
      BY <1>4, <3>3
    <3>5. ASSUME last \in e .. position PROVE FALSE
      <4>1. g = open
        <5>1. last \in Nat /\ e <= last /\ last < e + Ratio /\ open \in Nat
          <6>1. last \in Int /\ open \in Nat
            BY <1>0, <3>4
          <6> HIDE DEF e, last
          <6> QED
            BY <1>0, <3>5, <6>1
        <5> HIDE DEF last
        <5>2. last \div Ratio = open
          BY <5>1, GroupUnique
        <5> QED
          BY <3>3, <5>2
      <4>2. last = e + (Ratio - 1)
        BY <4>1
      <4>3. last <= position
        <5> HIDE DEF last
        <5> QED
          BY <3>5
      <4> HIDE DEF last, e
      <4> QED
        BY <1>0, <4>2, <4>3
    <3> HIDE DEF last
    <3> QED
      BY <1>3, <3>3, <3>4, <3>5
  <2> HIDE DEF groups
  <2> QED
    BY <2>1, <2>2
<1>10. Qsa!Cardinality(groups) = Qsa!Smaller(open, BlockTopK)
  <2>1. Cardinality(chosen) = Taken(position)
    BY ChosenCount DEF chosen
  <2> HIDE DEF groups
  <2> QED
    BY <1>9, <2>1, SameCardinality DEF Taken, open
<1>11. (position + 1) \div Ratio = open
  BY DEF open, Open
<1> HIDE DEF groups
<1> QED
  BY <1>7, <1>8, <1>9, <1>10, <1>11 DEF times, attended, groups
=============================================================================

---------------------------- MODULE MCScheduler ----------------------------
(* Small instances of the scheduler for TLC.                               *)
EXTENDS SchedulerProperties, TLC

CONSTANTS r1, r2, r3

BlockSymmetry == Permutations(Blocks)

PromptTwo   == [r \in Req |-> 2]
PromptMixed == [r \in Req |-> IF r = r1 THEN 1 ELSE 3]
OutputTwo   == [r \in Req |-> 2]
OutputThree == [r \in Req |-> 3]
Ranks       == [r \in Req |-> IF r = r1 THEN 3 ELSE IF r = r2 THEN 2 ELSE 1]
NoHits      == {}
BlockHit    == {2}
=============================================================================

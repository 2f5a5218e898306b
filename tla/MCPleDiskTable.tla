--------------------------- MODULE MCPleDiskTable ---------------------------
(* The checkpoints of the small instances of PleDiskTable: two models whose    *)
(* tables differ in shape and not in size.                                     *)
EXTENDS PleDiskTable

TwoCheckpoints == {"a", "b"}

ShapesDiffer == [c \in TwoCheckpoints |-> IF c = "a" THEN 1 ELSE 2]

OneSize == [c \in TwoCheckpoints |-> 4]
=============================================================================

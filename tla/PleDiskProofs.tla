---------------------------- MODULE PleDiskProofs ----------------------------
(***************************************************************************)
(* Proofs about PleDiskTable, for any number of tables, shards and         *)
(* checkpoints, and any sequence of boots, kills and power losses: if the  *)
(* checkpoints differ in the shape of their tables and the flush does not  *)
(* fail, a table that is served is whole, and a marker that survives a     *)
(* power loss stands for a table that survived it.                         *)
(***************************************************************************)
EXTENDS PleDiskTable, TLAPS

ShapesDistinct == \A c, k \in Checkpoints : ShapeOf[c] = ShapeOf[k] => c = k

Whole(f, t, c) == \A s \in Shards : f[t][s] = c

\* A finished marker stands for a table that is whole, in the file and on the
\* disk; on the disk the marker may still be empty.
MarkerInv ==
    \A t \in Tables :
        /\ mark[t] \in Shapes /\ size[t] # 0
               => \A c \in Checkpoints : ShapeOf[c] = mark[t]
                                             => Whole(file, t, c) /\ Whole(diskFile, t, c)
        /\ diskMark[t] \in {mark[t], Empty}

\* A table the attach loop is done with: reused, or without a marker.
Attached(t) ==
    /\ size[t] = SizeOf[checkpoint]
    /\ t \in complete => mark[t] = ShapeOf[checkpoint]
    /\ t \notin complete => mark[t] = Absent

AttachInv ==
    /\ pc \in {"attach", "truncate"} =>
          /\ \A t \in Tables : t < at => Attached(t)
          /\ \A t \in complete : t < at
          /\ \A t \in Tables : loaded[t] = {}
    /\ pc = "truncate" => mark[at] = Absent

LoadInv ==
    /\ pc \in {"load", "copy"} =>
          \A t \in Tables :
              /\ Attached(t)
              /\ t \notin complete => \A s \in loaded[t] : file[t][s] = checkpoint
    /\ pc = "copy" => at \notin complete /\ shard \notin loaded[at]

FinalizeInv ==
    /\ pc \in {"flush", "create", "write"} =>
          \A t \in Tables :
              /\ size[t] = SizeOf[checkpoint]
              /\ t \in complete \/ t < at => mark[t] = ShapeOf[checkpoint]
              /\ t \notin complete => Whole(file, t, checkpoint)
    /\ pc \in {"create", "write"} => at \notin complete /\ Whole(diskFile, at, checkpoint)
    /\ pc = "write" => mark[at] = Empty

ServeInv ==
    pc = "serve" => \A t \in Tables : size[t] = SizeOf[checkpoint] /\ mark[t] = ShapeOf[checkpoint]

Inv == TypeOK /\ MarkerInv /\ AttachInv /\ LoadInv /\ FinalizeInv /\ ServeInv
-----------------------------------------------------------------------------
\* Markers of files and shapes are told apart.
LEMMA MarkerValues == Absent \notin Shapes /\ Empty \notin Shapes
  BY DiskAssumption DEF Absent, Empty, Shapes

\* What DiskAssumption says of single checkpoints.
LEMMA ShapeFacts ==
  /\ NumTables \in Nat \ {0} /\ MaxBoots \in Nat \ {0}
  /\ \A c \in Checkpoints : /\ ShapeOf[c] \in Shapes /\ SizeOf[c] \in Nat /\ SizeOf[c] # 0
  BY DiskAssumption DEF Shapes

\* The types, step by step.
LEMMA TypeStep == TypeOK /\ [Next]_vars => TypeOK'
  <1> SUFFICES ASSUME TypeOK, [Next]_vars PROVE TypeOK'
    OBVIOUS
  <1> USE ShapeFacts DEF TypeOK, Tables, fileVars, markVars, procVars, Continue
  <1>1. CASE AttachFails
    BY <1>1 DEF AttachFails
  <1>2. CASE AttachReuse
    BY <1>2 DEF AttachReuse
  <1>3. CASE AttachRemove
    BY <1>3 DEF AttachRemove, Unmarked
  <1>4. CASE AttachTruncate
    BY <1>4 DEF AttachTruncate
  <1>5. CASE LoadEnd
    BY <1>5 DEF LoadEnd
  <1>6. CASE LoadDone
    BY <1>6 DEF LoadDone
  <1>7. CASE FinalizeSkip
    BY <1>7 DEF FinalizeSkip
  <1>8. CASE Flush
    BY <1>8 DEF Flush, Flushed
  <1>9. CASE CreateMarker
    BY <1>9 DEF CreateMarker
  <1>10. CASE WriteMarker
    BY <1>10 DEF WriteMarker
  <1>11. ASSUME NEW t \in Tables, NEW s \in Shards, LoadBegin(t, s) PROVE TypeOK'
    BY <1>11 DEF LoadBegin
  <1>12. ASSUME NEW c \in Checkpoints, Boot(c) PROVE TypeOK'
    BY <1>12 DEF Boot
  <1>13. ASSUME NEW t \in Tables, NEW s \in Shards, WriteBack(t, s) PROVE TypeOK'
    BY <1>13 DEF WriteBack
  <1>14. ASSUME NEW t \in Tables, WriteBackMarker(t) PROVE TypeOK'
    BY <1>14 DEF WriteBackMarker
  <1>15. ASSUME NEW t \in Tables, RemoveFile(t) PROVE TypeOK'
    BY <1>15 DEF RemoveFile
  <1>16. CASE Exit
    BY <1>16 DEF Exit
  <1>17. CASE PowerLoss
    BY <1>17 DEF PowerLoss
  <1>18. CASE UNCHANGED vars
    BY <1>18 DEF vars
  <1> QED
    BY <1>1, <1>2, <1>3, <1>4, <1>5, <1>6, <1>7, <1>8, <1>9, <1>10, <1>11, <1>12, <1>13, <1>14, <1>15, <1>16, <1>17, <1>18 DEF Next, Process, Environment

\* Every variable keeps its type, for all values of the constants.
THEOREM TypeCorrect == Spec => []TypeOK
  <1>1. Init => TypeOK
    BY ShapeFacts DEF Init, TypeOK, Tables
  <1> QED
    BY <1>1, TypeStep, PTL DEF Spec

\* The invariant, step by step.
LEMMA InvStep ==
  ASSUME ShapesDistinct, FlushMayFail = FALSE
  PROVE  Inv /\ [Next]_vars => Inv'
  <1> SUFFICES ASSUME Inv, [Next]_vars PROVE Inv'
    OBVIOUS
  <1> USE ShapeFacts, MarkerValues DEF Tables, fileVars, markVars, procVars
  <1>0. TypeOK /\ TypeOK' /\ MarkerInv /\ AttachInv /\ LoadInv /\ FinalizeInv /\ ServeInv
    BY TypeStep DEF Inv
  <1>1. CASE AttachFails
    BY <1>0, <1>1
    DEF Inv, TypeOK, AttachFails, MarkerInv, Whole, AttachInv, Attached, LoadInv, FinalizeInv,
        ServeInv
  <1>2. CASE AttachReuse
    <2>1. MarkerInv' /\ FinalizeInv' /\ ServeInv'
      BY <1>0, <1>2
      DEF TypeOK, AttachReuse, HasMarker, Matches, Continue, MarkerInv, Whole, FinalizeInv,
          ServeInv
    <2>2. AttachInv'
      BY <1>0, <1>2 DEF TypeOK, AttachReuse, HasMarker, Matches, Continue, AttachInv, Attached
    <2>3. LoadInv'
      BY <1>0, <1>2
      DEF TypeOK, AttachReuse, HasMarker, Matches, Continue, LoadInv, Attached, AttachInv
    <2> QED
      BY <1>0, <2>1, <2>2, <2>3 DEF Inv
  <1>3. CASE AttachRemove
    <2>1. MarkerInv' /\ LoadInv' /\ FinalizeInv' /\ ServeInv'
      BY <1>0, <1>3
      DEF TypeOK, AttachRemove, HasMarker, Matches, Unmarked, MarkerInv, Whole, LoadInv,
          Attached, FinalizeInv, ServeInv
    <2>2. AttachInv'
      BY <1>0, <1>3 DEF TypeOK, AttachRemove, HasMarker, Matches, Unmarked, AttachInv, Attached
    <2> QED
      BY <1>0, <2>1, <2>2 DEF Inv
  <1>4. CASE AttachTruncate
    <2>1. MarkerInv'
      <3>1. mark[at] = Absent /\ \A t \in Tables : t # at => size'[t] = size[t]
        BY <1>0, <1>4 DEF TypeOK, AttachTruncate, AttachInv
      <3> QED
        BY <1>0, <1>4, <3>1 DEF AttachTruncate, MarkerInv, Whole
    <2>2. FinalizeInv' /\ ServeInv'
      BY <1>0, <1>4 DEF TypeOK, AttachTruncate, Continue, FinalizeInv, Whole, ServeInv
    <2>3. AttachInv'
      BY <1>0, <1>4 DEF TypeOK, AttachTruncate, Continue, AttachInv, Attached
    <2>4. LoadInv'
      BY <1>0, <1>4 DEF TypeOK, AttachTruncate, Continue, LoadInv, Attached, AttachInv
    <2> QED
      BY <1>0, <2>1, <2>2, <2>3, <2>4 DEF Inv
  <1>5. ASSUME NEW u \in Tables, NEW r \in Shards, LoadBegin(u, r) PROVE Inv'
    <2>1. MarkerInv' /\ AttachInv' /\ FinalizeInv' /\ ServeInv'
      BY <1>0, <1>5
      DEF TypeOK, LoadBegin, MarkerInv, Whole, LoadInv, Attached, AttachInv, FinalizeInv,
          ServeInv
    <2>2. LoadInv'
      BY <1>0, <1>5 DEF TypeOK, LoadBegin, LoadInv, Attached
    <2> QED
      BY <1>0, <2>1, <2>2 DEF Inv
  <1>6. CASE LoadEnd
    <2>1. MarkerInv' /\ AttachInv' /\ FinalizeInv' /\ ServeInv'
      BY <1>0, <1>6
      DEF TypeOK, LoadEnd, MarkerInv, Whole, LoadInv, Attached, AttachInv, FinalizeInv,
          ServeInv
    <2>2. LoadInv'
      BY <1>0, <1>6 DEF TypeOK, LoadEnd, LoadInv, Attached
    <2> QED
      BY <1>0, <2>1, <2>2 DEF Inv
  <1>7. CASE LoadDone
    <2>1. MarkerInv' /\ AttachInv' /\ LoadInv' /\ ServeInv'
      BY <1>0, <1>7
      DEF TypeOK, LoadDone, MarkerInv, Whole, AttachInv, Attached, LoadInv, ServeInv
    <2>2. FinalizeInv'
      BY <1>0, <1>7 DEF TypeOK, LoadDone, FinalizeInv, Whole, LoadInv, Attached
    <2> QED
      BY <1>0, <2>1, <2>2 DEF Inv
  <1>8. CASE FinalizeSkip
    <2>1. MarkerInv' /\ AttachInv' /\ LoadInv'
      BY <1>0, <1>8
      DEF TypeOK, FinalizeSkip, Continue, MarkerInv, Whole, AttachInv, Attached, LoadInv
    <2>2. FinalizeInv'
      BY <1>0, <1>8 DEF TypeOK, FinalizeSkip, Continue, FinalizeInv, Whole
    <2>3. ServeInv'
      BY <1>0, <1>8 DEF TypeOK, FinalizeSkip, Continue, ServeInv, FinalizeInv
    <2> QED
      BY <1>0, <2>1, <2>2, <2>3 DEF Inv
  <1>9. CASE Flush
    <2>1. MarkerInv'
      <3>1. \A t \in Tables : diskFile'[t] \in {file[t], diskFile[t]}
        BY <1>0, <1>9 DEF TypeOK, Flush, Flushed
      <3>2. UNCHANGED <<size, file, mark, diskMark>>
        BY <1>9 DEF Flush
      <3> QED
        BY <1>0, <3>1, <3>2 DEF MarkerInv, Whole
    <2>2. AttachInv' /\ LoadInv' /\ ServeInv'
      BY <1>0, <1>9 DEF TypeOK, Flush, Flushed, AttachInv, Attached, LoadInv, ServeInv
    <2>3. FinalizeInv'
      <3>1. diskFile'[at] = file[at] /\ at \in Tables
        BY <1>0, <1>9 DEF TypeOK, Flush, Flushed
      <3>2. Whole(file, at, checkpoint)
        BY <1>0, <1>9, <3>1 DEF Flush, FinalizeInv
      <3> QED
        BY <1>0, <1>9, <3>1, <3>2 DEF Flush, FinalizeInv, Whole
    <2> QED
      BY <1>0, <2>1, <2>2, <2>3 DEF Inv
  <1>10. CASE CreateMarker
    <2>1. MarkerInv' /\ AttachInv' /\ LoadInv' /\ ServeInv'
      BY <1>0, <1>10
      DEF TypeOK, CreateMarker, MarkerInv, Whole, AttachInv, Attached, LoadInv, ServeInv
    <2>2. FinalizeInv'
      BY <1>0, <1>10 DEF TypeOK, CreateMarker, FinalizeInv, Whole
    <2> QED
      BY <1>0, <2>1, <2>2 DEF Inv
  <1>11. CASE WriteMarker
    <2>1. MarkerInv'
      BY <1>0, <1>11
      DEF TypeOK, WriteMarker, Continue, MarkerInv, Whole, FinalizeInv, ShapesDistinct
    <2>2. AttachInv' /\ LoadInv'
      BY <1>0, <1>11 DEF TypeOK, WriteMarker, Continue, AttachInv, Attached, LoadInv
    <2>3. FinalizeInv'
      BY <1>0, <1>11 DEF TypeOK, WriteMarker, Continue, FinalizeInv, Whole
    <2>4. ServeInv'
      BY <1>0, <1>11 DEF TypeOK, WriteMarker, Continue, ServeInv, FinalizeInv
    <2> QED
      BY <1>0, <2>1, <2>2, <2>3, <2>4 DEF Inv
  <1>12. ASSUME NEW c \in Checkpoints, Boot(c) PROVE Inv'
    BY <1>0, <1>12
    DEF Inv, TypeOK, Boot, MarkerInv, Whole, AttachInv, Attached, LoadInv, FinalizeInv,
        ServeInv
  <1>13. ASSUME NEW u \in Tables, NEW r \in Shards, WriteBack(u, r) PROVE Inv'
    <2>1. MarkerInv'
      BY <1>0, <1>13 DEF TypeOK, WriteBack, MarkerInv, Whole
    <2>2. AttachInv' /\ LoadInv' /\ ServeInv'
      BY <1>0, <1>13 DEF TypeOK, WriteBack, AttachInv, Attached, LoadInv, ServeInv
    <2>3. FinalizeInv'
      BY <1>0, <1>13 DEF TypeOK, WriteBack, FinalizeInv, Whole
    <2> QED
      BY <1>0, <2>1, <2>2, <2>3 DEF Inv
  <1>14. ASSUME NEW u \in Tables, WriteBackMarker(u) PROVE Inv'
    BY <1>0, <1>14
    DEF Inv, TypeOK, WriteBackMarker, MarkerInv, Whole, AttachInv, Attached, LoadInv,
        FinalizeInv, ServeInv
  <1>15. ASSUME NEW u \in Tables, RemoveFile(u) PROVE Inv'
    BY <1>0, <1>15
    DEF Inv, TypeOK, RemoveFile, MarkerInv, Whole, AttachInv, Attached, LoadInv, FinalizeInv,
        ServeInv
  <1>16. CASE Exit
    BY <1>0, <1>16
    DEF Inv, TypeOK, Exit, MarkerInv, Whole, AttachInv, Attached, LoadInv, FinalizeInv,
        ServeInv
  <1>17. CASE PowerLoss
    <2>1. MarkerInv'
      <3>1. \A t \in Tables : diskMark[t] \in Shapes => diskMark[t] = mark[t]
        BY <1>0 DEF MarkerInv
      <3> QED
        BY <1>0, <1>17, <3>1 DEF PowerLoss, MarkerInv, Whole
    <2>2. AttachInv' /\ LoadInv' /\ FinalizeInv' /\ ServeInv'
      BY <1>0, <1>17
      DEF TypeOK, PowerLoss, AttachInv, Attached, LoadInv, FinalizeInv, Whole, ServeInv
    <2> QED
      BY <1>0, <2>1, <2>2 DEF Inv
  <1>18. CASE UNCHANGED vars
    BY <1>0, <1>18
    DEF Inv, TypeOK, vars, MarkerInv, Whole, AttachInv, Attached, LoadInv, FinalizeInv,
        ServeInv
  <1> QED
    BY <1>1, <1>2, <1>3, <1>4, <1>5, <1>6, <1>7, <1>8, <1>9, <1>10, <1>11, <1>12, <1>13, <1>14, <1>15, <1>16, <1>17, <1>18
    DEF Next, Process, Environment

\* The invariant holds throughout.
LEMMA Invariant ==
  ASSUME ShapesDistinct, FlushMayFail = FALSE
  PROVE  Spec => []Inv
  <1>1. Init => Inv
    BY ShapeFacts, MarkerValues
    DEF Init, Inv, TypeOK, Tables, MarkerInv, AttachInv, LoadInv, FinalizeInv, ServeInv
  <1>2. Inv /\ [Next]_vars => Inv'
    BY InvStep
  <1> QED
    BY <1>1, <1>2, PTL DEF Spec

\* If checkpoints differ in shape, no boot serves a table that is not whole or
\* not that of its checkpoint, however the boots before it ended.
THEOREM TableServedWhole ==
  ASSUME ShapesDistinct, FlushMayFail = FALSE
  PROVE  Spec => []ServedTableWhole
  <1>1. Inv => ServedTableWhole
    BY ShapeFacts DEF Inv, TypeOK, ServedTableWhole, ServeInv, MarkerInv, Whole
  <1> QED
    BY <1>1, Invariant, PTL

\* A marker that survives a power loss stands for a table that survived it, if
\* the flush before it did not fail.
THEOREM MarkerOutlivesPowerLoss ==
  ASSUME ShapesDistinct, FlushMayFail = FALSE
  PROVE  Spec => []MarkerMeansDurable
  <1>1. ASSUME Inv, NEW t \in Tables, diskMark[t] \in Shapes, size[t] # 0
        PROVE  \E c \in Checkpoints : /\ ShapeOf[c] = diskMark[t]
                                      /\ \A s \in Shards : diskFile[t][s] = c
    <2>1. diskMark[t] = mark[t]
      BY <1>1, MarkerValues DEF Inv, MarkerInv
    <2>2. PICK c \in Checkpoints : ShapeOf[c] = diskMark[t]
      BY <1>1 DEF Shapes
    <2>3. Whole(diskFile, t, c)
      BY <1>1, <2>1, <2>2 DEF Inv, MarkerInv
    <2> QED
      BY <2>2, <2>3 DEF Whole
  <1>2. Inv => MarkerMeansDurable
    BY <1>1 DEF MarkerMeansDurable
  <1> QED
    BY <1>2, Invariant, PTL

\* What has a finished marker is only read: the marker is removed before the
\* first write to the file.
THEOREM FinishedFilesOnlyRead ==
  ASSUME ShapesDistinct, FlushMayFail = FALSE
  PROVE  Spec => MarkedFilesStay
  <1> DEFINE Stay == \A t \in Tables : mark[t] \in Shapes /\ mark'[t] = mark[t] /\ size[t] # 0
                          /\ size'[t] # 0 => file'[t] = file[t] /\ size'[t] = size[t]
  <1>1. Inv /\ [Next]_vars => [Stay]_vars
    <2> SUFFICES ASSUME Inv, Next PROVE Stay
      OBVIOUS
    <2> USE ShapeFacts, MarkerValues DEF Inv, TypeOK, Tables
    <2>1. CASE AttachTruncate
      BY <2>1 DEF AttachTruncate, AttachInv
    <2>2. ASSUME NEW u \in Tables, NEW r \in Shards, LoadBegin(u, r) PROVE Stay
      BY <2>2 DEF LoadBegin, LoadInv, Attached
    <2>3. CASE LoadEnd
      BY <2>3 DEF LoadEnd, LoadInv, Attached
    <2>4. CASE PowerLoss
      <3> SUFFICES ASSUME NEW t \in Tables, mark[t] \in Shapes, size[t] # 0
                   PROVE  diskFile[t] = file[t]
        BY <2>4 DEF PowerLoss
      <3>1. PICK c \in Checkpoints : ShapeOf[c] = mark[t]
        BY DEF Shapes
      <3>2. \A s \in Shards : diskFile[t][s] = file[t][s]
        BY <3>1 DEF MarkerInv, Whole
      <3> QED
        BY <3>2
    <2>5. ASSUME NEW u \in Tables, RemoveFile(u) PROVE Stay
      BY <2>5 DEF RemoveFile
    <2>6. CASE UNCHANGED <<size, file>>
      BY <2>6
    <2> QED
      BY <2>1, <2>2, <2>3, <2>4, <2>5, <2>6
      DEF Next, Process, Environment, AttachFails, AttachReuse, AttachRemove, LoadDone,
          FinalizeSkip, Flush, CreateMarker, WriteMarker, Boot, WriteBack, WriteBackMarker,
          Exit, fileVars
  <1> QED
    BY <1>1, Invariant, PTL DEF MarkedFilesStay, Spec
=============================================================================

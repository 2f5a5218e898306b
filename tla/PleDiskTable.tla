----------------------------- MODULE PleDiskTable -----------------------------
(***************************************************************************)
(* The disk-backed n-gram tables of the PLE offload process                *)
(* (v1/ple_offload/worker.py, _ple_disk_attach, _load_weights,             *)
(* _ple_disk_finalize).  The first boot writes the shards of a checkpoint  *)
(* through a shared mapping into a file, flushes it and leaves a marker,   *)
(* done.json; later boots that find the marker map the file and skip the   *)
(* shards.  The process may be killed at any step, and the machine may     *)
(* lose power.                                                             *)
(*                                                                         *)
(* A file has two states: what processes see (file, mark: the page cache)  *)
(* and what a power loss leaves (diskFile, diskMark).  Creating, removing  *)
(* and resizing a file is durable at once, contents are when the kernel    *)
(* writes them back or the process flushes them.                           *)
(***************************************************************************)
EXTENDS Integers

CONSTANTS
    NumTables,      \* PLE layers with a table large enough to be spilled
    Shards,         \* the checkpoint tensors that fill one table
    Checkpoints,    \* what a boot may be given to serve
    ShapeOf,        \* shape and dtype of the tables of a checkpoint
    SizeOf,         \* their size in bytes
    FlushMayFail,   \* arr.flush() may raise
    MaxBoots        \* bound: boots

ASSUME DiskAssumption ==
    /\ {NumTables, MaxBoots} \subseteq Nat \ {0} /\ FlushMayFail \in BOOLEAN
    /\ ShapeOf \in [Checkpoints -> Nat \ {0}] /\ SizeOf \in [Checkpoints -> Nat \ {0}]
    /\ \A c, k \in Checkpoints : ShapeOf[c] = ShapeOf[k] => SizeOf[c] = SizeOf[k]

VARIABLES
    size,               \* per table: size of its file, 0 if there is none
    file, diskFile,     \* per table and shard: the checkpoint it came from
    mark, diskMark,     \* per table: the shape done.json records
    pc, checkpoint,     \* the process: where it is, what it was booted with
    at, shard,          \* the table its loop is at, the shard it copies
    complete,           \* tables that were found complete
    loaded,             \* per table: shards that were written
    boots

fileVars == <<size, file, diskFile>>
markVars == <<mark, diskMark>>
procVars == <<pc, checkpoint, at, shard, complete, loaded, boots>>
vars == <<fileVars, markVars, procVars>>

Tables == 1 .. NumTables
Shapes == {ShapeOf[c] : c \in Checkpoints}

\* A marker file that does not exist, or that is empty.
Absent == 0
Empty == -1

\* What a shard holds besides the tensor of a checkpoint: nothing, part of one.
Zero == "zero"
Torn == "torn"

Init ==
    /\ size = [t \in Tables |-> 0]
    /\ file = [t \in Tables |-> [s \in Shards |-> Zero]] /\ diskFile = file
    /\ mark = [t \in Tables |-> Absent] /\ diskMark = mark
    /\ pc = "off" /\ checkpoint \in Checkpoints /\ at = 1 /\ shard \in Shards
    /\ boots = 0
    /\ complete = {} /\ loaded = [t \in Tables |-> {}]
-----------------------------------------------------------------------------
\* Mutant of Continue: the loop runs past the last table.
ContinueMutant(loop, next) ==
    \/ at <= NumTables /\ at' = at + 1 /\ pc' = loop
    \/ at > NumTables  /\ at' = 1 /\ pc' = next

\* A loop over the tables goes on, or the process goes on behind it.
Continue(loop, next) ==
    \/ at < NumTables /\ at' = at + 1 /\ pc' = loop
    \/ at = NumTables /\ at' = 1 /\ pc' = next

Boot(c) ==
    /\ pc = "off" /\ boots < MaxBoots
    /\ pc' = "attach" /\ checkpoint' = c /\ boots' = boots + 1
    /\ at' = 1 /\ complete' = {} /\ loaded' = [t \in Tables |-> {}]
    /\ UNCHANGED <<fileVars, markVars, shard>>

\* Both files exist and the size is right: the marker is read.
HasMarker(t) == mark[t] # Absent /\ size[t] = SizeOf[checkpoint]

\* Mutant of Matches: the size of the file is enough.
MatchesMutant(t) == TRUE

Matches(t) == mark[t] = ShapeOf[checkpoint]

\* json.load of an empty file raises, and with it the boot fails.
AttachFails ==
    /\ pc = "attach" /\ HasMarker(at) /\ mark[at] = Empty
    /\ pc' = "failed"
    /\ UNCHANGED <<fileVars, markVars, checkpoint, at, shard, complete, loaded, boots>>

AttachReuse ==
    /\ pc = "attach" /\ HasMarker(at) /\ mark[at] # Empty /\ Matches(at)
    /\ complete' = complete \cup {at}
    /\ Continue("attach", "load")
    /\ UNCHANGED <<fileVars, markVars, checkpoint, shard, loaded, boots>>

\* Mutant of Unmarked: the marker of a table that is to be written is kept.
UnmarkedMutant(m) == m

Unmarked(m) == [m EXCEPT ![at] = Absent]

AttachRemove ==
    /\ pc = "attach" /\ ~(HasMarker(at) /\ (mark[at] = Empty \/ Matches(at)))
    /\ mark' = Unmarked(mark) /\ diskMark' = Unmarked(diskMark)
    /\ pc' = "truncate"
    /\ UNCHANGED <<fileVars, checkpoint, at, shard, complete, loaded, boots>>

\* open(.., "ab") keeps what the file holds, truncate sets its size.
AttachTruncate ==
    /\ pc = "truncate"
    /\ size' = [size EXCEPT ![at] = SizeOf[checkpoint]]
    /\ Continue("attach", "load")
    /\ UNCHANGED <<file, diskFile, markVars, checkpoint, shard, complete, loaded, boots>>
-----------------------------------------------------------------------------
\* load_weights gets the shards of the tables that are not complete, in any
\* order, and copies each into the mapping.
LoadBegin(t, s) ==
    /\ pc = "load" /\ t \notin complete /\ s \notin loaded[t]
    /\ pc' = "copy" /\ at' = t /\ shard' = s
    /\ file' = [file EXCEPT ![t][s] = Torn]
    /\ UNCHANGED <<size, diskFile, markVars, checkpoint, complete, loaded, boots>>

LoadEnd ==
    /\ pc = "copy" /\ pc' = "load"
    /\ file' = [file EXCEPT ![at][shard] = checkpoint]
    /\ loaded' = [loaded EXCEPT ![at] = @ \cup {shard}]
    /\ UNCHANGED <<size, diskFile, markVars, checkpoint, at, shard, complete, boots>>

LoadDone ==
    /\ pc = "load" /\ \A t \in Tables \ complete : loaded[t] = Shards
    /\ pc' = "flush" /\ at' = 1
    /\ UNCHANGED <<fileVars, markVars, checkpoint, shard, complete, loaded, boots>>

FinalizeSkip ==
    /\ pc = "flush" /\ at \in complete
    /\ Continue("flush", "serve")
    /\ UNCHANGED <<fileVars, markVars, checkpoint, shard, complete, loaded, boots>>

\* Mutant of Flushed: the flush is left to the kernel.
FlushedMutant(t) == diskFile[t]

Flushed(t) == file[t]

\* An exception of the flush is suppressed.
Flush ==
    /\ pc = "flush" /\ at \notin complete
    /\ \/ diskFile' = [diskFile EXCEPT ![at] = Flushed(at)]
       \/ FlushMayFail /\ UNCHANGED diskFile
    /\ pc' = "create"
    /\ UNCHANGED <<size, file, markVars, checkpoint, at, shard, complete, loaded, boots>>

\* open(.., "w") creates an empty marker, which the dump then fills.
CreateMarker ==
    /\ pc = "create" /\ pc' = "write"
    /\ mark' = [mark EXCEPT ![at] = Empty] /\ diskMark' = [diskMark EXCEPT ![at] = Empty]
    /\ UNCHANGED <<fileVars, checkpoint, at, shard, complete, loaded, boots>>

WriteMarker ==
    /\ pc = "write" /\ mark' = [mark EXCEPT ![at] = ShapeOf[checkpoint]]
    /\ Continue("flush", "serve")
    /\ UNCHANGED <<fileVars, diskMark, checkpoint, shard, complete, loaded, boots>>
-----------------------------------------------------------------------------
(* The environment.                                                        *)

WriteBack(t, s) ==
    /\ diskFile[t][s] # file[t][s]
    /\ diskFile' = [diskFile EXCEPT ![t][s] = file[t][s]]
    /\ UNCHANGED <<size, file, markVars, procVars>>

WriteBackMarker(t) ==
    /\ diskMark[t] # mark[t] /\ diskMark' = [diskMark EXCEPT ![t] = mark[t]]
    /\ UNCHANGED <<fileVars, mark, procVars>>

\* The process ends: stopped, killed, or failed.
Exit ==
    /\ pc # "off" /\ pc' = "off"
    /\ UNCHANGED <<fileVars, markVars, checkpoint, at, shard, complete, loaded, boots>>

PowerLoss ==
    /\ pc' = "off" /\ file' = diskFile /\ mark' = diskMark
    /\ UNCHANGED <<size, diskFile, diskMark, checkpoint, at, shard, complete, loaded, boots>>

\* The user removes the big file and leaves the small one.
RemoveFile(t) ==
    /\ pc = "off" /\ size[t] # 0
    /\ size' = [size EXCEPT ![t] = 0]
    /\ file' = [file EXCEPT ![t] = [s \in Shards |-> Zero]]
    /\ diskFile' = [diskFile EXCEPT ![t] = [s \in Shards |-> Zero]]
    /\ UNCHANGED <<markVars, procVars>>

Process ==
    \/ AttachFails \/ AttachReuse \/ AttachRemove \/ AttachTruncate
    \/ \E t \in Tables, s \in Shards : LoadBegin(t, s)
    \/ LoadEnd \/ LoadDone \/ FinalizeSkip \/ Flush \/ CreateMarker \/ WriteMarker

Environment ==
    \/ \E c \in Checkpoints : Boot(c)
    \/ \E t \in Tables : \/ WriteBackMarker(t) \/ RemoveFile(t)
                         \/ \E s \in Shards : WriteBack(t, s)
    \/ Exit \/ PowerLoss

Next == Process \/ Environment

Spec == Init /\ [][Next]_vars
-----------------------------------------------------------------------------
\* The values each variable takes: markers hold a shape, shards the tensor of
\* a checkpoint or what a boot left of it.
TypeOK ==
    /\ size \in [Tables -> Nat]
    /\ {file, diskFile} \subseteq [Tables -> [Shards -> Checkpoints \cup {Zero, Torn}]]
    /\ {mark, diskMark} \subseteq [Tables -> Shapes \cup {Absent, Empty}]
    /\ pc \in {"off", "attach", "truncate", "load", "copy", "flush", "create", "write",
               "serve", "failed"}
    /\ checkpoint \in Checkpoints /\ at \in Tables /\ shard \in Shards
    /\ complete \in SUBSET Tables /\ loaded \in [Tables -> SUBSET Shards]
    /\ boots \in 0 .. MaxBoots

\* Every table a process serves is whole and that of its own checkpoint,
\* whatever boots were interrupted before it ("mapping the file replaces them",
\* _load_weights).
ServedTableWhole ==
    pc = "serve" => \A t \in Tables, s \in Shards : file[t][s] = checkpoint

\* A marker that survives a power loss stands for a table that does ("Flush the
\* written mapping, record completion", _ple_disk_finalize).
MarkerMeansDurable ==
    \A t \in Tables :
        diskMark[t] \in Shapes /\ size[t] # 0
            => \E c \in Checkpoints : /\ ShapeOf[c] = diskMark[t]
                                      /\ \A s \in Shards : diskFile[t][s] = c

\* A file with a finished marker is only read: no step writes it while the
\* marker stands, so a boot that is interrupted never leaves both (_ple_disk_attach).
MarkedFilesStay ==
    [][\A t \in Tables : mark[t] \in Shapes /\ mark'[t] = mark[t] /\ size[t] # 0 /\ size'[t] # 0
                             => file'[t] = file[t] /\ size'[t] = size[t]]_vars

\* A boot never ends on the files an earlier one left (_ple_disk_attach).
BootsComeUp == pc # "failed"
=============================================================================

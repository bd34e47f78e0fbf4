----------------------------- MODULE SnapMerge -----------------------------
(***************************************************************************)
(* The threads of one snapshot handler of snapuserd, which serves a        *)
(* partition while it merges an update into it:                            *)
(*   - a read-ahead thread reads the next Window ordered operations of the *)
(*     COW file into memory and, once the window before is merged, copies  *)
(*     them to the scratch space of the COW device;                        *)
(*   - a merge thread writes them from there to the base device and counts *)
(*     them in the header of the COW device;                               *)
(*   - read workers answer the reads of the mounted partition all along.   *)
(* The first two go in lock-step through io_state_, the last two through   *)
(* the state and the count of reads in flight of each window, its group.   *)
(* The machine may lose power at any moment: what was not synced is kept   *)
(* or lost block by block.                                                 *)
(***************************************************************************)
EXTENDS Integers, Sequences, FiniteSets

CONSTANTS
    Blocks,     \* the blocks of the partition, positive numbers
    Ops,        \* the copy and xor operations, in the order of merging
    Replaces,   \* the blocks of the replace and zero operations, likewise
    Window,     \* the operations the scratch space holds
    Batch,      \* the replace and zero operations of one commit
    IoUring,    \* whether the kernel has io_uring
    Readers,    \* the read workers
    MaxBoots,   \* bound: how often the handler is started
    Faults      \* the faults that may strike

(* The kinds of faults: a read of the read-ahead thread, a write of the    *)
(* merge thread, a sync of the base device, of the scratch space, or of    *)
(* the header (in the merge with and without io_uring); a read of a        *)
(* worker; a thread that cannot open its devices; a read-ahead thread that *)
(* is not up in 3 s; commands to pause or to end the merge; and a kill of  *)
(* the daemon.  Power may be lost in any case.                             *)
FaultNames == {"raRead", "write", "sync", "scratchSync", "commitSync",
               "commitAsync", "workerRead", "raInit", "mergeInit", "slowRa",
               "pause", "terminate", "kill"}

N == Len(Ops)

(* VerifyMergeOps: no operation reads a block that one before it wrote.    *)
SequenceAssumption ==
    /\ Blocks \subseteq Nat \ {0}
    /\ Ops \in Seq([new : Blocks, src : Blocks, xor : BOOLEAN])
    /\ Replaces \in Seq(Blocks)
    /\ \A i, j \in 1 .. N : i < j => /\ Ops[j].src # Ops[i].new
                                     /\ Ops[j].new # Ops[i].new
    /\ \A i \in 1 .. N, j \in 1 .. Len(Replaces) : Replaces[j] # Ops[i].new
    /\ Window \in Nat \ {0} /\ Batch \in Nat \ {0}
    /\ IoUring \in BOOLEAN /\ IsFiniteSet(Readers)
    /\ MaxBoots \in Nat
    /\ Faults \subseteq FaultNames
ASSUME SequenceAssumption

-----------------------------------------------------------------------------
(* The data of a block: the block of the old image it is, and the xor      *)
(* operations applied to it, an xor undoing itself.  0 is the COW file.    *)

Cow == 0
Old(b) == <<b, {}>>
FromCow(b) == <<Cow, {b}>>
Data == (Blocks \cup {Cow}) \X SUBSET Blocks
Garbage == <<Cow, {}>>

Result(op, v) ==
    IF op.xor THEN <<v[1], (v[2] \cup {op.new}) \ (v[2] \cap {op.new})>> ELSE v

OpOn(b) == {i \in 1 .. N : Ops[i].new = b}
Replaced == {Replaces[i] : i \in 1 .. Len(Replaces)}
Total == N + Len(Replaces)

(* The updated image: what every read of the partition must return.        *)
Updated ==
    [b \in Blocks |->
        IF b \in Replaced THEN FromCow(b)
        ELSE IF OpOn(b) = {} THEN Old(b)
        ELSE LET op == Ops[CHOOSE i \in OpOn(b) : TRUE]
             IN  Result(op, Old(op.src))]

Slots == 1 .. Window
Free == <<0, Garbage>>      \* the zeroed metadata that ends the list

-----------------------------------------------------------------------------
VARIABLES
    base, baseDisk,         \* the base device: page cache, and on disk
    header, headerDisk,     \* <<num_merge_ops, read_ahead_state is Done>>
    scratch, scratchDisk,   \* per slot, the block and the data it holds
    boots,
    main,                   \* where the thread of Start() is
    initiated,              \* merge_initiated_
    pause,                  \* pause_merge_
    started,                \* ra_thread_started_
    populate,               \* populate_data_from_cow_
    complete,               \* merge_complete_
    start,                  \* the header as ReadMetadata found it
    io,                     \* io_state_
    toMerge,                \* total_ra_blocks_merged_
    map,                    \* read_ahead_buffer_map_: the slot of a block, or 0
    group, ios,             \* merge_state_, num_ios_in_progress of each window
    bufferLock,             \* who holds buffer_lock_
    raPc, raPos, temp, raAsync,          \* the read-ahead thread
    mPc, mPos, mGroup, slot, mAsync,     \* the merge thread
    rPc, rBlock                          \* the read workers

baseVars == <<base, baseDisk>>
headerVars == <<header, headerDisk>>
scratchVars == <<scratch, scratchDisk>>
disks == <<baseVars, headerVars, scratchVars>>
boot == <<boots, main, initiated, pause, started, populate, complete, start>>
groups == <<group, ios>>
raVars == <<raPc, raPos, temp, raAsync>>
mVars == <<mPc, mPos, mGroup, slot, mAsync>>
rVars == <<rPc, rBlock>>
vars == <<disks, boot, io, toMerge, map, groups, bufferLock, raVars, mVars, rVars>>

IoStates == {"INVALID", "MERGE_READY", "MERGE_BEGIN", "MERGE_FAILED",
             "MERGE_COMPLETE", "IO_TERMINATED", "READ_AHEAD_FAILURE"}
GroupStates == {"PENDING", "RA_READY", "IN_PROGRESS", "COMPLETED", "FAILED"}
IsMergeBeginError == io \in {"READ_AHEAD_FAILURE", "IO_TERMINATED"}

resume_merge == start[1] > 0
ra_thread == start[1] < N
GroupOf(i) == 1 + (i - start[1] - 1) \div Window

(* Nothing runs: the values every variable of a handler starts from.       *)
Idle ==
    /\ initiated = FALSE /\ pause = FALSE /\ started = FALSE
    /\ populate = FALSE /\ complete = FALSE /\ start = <<0, FALSE>>
    /\ io = "INVALID" /\ toMerge = 0
    /\ map = [b \in Blocks |-> 0]
    /\ group = [g \in 1 .. N |-> "PENDING"]
    /\ ios = [g \in 1 .. N |-> 0]
    /\ bufferLock = "free"
    /\ raPc = "done" /\ raPos = 1 /\ temp = <<>> /\ raAsync = FALSE
    /\ mPc = "done" /\ mPos = 1 /\ mGroup = 1 /\ slot = 1 /\ mAsync = FALSE
    /\ rPc = [r \in Readers |-> "done"]
    /\ rBlock = [r \in Readers |-> 0]

End ==        \* the memory of the daemon is gone
    /\ initiated' = FALSE /\ pause' = FALSE /\ started' = FALSE
    /\ populate' = FALSE /\ complete' = FALSE /\ start' = <<0, FALSE>>
    /\ io' = "INVALID" /\ toMerge' = 0
    /\ map' = [b \in Blocks |-> 0]
    /\ group' = [g \in 1 .. N |-> "PENDING"]
    /\ ios' = [g \in 1 .. N |-> 0]
    /\ bufferLock' = "free"
    /\ raPc' = "done" /\ raPos' = 1 /\ temp' = <<>> /\ raAsync' = FALSE
    /\ mPc' = "done" /\ mPos' = 1 /\ mGroup' = 1 /\ slot' = 1 /\ mAsync' = FALSE
    /\ rPc' = [r \in Readers |-> "done"]
    /\ rBlock' = [r \in Readers |-> 0]

Init ==
    /\ base = [b \in Blocks |-> Old(b)] /\ baseDisk = base
    /\ header = <<0, FALSE>> /\ headerDisk = header
    /\ scratch = [s \in Slots |-> Free] /\ scratchDisk = scratch
    /\ boots = 0
    /\ main = "down"
    /\ Idle

-----------------------------------------------------------------------------
(* The thread that starts the handler, and its clients.                    *)

Launch ==
    /\ main' = "serving"
    /\ rPc' = [r \in Readers |-> "idle"]
    /\ mPc' = "run"

(* InitCowDevice and the first half of Start.                              *)
Boot ==
    /\ main = "down" /\ boots < MaxBoots
    /\ boots' = boots + 1
    /\ start' = header
    /\ populate' = header[2]
    /\ complete' = (header[1] = Total)
    /\ io' = "MERGE_READY"
    /\ raPc' = IF header[1] < N THEN "init" ELSE "done"
    /\ IF header[1] \in 1 .. N - 1 /\ header[2]
       THEN main' = "waitRa" /\ UNCHANGED <<rPc, mPc>>
       ELSE Launch
    /\ UNCHANGED <<disks, initiated, pause, started, toMerge, map, groups, bufferLock,
                   raPos, temp, raAsync, mPos, mGroup, slot, mAsync, rBlock>>

(* WaitForRaThreadToStart, which gives up after 3 s; RaThreadStarted wakes *)
(* nobody, so that it may well.                                            *)
RaWaitEnds ==
    /\ main = "waitRa"
    /\ started \/ raPc \in {"done", "dead"} \/ "slowRa" \in Faults
    /\ Launch
    /\ UNCHANGED <<disks, boots, initiated, pause, started, populate, complete, start,
                   io, toMerge, map, groups, bufferLock, raVars,
                   mPos, mGroup, slot, mAsync, rBlock>>

InitiateMerge ==
    /\ main # "down"
    /\ initiated' = TRUE
    /\ io' = IF ra_thread THEN io ELSE "MERGE_BEGIN"
    /\ UNCHANGED <<disks, boots, main, pause, started, populate, complete, start,
                   toMerge, map, groups, bufferLock, raVars, mVars, rVars>>

(* PauseMergeThreads and ResumeMergeThreads, which wakes nobody.           *)
Pause ==
    /\ main # "down" /\ "pause" \in Faults
    /\ pause' = ~pause
    /\ UNCHANGED <<disks, boots, main, initiated, started, populate, complete, start, io,
                   toMerge, map, groups, bufferLock, raVars, mVars, rVars>>

(* NotifyIOTerminated: by DeleteHandler or TerminateMergeThreads while the *)
(* workers serve, or by Start when all of them have ended.                 *)
NotifyIOTerminated ==
    /\ main = "serving"
    /\ \/ "terminate" \in Faults /\ io # "IO_TERMINATED" /\ UNCHANGED main
       \/ (\A r \in Readers : rPc[r] = "done") /\ main' = "joining"
    /\ io' = "IO_TERMINATED"
    /\ UNCHANGED <<disks, boots, initiated, pause, started, populate, complete, start,
                   toMerge, map, groups, bufferLock, raVars, mVars, rVars>>

(* Start returns; the page cache outlives the handler.                     *)
Join ==
    /\ main = "joining" /\ mPc = "done" /\ raPc \in {"done", "dead"}
    /\ main' = "down"
    /\ End
    /\ UNCHANGED <<disks, boots>>

(* The daemon is killed; or power is lost, and of each block that is not   *)
(* synced either version is found at the next start.                       *)
Kill ==
    /\ main # "down" /\ "kill" \in Faults
    /\ main' = "down"
    /\ End
    /\ UNCHANGED <<disks, boots>>

Kept(mem, disk, kept) == [k \in DOMAIN mem |-> IF k \in kept THEN mem[k] ELSE disk[k]]
Unsynced(mem, disk) == {k \in DOMAIN mem : mem[k] # disk[k]}

Crash ==
    /\ \E kept \in SUBSET Unsynced(base, baseDisk) : base' = Kept(base, baseDisk, kept)
    /\ \E kept \in SUBSET Unsynced(scratch, scratchDisk) :
           scratch' = Kept(scratch, scratchDisk, kept)
    /\ header' \in {header, headerDisk}
    /\ baseDisk' = base' /\ scratchDisk' = scratch' /\ headerDisk' = header'
    /\ main' = "down"
    /\ End
    /\ UNCHANGED boots

-----------------------------------------------------------------------------
(* The read-ahead thread.                                                  *)

RaRest == UNCHANGED <<boots, main, initiated, pause, complete, start, groups, mVars, rVars>>

(* InitializeFds and InitReader: a failure tells nobody.                   *)
RaInit ==
    /\ raPc = "init"
    /\ \/ raPc' = "head" /\ raPos' = start[1] + 1 /\ raAsync' = IoUring
       \/ "raInit" \in Faults /\ raPc' = "dead" /\ UNCHANGED <<raPos, raAsync>>
    /\ UNCHANGED <<disks, started, populate, io, toMerge, map, bufferLock, temp>>
    /\ RaRest

RaHead ==
    /\ raPc = "head"
    /\ raPc' = IF raPos > N THEN "done" ELSE IF populate THEN "reconstruct" ELSE "read"
    /\ temp' = <<>>
    /\ UNCHANGED <<disks, started, populate, io, toMerge, map, bufferLock, raPos, raAsync>>
    /\ RaRest

ReadAheadIOFailedSilently == raPc' = "done" /\ UNCHANGED io

ReadAheadIOFailed == io' = "READ_AHEAD_FAILURE" /\ raPc' = "done"

(* The slots of the scratch space before the zeroed entry.                 *)
Listed == {s \in Slots : \A t \in 1 .. s : scratch[t][1] # 0}
Mapped(b) == {s \in Listed : scratch[s][1] = b}

Reconstruct ==
    /\ raPc = "reconstruct"
    /\ map' = [b \in Blocks |-> IF Mapped(b) = {} THEN 0
                                ELSE CHOOSE s \in Mapped(b) : \A t \in Mapped(b) : t <= s]
    /\ \E last \in raPos - 1 .. N :
           /\ \A i \in raPos .. last : map'[Ops[i].new] # 0
           /\ last < N => map'[Ops[last + 1].new] = 0
           /\ raPos' = last + 1
           /\ IF last = N \/ last - raPos + 1 = Cardinality(Listed)
              THEN /\ toMerge' = Cardinality(Listed)
                   /\ populate' = FALSE
                   /\ raPc' = "flush"
                   /\ UNCHANGED io
              ELSE ReadAheadIOFailed /\ UNCHANGED <<toMerge, populate>>
    /\ UNCHANGED <<disks, started, bufferLock, temp, raAsync>>
    /\ RaRest

RoomAlways == TRUE
Room == Len(temp) < Window

(* ReadAheadAsyncIO and ReadAheadSyncIO: one operation.                    *)
RaRead ==
    /\ raPc = "read" /\ raPos <= N /\ Room
    /\ temp' = Append(temp, Result(Ops[raPos], base[Ops[raPos].src]))
    /\ raPos' = raPos + 1
    /\ UNCHANGED <<disks, started, populate, io, toMerge, map, bufferLock, raPc, raAsync>>
    /\ RaRest

(* ReadAheadIOStart: without io_uring the window is read again; then the   *)
(* read-ahead fails.                                                       *)
RaReadFails ==
    /\ raPc = "read" /\ raPos <= N /\ Room /\ "raRead" \in Faults
    /\ raPos' = raPos - Len(temp)
    /\ temp' = <<>>
    /\ raAsync' = FALSE
    /\ IF raAsync THEN UNCHANGED <<io, raPc>> ELSE ReadAheadIOFailed
    /\ UNCHANGED <<disks, started, populate, toMerge, map, bufferLock>>
    /\ RaRest

MayRefillSoon == io \in {"MERGE_READY", "MERGE_BEGIN"}
MayRefill == io = "MERGE_READY"
MergeOverWell == io = "MERGE_COMPLETE"
MergeOver == io \in {"MERGE_FAILED", "MERGE_COMPLETE", "IO_TERMINATED"}

WaitForMergeReady ==
    /\ raPc = "read" /\ (raPos > N \/ Len(temp) = Window)
    /\ \/ MayRefill /\ raPc' = IF pause THEN "asleep" ELSE "lock"
       \/ MergeOver /\ raPc' = "done"
    /\ UNCHANGED <<disks, started, populate, io, toMerge, map, bufferLock, raPos, temp, raAsync>>
    /\ RaRest

(* A spurious wakeup from pause_merge_cv_, the only one there is.          *)
RaWakes ==
    /\ raPc = "asleep" /\ ~pause
    /\ raPc' = "lock"
    /\ UNCHANGED <<disks, started, populate, io, toMerge, map, bufferLock, raPos, temp, raAsync>>
    /\ RaRest

RaFirst == raPos - Len(temp)        \* the first operation of the window read

RaCopy ==
    /\ raPc = "lock" /\ bufferLock = "free"
    /\ bufferLock' = "ra"
    /\ scratch' = [s \in Slots |->
                      IF s <= Len(temp) THEN <<Ops[RaFirst + s - 1].new, temp[s]>>
                      ELSE IF s = Len(temp) + 1 THEN Free ELSE scratch[s]]
    /\ map' = [b \in Blocks |-> 0]
    /\ raPc' = "map"
    /\ UNCHANGED <<baseVars, headerVars, scratchDisk, started, populate, io, toMerge,
                   raPos, temp, raAsync>>
    /\ RaRest

RaMap ==
    /\ raPc = "map"
    /\ map' = [b \in Blocks |->
                  IF OpOn(b) \cap (RaFirst .. raPos - 1) = {} THEN 0
                  ELSE (CHOOSE i \in OpOn(b) : TRUE) - RaFirst + 1]
    /\ toMerge' = Len(temp)
    /\ bufferLock' = "free"
    /\ raPc' = "flush"
    /\ UNCHANGED <<disks, started, populate, io, raPos, temp, raAsync>>
    /\ RaRest

(* ReadAheadIOCompleted, in three steps.                                   *)
RaFlush ==
    /\ raPc = "flush"
    /\ \/ /\ scratchDisk' = scratch /\ headerDisk' = header
          /\ raPc' = "mark"
          /\ UNCHANGED io
       \/ "scratchSync" \in Faults /\ ReadAheadIOFailed /\ UNCHANGED <<scratchDisk, headerDisk>>
    /\ UNCHANGED <<baseVars, header, scratch, started, populate, toMerge, map, bufferLock,
                   raPos, temp, raAsync>>
    /\ RaRest

RaMark ==
    /\ raPc = "mark"
    /\ header' = <<header[1], TRUE>>
    /\ raPc' = "announce"
    /\ UNCHANGED <<baseVars, headerDisk, scratchVars, started, populate, io, toMerge, map,
                   bufferLock, raPos, temp, raAsync>>
    /\ RaRest

RaAnnounce ==
    /\ raPc = "announce"
    /\ \/ /\ headerDisk' = header
          /\ io' = IF io \in {"IO_TERMINATED", "MERGE_FAILED"} THEN io ELSE "MERGE_BEGIN"
          /\ started' = start[2]
          /\ raPc' = "head"
       \/ /\ "scratchSync" \in Faults /\ ReadAheadIOFailed
          /\ UNCHANGED <<headerDisk, started>>
    /\ UNCHANGED <<baseVars, header, scratchVars, populate, toMerge, map, bufferLock,
                   raPos, temp, raAsync>>
    /\ RaRest

RaStep ==
    \/ RaInit \/ RaHead \/ Reconstruct \/ RaRead \/ RaReadFails \/ WaitForMergeReady
    \/ RaCopy \/ RaMap \/ RaFlush \/ RaMark \/ RaAnnounce

-----------------------------------------------------------------------------
(* The merge thread.                                                       *)

MRest == UNCHANGED <<boots, main, initiated, pause, started, populate, start, scratchVars,
                     toMerge, map, raVars, rVars>>

MergeFailed == io' = "MERGE_FAILED" /\ mPc' = "done"
SetGroup(state) == group' = [group EXCEPT ![mGroup] = state]

(* Run: an error before the merge has begun ends the thread.               *)
MRun ==
    /\ mPc = "run"
    /\ \/ /\ ~IsMergeBeginError /\ initiated /\ io = "MERGE_BEGIN"
          /\ \/ mPc' = "head" /\ mPos' = start[1] + 1 /\ mAsync' = IoUring /\ UNCHANGED io
             \/ "mergeInit" \in Faults /\ MergeFailed /\ UNCHANGED <<mPos, mAsync>>
       \/ IsMergeBeginError /\ mPc' = "done" /\ UNCHANGED <<io, mPos, mAsync>>
    /\ UNCHANGED <<baseVars, headerVars, complete, groups, bufferLock, mGroup, slot>>
    /\ MRest

(* A failure in the merge with io_uring goes back to the start of the      *)
(* window and on without io_uring; there, it fails the window.             *)
FallBack ==
    IF mAsync
    THEN mAsync' = FALSE /\ mPos' = mPos - (slot - 1) /\ slot' = 1
         /\ mPc' = "head" /\ UNCHANGED <<io, group>>
    ELSE MergeFailed /\ SetGroup("FAILED") /\ UNCHANGED <<mAsync, mPos, slot>>

WaitForMergeBegin ==
    /\ mPc = "head" /\ mPos <= N
    /\ \/ /\ ~IsMergeBeginError /\ io = "MERGE_BEGIN"
          /\ mPc' = "lock"
          /\ UNCHANGED <<io, group, mPos, slot, mAsync>>
       \/ IsMergeBeginError /\ FallBack
    /\ UNCHANGED <<baseVars, headerVars, complete, ios, bufferLock, mGroup>>
    /\ MRest

(* SetMergeInProgress, up to the wait for the reads in flight.             *)
MLock ==
    /\ mPc = "lock" /\ bufferLock = "free"
    /\ bufferLock' = "merge"
    /\ slot' = 1
    /\ \/ group[mGroup] = "IN_PROGRESS" /\ mPc' = "write" /\ UNCHANGED group
       \/ group[mGroup] = "PENDING" /\ mPc' = "drain" /\ SetGroup("RA_READY")
    /\ UNCHANGED <<baseVars, headerVars, complete, io, ios, mPos, mGroup, mAsync>>
    /\ MRest

QuietAnyhow == TRUE
Quiet == ios[mGroup] = 0

MDrain ==
    /\ mPc = "drain" /\ Quiet
    /\ SetGroup("IN_PROGRESS")
    /\ mPc' = "write"
    /\ UNCHANGED <<baseVars, headerVars, complete, io, ios, bufferLock, mPos, mGroup, slot, mAsync>>
    /\ MRest

MWrite ==
    /\ mPc = "write" /\ slot <= toMerge /\ mPos <= N
    /\ base' = [base EXCEPT ![Ops[mPos].new] = scratch[slot][2]]
    /\ mPos' = mPos + 1
    /\ slot' = slot + 1
    /\ UNCHANGED <<baseDisk, headerVars, complete, io, groups, bufferLock, mPc, mGroup, mAsync>>
    /\ MRest

FsyncLost == UNCHANGED baseDisk
Fsync == baseDisk' = base

MSync ==
    /\ mPc = "write" /\ slot > toMerge
    /\ Fsync
    /\ mPc' = "commit"
    /\ UNCHANGED <<base, headerVars, complete, io, groups, bufferLock, mPos, mGroup, slot, mAsync>>
    /\ MRest

MFails ==
    /\ mPc = "write"
    /\ (IF slot <= toMerge THEN "write" ELSE "sync") \in Faults
    /\ bufferLock' = "free"
    /\ FallBack
    /\ UNCHANGED <<baseVars, headerVars, complete, ios, mGroup>>
    /\ MRest

(* CommitMerge: two stores in the first page of the COW device, which are  *)
(* then synced.                                                            *)
MCommit ==
    /\ mPc = "commit"
    /\ header' = <<header[1] + toMerge, header[2]>>
    /\ mPc' = "clear"
    /\ UNCHANGED <<baseVars, headerDisk, complete, io, groups, bufferLock,
                   mPos, mGroup, slot, mAsync>>
    /\ MRest

MClear ==
    /\ mPc = "clear"
    /\ header' = <<header[1], FALSE>>
    /\ mPc' = "flush"
    /\ UNCHANGED <<baseVars, headerDisk, complete, io, groups, bufferLock,
                   mPos, mGroup, slot, mAsync>>
    /\ MRest

(* UpdateMergeCompletionPercentage.                                        *)
MFlush ==
    /\ mPc = "flush"
    /\ headerDisk' = header
    /\ complete' = (complete \/ header[1] = Total)
    /\ mPc' = "finish"
    /\ UNCHANGED <<baseVars, header, io, groups, bufferLock, mPos, mGroup, slot, mAsync>>
    /\ MRest

MFlushFails ==
    /\ mPc = "flush"
    /\ (IF mAsync THEN "commitAsync" ELSE "commitSync") \in Faults
    /\ bufferLock' = "free"
    /\ FallBack
    /\ UNCHANGED <<baseVars, headerVars, complete, ios, mGroup>>
    /\ MRest

SetMergeCompleted ==
    /\ mPc = "finish" /\ group[mGroup] = "IN_PROGRESS" /\ ios[mGroup] = 0
    /\ SetGroup("COMPLETED")
    /\ bufferLock' = "free"
    /\ mPc' = "notify"
    /\ UNCHANGED <<baseVars, headerVars, complete, io, ios, mPos, mGroup, slot, mAsync>>
    /\ MRest

NotifyRAForMergeReady ==
    /\ mPc = "notify"
    /\ io' = IF IsMergeBeginError THEN io ELSE "MERGE_READY"
    /\ mGroup' = mGroup + 1
    /\ mPc' = IF pause THEN "asleep" ELSE "head"
    /\ UNCHANGED <<baseVars, headerVars, complete, groups, bufferLock, mPos, slot, mAsync>>
    /\ MRest

MWakes ==
    /\ mPc \in {"asleep", "dozing"} /\ ~pause
    /\ mPc' = IF mPc = "asleep" THEN "head" ELSE "replace"
    /\ UNCHANGED <<baseVars, headerVars, complete, io, groups, bufferLock,
                   mPos, mGroup, slot, mAsync>>
    /\ MRest

-----------------------------------------------------------------------------
(* MergeReplaceZeroOps: slot - 1 is num_ops_merged.                        *)

MReplaceBegin ==
    /\ mPc = "head" /\ mPos > N
    /\ mPc' = "replace"
    /\ slot' = 1
    /\ UNCHANGED <<baseVars, headerVars, complete, io, groups, bufferLock, mPos, mGroup, mAsync>>
    /\ MRest

MReplace ==
    /\ mPc = "replace" /\ mPos <= Total
    /\ LET b == Replaces[mPos - N] IN base' = [base EXCEPT ![b] = FromCow(b)]
    /\ mPos' = mPos + 1
    /\ slot' = slot + 1
    /\ mPc' = IF slot = Batch THEN "replaceCommit" ELSE "replaced"
    /\ UNCHANGED <<baseDisk, headerVars, complete, io, groups, bufferLock, mGroup, mAsync>>
    /\ MRest

(* The fsync and the CommitMerge of a batch; Done is cleared where there   *)
(* is a read-ahead thread.                                                 *)
MReplaceCommit ==
    /\ mPc = "replaceCommit"
    /\ Fsync
    /\ header' = <<header[1] + slot - 1, header[2] /\ ~ra_thread>>
    /\ \/ /\ headerDisk' = header'
          /\ complete' = (complete \/ header'[1] = Total)
          /\ slot' = 1
          /\ mPc' = IF slot > Batch THEN "replaced" ELSE "replace"
          /\ UNCHANGED io
       \/ "commitSync" \in Faults /\ MergeFailed /\ UNCHANGED <<headerDisk, complete, slot>>
    /\ UNCHANGED <<base, groups, bufferLock, mPos, mGroup, mAsync>>
    /\ MRest

MReplaceFails ==
    /\ \/ mPc = "replace" /\ mPos <= Total /\ "write" \in Faults
       \/ mPc = "replaceCommit" /\ "sync" \in Faults
    /\ MergeFailed
    /\ UNCHANGED <<baseVars, headerVars, complete, groups, bufferLock, mPos, mGroup, slot, mAsync>>
    /\ MRest

(* IsIOTerminated and PauseMergeIfRequired after each operation.           *)
MReplaced ==
    /\ mPc = "replaced"
    /\ IF io = "IO_TERMINATED" THEN MergeFailed
       ELSE mPc' = (IF pause THEN "dozing" ELSE "replace") /\ UNCHANGED io
    /\ UNCHANGED <<baseVars, headerVars, complete, groups, bufferLock, mPos, mGroup, slot, mAsync>>
    /\ MRest

MergeCompleted ==
    /\ mPc = "replace" /\ mPos > Total
    /\ IF slot > 1 THEN mPc' = "replaceCommit" /\ UNCHANGED io
       ELSE mPc' = "done" /\ io' = "MERGE_COMPLETE"
    /\ UNCHANGED <<baseVars, headerVars, complete, groups, bufferLock, mPos, mGroup, slot, mAsync>>
    /\ MRest

MStep ==
    \/ MRun \/ WaitForMergeBegin \/ MLock \/ MDrain \/ MWrite \/ MSync \/ MFails
    \/ MCommit \/ MClear \/ MFlush \/ MFlushFails \/ SetMergeCompleted
    \/ NotifyRAForMergeReady \/ MReplaceBegin \/ MReplace \/ MReplaceCommit
    \/ MReplaceFails \/ MReplaced \/ MergeCompleted

-----------------------------------------------------------------------------
(* The read workers.  A lookup that finds the data in memory, in the COW   *)
(* file or on the base device is answered at once and changes nothing: see *)
(* AnswerNow.  What lasts is a read of the source of a pending operation.  *)

RRest == UNCHANGED <<disks, boot, io, toMerge, map, bufferLock, raVars, mVars>>

(* The operation GetChunkVec holds for a block, if it has one.             *)
Pending(b) == {i \in OpOn(b) : i > start[1]}
InScratch(b) == resume_merge /\ map[b] # 0

FromSourceUnlessMerged(g) == group[g] # "COMPLETED"
FromSourceNow(g) == group[g] = "PENDING"

(* ProcessMergingBlock for a pending window.  While the read-ahead thread  *)
(* refills the map under another lock, the block may also be missed.       *)
BeginRead(r) ==
    /\ rPc[r] = "idle"
    /\ \E b \in Blocks : \E i \in Pending(b) :
           /\ FromSourceNow(GroupOf(i))
           /\ ~InScratch(b) \/ raPc \in {"map", "flush"}
           /\ ios' = [ios EXCEPT ![GroupOf(i)] = @ + 1]
           /\ rBlock' = [rBlock EXCEPT ![r] = b]
    /\ rPc' = [rPc EXCEPT ![r] = "source"]
    /\ UNCHANGED group
    /\ RRest

(* The data are read; NotifyIOCompletion.  A failure ends the worker.      *)
EndRead(r) ==
    /\ rPc[r] = "source"
    /\ \E i \in OpOn(rBlock[r]) : ios' = [ios EXCEPT ![GroupOf(i)] = @ - 1]
    /\ \E next \in {"idle"} \cup (IF "workerRead" \in Faults THEN {"done"} ELSE {}) :
           rPc' = [rPc EXCEPT ![r] = next]
    /\ rBlock' = [rBlock EXCEPT ![r] = 0]
    /\ UNCHANGED group
    /\ RRest

(* The device is gone, a block of a failed window is asked for, or the     *)
(* base device or the COW file cannot be read.                             *)
WorkerEnds(r) ==
    /\ rPc[r] = "idle"
    /\ "workerRead" \in Faults \/ \E g \in 1 .. N : group[g] = "FAILED"
    /\ rPc' = [rPc EXCEPT ![r] = "done"]
    /\ UNCHANGED <<groups, rBlock>>
    /\ RRest

Next ==
    \/ Boot \/ RaWaitEnds \/ InitiateMerge \/ Pause \/ NotifyIOTerminated \/ Join
    \/ Kill \/ Crash
    \/ RaStep \/ RaWakes
    \/ MStep \/ MWakes
    \/ \E r \in Readers : BeginRead(r) \/ EndRead(r) \/ WorkerEnds(r)

(* Every thread runs on; reads come to an end.  A spurious wakeup need not *)
(* come, nor a command of a client.                                        *)
Fairness ==
    /\ WF_vars(RaStep)
    /\ WF_vars(MStep)
    /\ WF_vars(RaWaitEnds)
    /\ WF_vars(Join)
    /\ WF_vars(NotifyIOTerminated /\ main' = "joining")
    /\ \A r \in Readers : WF_vars(EndRead(r))

Spec == Init /\ [][Next]_vars
FairSpec == Spec /\ Fairness

-----------------------------------------------------------------------------
TypeOK ==
    /\ {base, baseDisk} \subseteq [Blocks -> Data]
    /\ {header, headerDisk, start} \subseteq Nat \X BOOLEAN
    /\ {scratch, scratchDisk} \subseteq [Slots -> (Blocks \cup {0}) \X Data]
    /\ boots \in 0 .. MaxBoots
    /\ main \in {"down", "waitRa", "serving", "joining"}
    /\ {initiated, pause, started, populate, complete, raAsync, mAsync} \subseteq BOOLEAN
    /\ io \in IoStates
    /\ toMerge \in 0 .. Window
    /\ map \in [Blocks -> Slots \cup {0}]
    /\ group \in [1 .. N -> GroupStates]
    /\ ios \in [1 .. N -> Nat]
    /\ bufferLock \in {"free", "ra", "merge"}
    /\ raPc \in {"init", "head", "reconstruct", "read", "asleep", "lock", "map",
                 "flush", "mark", "announce", "done", "dead"}
    /\ raPos \in 1 .. N + 1
    /\ temp \in Seq(Data) /\ Len(temp) <= Window
    /\ mPc \in {"run", "head", "lock", "drain", "write", "commit", "clear", "flush",
                "finish", "notify", "asleep", "replace", "replaced", "replaceCommit",
                "dozing", "done"}
    /\ mPos \in Nat \ {0}
    /\ mGroup \in Nat \ {0}
    /\ slot \in 1 .. Window + Batch
    /\ rPc \in [Readers -> {"idle", "source", "done"}]
    /\ rBlock \in [Readers -> Blocks \cup {0}]

(* What a worker may answer to a read of a block that begins now.          *)
Error == <<Cow, {Cow}>>
FromSource(i) == Result(Ops[i], base[Ops[i].src])
AnswerNow(b) ==
    IF b \in Replaced /\ \E j \in 1 .. Len(Replaces) : Replaces[j] = b /\ N + j > start[1]
    THEN FromCow(b)
    ELSE IF Pending(b) = {} THEN base[b]
    ELSE LET i == CHOOSE i \in Pending(b) : TRUE
             state == group[GroupOf(i)]
         IN  CASE state = "PENDING" /\ ~InScratch(b) -> FromSource(i)
               [] state = "PENDING" /\ InScratch(b) -> scratch[map[b]][2]
               [] state \in {"RA_READY", "IN_PROGRESS"} /\ map[b] # 0 -> scratch[map[b]][2]
               [] state = "COMPLETED" -> base[b]
               [] OTHER -> Error

(* Reads of the partition are right, those of some operations apart that   *)
(* find them pending or began when they were.                              *)
ReadsRightBut(blind) ==
    main = "serving" =>
        /\ \A b \in Blocks :
              \/ AnswerNow(b) = Updated[b]
              \/ \E i \in Pending(b) :
                    \/ AnswerNow(b) = Error /\ group[GroupOf(i)] = "FAILED"
                    \/ i \in blind /\ group[GroupOf(i)] = "PENDING"
        /\ \A r \in Readers : rPc[r] = "source" =>
              \A i \in OpOn(rBlock[r]) \ blind : FromSource(i) = Updated[Ops[i].new]

(* The handler found the scratch space in use and nothing merged: power    *)
(* was lost while the first window was written.                            *)
FirstWindowCut == start = <<0, TRUE>>

(* Every read of the partition, begun at any moment of a merge or of its   *)
(* resumption, returns the updated image, and is refused only in a window  *)
(* whose merge failed.  One case is left out, which ScratchBeforeSource    *)
(* has: where power was lost in the first window, a read of that window    *)
(* until the read-ahead has restored it.  All other blocks are read right  *)
(* then too, and those of the first window again once it is restored.      *)
ReadsRight == ReadsRightBut({i \in 1 .. N : FirstWindowCut /\ GroupOf(i) = 1})

(* ProcessMergingBlock: "Data from scratch space takes higher precedence   *)
(* than from source device for overlapping blocks."  But only a handler    *)
(* that found merged operations looks there.                               *)
ScratchBeforeSource == ReadsRightBut({})

(* Whatever was synced when power went: the operations the header counts   *)
(* are on the base device, and each other one can still be carried out,    *)
(* from its source or from the scratch space.                              *)
NothingLost ==
    main = "down" =>
        \A i \in 1 .. N :
            LET new == Ops[i].new
            IN  IF i <= header[1] THEN base[new] = Updated[new]
                ELSE \/ header[2] /\ \E s \in Mapped(new) : scratch[s][2] = Updated[new]
                     \/ FromSource(i) = Updated[new]

(* Without merge_monitored_, which only renames "snapshot".                *)
GetMergeStatus ==
    IF ~initiated THEN IF complete THEN "snapshot-merge-complete" ELSE "snapshot"
    ELSE IF io = "MERGE_FAILED" THEN "snapshot-merge-failed"
    ELSE IF complete THEN "snapshot-merge-complete"
    ELSE "snapshot-merge"

(* When the merge is reported complete, on which the snapshot is deleted,  *)
(* the whole update is on the base device and on disk.                     *)
CompleteMeansMerged ==
    main # "down" /\ GetMergeStatus = "snapshot-merge-complete" => baseDisk = Updated

(* The CHECKs of the merge thread, which abort the daemon: the state of a  *)
(* window before and after its merge, no read in flight in between, and as *)
(* many operations left as the window has.                                 *)
ChecksHold ==
    /\ mPc = "lock" => group[mGroup] \in {"PENDING", "IN_PROGRESS"}
    /\ mPc = "finish" => group[mGroup] = "IN_PROGRESS"
    /\ mPc \in {"write", "commit", "clear", "flush", "finish"} => ios[mGroup] = 0
    /\ mPc = "write" /\ slot <= toMerge => mPos <= N

(* SetMergeInProgress: "If there are any in-flight I/O's from dm-user then *)
(* wait for them to complete": while a window is being merged nobody still *)
(* reads the source of one of its operations, which a write may overwrite. *)
ReadsDrained ==
    \A g \in DOMAIN group : group[g] = "IN_PROGRESS" =>
        \A r \in Readers : rPc[r] = "source" =>
            \A i \in OpOn(rBlock[r]) : GroupOf(i) # g

(* The handshake of the two threads through io_state_, from which          *)
(* ScratchStable follows: while the merge thread has a window in hand the  *)
(* read-ahead thread is reading or has ended; it gets past MERGE_READY     *)
(* only when no window is in hand and the scratch space is not the only    *)
(* copy of one.                                                            *)
InWindow == {"lock", "drain", "write", "commit", "clear", "flush", "finish", "notify"}
Refilling == {"asleep", "lock", "map"}
Announcing == {"reconstruct", "flush", "mark", "announce"}
Served == {g \in DOMAIN group : group[g] \in {"RA_READY", "IN_PROGRESS"}}

LockStep ==
    /\ raPc \notin {"done", "dead"} => ra_thread
    /\ mPc \in InWindow => /\ raPc \notin Refilling \cup Announcing
                           /\ io \in {"MERGE_BEGIN", "IO_TERMINATED", "READ_AHEAD_FAILURE"}
    /\ mPc \in {"flush", "finish", "notify"} => ~header[2]
    /\ Served \subseteq {mGroup}
    /\ Served # {} => \/ mPc \in InWindow \ {"lock", "notify"}
                      \/ mPc \in {"head", "lock"} /\ raPc \notin Refilling \cup Announcing
                         /\ io \in {"MERGE_BEGIN", "IO_TERMINATED", "READ_AHEAD_FAILURE"}
    /\ io = "MERGE_READY" /\ raPc \in {"init", "head"} /\ ~populate => ~header[2]
    /\ io = "MERGE_READY" /\ raPc = "read" => ~header[2]
    /\ raPc \in Refilling => ~header[2]
    /\ raPc \in Refilling \cup Announcing => io # "MERGE_BEGIN"

(* "We shouldn't be touching the scratch space until merge is complete of  *)
(* previous RA window": no step changes the scratch space or the map while *)
(* a window is being served or merged from them, nor while its data are    *)
(* all that a restart would have.                                          *)
ScratchStable ==
    [][main # "down" /\ main' # "down"
         /\ (header[2] \/ \E g \in 1 .. N : group[g] \in {"RA_READY", "IN_PROGRESS"})
         => UNCHANGED scratch /\ (map' = map \/ raPc = "reconstruct")]_vars

(* The two threads never wait for each other for ever: a merge that was    *)
(* initiated ends, well or badly, unless it was paused (ResumeMergeThreads *)
(* wakes no thread) or its read-ahead thread died without a word.          *)
Paused == raPc = "asleep" \/ mPc \in {"asleep", "dozing"}
MergeEnds ==
    main = "serving" /\ initiated ~> mPc = "done" \/ main = "down" \/ Paused \/ raPc = "dead"

(* Once the workers are gone the handler ends, so that its device can be   *)
(* released, in whatever states its threads were told.                     *)
HandlerEnds == main = "joining" ~> main = "down" \/ Paused

=============================================================================

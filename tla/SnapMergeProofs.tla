-------------------------- MODULE SnapMergeProofs --------------------------
(***************************************************************************)
(* For any partition, sequence of operations, window and faults: the types *)
(* of SnapMerge, that a window is merged only when the reads of it have    *)
(* drained, and the handshake of the read-ahead and the merge thread, from *)
(* which it follows that the scratch space is stable while it is needed.   *)
(***************************************************************************)
EXTENDS SnapMerge, FiniteSetTheorems, WellFoundedInduction, TLAPS

(* TypeOK but for the range of ios, which needs Drained; and what bounds   *)
(* raPos, mPos and slot.                                                   *)
DisksTyped ==
    /\ base \in [Blocks -> Data] /\ baseDisk \in [Blocks -> Data]
    /\ header \in Nat \X BOOLEAN /\ headerDisk \in Nat \X BOOLEAN
    /\ scratch \in [Slots -> (Blocks \cup {0}) \X Data]
    /\ scratchDisk \in [Slots -> (Blocks \cup {0}) \X Data]

BootTyped ==
    /\ boots \in 0 .. MaxBoots
    /\ main \in {"down", "waitRa", "serving", "joining"}
    /\ initiated \in BOOLEAN /\ pause \in BOOLEAN /\ started \in BOOLEAN
    /\ populate \in BOOLEAN /\ complete \in BOOLEAN
    /\ start \in Nat \X BOOLEAN
    /\ io \in IoStates

WindowTyped ==
    /\ toMerge \in 0 .. Window
    /\ map \in [Blocks -> Slots \cup {0}]
    /\ group \in [1 .. N -> GroupStates]
    /\ bufferLock \in {"free", "ra", "merge"}

RaTyped ==
    /\ raPc \in {"init", "head", "reconstruct", "read", "asleep", "lock", "map",
                 "flush", "mark", "announce", "done", "dead"}
    /\ raPos \in 1 .. N + 1
    /\ temp \in Seq(Data) /\ Len(temp) <= Window /\ Len(temp) < raPos
    /\ raAsync \in BOOLEAN
    /\ raPc = "init" => temp = <<>> /\ ra_thread
    /\ main = "down" => raPc = "done" /\ temp = <<>>

MTyped ==
    /\ mPc \in {"run", "head", "lock", "drain", "write", "commit", "clear", "flush",
                "finish", "notify", "asleep", "replace", "replaced", "replaceCommit",
                "dozing", "done"}
    /\ mPos \in Nat /\ slot \in Nat /\ mGroup \in Nat \ {0}
    /\ mAsync \in BOOLEAN
    /\ 1 <= slot /\ slot <= mPos /\ slot <= Window + Batch
    /\ mPc \in {"replace", "replaced", "dozing"} => slot <= Batch
    /\ mPc = "run" => slot = 1
    /\ main \in {"down", "waitRa"} => mPc = "done" /\ slot = 1

ReadsTyped ==
    /\ rPc \in [Readers -> {"idle", "source", "done"}]
    /\ rBlock \in [Readers -> Blocks \cup {0}]
    /\ ios \in [1 .. N -> Int]
    /\ main \in {"down", "waitRa"} => \A r \in Readers : rPc[r] = "done"

Typed == DisksTyped /\ BootTyped /\ WindowTyped /\ RaTyped /\ MTyped /\ ReadsTyped

(* The reads in flight are counted, and none is where a window is merged.  *)
InFlight(g) ==
    {r \in Readers : rPc[r] = "source" /\ \E i \in OpOn(rBlock[r]) : GroupOf(i) = g}

Drained ==
    /\ \A g \in 1 .. N : ios[g] = Cardinality(InFlight(g))
    /\ \A g \in 1 .. N : group[g] = "IN_PROGRESS" => ios[g] = 0

(* LockStep, and what keeps it.                                            *)
Handshake ==
    /\ LockStep
    /\ raPc \in {"init", "head", "reconstruct"} /\ populate
         => mPc \in {"run", "done"} /\ io # "MERGE_BEGIN"
    /\ raPc \in {"read", "asleep", "lock", "map", "flush", "mark", "announce"} => ~populate
    /\ Served # {} /\ mPc = "head" => mPos <= N /\ ~mAsync
    /\ mPc = "lock" => mPos <= N
    /\ mPc \in {"drain", "write", "commit", "clear", "flush", "finish"} => mPos - slot + 1 <= N

-----------------------------------------------------------------------------
(* Who takes a step, and what it leaves alone.                             *)

Stops == Join \/ Kill \/ Crash
RaThread == RaStep \/ RaWakes
MThread == MStep \/ MWakes
Worker(r) == BeginRead(r) \/ EndRead(r) \/ WorkerEnds(r)

LEMMA Steps ==
    [Next]_vars => \/ Boot \/ RaWaitEnds \/ InitiateMerge \/ Pause \/ NotifyIOTerminated
                   \/ Stops \/ RaThread \/ MThread
                   \/ \E r \in Readers : Worker(r)
                   \/ UNCHANGED vars
BY DEF Next, Stops, RaThread, MThread, Worker

LEMMA StopsFrame == Stops => main' = "down" /\ End /\ UNCHANGED boots
BY DEF Stops, Join, Kill, Crash

LEMMA RaFrame ==
    RaThread => UNCHANGED <<base, baseDisk, boots, main, initiated, pause, complete, start,
                            group, ios, mVars, rVars>>
<1> USE DEF RaRest, disks, baseVars, groups
<1>1. CASE RaInit BY <1>1 DEF RaInit
<1>2. CASE RaHead BY <1>2 DEF RaHead
<1>3. CASE Reconstruct BY <1>3 DEF Reconstruct
<1>4. CASE RaRead BY <1>4 DEF RaRead
<1>5. CASE RaReadFails BY <1>5 DEF RaReadFails
<1>6. CASE WaitForMergeReady BY <1>6 DEF WaitForMergeReady
<1>7. CASE RaCopy BY <1>7 DEF RaCopy
<1>8. CASE RaMap BY <1>8 DEF RaMap
<1>9. CASE RaFlush BY <1>9 DEF RaFlush
<1>10. CASE RaMark BY <1>10 DEF RaMark
<1>11. CASE RaAnnounce BY <1>11 DEF RaAnnounce
<1>12. CASE RaWakes BY <1>12 DEF RaWakes
<1> QED BY <1>1, <1>2, <1>3, <1>4, <1>5, <1>6, <1>7, <1>8, <1>9, <1>10, <1>11, <1>12
        DEF RaThread, RaStep

LEMMA MFrame ==
    MThread => UNCHANGED <<scratch, scratchDisk, boots, main, initiated, pause, started,
                           populate, start, toMerge, map, ios, raVars, rVars>>
<1> DEFINE Frame == UNCHANGED <<scratch, scratchDisk, boots, main, initiated, pause, started,
                               populate, start, toMerge, map, ios, raVars, rVars>>
<1> USE DEF MRest, scratchVars, groups
<1>1. ASSUME MRun PROVE Frame BY <1>1 DEF MRun
<1>2. ASSUME WaitForMergeBegin PROVE Frame BY <1>2 DEF WaitForMergeBegin
<1>3. ASSUME MLock PROVE Frame BY <1>3 DEF MLock
<1>4. ASSUME MDrain PROVE Frame BY <1>4 DEF MDrain
<1>5. ASSUME MWrite PROVE Frame BY <1>5 DEF MWrite
<1>6. ASSUME MSync PROVE Frame BY <1>6 DEF MSync
<1>7. ASSUME MFails PROVE Frame BY <1>7 DEF MFails
<1>8. ASSUME MCommit PROVE Frame BY <1>8 DEF MCommit
<1>9. ASSUME MClear PROVE Frame BY <1>9 DEF MClear
<1>10. ASSUME MFlush PROVE Frame BY <1>10 DEF MFlush
<1>11. ASSUME MFlushFails PROVE Frame BY <1>11 DEF MFlushFails
<1>12. ASSUME SetMergeCompleted PROVE Frame BY <1>12 DEF SetMergeCompleted
<1>13. ASSUME NotifyRAForMergeReady PROVE Frame BY <1>13 DEF NotifyRAForMergeReady
<1>14. ASSUME MWakes PROVE Frame BY <1>14 DEF MWakes
<1>15. ASSUME MReplaceBegin PROVE Frame BY <1>15 DEF MReplaceBegin
<1>16. ASSUME MReplace PROVE Frame BY <1>16 DEF MReplace
<1>17. ASSUME MReplaceCommit PROVE Frame BY <1>17 DEF MReplaceCommit
<1>18. ASSUME MReplaceFails PROVE Frame BY <1>18 DEF MReplaceFails
<1>19. ASSUME MReplaced PROVE Frame BY <1>19 DEF MReplaced
<1>20. ASSUME MergeCompleted PROVE Frame BY <1>20 DEF MergeCompleted
<1> HIDE DEF Frame
<1>21. MThread => Frame
    BY <1>1, <1>2, <1>3, <1>4, <1>5, <1>6, <1>7, <1>8, <1>9, <1>10,
           <1>11, <1>12, <1>13, <1>14, <1>15, <1>16, <1>17, <1>18, <1>19, <1>20
       DEF MThread, MStep
<1> QED BY <1>21 DEF Frame

LEMMA WorkerFrame ==
    ASSUME NEW r \in Readers, Worker(r)
    PROVE  UNCHANGED <<disks, boot, io, toMerge, map, bufferLock, raVars, mVars, group>>
BY DEF Worker, BeginRead, EndRead, WorkerEnds, RRest, groups

-----------------------------------------------------------------------------
(* The types.                                                              *)

LEMMA OpTyped ==
    ASSUME NEW i \in 1 .. N
    PROVE  Ops[i].new \in Blocks /\ Ops[i].src \in Blocks /\ Ops[i].xor \in BOOLEAN
<1> DEFINE Operations == [new : Blocks, src : Blocks, xor : BOOLEAN]
<1>1. Ops \in Seq(Operations) /\ i \in 1 .. Len(Ops)
    BY SequenceAssumption DEF SequenceAssumption, N
<1> HIDE DEF Operations
<1>2. Ops[i] \in Operations
    BY <1>1
<1> QED BY <1>2 DEF Operations

LEMMA ResultTyped ==
    ASSUME NEW i \in 1 .. N, NEW v \in Data
    PROVE  Result(Ops[i], v) \in Data
<1>1. v[1] \in Blocks \cup {Cow} /\ v[2] \subseteq Blocks BY DEF Data
<1>2. (v[2] \cup {Ops[i].new}) \ (v[2] \cap {Ops[i].new}) \subseteq Blocks BY <1>1, OpTyped
<1>3. <<v[1], (v[2] \cup {Ops[i].new}) \ (v[2] \cap {Ops[i].new})>> \in Data
    BY <1>1, <1>2 DEF Data
<1> QED BY <1>3 DEF Result

LEMMA DataTyped ==
    /\ \A b \in Blocks : Old(b) \in Data /\ FromCow(b) \in Data
    /\ Free \in (Blocks \cup {0}) \X Data
BY DEF Data, Old, FromCow, Free, Garbage

LEMMA DisksTypedStep == Typed /\ [Next]_vars => DisksTyped'
<1> SUFFICES ASSUME Typed, [Next]_vars PROVE DisksTyped'
    OBVIOUS
<1>0. DisksTyped /\ WindowTyped /\ RaTyped /\ MTyped BY DEF Typed
<1>1. ASSUME UNCHANGED disks PROVE DisksTyped'
    BY <1>0, <1>1 DEF DisksTyped, disks, baseVars, headerVars, scratchVars
<1>2. CASE Crash
  <2>1. base' \in [Blocks -> Data]
      BY <1>0, <1>2 DEF Crash, Kept, DisksTyped
  <2>2. scratch' \in [Slots -> (Blocks \cup {0}) \X Data]
      BY <1>0, <1>2 DEF Crash, Kept, DisksTyped
  <2>3. header' \in Nat \X BOOLEAN
      BY <1>0, <1>2 DEF Crash, DisksTyped
  <2>4. baseDisk' = base' /\ scratchDisk' = scratch' /\ headerDisk' = header'
      BY <1>2 DEF Crash
  <2> QED BY <2>1, <2>2, <2>3, <2>4 DEF DisksTyped
<1>3. CASE RaThread
  <2>1. CASE RaCopy
    <3>1. UNCHANGED <<base, baseDisk, header, headerDisk, scratchDisk>>
        BY <2>1 DEF RaCopy, baseVars, headerVars
    <3>2. temp \in Seq(Data) /\ Len(temp) < raPos /\ raPos \in 1 .. N + 1 /\ N \in Nat
        BY <1>0, SequenceAssumption DEF RaTyped, SequenceAssumption, N
    <3>3. \A s \in Slots : s <= Len(temp) =>
              RaFirst + s - 1 \in 1 .. N /\ temp[s] \in Data
        BY <3>2, SequenceAssumption DEF Slots, RaFirst, SequenceAssumption
    <3>4. \A s \in Slots : s <= Len(temp) =>
              <<Ops[RaFirst + s - 1].new, temp[s]>> \in (Blocks \cup {0}) \X Data
        BY <3>3, OpTyped
    <3>5. scratch' \in [Slots -> (Blocks \cup {0}) \X Data]
        BY <1>0, <2>1, <3>4, DataTyped DEF RaCopy, DisksTyped
    <3> QED BY <1>0, <3>1, <3>5 DEF DisksTyped
  <2>2. CASE RaFlush
    <3>1. UNCHANGED <<base, baseDisk, header, scratch>>
          /\ scratchDisk' \in {scratch, scratchDisk} /\ headerDisk' \in {header, headerDisk}
        BY <2>2 DEF RaFlush, baseVars
    <3> QED BY <1>0, <3>1 DEF DisksTyped
  <2>3. CASE RaMark
    <3>1. UNCHANGED <<base, baseDisk, headerDisk, scratch, scratchDisk>>
          /\ header' = <<header[1], TRUE>>
        BY <2>3 DEF RaMark, baseVars, scratchVars
    <3> QED BY <1>0, <3>1 DEF DisksTyped
  <2>4. CASE RaAnnounce
    <3>1. UNCHANGED <<base, baseDisk, header, scratch, scratchDisk>>
          /\ headerDisk' \in {header, headerDisk}
        BY <2>4 DEF RaAnnounce, baseVars, scratchVars
    <3> QED BY <1>0, <3>1 DEF DisksTyped
  <2>5. CASE RaInit \/ RaHead \/ Reconstruct \/ RaRead
      BY <1>1, <2>5 DEF RaInit, RaHead, Reconstruct, RaRead
  <2>6. CASE RaReadFails \/ WaitForMergeReady \/ RaMap \/ RaWakes
      BY <1>1, <2>6 DEF RaReadFails, WaitForMergeReady, RaMap, RaWakes
  <2> QED BY <1>3, <2>1, <2>2, <2>3, <2>4, <2>5, <2>6 DEF RaThread, RaStep
<1>4. CASE MThread
  <2>0. UNCHANGED scratchVars BY <1>4, MFrame DEF scratchVars
  <2>1. ASSUME UNCHANGED <<baseVars, headerVars>> PROVE DisksTyped'
      BY <1>1, <2>0, <2>1 DEF disks
  <2>2. CASE MWrite
    <3>1. UNCHANGED <<baseDisk, header, headerDisk>>
          /\ base' = [base EXCEPT ![Ops[mPos].new] = scratch[slot][2]]
        BY <2>2 DEF MWrite, headerVars
    <3>2. slot \in Slots
        BY <1>0, <2>2, SequenceAssumption
           DEF MWrite, MTyped, WindowTyped, Slots, SequenceAssumption
    <3>3. scratch[slot][2] \in Data
        BY <1>0, <3>2 DEF DisksTyped
    <3>4. base' \in [Blocks -> Data]
        BY <1>0, <3>1, <3>3 DEF DisksTyped
    <3> QED BY <1>0, <2>0, <3>1, <3>4 DEF DisksTyped, scratchVars
  <2>3. CASE MSync
      BY <1>0, <2>0, <2>3 DEF MSync, Fsync, DisksTyped, headerVars, scratchVars
  <2>4. CASE MCommit
    <3>1. UNCHANGED <<base, baseDisk, headerDisk>>
          /\ header' = <<header[1] + toMerge, header[2]>>
        BY <2>4 DEF MCommit, baseVars
    <3>2. header[1] + toMerge \in Nat /\ header[2] \in BOOLEAN
        BY <1>0 DEF DisksTyped, WindowTyped
    <3> QED BY <1>0, <2>0, <3>1, <3>2 DEF DisksTyped, scratchVars
  <2>5. CASE MClear
    <3>1. UNCHANGED <<base, baseDisk, headerDisk>> /\ header' = <<header[1], FALSE>>
        BY <2>5 DEF MClear, baseVars
    <3> QED BY <1>0, <2>0, <3>1 DEF DisksTyped, scratchVars
  <2>6. CASE MFlush
      BY <1>0, <2>0, <2>6 DEF MFlush, DisksTyped, baseVars, scratchVars
  <2>7. CASE MReplace
    <3>1. UNCHANGED <<baseDisk, header, headerDisk>>
          /\ base' = [base EXCEPT ![Replaces[mPos - N]] = FromCow(Replaces[mPos - N])]
        BY <2>7 DEF MReplace, headerVars
    <3>2. base' \in [Blocks -> Data]
        BY <1>0, <3>1, DataTyped DEF DisksTyped
    <3> QED BY <1>0, <2>0, <3>1, <3>2 DEF DisksTyped, scratchVars
  <2>8. CASE MReplaceCommit
    <3>1. base' = base /\ baseDisk' = base /\ headerDisk' \in {header', headerDisk}
          /\ header' = <<header[1] + slot - 1, header[2] /\ ~ra_thread>>
        BY <2>8 DEF MReplaceCommit, Fsync
    <3>2. header[1] + slot - 1 \in Nat
        BY <1>0 DEF DisksTyped, MTyped
    <3>3. header' \in Nat \X BOOLEAN BY <3>1, <3>2
    <3> QED BY <1>0, <2>0, <3>1, <3>3 DEF DisksTyped, scratchVars
  <2>9. CASE MRun \/ WaitForMergeBegin \/ MLock \/ MDrain \/ MFails
      BY <2>1, <2>9 DEF MRun, WaitForMergeBegin, MLock, MDrain, MFails
  <2>10. CASE MFlushFails \/ SetMergeCompleted \/ NotifyRAForMergeReady \/ MWakes
      BY <2>1, <2>10 DEF MFlushFails, SetMergeCompleted, NotifyRAForMergeReady, MWakes
  <2>11. CASE MReplaceBegin \/ MReplaceFails \/ MReplaced \/ MergeCompleted
      BY <2>1, <2>11 DEF MReplaceBegin, MReplaceFails, MReplaced, MergeCompleted
  <2> QED BY <1>4, <2>2, <2>3, <2>4, <2>5, <2>6, <2>7, <2>8, <2>9, <2>10, <2>11
          DEF MThread, MStep
<1>5. ASSUME NEW r \in Readers, Worker(r) PROVE DisksTyped'
    BY <1>1, <1>5, WorkerFrame
<1>6. CASE Boot \/ RaWaitEnds \/ InitiateMerge \/ Pause \/ NotifyIOTerminated
    BY <1>1, <1>6 DEF Boot, RaWaitEnds, InitiateMerge, Pause, NotifyIOTerminated
<1>7. CASE Join \/ Kill
    BY <1>1, <1>7 DEF Join, Kill
<1>8. CASE UNCHANGED vars
    BY <1>1, <1>8 DEF vars
<1> QED BY <1>2, <1>3, <1>4, <1>5, <1>6, <1>7, <1>8, Steps DEF Stops

LEMMA BootTypedStep == Typed /\ [Next]_vars => BootTyped'
<1> SUFFICES ASSUME Typed, [Next]_vars PROVE BootTyped'
    OBVIOUS
<1>0. BootTyped /\ DisksTyped BY DEF Typed
<1>1. ASSUME UNCHANGED boot, io' = io PROVE BootTyped'
    BY <1>0, <1>1 DEF BootTyped, boot
<1>2. CASE Boot
  <2>1. boots' \in 0 .. MaxBoots
      BY <1>0, <1>2, SequenceAssumption DEF Boot, BootTyped, SequenceAssumption
  <2>2. start' = header /\ populate' = header[2] /\ complete' = (header[1] = Total)
        /\ io' = "MERGE_READY" /\ main' \in {"waitRa", "serving"}
      BY <1>2 DEF Boot, Launch
  <2>3. UNCHANGED <<initiated, pause, started>>
      BY <1>2 DEF Boot
  <2>4. header[2] \in BOOLEAN /\ header \in Nat \X BOOLEAN
      BY <1>0 DEF DisksTyped
  <2> QED BY <1>0, <2>1, <2>2, <2>3, <2>4 DEF BootTyped, IoStates
<1>3. CASE RaWaitEnds
    BY <1>0, <1>3 DEF RaWaitEnds, Launch, BootTyped
<1>4. CASE InitiateMerge
    BY <1>0, <1>4 DEF InitiateMerge, BootTyped, IoStates
<1>5. CASE Pause
  <2>1. pause' \in BOOLEAN
      BY <1>0, <1>5 DEF Pause, BootTyped
  <2>2. UNCHANGED <<boots, main, initiated, started, populate, complete, start, io>>
      BY <1>5 DEF Pause
  <2> QED BY <1>0, <2>1, <2>2 DEF BootTyped
<1>6. CASE NotifyIOTerminated
    BY <1>0, <1>6 DEF NotifyIOTerminated, BootTyped, IoStates
<1>7. CASE Stops
  <2>1. main' = "down" /\ io' = "INVALID" /\ UNCHANGED boots
      BY <1>7, StopsFrame DEF End
  <2>2. initiated' = FALSE /\ pause' = FALSE /\ started' = FALSE /\ populate' = FALSE
        /\ complete' = FALSE /\ start' = <<0, FALSE>>
      BY <1>7, StopsFrame DEF End
  <2> QED BY <1>0, <2>1, <2>2 DEF BootTyped, IoStates
<1>8. CASE RaThread
  <2>0. UNCHANGED <<boots, main, initiated, pause, complete, start>>
      BY <1>8, RaFrame
  <2>1. ASSUME populate' \in BOOLEAN, started' \in BOOLEAN, io' \in IoStates
        PROVE  BootTyped'
      BY <1>0, <2>0, <2>1 DEF BootTyped
  <2>2. ASSUME UNCHANGED <<populate, started, io>> PROVE BootTyped'
      BY <1>0, <2>0, <2>2 DEF BootTyped
  <2>3. CASE Reconstruct
      BY <1>0, <2>1, <2>3 DEF Reconstruct, ReadAheadIOFailed, BootTyped, IoStates
  <2>4. CASE RaReadFails
      BY <1>0, <2>1, <2>4 DEF RaReadFails, ReadAheadIOFailed, BootTyped, IoStates
  <2>5. CASE RaFlush
      BY <1>0, <2>1, <2>5 DEF RaFlush, ReadAheadIOFailed, BootTyped, IoStates
  <2>6. CASE RaAnnounce
      BY <1>0, <2>1, <2>6 DEF RaAnnounce, ReadAheadIOFailed, BootTyped, IoStates
  <2>7. CASE RaInit \/ RaHead \/ RaRead \/ WaitForMergeReady
      BY <2>2, <2>7 DEF RaInit, RaHead, RaRead, WaitForMergeReady
  <2>8. CASE RaCopy \/ RaMap \/ RaMark \/ RaWakes
      BY <2>2, <2>8 DEF RaCopy, RaMap, RaMark, RaWakes
  <2> QED BY <1>8, <2>3, <2>4, <2>5, <2>6, <2>7, <2>8 DEF RaThread, RaStep
<1>9. CASE MThread
  <2>0. UNCHANGED <<boots, main, initiated, pause, started, populate, start>>
      BY <1>9, MFrame
  <2>1. ASSUME complete' \in BOOLEAN, io' \in IoStates PROVE BootTyped'
      BY <1>0, <2>0, <2>1 DEF BootTyped
  <2>2. io' \in {io, "MERGE_FAILED", "MERGE_READY", "MERGE_COMPLETE"}
      BY <1>9 DEF MThread, MStep, MRun, WaitForMergeBegin, MLock, MDrain, MWrite, MSync,
                  MFails, MCommit, MClear, MFlush, MFlushFails, SetMergeCompleted,
                  NotifyRAForMergeReady, MWakes, MReplaceBegin, MReplace, MReplaceCommit,
                  MReplaceFails, MReplaced, MergeCompleted, FallBack, MergeFailed
  <2>3. CASE MFlush
      BY <1>0, <2>1, <2>3 DEF MFlush, BootTyped
  <2>4. CASE MReplaceCommit
      BY <1>0, <2>1, <2>4 DEF MReplaceCommit, MergeFailed, BootTyped, IoStates
  <2>5. CASE ~MFlush /\ ~MReplaceCommit
    <3>1. complete' = complete
        BY <1>9, <2>5
           DEF MThread, MStep, MRun, WaitForMergeBegin, MLock, MDrain, MWrite, MSync,
               MFails, MCommit, MClear, MFlushFails, SetMergeCompleted,
               NotifyRAForMergeReady, MWakes, MReplaceBegin, MReplace,
               MReplaceFails, MReplaced, MergeCompleted
    <3> QED BY <1>0, <2>1, <2>2, <3>1 DEF BootTyped, IoStates
  <2> QED BY <2>3, <2>4, <2>5
<1>10. ASSUME NEW r \in Readers, Worker(r) PROVE BootTyped'
    BY <1>1, <1>10, WorkerFrame
<1>11. CASE UNCHANGED vars
    BY <1>1, <1>11 DEF vars
<1> QED BY <1>2, <1>3, <1>4, <1>5, <1>6, <1>7, <1>8, <1>9, <1>10, <1>11, Steps

(* Every set of slots that is not empty has a last one.                    *)
LEMMA LastSlot ==
    ASSUME NEW T, T \subseteq Slots, T # {}
    PROVE  \E s \in T : \A t \in T : t <= s
<1> DEFINE below == {Window - s : s \in T}
<1> DEFINE Less == OpToRel(<, Nat)
<1>1. Window \in Nat /\ \A s \in T : s \in Nat /\ Window - s \in Nat
    BY SequenceAssumption DEF Slots, SequenceAssumption
<1>2. below \subseteq Nat /\ below # {}
    BY <1>1
<1>3. IsWellFoundedOn(Less, Nat)
    BY NatLessThanWellFounded, Zenon
<1>4. \A x, y \in Nat : y < x => <<y, x>> \in Less
    BY DEF OpToRel
<1>5. \A t \in T : Window - t \in below
    OBVIOUS
<1> HIDE DEF Less, below
<1>6. PICK x \in below : \A y \in below : ~(<<y, x>> \in Less)
    BY <1>2, <1>3, WFMin
<1>7. PICK s \in T : x = Window - s
    BY DEF below
<1>8. \A t \in T : ~(Window - t < Window - s)
    BY <1>2, <1>4, <1>5, <1>6, <1>7
<1> QED BY <1>1, <1>8

LEMMA OnlyOne ==
    ASSUME NEW b, NEW i \in OpOn(b), NEW j \in OpOn(b)
    PROVE  i = j
<1>1. i \in 1 .. N /\ j \in 1 .. N /\ Ops[i].new = Ops[j].new BY DEF OpOn
<1>2. ~(i < j) /\ ~(j < i) BY <1>1, SequenceAssumption DEF SequenceAssumption
<1> QED BY <1>1, <1>2

(* The windows change their states only at the hands of the merge thread.  *)
LEMMA GroupChanges ==
    MThread => \/ UNCHANGED group
               \/ MLock /\ mPc' = "drain" /\ SetGroup("RA_READY")
               \/ MDrain /\ SetGroup("IN_PROGRESS")
               \/ mPc \in {"head", "write", "flush"} /\ ~mAsync /\ mPc' = "done"
                  /\ SetGroup("FAILED")
               \/ SetMergeCompleted /\ SetGroup("COMPLETED")
<1> USE DEF groups
<1>1. CASE MRun \/ MWrite \/ MSync \/ MCommit \/ MClear \/ MFlush
    BY <1>1 DEF MRun, MWrite, MSync, MCommit, MClear, MFlush
<1>2. CASE NotifyRAForMergeReady \/ MWakes \/ MReplaceBegin \/ MReplace \/ MReplaceCommit
    BY <1>2 DEF NotifyRAForMergeReady, MWakes, MReplaceBegin, MReplace, MReplaceCommit
<1>3. CASE MReplaceFails \/ MReplaced \/ MergeCompleted
    BY <1>3 DEF MReplaceFails, MReplaced, MergeCompleted
<1>4. CASE MLock BY <1>4 DEF MLock
<1>5. CASE MDrain BY <1>5 DEF MDrain
<1>6. CASE SetMergeCompleted BY <1>6 DEF SetMergeCompleted
<1>7. CASE WaitForMergeBegin BY <1>7 DEF WaitForMergeBegin, FallBack, MergeFailed
<1>8. CASE MFails BY <1>8 DEF MFails, FallBack, MergeFailed
<1>9. CASE MFlushFails BY <1>9 DEF MFlushFails, FallBack, MergeFailed
<1> QED BY <1>1, <1>2, <1>3, <1>4, <1>5, <1>6, <1>7, <1>8, <1>9 DEF MThread, MStep

LEMMA WindowTypedStep == Typed /\ [Next]_vars => WindowTyped'
<1> SUFFICES ASSUME Typed, [Next]_vars PROVE WindowTyped'
    OBVIOUS
<1>0. WindowTyped /\ RaTyped /\ MTyped /\ N \in Nat /\ Window \in Nat
    BY SequenceAssumption DEF Typed, SequenceAssumption, N
<1>1. ASSUME UNCHANGED <<toMerge, map, group, bufferLock>> PROVE WindowTyped'
    BY <1>0, <1>1 DEF WindowTyped
<1>2. CASE Boot \/ RaWaitEnds \/ InitiateMerge \/ Pause \/ NotifyIOTerminated
    BY <1>1, <1>2 DEF Boot, RaWaitEnds, InitiateMerge, Pause, NotifyIOTerminated, groups
<1>3. CASE Stops
  <2>1. toMerge' = 0 /\ bufferLock' = "free" /\ map' = [b \in Blocks |-> 0]
        /\ group' = [g \in 1 .. N |-> "PENDING"]
      BY <1>3, StopsFrame DEF End
  <2>2. map' \in [Blocks -> Slots \cup {0}]
      BY <2>1
  <2>3. group' \in [1 .. N -> GroupStates]
      BY <2>1 DEF GroupStates
  <2> QED BY <1>0, <2>1, <2>2, <2>3 DEF WindowTyped
<1>4. CASE RaThread
  <2>0. UNCHANGED group BY <1>4, RaFrame
  <2>1. CASE Reconstruct
    <3>1. Listed \subseteq Slots /\ IsFiniteSet(Slots) /\ Cardinality(Slots) = Window
        BY <1>0, FS_Interval DEF Listed, Slots
    <3>2. Cardinality(Listed) \in 0 .. Window
        BY <1>0, <3>1, FS_Subset, FS_CardinalityType
    <3>3. \A b \in Blocks : Mapped(b) # {} =>
              (CHOOSE s \in Mapped(b) : \A t \in Mapped(b) : t <= s) \in Slots
      <4> SUFFICES ASSUME NEW b \in Blocks, Mapped(b) # {}
                   PROVE  (CHOOSE s \in Mapped(b) : \A t \in Mapped(b) : t <= s) \in Slots
          OBVIOUS
      <4>1. Mapped(b) \subseteq Slots BY DEF Mapped, Listed
      <4>2. \E s \in Mapped(b) : \A t \in Mapped(b) : t <= s BY <4>1, LastSlot
      <4> QED BY <4>1, <4>2
    <3>4. map' \in [Blocks -> Slots \cup {0}]
        BY <2>1, <3>3 DEF Reconstruct
    <3>5. toMerge' \in 0 .. Window /\ bufferLock' = bufferLock
        BY <1>0, <2>1, <3>2 DEF Reconstruct, WindowTyped
    <3> QED BY <1>0, <2>0, <3>4, <3>5 DEF WindowTyped
  <2>2. CASE RaCopy
    <3>1. map' = [b \in Blocks |-> 0] /\ bufferLock' = "ra" /\ toMerge' = toMerge
        BY <2>2 DEF RaCopy
    <3>2. map' \in [Blocks -> Slots \cup {0}] BY <3>1
    <3> QED BY <1>0, <2>0, <3>1, <3>2 DEF WindowTyped
  <2>3. CASE RaMap
    <3>1. temp \in Seq(Data) /\ Len(temp) \in 0 .. Window /\ raPos \in 1 .. N + 1
        BY <1>0 DEF RaTyped
    <3>2. \A b \in Blocks : OpOn(b) \cap (RaFirst .. raPos - 1) # {} =>
              (CHOOSE i \in OpOn(b) : TRUE) - RaFirst + 1 \in Slots
      <4> SUFFICES ASSUME NEW b \in Blocks, NEW i \in OpOn(b) \cap (RaFirst .. raPos - 1)
                   PROVE  (CHOOSE j \in OpOn(b) : TRUE) - RaFirst + 1 \in Slots
          OBVIOUS
      <4> DEFINE chosen == CHOOSE j \in OpOn(b) : TRUE
      <4>1. chosen \in OpOn(b)
          OBVIOUS
      <4> HIDE DEF chosen
      <4>2. chosen = i
          BY <4>1, OnlyOne
      <4>3. chosen - RaFirst + 1 \in Slots
          BY <3>1, <4>2, <1>0 DEF RaFirst, Slots
      <4> QED BY <4>3 DEF chosen
    <3>3. map' \in [Blocks -> Slots \cup {0}]
        BY <2>3, <3>2 DEF RaMap
    <3>4. toMerge' \in 0 .. Window /\ bufferLock' = "free"
        BY <2>3, <3>1 DEF RaMap
    <3> QED BY <1>0, <2>0, <3>3, <3>4 DEF WindowTyped
  <2>4. CASE RaInit \/ RaHead \/ RaRead \/ RaReadFails \/ WaitForMergeReady
      BY <1>1, <2>0, <2>4 DEF RaInit, RaHead, RaRead, RaReadFails, WaitForMergeReady
  <2>5. CASE RaFlush \/ RaMark \/ RaAnnounce \/ RaWakes
      BY <1>1, <2>0, <2>5 DEF RaFlush, RaMark, RaAnnounce, RaWakes
  <2> QED BY <1>4, <2>1, <2>2, <2>3, <2>4, <2>5 DEF RaThread, RaStep
<1>5. CASE MThread
  <2>0. UNCHANGED <<toMerge, map>> BY <1>5, MFrame
  <2>1. bufferLock' \in {bufferLock, "free", "merge"}
      BY <1>5 DEF MThread, MStep, MRun, WaitForMergeBegin, MLock, MDrain, MWrite, MSync,
                  MFails, MCommit, MClear, MFlush, MFlushFails, SetMergeCompleted,
                  NotifyRAForMergeReady, MWakes, MReplaceBegin, MReplace, MReplaceCommit,
                  MReplaceFails, MReplaced, MergeCompleted
  <2>2. ASSUME NEW state \in GroupStates, SetGroup(state) PROVE WindowTyped'
      BY <1>0, <2>0, <2>1, <2>2 DEF SetGroup, WindowTyped
  <2>3. ASSUME UNCHANGED group PROVE WindowTyped'
      BY <1>0, <2>0, <2>1, <2>3 DEF WindowTyped
  <2>4. \/ UNCHANGED group \/ SetGroup("RA_READY") \/ SetGroup("IN_PROGRESS")
        \/ SetGroup("FAILED") \/ SetGroup("COMPLETED")
      BY <1>5, GroupChanges
  <2>5. {"RA_READY", "IN_PROGRESS", "FAILED", "COMPLETED"} \subseteq GroupStates
      BY DEF GroupStates
  <2> QED BY <2>2, <2>3, <2>4, <2>5
<1>6. ASSUME NEW r \in Readers, Worker(r) PROVE WindowTyped'
    BY <1>1, <1>6, WorkerFrame
<1>7. CASE UNCHANGED vars
    BY <1>1, <1>7 DEF vars, groups
<1> QED BY <1>2, <1>3, <1>4, <1>5, <1>6, <1>7, Steps

LEMMA RaTypedStep == Typed /\ [Next]_vars => RaTyped'
<1> SUFFICES ASSUME Typed, [Next]_vars PROVE RaTyped'
    OBVIOUS
<1>0. RaTyped /\ DisksTyped /\ N \in Nat /\ Window \in Nat
      /\ (ra_thread => start[1] \in Nat /\ start[1] < N)
    BY SequenceAssumption
       DEF Typed, BootTyped, SequenceAssumption, N, ra_thread
<1>1. ASSUME UNCHANGED <<raVars, main, start>> PROVE RaTyped'
    BY <1>0, <1>1 DEF RaTyped, raVars, ra_thread
<1>2. CASE Boot
  <2>1. main = "down" /\ main' # "down" /\ start' = header /\ UNCHANGED <<raPos, temp, raAsync>>
        /\ raPc' = IF header[1] < N THEN "init" ELSE "done"
      BY <1>2 DEF Boot, Launch
  <2>2. temp' = <<>> /\ raPc' \in {"init", "done"} /\ (raPc' = "init" => start'[1] < N)
      BY <1>0, <2>1 DEF RaTyped
  <2> QED BY <1>0, <2>1, <2>2 DEF RaTyped, ra_thread
<1>3. CASE RaWaitEnds \/ InitiateMerge \/ Pause \/ NotifyIOTerminated
  <2>1. main' # "down" /\ UNCHANGED <<raVars, start>>
      BY <1>3 DEF RaWaitEnds, Launch, InitiateMerge, Pause, NotifyIOTerminated
  <2> QED BY <1>0, <2>1 DEF RaTyped, raVars, ra_thread
<1>4. CASE Stops
  <2>1. raPc' = "done" /\ raPos' = 1 /\ temp' = <<>> /\ raAsync' = FALSE
      BY <1>4, StopsFrame DEF End
  <2>2. temp' \in Seq(Data) /\ Len(temp') = 0 /\ raPos' \in 1 .. N + 1
      BY <1>0, <2>1
  <2>3. raAsync' \in BOOLEAN
      BY <2>1
  <2> QED BY <1>0, <2>1, <2>2, <2>3 DEF RaTyped
<1>5. CASE RaThread
  <2>0. UNCHANGED <<main, start>> /\ raPc # "done" /\ main # "down"
    <3>1. UNCHANGED <<main, start>> BY <1>5, RaFrame
    <3>2. raPc # "done"
        BY <1>5 DEF RaThread, RaStep, RaInit, RaHead, Reconstruct, RaRead, RaReadFails,
                    WaitForMergeReady, RaCopy, RaMap, RaFlush, RaMark, RaAnnounce, RaWakes
    <3> QED BY <1>0, <3>1, <3>2 DEF RaTyped
  <2>1. ASSUME raPc' \in {"head", "reconstruct", "read", "asleep", "lock", "map", "flush",
                          "mark", "announce", "done", "dead"},
               raPos' \in 1 .. N + 1,
               temp' \in Seq(Data), Len(temp') <= Window, Len(temp') < raPos',
               raAsync' \in BOOLEAN
        PROVE  RaTyped'
      BY <2>0, <2>1 DEF RaTyped
  <2>2. ASSUME raPc' \in {"reconstruct", "asleep", "lock", "map", "flush", "mark", "announce",
                          "head", "read", "done"},
               UNCHANGED <<raPos, temp, raAsync>>
        PROVE  RaTyped'
      BY <1>0, <2>1, <2>2 DEF RaTyped
  <2>3. CASE RaInit
    <3>1. temp' = temp /\ temp = <<>> /\ ra_thread
        BY <1>0, <2>3 DEF RaInit, RaTyped
    <3>2. CASE raPc' = "dead" /\ UNCHANGED <<raPos, raAsync>>
        BY <1>0, <2>1, <3>1, <3>2 DEF RaTyped
    <3>3. CASE raPc' = "head" /\ raPos' = start[1] + 1 /\ raAsync' = IoUring
      <4>1. raPos' \in 1 .. N + 1 /\ raAsync' \in BOOLEAN /\ Len(temp') = 0
          BY <1>0, <3>1, <3>3, SequenceAssumption DEF SequenceAssumption
      <4> QED BY <1>0, <2>1, <3>1, <3>3, <4>1 DEF RaTyped
    <3> QED BY <2>3, <3>2, <3>3 DEF RaInit
  <2>4. CASE RaHead
    <3>1. raPc' \in {"done", "reconstruct", "read"} /\ temp' = <<>> /\ UNCHANGED <<raPos, raAsync>>
        BY <2>4 DEF RaHead
    <3>2. temp' \in Seq(Data) /\ Len(temp') = 0 BY <3>1
    <3> QED BY <1>0, <2>1, <3>1, <3>2 DEF RaTyped
  <2>5. CASE Reconstruct
    <3>1. UNCHANGED <<temp, raAsync>> /\ raPc' \in {"flush", "done"}
        BY <2>5 DEF Reconstruct, ReadAheadIOFailed
    <3>2. PICK last \in raPos - 1 .. N : raPos' = last + 1
        BY <2>5 DEF Reconstruct
    <3> QED BY <1>0, <2>1, <3>1, <3>2 DEF RaTyped
  <2>6. CASE RaRead
    <3>1. raPos \in 1 .. N /\ Len(temp) < Window /\ raPc = "read"
          /\ temp' = Append(temp, Result(Ops[raPos], base[Ops[raPos].src]))
          /\ raPos' = raPos + 1 /\ UNCHANGED <<raPc, raAsync>>
        BY <1>0, <2>6 DEF RaRead, Room, RaTyped
    <3>2. base[Ops[raPos].src] \in Data
        BY <1>0, <3>1, OpTyped DEF DisksTyped
    <3>3. Result(Ops[raPos], base[Ops[raPos].src]) \in Data
        BY <3>1, <3>2, ResultTyped
    <3>4. temp' \in Seq(Data) /\ Len(temp') = Len(temp) + 1
        BY <1>0, <3>1, <3>3 DEF RaTyped
    <3> QED BY <1>0, <2>1, <3>1, <3>4 DEF RaTyped
  <2>7. CASE RaReadFails
    <3>1. raPos' = raPos - Len(temp) /\ temp' = <<>> /\ raAsync' = FALSE
          /\ raPc' \in {raPc, "done"} /\ raPc = "read"
        BY <2>7 DEF RaReadFails, ReadAheadIOFailed
    <3>2. temp' \in Seq(Data) /\ Len(temp') = 0 BY <3>1
    <3>3. raPos' \in 1 .. N + 1 BY <1>0, <3>1 DEF RaTyped
    <3>4. Len(temp') <= Window /\ Len(temp') < raPos'
        BY <1>0, <3>2, <3>3
    <3>5. raAsync' \in BOOLEAN
        BY <3>1
    <3> QED BY <2>1, <3>1, <3>2, <3>3, <3>4, <3>5
  <2>8. CASE WaitForMergeReady \/ RaCopy \/ RaMap \/ RaWakes
    <3>1. UNCHANGED <<raPos, temp, raAsync>> /\ raPc' \in {"asleep", "lock", "map", "flush", "done"}
        BY <2>8 DEF WaitForMergeReady, RaCopy, RaMap, RaWakes
    <3> QED BY <2>2, <3>1
  <2>9. CASE RaFlush \/ RaMark \/ RaAnnounce
    <3>1. UNCHANGED <<raPos, temp, raAsync>> /\ raPc' \in {"mark", "announce", "head", "done"}
        BY <2>9 DEF RaFlush, RaMark, RaAnnounce, ReadAheadIOFailed
    <3> QED BY <2>2, <3>1
  <2> QED BY <1>5, <2>3, <2>4, <2>5, <2>6, <2>7, <2>8, <2>9 DEF RaThread, RaStep
<1>6. CASE MThread
    BY <1>1, <1>6, MFrame
<1>7. ASSUME NEW r \in Readers, Worker(r) PROVE RaTyped'
    BY <1>1, <1>7, WorkerFrame DEF boot
<1>8. CASE UNCHANGED vars
    BY <1>1, <1>8 DEF vars, boot
<1> QED BY <1>2, <1>3, <1>4, <1>5, <1>6, <1>7, <1>8, Steps

LEMMA MTypedStep == Typed /\ [Next]_vars => MTyped'
<1> SUFFICES ASSUME Typed, [Next]_vars PROVE MTyped'
    OBVIOUS
<1>0. MTyped /\ WindowTyped /\ Window \in Nat \ {0} /\ Batch \in Nat \ {0} /\ IoUring \in BOOLEAN
      /\ start[1] \in Nat /\ main \in {"down", "waitRa", "serving", "joining"}
    BY SequenceAssumption DEF Typed, BootTyped, SequenceAssumption
<1>1. ASSUME UNCHANGED <<mVars, main>> PROVE MTyped'
    BY <1>0, <1>1 DEF MTyped, mVars
<1>2. CASE Boot \/ RaWaitEnds
  <2>1. main \in {"down", "waitRa"} /\ UNCHANGED <<mPos, mGroup, slot, mAsync>>
        /\ ((mPc' = "run" /\ main' = "serving") \/ (mPc' = mPc /\ main' = "waitRa"))
      BY <1>2 DEF Boot, RaWaitEnds, Launch
  <2> QED BY <1>0, <2>1 DEF MTyped
<1>3. CASE InitiateMerge \/ Pause
    BY <1>1, <1>3 DEF InitiateMerge, Pause
<1>4. CASE NotifyIOTerminated
  <2>1. main = "serving" /\ main' \in {"serving", "joining"} /\ UNCHANGED mVars
      BY <1>4 DEF NotifyIOTerminated
  <2> QED BY <1>0, <2>1 DEF MTyped, mVars
<1>5. CASE Stops
  <2>1. mPc' = "done" /\ mPos' = 1 /\ mGroup' = 1 /\ slot' = 1 /\ mAsync' = FALSE
      BY <1>5, StopsFrame DEF End
  <2>2. mAsync' \in BOOLEAN
      BY <2>1
  <2> QED BY <1>0, <2>1, <2>2 DEF MTyped
<1>6. CASE RaThread
    BY <1>1, <1>6, RaFrame
<1>7. CASE MThread
  <2>0. main' = main /\ main \notin {"down", "waitRa"}
    <3>1. main' = main BY <1>7, MFrame
    <3>2. mPc # "done"
        BY <1>7 DEF MThread, MStep, MRun, WaitForMergeBegin, MLock, MDrain, MWrite, MSync,
                    MFails, MCommit, MClear, MFlush, MFlushFails, SetMergeCompleted,
                    NotifyRAForMergeReady, MWakes, MReplaceBegin, MReplace, MReplaceCommit,
                    MReplaceFails, MReplaced, MergeCompleted
    <3> QED BY <1>0, <3>1, <3>2 DEF MTyped
  <2>1. ASSUME UNCHANGED <<mPos, slot, mGroup, mAsync>>,
               mPc' \in {"head", "lock", "drain", "write", "commit", "clear", "flush",
                         "finish", "notify", "asleep", "replaceCommit", "done"}
        PROVE  MTyped'
      BY <1>0, <2>0, <2>1 DEF MTyped
  <2>2. ASSUME FallBack, mGroup' = mGroup PROVE MTyped'
    <3>1. CASE mAsync
      <4>1. mAsync' = FALSE /\ mPos' = mPos - (slot - 1) /\ slot' = 1 /\ mPc' = "head"
          BY <2>2, <3>1 DEF FallBack
      <4>2. mPos' \in Nat /\ slot' <= mPos'
          BY <1>0, <4>1 DEF MTyped
      <4>3. mAsync' \in BOOLEAN
          BY <4>1
      <4>4. slot' = 1 /\ mPc' = "head" /\ mGroup' = mGroup
          BY <2>2, <4>1
      <4> QED BY <1>0, <2>0, <4>2, <4>3, <4>4 DEF MTyped
    <3>2. CASE ~mAsync
      <4>1. UNCHANGED <<mAsync, mPos, slot>> /\ mPc' = "done"
          BY <2>2, <3>2 DEF FallBack, MergeFailed
      <4> QED BY <2>1, <2>2, <4>1
    <3> QED BY <3>1, <3>2
  <2>3. CASE MRun
    <3>1. mPc = "run" /\ UNCHANGED <<mGroup, slot>>
          /\ ((mPc' = "head" /\ mPos' = start[1] + 1 /\ mAsync' = IoUring)
              \/ (mPc' = "done" /\ UNCHANGED <<mPos, mAsync>>))
        BY <2>3 DEF MRun, MergeFailed
    <3> QED BY <1>0, <2>0, <3>1 DEF MTyped
  <2>4. CASE WaitForMergeBegin
      BY <2>1, <2>2, <2>4 DEF WaitForMergeBegin
  <2>5. CASE MLock
    <3>1. slot' = 1 /\ mPc' \in {"write", "drain"} /\ UNCHANGED <<mPos, mGroup, mAsync>>
        BY <2>5 DEF MLock
    <3> QED BY <1>0, <2>0, <3>1 DEF MTyped
  <2>6. CASE MDrain \/ MSync \/ MCommit \/ MClear \/ MFlush \/ SetMergeCompleted
      BY <2>1, <2>6 DEF MDrain, MSync, MCommit, MClear, MFlush, SetMergeCompleted
  <2>7. CASE MWrite
    <3>1. slot <= Window /\ mPos' = mPos + 1 /\ slot' = slot + 1 /\ mPc = "write"
          /\ UNCHANGED <<mPc, mGroup, mAsync>>
        BY <1>0, <2>7 DEF MWrite, WindowTyped, MTyped
    <3>2. slot' \in Nat /\ mPos' \in Nat /\ 1 <= slot' /\ slot' <= mPos' /\ slot' <= Window + Batch
        BY <1>0, <3>1 DEF MTyped
    <3> QED BY <1>0, <2>0, <3>1, <3>2 DEF MTyped
  <2>8. CASE MFails \/ MFlushFails
      BY <2>2, <2>8 DEF MFails, MFlushFails
  <2>9. CASE NotifyRAForMergeReady
    <3>1. mGroup' = mGroup + 1 /\ mPc' \in {"asleep", "head"} /\ UNCHANGED <<mPos, slot, mAsync>>
        BY <2>9 DEF NotifyRAForMergeReady
    <3> QED BY <1>0, <2>0, <3>1 DEF MTyped
  <2>10. CASE MWakes
    <3>1. UNCHANGED <<mPos, slot, mGroup, mAsync>>
          /\ (mPc' = "head" \/ (mPc = "dozing" /\ mPc' = "replace"))
        BY <2>10 DEF MWakes
    <3> QED BY <1>0, <2>0, <3>1 DEF MTyped
  <2>11. CASE MReplaceBegin
    <3>1. slot' = 1 /\ mPc' = "replace" /\ UNCHANGED <<mPos, mGroup, mAsync>>
        BY <2>11 DEF MReplaceBegin
    <3> QED BY <1>0, <2>0, <3>1 DEF MTyped
  <2>12. CASE MReplace
    <3>1. mPos' = mPos + 1 /\ slot' = slot + 1 /\ mPc = "replace" /\ UNCHANGED <<mGroup, mAsync>>
          /\ mPc' = IF slot = Batch THEN "replaceCommit" ELSE "replaced"
        BY <2>12 DEF MReplace
    <3>2. slot' \in Nat /\ mPos' \in Nat /\ 1 <= slot' /\ slot' <= mPos' /\ slot' <= Window + Batch
          /\ (mPc' = "replaced" => slot' <= Batch) /\ mPc' \in {"replaceCommit", "replaced"}
        BY <1>0, <3>1 DEF MTyped
    <3> QED BY <1>0, <2>0, <3>1, <3>2 DEF MTyped
  <2>13. CASE MReplaceCommit
    <3>1. UNCHANGED <<mPos, mGroup, mAsync>>
          /\ ((slot' = 1 /\ mPc' \in {"replaced", "replace"}) \/ (slot' = slot /\ mPc' = "done"))
        BY <2>13 DEF MReplaceCommit, MergeFailed
    <3> QED BY <1>0, <2>0, <2>1, <3>1 DEF MTyped
  <2>14. CASE MReplaceFails
      BY <2>1, <2>14 DEF MReplaceFails, MergeFailed
  <2>15. CASE MReplaced
    <3>1. mPc = "replaced" /\ mPc' \in {"done", "dozing", "replace"}
          /\ UNCHANGED <<mPos, slot, mGroup, mAsync>>
        BY <2>15 DEF MReplaced, MergeFailed
    <3> QED BY <1>0, <2>0, <3>1 DEF MTyped
  <2>16. CASE MergeCompleted
      BY <2>1, <2>16 DEF MergeCompleted
  <2> QED BY <1>7, <2>3, <2>4, <2>5, <2>6, <2>7, <2>8, <2>9, <2>10, <2>11, <2>12, <2>13,
             <2>14, <2>15, <2>16 DEF MThread, MStep
<1>8. ASSUME NEW r \in Readers, Worker(r) PROVE MTyped'
    BY <1>1, <1>8, WorkerFrame DEF boot
<1>9. CASE UNCHANGED vars
    BY <1>1, <1>9 DEF vars, boot
<1> QED BY <1>2, <1>3, <1>4, <1>5, <1>6, <1>7, <1>8, <1>9, Steps

LEMMA ReadsTypedStep == Typed /\ [Next]_vars => ReadsTyped'
<1> SUFFICES ASSUME Typed, [Next]_vars PROVE ReadsTyped'
    OBVIOUS
<1>0. ReadsTyped /\ main \in {"down", "waitRa", "serving", "joining"}
    BY DEF Typed, BootTyped
<1>1. ASSUME UNCHANGED <<ios, rVars, main>> PROVE ReadsTyped'
    BY <1>0, <1>1 DEF ReadsTyped, rVars
<1>2. CASE Boot \/ RaWaitEnds
  <2>1. UNCHANGED <<ios, rBlock>> /\ main \in {"down", "waitRa"}
        /\ ((rPc' = [r \in Readers |-> "idle"] /\ main' = "serving") \/ rPc' = rPc)
      BY <1>2 DEF Boot, RaWaitEnds, Launch, groups
  <2> QED BY <1>0, <2>1 DEF ReadsTyped
<1>3. CASE InitiateMerge \/ Pause \/ NotifyIOTerminated
  <2>1. UNCHANGED <<ios, rVars>> /\ (main' = main \/ main' = "joining")
      BY <1>3 DEF InitiateMerge, Pause, NotifyIOTerminated, groups
  <2> QED BY <1>0, <2>1 DEF ReadsTyped, rVars
<1>4. CASE Stops
  <2>1. ios' = [g \in 1 .. N |-> 0] /\ rPc' = [r \in Readers |-> "done"]
        /\ rBlock' = [r \in Readers |-> 0]
      BY <1>4, StopsFrame DEF End
  <2> QED BY <1>0, <2>1 DEF ReadsTyped
<1>5. CASE RaThread
    BY <1>1, <1>5, RaFrame
<1>6. CASE MThread
    BY <1>1, <1>6, MFrame
<1>7. ASSUME NEW r \in Readers, Worker(r) PROVE ReadsTyped'
  <2>0. main' = main /\ rPc[r] # "done" /\ main \notin {"down", "waitRa"}
    <3>1. main' = main BY <1>7, WorkerFrame DEF boot
    <3>2. rPc[r] # "done" BY <1>7 DEF Worker, BeginRead, EndRead, WorkerEnds
    <3> QED BY <1>0, <3>1, <3>2 DEF ReadsTyped
  <2>1. CASE BeginRead(r)
    <3>0. PICK b \in Blocks : \E i \in Pending(b) :
              ios' = [ios EXCEPT ![GroupOf(i)] = @ + 1] /\ rBlock' = [rBlock EXCEPT ![r] = b]
        BY <2>1 DEF BeginRead
    <3>1. PICK i \in Pending(b) :
              ios' = [ios EXCEPT ![GroupOf(i)] = @ + 1] /\ rBlock' = [rBlock EXCEPT ![r] = b]
        BY <3>0
    <3>2. rPc' = [rPc EXCEPT ![r] = "source"] BY <2>1 DEF BeginRead
    <3>3. ios \in [1 .. N -> Int] BY <1>0 DEF ReadsTyped
    <3>4. ios' \in [1 .. N -> Int]
      <4> DEFINE g == GroupOf(i)
      <4> HIDE DEF g
      <4>1. ios' = [ios EXCEPT ![g] = ios[g] + 1] BY <3>1 DEF g
      <4>2. g \in 1 .. N => ios[g] + 1 \in Int BY <3>3
      <4> QED BY <3>3, <4>1, <4>2
    <3>5. rBlock' \in [Readers -> Blocks \cup {0}] BY <1>0, <3>1 DEF ReadsTyped
    <3>6. rPc' \in [Readers -> {"idle", "source", "done"}] BY <1>0, <3>2 DEF ReadsTyped
    <3> QED BY <2>0, <3>4, <3>5, <3>6 DEF ReadsTyped
  <2>2. CASE EndRead(r)
    <3>1. PICK i \in OpOn(rBlock[r]) : ios' = [ios EXCEPT ![GroupOf(i)] = @ - 1]
        BY <2>2 DEF EndRead
    <3>2. PICK next \in {"idle", "done"} : rPc' = [rPc EXCEPT ![r] = next]
        BY <2>2 DEF EndRead
    <3>3. rBlock' = [rBlock EXCEPT ![r] = 0] BY <2>2 DEF EndRead
    <3>4. ios \in [1 .. N -> Int] BY <1>0 DEF ReadsTyped
    <3>5. ios' \in [1 .. N -> Int]
      <4> DEFINE g == GroupOf(i)
      <4> HIDE DEF g
      <4>1. ios' = [ios EXCEPT ![g] = ios[g] - 1] BY <3>1 DEF g
      <4>2. g \in 1 .. N => ios[g] - 1 \in Int BY <3>4
      <4> QED BY <3>4, <4>1, <4>2
    <3>6. rBlock' \in [Readers -> Blocks \cup {0}] BY <1>0, <3>3 DEF ReadsTyped
    <3>7. rPc' \in [Readers -> {"idle", "source", "done"}] BY <1>0, <3>2 DEF ReadsTyped
    <3> QED BY <2>0, <3>5, <3>6, <3>7 DEF ReadsTyped
  <2>3. CASE WorkerEnds(r)
    <3>1. UNCHANGED <<ios, rBlock>> /\ rPc' = [rPc EXCEPT ![r] = "done"]
        BY <2>3 DEF WorkerEnds, groups
    <3> QED BY <1>0, <2>0, <3>1 DEF ReadsTyped
  <2> QED BY <1>7, <2>1, <2>2, <2>3 DEF Worker
<1>8. CASE UNCHANGED vars
    BY <1>1, <1>8 DEF vars, boot, groups
<1> QED BY <1>2, <1>3, <1>4, <1>5, <1>6, <1>7, <1>8, Steps

LEMMA TypedStep == Typed /\ [Next]_vars => Typed'
BY DisksTypedStep, BootTypedStep, WindowTypedStep, RaTypedStep, MTypedStep, ReadsTypedStep
   DEF Typed

LEMMA TypedInit == Init => Typed
<1> SUFFICES ASSUME Init PROVE Typed
    OBVIOUS
<1>0. N \in Nat /\ Window \in Nat \ {0} /\ Batch \in Nat \ {0} /\ MaxBoots \in Nat
    BY SequenceAssumption DEF SequenceAssumption, N
<1>1. DisksTyped
  <2>1. base = [b \in Blocks |-> Old(b)] /\ baseDisk = base
        /\ scratch = [s \in Slots |-> Free] /\ scratchDisk = scratch
        /\ header = <<0, FALSE>> /\ headerDisk = header
      BY DEF Init
  <2>2. base \in [Blocks -> Data] /\ scratch \in [Slots -> (Blocks \cup {0}) \X Data]
      BY <2>1, DataTyped
  <2> QED BY <2>1, <2>2 DEF DisksTyped
<1>2. BootTyped
  <2>1. boots = 0 /\ main = "down" /\ io = "INVALID" /\ start = <<0, FALSE>>
      BY DEF Init, Idle
  <2>2. initiated \in BOOLEAN /\ pause \in BOOLEAN /\ started \in BOOLEAN
        /\ populate \in BOOLEAN /\ complete \in BOOLEAN
      BY DEF Init, Idle
  <2>3. start \in Nat \X BOOLEAN BY <2>1
  <2>4. boots \in 0 .. MaxBoots /\ io \in IoStates BY <1>0, <2>1 DEF IoStates
  <2> QED BY <2>1, <2>2, <2>3, <2>4 DEF BootTyped
<1>3. WindowTyped
  <2>1. toMerge = 0 /\ map = [b \in Blocks |-> 0] /\ group = [g \in 1 .. N |-> "PENDING"]
        /\ bufferLock = "free"
      BY DEF Init, Idle
  <2> QED BY <1>0, <2>1 DEF WindowTyped, GroupStates
<1>4. RaTyped
  <2>1. raPc = "done" /\ raPos = 1 /\ temp = <<>>
      BY DEF Init, Idle
  <2>2. temp \in Seq(Data) /\ Len(temp) = 0 BY <2>1
  <2>3. raAsync \in BOOLEAN BY DEF Init, Idle
  <2> QED BY <1>0, <2>1, <2>2, <2>3 DEF RaTyped
<1>5. MTyped
  <2>1. mPc = "done" /\ mPos = 1 /\ mGroup = 1 /\ slot = 1
      BY DEF Init, Idle
  <2>2. mAsync \in BOOLEAN BY DEF Init, Idle
  <2> QED BY <1>0, <2>1, <2>2 DEF MTyped
<1>6. ReadsTyped
    BY DEF Init, Idle, ReadsTyped
<1> QED BY <1>1, <1>2, <1>3, <1>4, <1>5, <1>6 DEF Typed

-----------------------------------------------------------------------------
(* The reads in flight.                                                    *)

LEMMA InFlightFinite ==
    ASSUME NEW g
    PROVE  IsFiniteSet(InFlight(g)) /\ Cardinality(InFlight(g)) \in Nat
<1>1. InFlight(g) \subseteq Readers /\ IsFiniteSet(Readers)
    BY SequenceAssumption DEF InFlight, SequenceAssumption
<1> QED BY <1>1, FS_Subset, FS_CardinalityType

LEMMA DrainedStep == Typed /\ Drained /\ [Next]_vars => Drained'
<1> SUFFICES ASSUME Typed, Drained, [Next]_vars PROVE Drained'
    OBVIOUS
<1>0. ReadsTyped /\ WindowTyped BY DEF Typed
<1>1. ASSUME UNCHANGED <<rVars, start>>
      PROVE  \A g : (InFlight(g))' = InFlight(g)
    BY <1>1 DEF InFlight, GroupOf, rVars
<1>2. ASSUME UNCHANGED <<rVars, start, group, ios>> PROVE Drained'
    BY <1>1, <1>2 DEF Drained
<1>3. CASE Boot \/ RaWaitEnds
  <2>1. UNCHANGED <<ios, group>> /\ main \in {"down", "waitRa"}
        /\ (rPc' = [r \in Readers |-> "idle"] \/ rPc' = rPc)
      BY <1>3 DEF Boot, RaWaitEnds, Launch, groups
  <2>2. \A g : InFlight(g) = {}
      BY <1>0, <2>1 DEF InFlight, ReadsTyped
  <2>3. \A r \in Readers : rPc'[r] # "source"
      BY <1>0, <2>1 DEF ReadsTyped
  <2>4. \A g : (InFlight(g))' = {}
      BY <2>3 DEF InFlight
  <2> QED BY <2>1, <2>2, <2>4 DEF Drained
<1>4. CASE InitiateMerge \/ Pause \/ NotifyIOTerminated
    BY <1>2, <1>4 DEF InitiateMerge, Pause, NotifyIOTerminated, groups
<1>5. CASE Stops
  <2>1. ios' = [g \in 1 .. N |-> 0] /\ rPc' = [r \in Readers |-> "done"]
      BY <1>5, StopsFrame DEF End
  <2>2. \A g : (InFlight(g))' = {}
      BY <2>1 DEF InFlight
  <2> QED BY <2>1, <2>2, FS_EmptySet DEF Drained
<1>6. CASE RaThread
    BY <1>2, <1>6, RaFrame
<1>7. CASE MThread
  <2>1. UNCHANGED <<ios, rVars, start>> BY <1>7, MFrame
  <2>2. \A g \in 1 .. N : ios'[g] = Cardinality((InFlight(g))')
      BY <1>1, <2>1 DEF Drained
  <2>3. \A g \in 1 .. N : group'[g] = "IN_PROGRESS" => ios'[g] = 0
    <3>1. CASE UNCHANGED group BY <2>1, <3>1 DEF Drained
    <3>2. CASE MDrain /\ SetGroup("IN_PROGRESS")
        BY <1>0, <2>1, <3>2 DEF MDrain, Quiet, SetGroup, Drained, WindowTyped
    <3>3. ASSUME NEW state \in {"RA_READY", "FAILED", "COMPLETED"}, SetGroup(state)
          PROVE  \A g \in 1 .. N : group'[g] = "IN_PROGRESS" => ios'[g] = 0
        BY <1>0, <2>1, <3>3 DEF SetGroup, Drained, WindowTyped
    <3> QED BY <1>7, <3>1, <3>2, <3>3, GroupChanges
  <2> QED BY <2>2, <2>3 DEF Drained
<1>8. ASSUME NEW r \in Readers, Worker(r) PROVE Drained'
  <2>0. UNCHANGED <<group, start>> BY <1>8, WorkerFrame DEF boot
  <2>1. CASE BeginRead(r)
    <3>0. PICK b \in Blocks : \E i \in Pending(b) :
              /\ group[GroupOf(i)] = "PENDING"
              /\ ios' = [ios EXCEPT ![GroupOf(i)] = @ + 1]
              /\ rBlock' = [rBlock EXCEPT ![r] = b]
        BY <2>1 DEF BeginRead, FromSourceNow
    <3>1. PICK i \in Pending(b) :
              /\ group[GroupOf(i)] = "PENDING"
              /\ ios' = [ios EXCEPT ![GroupOf(i)] = @ + 1]
              /\ rBlock' = [rBlock EXCEPT ![r] = b]
        BY <3>0
    <3>2. rPc[r] = "idle" /\ rPc' = [rPc EXCEPT ![r] = "source"] BY <2>1 DEF BeginRead
    <3>3. \A j \in OpOn(b) : j = i BY <3>1, OnlyOne DEF Pending
    <3>4. i \in OpOn(b) BY DEF Pending
    <3>5. \A g : (InFlight(g))' = IF g = GroupOf(i) THEN InFlight(g) \cup {r} ELSE InFlight(g)
      <4>1. \A s \in Readers : s # r => rPc'[s] = rPc[s] /\ rBlock'[s] = rBlock[s]
          BY <1>0, <3>1, <3>2 DEF ReadsTyped
      <4>2. rPc'[r] = "source" /\ rBlock'[r] = b
          BY <1>0, <3>1, <3>2 DEF ReadsTyped
      <4>3. \A j : (GroupOf(j))' = GroupOf(j)
          BY <2>0 DEF GroupOf
      <4> QED BY <3>2, <3>3, <3>4, <4>1, <4>2, <4>3 DEF InFlight
    <3>6. \A g : r \notin InFlight(g) BY <3>2 DEF InFlight
    <3>7. \A g \in 1 .. N : ios'[g] = IF g = GroupOf(i) THEN ios[g] + 1 ELSE ios[g]
        BY <1>0, <3>1 DEF ReadsTyped
    <3>8. Cardinality(InFlight(GroupOf(i)) \cup {r}) = Cardinality(InFlight(GroupOf(i))) + 1
        BY <3>6, InFlightFinite, FS_AddElement
    <3>9. \A g \in 1 .. N : ios'[g] = Cardinality((InFlight(g))')
        BY <3>5, <3>7, <3>8 DEF Drained
    <3>10. \A g \in 1 .. N : group'[g] = "IN_PROGRESS" => ios'[g] = 0
        BY <2>0, <3>1, <3>7 DEF Drained
    <3> QED BY <3>9, <3>10 DEF Drained
  <2>2. CASE EndRead(r)
    <3>1. PICK i \in OpOn(rBlock[r]) : ios' = [ios EXCEPT ![GroupOf(i)] = @ - 1]
        BY <2>2 DEF EndRead
    <3>2. PICK next \in {"idle", "done"} : rPc' = [rPc EXCEPT ![r] = next]
        BY <2>2 DEF EndRead
    <3>3. rPc[r] = "source" /\ rBlock' = [rBlock EXCEPT ![r] = 0] BY <2>2 DEF EndRead
    <3>4. \A j \in OpOn(rBlock[r]) : j = i BY <3>1, OnlyOne
    <3>5. \A g : (InFlight(g))' = InFlight(g) \ {r}
      <4>1. \A s \in Readers : s # r => rPc'[s] = rPc[s] /\ rBlock'[s] = rBlock[s]
          BY <1>0, <3>2, <3>3 DEF ReadsTyped
      <4>2. rPc'[r] # "source"
          BY <1>0, <3>2 DEF ReadsTyped
      <4>3. \A j : (GroupOf(j))' = GroupOf(j)
          BY <2>0 DEF GroupOf
      <4> QED BY <4>1, <4>2, <4>3 DEF InFlight
    <3>6. \A g : r \in InFlight(g) <=> g = GroupOf(i)
        BY <3>1, <3>3, <3>4 DEF InFlight
    <3>7. \A g \in 1 .. N : ios'[g] = IF g = GroupOf(i) THEN ios[g] - 1 ELSE ios[g]
        BY <1>0, <3>1 DEF ReadsTyped
    <3>8. Cardinality(InFlight(GroupOf(i)) \ {r}) = Cardinality(InFlight(GroupOf(i))) - 1
        BY <3>6, InFlightFinite, FS_RemoveElement
    <3>9. \A g : g # GroupOf(i) => (InFlight(g))' = InFlight(g)
        BY <3>5, <3>6
    <3>10. \A g \in 1 .. N : ios'[g] = Cardinality((InFlight(g))')
        BY <3>5, <3>7, <3>8, <3>9 DEF Drained
    <3>11. InFlight(GroupOf(i)) # {} BY <3>6
    <3>12. Cardinality(InFlight(GroupOf(i))) # 0
        BY <3>11, InFlightFinite, FS_EmptySet
    <3>13. \A g \in 1 .. N : group'[g] = "IN_PROGRESS" => ios'[g] = 0
        BY <2>0, <3>7, <3>12 DEF Drained
    <3> QED BY <3>10, <3>13 DEF Drained
  <2>3. CASE WorkerEnds(r)
    <3>1. UNCHANGED <<ios, rBlock>> /\ rPc[r] = "idle" /\ rPc' = [rPc EXCEPT ![r] = "done"]
        BY <2>3 DEF WorkerEnds, groups
    <3>2. \A s \in Readers : rPc'[s] = "source" <=> rPc[s] = "source"
        BY <1>0, <3>1 DEF ReadsTyped
    <3>3. \A j : (GroupOf(j))' = GroupOf(j)
        BY <2>0 DEF GroupOf
    <3>4. \A g : (InFlight(g))' = InFlight(g)
        BY <3>1, <3>2, <3>3 DEF InFlight
    <3> QED BY <2>0, <3>1, <3>4 DEF Drained
  <2> QED BY <1>8, <2>1, <2>2, <2>3 DEF Worker
<1>9. CASE UNCHANGED vars
    BY <1>2, <1>9 DEF vars, boot, groups
<1> QED BY <1>3, <1>4, <1>5, <1>6, <1>7, <1>8, <1>9, Steps

-----------------------------------------------------------------------------
(* The handshake.                                                          *)

LEMMA ServedKept == UNCHANGED group => Served' = Served
BY DEF Served

LEMMA ServedFrom ==
    ASSUME WindowTyped, Served \subseteq {mGroup}, NEW state, SetGroup(state)
    PROVE  /\ Served' \subseteq {mGroup}
           /\ state \notin {"RA_READY", "IN_PROGRESS"} => Served' = {}
<1>1. group \in [1 .. N -> GroupStates] /\ group' = [group EXCEPT ![mGroup] = state]
    BY DEF WindowTyped, SetGroup
<1>2. DOMAIN group' = 1 .. N /\ DOMAIN group = 1 .. N
    BY <1>1
<1>3. \A g \in 1 .. N : group'[g] = IF g = mGroup THEN state ELSE group[g]
    BY <1>1
<1> QED BY <1>2, <1>3 DEF Served

LEMMA HandshakeStep == Typed /\ Handshake /\ [Next]_vars => Handshake'
<1> SUFFICES ASSUME Typed, Handshake, [Next]_vars PROVE Handshake'
    OBVIOUS
<1>0. WindowTyped /\ RaTyped /\ MTyped /\ N \in Nat /\ start[1] \in Nat /\ header[2] \in BOOLEAN
    BY SequenceAssumption DEF Typed, BootTyped, DisksTyped, SequenceAssumption, N
<1>1. ASSUME UNCHANGED <<main, start, populate, io, raPc, mPc, mPos, mGroup, slot, mAsync>>,
             header'[2] = header[2], UNCHANGED group
      PROVE  Handshake'
    BY <1>1, ServedKept DEF Handshake, LockStep, InWindow, Refilling, Announcing, ra_thread
<1>2. CASE Boot
  <2>1. main = "down" /\ mPc = "done" /\ raPc = "done"
      BY <1>0, <1>2 DEF Boot, RaTyped, MTyped
  <2>2. start' = header /\ populate' = header[2] /\ io' = "MERGE_READY" /\ header' = header
        /\ raPc' = (IF header[1] < N THEN "init" ELSE "done")
        /\ mPc' \in {"run", "done"} /\ UNCHANGED group
      BY <1>2, <2>1 DEF Boot, Launch, disks, headerVars, groups
  <2>3. Served = {} /\ Served' = {}
      BY <2>1, <2>2, ServedKept DEF Handshake, LockStep, InWindow, Refilling, Announcing
  <2>4. raPc' \in {"init", "done"} /\ (raPc' = "init" => (ra_thread)')
      BY <2>2 DEF ra_thread
  <2> QED BY <2>2, <2>3, <2>4 DEF Handshake, LockStep, InWindow, Refilling, Announcing
<1>3. CASE RaWaitEnds
  <2>1. main = "waitRa" /\ mPc = "done" /\ mPc' = "run"
        /\ UNCHANGED <<start, populate, io, raPc, header, group>>
      BY <1>0, <1>3 DEF RaWaitEnds, Launch, MTyped, disks, headerVars, groups, raVars
  <2>2. Served = {} /\ Served' = {}
      BY <2>1, ServedKept DEF Handshake, LockStep, InWindow, Refilling, Announcing
  <2> QED BY <2>1, <2>2 DEF Handshake, LockStep, InWindow, Refilling, Announcing, ra_thread
<1>4. CASE InitiateMerge
  <2>1. UNCHANGED <<start, populate, raPc, mPc, mPos, mGroup, slot, mAsync, header, group>>
        /\ (io' = io \/ (~ra_thread /\ io' = "MERGE_BEGIN"))
      BY <1>4 DEF InitiateMerge, disks, headerVars, groups, raVars, mVars
  <2> QED BY <2>1, ServedKept DEF Handshake, LockStep, InWindow, Refilling, Announcing, ra_thread
<1>5. CASE Pause
    BY <1>1, <1>5 DEF Pause, disks, headerVars, groups, raVars, mVars
<1>6. CASE NotifyIOTerminated
  <2>1. UNCHANGED <<start, populate, raPc, mPc, mPos, mGroup, slot, mAsync, header, group>>
        /\ io' = "IO_TERMINATED"
      BY <1>6 DEF NotifyIOTerminated, disks, headerVars, groups, raVars, mVars
  <2> QED BY <2>1, ServedKept DEF Handshake, LockStep, InWindow, Refilling, Announcing, ra_thread
<1>7. CASE Stops
  <2>1. io' = "INVALID" /\ raPc' = "done" /\ mPc' = "done" /\ group' = [g \in 1 .. N |-> "PENDING"]
      BY <1>7, StopsFrame DEF End
  <2>2. Served' = {} BY <2>1 DEF Served
  <2> QED BY <2>1, <2>2 DEF Handshake, LockStep, InWindow, Refilling, Announcing
<1>8. CASE RaThread
  <2>0. /\ UNCHANGED <<start, mPc, mPos, mGroup, slot, mAsync>>
        /\ Served' = Served /\ (ra_thread)' = ra_thread
      BY <1>8, RaFrame, ServedKept DEF mVars, ra_thread
  <2>1. ASSUME header' = header, io' \in {io, "READ_AHEAD_FAILURE"}, raPc' \in {"done", "dead"}
        PROVE  Handshake'
      BY <2>0, <2>1 DEF Handshake, LockStep, InWindow, Refilling, Announcing
  <2>2. CASE RaInit
    <3>1. raPc = "init" /\ raPc' \in {"head", "dead"} /\ UNCHANGED <<header, populate, io>>
        BY <2>2 DEF RaInit, disks, headerVars
    <3> QED BY <2>0, <3>1 DEF Handshake, LockStep, InWindow, Refilling, Announcing
  <2>3. CASE RaHead
    <3>1. raPc = "head" /\ raPc' \in {"done", "reconstruct", "read"} /\ UNCHANGED <<header, populate, io>>
          /\ (raPc' = "reconstruct" => populate) /\ (raPc' = "read" => ~populate)
        BY <2>3 DEF RaHead, disks, headerVars
    <3> QED BY <2>0, <3>1 DEF Handshake, LockStep, InWindow, Refilling, Announcing
  <2>4. CASE Reconstruct
    <3>1. raPc = "reconstruct" /\ header' = header
          /\ ((raPc' = "flush" /\ populate' = FALSE /\ io' = io)
              \/ (raPc' = "done" /\ io' = "READ_AHEAD_FAILURE"))
        BY <2>4 DEF Reconstruct, ReadAheadIOFailed, disks, headerVars
    <3> QED BY <2>0, <2>1, <3>1 DEF Handshake, LockStep, InWindow, Refilling, Announcing
  <2>5. CASE RaRead
    <3>1. raPc = "read" /\ UNCHANGED <<raPc, header, populate, io>>
        BY <2>5 DEF RaRead, disks, headerVars
    <3> QED BY <2>0, <3>1 DEF Handshake, LockStep, InWindow, Refilling, Announcing
  <2>6. CASE RaReadFails
    <3>1. header' = header /\ ((raPc' = "done" /\ io' = "READ_AHEAD_FAILURE")
                               \/ UNCHANGED <<raPc, io, populate>>)
        BY <2>6 DEF RaReadFails, ReadAheadIOFailed, disks, headerVars
    <3> QED BY <2>0, <2>1, <3>1 DEF Handshake, LockStep, InWindow, Refilling, Announcing
  <2>7. CASE WaitForMergeReady
    <3>1. raPc = "read" /\ UNCHANGED <<header, populate, io>>
          /\ ((io = "MERGE_READY" /\ raPc' \in {"asleep", "lock"}) \/ raPc' = "done")
        BY <2>7 DEF WaitForMergeReady, MayRefill, disks, headerVars
    <3> QED BY <2>0, <2>1, <3>1 DEF Handshake, LockStep, InWindow, Refilling, Announcing
  <2>8. CASE RaWakes \/ RaCopy \/ RaMap
    <3>1. raPc \in {"asleep", "lock", "map"} /\ raPc' \in {"lock", "map", "flush"}
          /\ UNCHANGED <<header, populate, io>>
        BY <2>8 DEF RaWakes, RaCopy, RaMap, disks, headerVars
    <3> QED BY <2>0, <3>1 DEF Handshake, LockStep, InWindow, Refilling, Announcing
  <2>9. CASE RaFlush
    <3>1. raPc = "flush" /\ header' = header
          /\ ((raPc' = "mark" /\ UNCHANGED <<populate, io>>)
              \/ (raPc' = "done" /\ io' = "READ_AHEAD_FAILURE"))
        BY <2>9 DEF RaFlush, ReadAheadIOFailed
    <3> QED BY <2>0, <2>1, <3>1 DEF Handshake, LockStep, InWindow, Refilling, Announcing
  <2>10. CASE RaMark
    <3>1. raPc = "mark" /\ raPc' = "announce" /\ UNCHANGED <<populate, io>>
        BY <2>10 DEF RaMark
    <3> QED BY <2>0, <3>1 DEF Handshake, LockStep, InWindow, Refilling, Announcing
  <2>11. CASE RaAnnounce
    <3>1. raPc = "announce" /\ header' = header
          /\ ((raPc' = "head" /\ populate' = populate
                 /\ io' \in {"IO_TERMINATED", "MERGE_FAILED", "MERGE_BEGIN"})
              \/ (raPc' = "done" /\ io' = "READ_AHEAD_FAILURE"))
        BY <2>11 DEF RaAnnounce, ReadAheadIOFailed
    <3> QED BY <2>0, <2>1, <3>1 DEF Handshake, LockStep, InWindow, Refilling, Announcing
  <2> QED BY <1>8, <2>2, <2>3, <2>4, <2>5, <2>6, <2>7, <2>8, <2>9, <2>10, <2>11
          DEF RaThread, RaStep
<1>9. CASE MThread
  <2>0. UNCHANGED <<start, populate, raPc>> /\ (ra_thread)' = ra_thread
      BY <1>9, MFrame DEF raVars, ra_thread
  <2>1. ASSUME Served = {}, UNCHANGED group, ~header[2] => ~header'[2],
               mPc \in {"head", "replace", "replaced", "replaceCommit"},
               mPc' \in {"replace", "replaced", "replaceCommit", "dozing", "done"},
               io' \in {io, "MERGE_FAILED", "MERGE_COMPLETE"}
        PROVE  Handshake'
    <3>1. Served' = {} BY <2>1, ServedKept
    <3> QED BY <2>0, <2>1, <3>1 DEF Handshake, LockStep, InWindow, Refilling, Announcing
  <2>2. ASSUME FallBack, UNCHANGED <<mGroup, header>>,
               mPc \in {"head", "write", "flush"}, mPc = "head" => IsMergeBeginError
        PROVE  Handshake'
    <3>1. CASE mAsync
      <4>1. mAsync' = FALSE /\ mPos' = mPos - (slot - 1) /\ mPc' = "head" /\ UNCHANGED <<io, group>>
          BY <2>2, <3>1 DEF FallBack
      <4>2. Served' = Served BY <4>1, ServedKept
      <4>3. mPc \in {"write", "flush"} => mPos' <= N
          BY <1>0, <4>1 DEF Handshake, MTyped
      <4>4. mPc = "head" => Served = {}
          BY <3>1 DEF Handshake
      <4> QED BY <2>0, <2>2, <4>1, <4>2, <4>3, <4>4 DEF Handshake, LockStep, InWindow, Refilling, Announcing
    <3>2. CASE ~mAsync
      <4>1. io' = "MERGE_FAILED" /\ mPc' = "done" /\ SetGroup("FAILED")
          BY <2>2, <3>2 DEF FallBack, MergeFailed
      <4>2. Served' = {}
          BY <1>0, <4>1, ServedFrom DEF Handshake, LockStep
      <4> QED BY <2>0, <2>2, <4>1, <4>2 DEF Handshake, LockStep, InWindow, Refilling, Announcing
    <3> QED BY <3>1, <3>2
  <2>3. CASE MRun
    <3>1. mPc = "run" /\ UNCHANGED <<header, group>>
          /\ ((mPc' = "head" /\ io = "MERGE_BEGIN" /\ io' = io)
              \/ (mPc' = "done" /\ io' \in {io, "MERGE_FAILED"}))
        BY <2>3 DEF MRun, MergeFailed, headerVars, groups
    <3>2. Served = {} /\ Served' = {}
        BY <3>1, ServedKept DEF Handshake, LockStep, InWindow, Refilling, Announcing
    <3> QED BY <2>0, <3>1, <3>2 DEF Handshake, LockStep, InWindow, Refilling, Announcing
  <2>4. CASE WaitForMergeBegin
    <3>1. CASE mPc' = "lock" /\ io = "MERGE_BEGIN" /\ UNCHANGED <<io, group, mPos, slot, mAsync>>
      <4>1. mPc = "head" /\ mPos <= N /\ UNCHANGED <<header, mGroup>>
          BY <2>4 DEF WaitForMergeBegin, headerVars
      <4> QED BY <2>0, <3>1, <4>1, ServedKept DEF Handshake, LockStep, InWindow, Refilling, Announcing
    <3>2. CASE IsMergeBeginError /\ FallBack
        BY <2>2, <2>4, <3>2 DEF WaitForMergeBegin, headerVars
    <3> QED BY <2>4, <3>1, <3>2 DEF WaitForMergeBegin
  <2>5. CASE MLock
    <3>1. mPc = "lock" /\ slot' = 1 /\ UNCHANGED <<header, io, mPos, mGroup>>
          /\ mPc' \in {"write", "drain"} /\ (UNCHANGED group \/ SetGroup("RA_READY"))
        BY <2>5 DEF MLock, headerVars
    <3>2. Served' \subseteq {mGroup}
        BY <1>0, <3>1, ServedKept, ServedFrom DEF Handshake, LockStep
    <3>3. mPos' - slot' + 1 <= N
        BY <1>0, <3>1 DEF Handshake, MTyped
    <3> QED BY <2>0, <3>1, <3>2, <3>3 DEF Handshake, LockStep, InWindow, Refilling, Announcing
  <2>6. CASE MDrain
    <3>1. mPc = "drain" /\ mPc' = "write" /\ UNCHANGED <<header, io, mPos, mGroup, slot>>
          /\ SetGroup("IN_PROGRESS")
        BY <2>6 DEF MDrain, headerVars
    <3>2. Served' \subseteq {mGroup}
        BY <1>0, <3>1, ServedFrom DEF Handshake, LockStep
    <3> QED BY <2>0, <3>1, <3>2 DEF Handshake, LockStep, InWindow, Refilling, Announcing
  <2>7. CASE MWrite
    <3>1. mPc = "write" /\ mPos' = mPos + 1 /\ slot' = slot + 1
          /\ UNCHANGED <<mPc, header, io, group, mGroup>>
        BY <2>7 DEF MWrite, headerVars, groups
    <3>2. mPos' - slot' + 1 <= N
        BY <1>0, <3>1 DEF Handshake, MTyped
    <3> QED BY <2>0, <3>1, <3>2, ServedKept DEF Handshake, LockStep, InWindow, Refilling, Announcing
  <2>8. CASE MSync \/ MCommit
    <3>1. /\ mPc \in {"write", "commit"} /\ mPc' \in {"commit", "clear"}
          /\ UNCHANGED <<io, group, mPos, slot, mGroup>> /\ header'[2] = header[2]
        BY <2>8 DEF MSync, MCommit, headerVars, groups
    <3> QED BY <2>0, <3>1, ServedKept DEF Handshake, LockStep, InWindow, Refilling, Announcing
  <2>9. CASE MFails
      BY <2>2, <2>9 DEF MFails, headerVars
  <2>10. CASE MClear
    <3>1. mPc = "clear" /\ mPc' = "flush" /\ UNCHANGED <<io, group, mPos, slot, mGroup>>
          /\ ~header'[2]
        BY <2>10 DEF MClear, groups
    <3> QED BY <2>0, <3>1, ServedKept DEF Handshake, LockStep, InWindow, Refilling, Announcing
  <2>11. CASE MFlush
    <3>1. mPc = "flush" /\ mPc' = "finish" /\ UNCHANGED <<header, io, group, mPos, slot, mGroup>>
        BY <2>11 DEF MFlush, groups
    <3> QED BY <2>0, <3>1, ServedKept DEF Handshake, LockStep, InWindow, Refilling, Announcing
  <2>12. CASE MFlushFails
      BY <2>2, <2>12 DEF MFlushFails, headerVars
  <2>13. CASE SetMergeCompleted
    <3>1. mPc = "finish" /\ mPc' = "notify" /\ UNCHANGED <<header, io>> /\ SetGroup("COMPLETED")
        BY <2>13 DEF SetMergeCompleted, headerVars
    <3>2. Served' = {}
        BY <1>0, <3>1, ServedFrom DEF Handshake, LockStep
    <3> QED BY <2>0, <3>1, <3>2 DEF Handshake, LockStep, InWindow, Refilling, Announcing
  <2>14. CASE NotifyRAForMergeReady
    <3>1. mPc = "notify" /\ mPc' \in {"asleep", "head"} /\ UNCHANGED <<header, group>>
          /\ io' \in {"READ_AHEAD_FAILURE", "IO_TERMINATED", "MERGE_READY"}
        BY <2>14 DEF NotifyRAForMergeReady, IsMergeBeginError, headerVars, groups
    <3>2. Served = {} /\ Served' = {}
        BY <3>1, ServedKept DEF Handshake, LockStep, InWindow, Refilling, Announcing
    <3> QED BY <2>0, <3>1, <3>2 DEF Handshake, LockStep, InWindow, Refilling, Announcing
  <2>15. CASE MWakes
    <3>1. mPc \in {"asleep", "dozing"} /\ mPc' \in {"head", "replace"}
          /\ UNCHANGED <<header, group, io>>
        BY <2>15 DEF MWakes, headerVars, groups
    <3>2. Served = {} /\ Served' = {}
        BY <3>1, ServedKept DEF Handshake, LockStep, InWindow, Refilling, Announcing
    <3> QED BY <2>0, <3>1, <3>2 DEF Handshake, LockStep, InWindow, Refilling, Announcing
  <2>16. CASE MReplaceBegin
    <3>1. mPc = "head" /\ ~(mPos <= N) /\ mPc' = "replace" /\ UNCHANGED <<header, io, group>>
        BY <1>0, <2>16 DEF MReplaceBegin, headerVars, groups, MTyped
    <3>2. Served = {} BY <3>1 DEF Handshake
    <3> QED BY <2>1, <3>1, <3>2
  <2>17. CASE MReplace \/ MReplaceCommit \/ MReplaceFails \/ MReplaced \/ MergeCompleted
    <3>1. mPc \in {"replace", "replaceCommit", "replaced"}
          /\ mPc' \in {"replace", "replaced", "replaceCommit", "dozing", "done"}
        BY <2>17 DEF MReplace, MReplaceCommit, MReplaceFails, MReplaced, MergeCompleted, MergeFailed
    <3>2. io' \in {io, "MERGE_FAILED", "MERGE_COMPLETE"} /\ UNCHANGED group
        BY <2>17 DEF MReplace, MReplaceCommit, MReplaceFails, MReplaced, MergeCompleted,
                     MergeFailed, groups
    <3>3. ~header[2] => ~header'[2]
      <4>1. CASE MReplaceCommit
          BY <4>1 DEF MReplaceCommit
      <4>2. CASE MReplace \/ MReplaceFails \/ MReplaced \/ MergeCompleted
          BY <4>2 DEF MReplace, MReplaceFails, MReplaced, MergeCompleted, headerVars
      <4> QED BY <2>17, <4>1, <4>2
    <3>4. Served = {}
        BY <3>1 DEF Handshake, LockStep, InWindow, Refilling, Announcing
    <3> QED BY <2>1, <3>1, <3>2, <3>3, <3>4
  <2> QED BY <1>9, <2>3, <2>4, <2>5, <2>6, <2>7, <2>8, <2>9, <2>10, <2>11, <2>12, <2>13,
             <2>14, <2>15, <2>16, <2>17 DEF MThread, MStep
<1>10. ASSUME NEW r \in Readers, Worker(r) PROVE Handshake'
    BY <1>1, <1>10, WorkerFrame DEF boot, disks, headerVars, raVars, mVars
<1>11. CASE UNCHANGED vars
    BY <1>1, <1>11 DEF vars, boot, disks, headerVars, groups, raVars, mVars
<1> QED BY <1>2, <1>3, <1>4, <1>5, <1>6, <1>7, <1>8, <1>9, <1>10, <1>11, Steps

-----------------------------------------------------------------------------
LEMMA MergeInvariant == Spec => [](Typed /\ Drained /\ Handshake)
<1>1. Init => Drained
  <2> SUFFICES ASSUME Init PROVE Drained
      OBVIOUS
  <2>1. rPc = [r \in Readers |-> "done"] /\ ios = [g \in 1 .. N |-> 0]
        /\ group = [g \in 1 .. N |-> "PENDING"]
      BY DEF Init, Idle
  <2>2. \A g : InFlight(g) = {} BY <2>1 DEF InFlight
  <2> QED BY <2>1, <2>2, FS_EmptySet DEF Drained
<1>2. Init => Handshake
  <2> SUFFICES ASSUME Init PROVE Handshake
      OBVIOUS
  <2>1. raPc = "done" /\ mPc = "done" /\ io = "INVALID" /\ group = [g \in 1 .. N |-> "PENDING"]
      BY DEF Init, Idle
  <2>2. Served = {} BY <2>1 DEF Served
  <2> QED BY <2>1, <2>2 DEF Handshake, LockStep, InWindow, Refilling, Announcing
<1>3. Typed /\ Drained /\ Handshake /\ [Next]_vars => Typed' /\ Drained' /\ Handshake'
    BY TypedStep, DrainedStep, HandshakeStep
<1> QED BY <1>1, <1>2, <1>3, TypedInit, PTL DEF Spec

(* SnapMerge keeps its types: no count of reads in flight goes below zero, *)
(* and no thread leaves its window, the operations or the scratch space.   *)
THEOREM MergeTypeCorrect == Spec => []TypeOK
<1>1. Typed /\ Drained => TypeOK
  <2> SUFFICES ASSUME Typed, Drained PROVE TypeOK
      OBVIOUS
  <2>1. ios \in [1 .. N -> Nat]
    <3>1. \A g \in 1 .. N : ios[g] \in Nat BY InFlightFinite DEF Drained
    <3> QED BY <3>1 DEF Typed, ReadsTyped
  <2>2. mPos \in Nat \ {0} /\ slot \in 1 .. Window + Batch
      BY DEF Typed, MTyped
  <2> QED BY <2>1, <2>2
          DEF TypeOK, Typed, DisksTyped, BootTyped, WindowTyped, RaTyped, MTyped, ReadsTyped
<1> QED BY <1>1, MergeInvariant, PTL

LEMMA NobodyReads == Typed /\ Drained => ReadsDrained
<1> SUFFICES ASSUME Typed, Drained,
                    NEW g \in DOMAIN group, group[g] = "IN_PROGRESS",
                    NEW r \in Readers, rPc[r] = "source", NEW i \in OpOn(rBlock[r]),
                    GroupOf(i) = g
             PROVE  FALSE
    BY DEF ReadsDrained
<1>1. g \in 1 .. N BY DEF Typed, WindowTyped
<1>2. Cardinality(InFlight(g)) = 0 BY <1>1 DEF Drained
<1>3. InFlight(g) = {} BY <1>2, InFlightFinite, FS_EmptySet
<1> QED BY <1>3 DEF InFlight

(* Whatever fails and whoever pauses or ends the merge, a window is merged *)
(* only when nobody reads the sources of its operations any more.          *)
THEOREM MergeWaitsForReads == Spec => []ReadsDrained
BY NobodyReads, MergeInvariant, PTL

(* The handshake of the two threads, for any number of windows, any faults *)
(* and any commands of the clients.                                        *)
THEOREM ThreadsInLockStep == Spec => []LockStep
<1>1. Handshake => LockStep BY DEF Handshake
<1> QED BY <1>1, MergeInvariant, PTL

(* No step of either thread changes the scratch space while it is served   *)
(* or merged from, or holds what a restart would need.                     *)
THEOREM ScratchSpaceIsStable == Spec => ScratchStable
<1> DEFINE Needed == header[2] \/ \E g \in 1 .. N : group[g] \in {"RA_READY", "IN_PROGRESS"}
<1> DEFINE Stable == main # "down" /\ main' # "down" /\ Needed
                     => UNCHANGED scratch /\ (map' = map \/ raPc = "reconstruct")
<1>1. Typed /\ Handshake /\ [Next]_vars => Stable
  <2> SUFFICES ASSUME Typed, Handshake, [Next]_vars, main # "down", main' # "down", Needed
               PROVE  UNCHANGED scratch /\ (map' = map \/ raPc = "reconstruct")
      OBVIOUS
  <2>0. header[2] \/ Served # {}
      BY DEF Typed, WindowTyped, Served
  <2> HIDE DEF Needed
  <2>1. raPc \notin {"lock", "map"}
      BY <2>0 DEF Handshake, LockStep, InWindow, Refilling, Announcing
  <2>2. CASE RaThread
      BY <2>1, <2>2 DEF RaThread, RaStep, RaInit, RaHead, Reconstruct, RaRead, RaReadFails,
                        WaitForMergeReady, RaCopy, RaMap, RaFlush, RaMark, RaAnnounce, RaWakes,
                        disks, scratchVars
  <2>3. CASE MThread
      BY <2>3, MFrame
  <2>4. ASSUME NEW r \in Readers, Worker(r) PROVE UNCHANGED <<scratch, map>>
      BY <2>4, WorkerFrame DEF disks, scratchVars
  <2>5. CASE Boot \/ RaWaitEnds \/ InitiateMerge \/ Pause \/ NotifyIOTerminated
      BY <2>5 DEF Boot, RaWaitEnds, InitiateMerge, Pause, NotifyIOTerminated, disks, scratchVars
  <2>6. ~Stops
      BY StopsFrame
  <2>7. CASE UNCHANGED vars
      BY <2>7 DEF vars, disks, scratchVars
  <2> QED BY <2>2, <2>3, <2>4, <2>5, <2>6, <2>7, Steps
<1>2. Typed /\ Drained /\ Handshake /\ [Next]_vars => [Stable]_vars
    BY <1>1
<1> QED BY <1>2, MergeInvariant, PTL DEF Spec, ScratchStable

=============================================================================

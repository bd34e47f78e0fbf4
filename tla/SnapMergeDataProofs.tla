------------------------ MODULE SnapMergeDataProofs -------------------------
(***************************************************************************)
(* Proofs about the data of a merge, for any partition, sequence of        *)
(* operations, window, workers and number of restarts, with power lost at  *)
(* any moment: no operation is lost, the merge is reported complete only   *)
(* when the whole update is on disk, and every read of the mounted         *)
(* partition returns the updated image.                                    *)
(***************************************************************************)
EXTENDS SnapMergeProofs

(* The header that was synced is the header in the page cache whenever a   *)
(* handler starts: no sync of it fails, and the daemon is not killed       *)
(* between a change of the header and its sync.                            *)
HeaderReachesDisk == Faults \cap {"commitSync", "commitAsync", "kill"} = {}

-----------------------------------------------------------------------------
(* What is on the disks. *)

(* A block that has its final data, or its first, in the page cache and on *)
(* disk, so that power loss does not change it.                            *)
Settled(b) == base[b] = Updated[b] /\ baseDisk[b] = Updated[b]
Untouched(b) == base[b] = Old(b) /\ baseDisk[b] = Old(b)

(* A scratch space holds the n operations after the first f.               *)
Holds(space, f, n) ==
    /\ f \in Nat /\ n \in 1 .. Window /\ f + n <= N
    /\ (n = Window \/ f + n = N)
    /\ \A s \in 1 .. n : space[s] = <<Ops[f + s].new, Updated[Ops[f + s].new]>>
    /\ n < Window => space[n + 1] = Free

(* The last operation that may be on the base device and not yet counted   *)
(* by the header on disk is in the window the scratch space holds.         *)
InHand(i) ==
    headerDisk[2] /\ \E n \in 1 .. Window :
        Holds(scratch, headerDisk[1], n) /\ i <= headerDisk[1] + n

Counts ==
    /\ header[1] <= Total /\ headerDisk[1] <= Total
    /\ start[1] <= headerDisk[1] /\ headerDisk[1] <= header[1]
    /\ headerDisk[1] >= N => header = headerDisk
    /\ header[1] # headerDisk[1] => mPc \in {"clear", "flush"}
    /\ headerDisk[2] /\ ~header[2] => mPc = "flush"

OnBase ==
    /\ \A i \in 1 .. N : i <= header[1] => Settled(Ops[i].new)
    /\ \A i \in 1 .. N : i > headerDisk[1] => Untouched(Ops[i].new) \/ InHand(i)
    /\ \A b \in Replaced : headerDisk[1] < N => Untouched(b)
    /\ \A j \in 1 .. Len(Replaces) : N + j <= header[1] => Settled(Replaces[j])
    /\ \A b \in Blocks : OpOn(b) = {} /\ b \notin Replaced => Untouched(b)

(* A header that says Done is about the window it has still to count, or   *)
(* about the one it has counted last.                                      *)
HeldFor(space, h) ==
    \E n \in 1 .. Window : Holds(space, h[1], n) \/ Holds(space, h[1] - n, n)
Saved ==
    /\ header[2] /\ header[1] < N => scratch = scratchDisk /\ HeldFor(scratch, header)
    /\ headerDisk[2] /\ headerDisk[1] < N =>
          scratch = scratchDisk /\ HeldFor(scratch, headerDisk)

-----------------------------------------------------------------------------
(* Where the read-ahead thread is in the sequence of operations. *)

Starting == raPc = "init" \/ (raPc \in {"head", "reconstruct"} /\ populate)
Starts ==
    /\ Starting => /\ header = start /\ headerDisk[1] = start[1] /\ populate = start[2]
                   /\ (main = "waitRa" \/ mPc \in {"run", "done"})
                   /\ io # "MERGE_BEGIN"
                   /\ raPc # "init" => raPos = start[1] + 1
    /\ raPc = "reconstruct" => populate

(* What it has read is the updated data of the operations it has read.     *)
Reads ==
    raPc \in {"read", "asleep", "lock", "map"} =>
        /\ RaFirst <= N
        /\ \A s \in 1 .. Len(temp) : temp[s] = Updated[Ops[RaFirst + s - 1].new]

Refills ==
    raPc \in Refilling =>
        /\ header[1] = RaFirst - 1 /\ ~header[2]
        /\ headerDisk[1] = RaFirst - 1 /\ ~headerDisk[2]
        /\ (Len(temp) = Window \/ raPos = N + 1)
        /\ raPc = "map" => Holds(scratch, RaFirst - 1, Len(temp))

Announces ==
    raPc \in {"flush", "mark", "announce"} =>
        /\ Holds(scratch, raPos - toMerge - 1, toMerge)
        /\ header[1] = raPos - toMerge - 1 /\ headerDisk[1] = raPos - toMerge - 1
        /\ raPc # "flush" => scratch = scratchDisk
        /\ raPc = "announce" => header[2]

(* The first operation of the window it reads next is the first one that   *)
(* is neither counted nor in the scratch space.                            *)
RaNext == IF raPc = "head" THEN raPos ELSE RaFirst
Ahead ==
    raPc \in {"head", "read"} /\ ~populate =>
        \/ ~headerDisk[2] /\ headerDisk[1] = RaNext - 1
        \/ /\ headerDisk[2] /\ RaNext = headerDisk[1] + toMerge + 1
           /\ Holds(scratch, headerDisk[1], toMerge)
        \/ raPc = "head" /\ raPos = N + 1 /\ headerDisk[1] >= N

RaData == Starts /\ Reads /\ Refills /\ Announces /\ Ahead

-----------------------------------------------------------------------------
(* Where the merge thread is. *)

InWrite == {"drain", "write", "commit", "clear", "flush", "finish", "notify"}
BeforeCommit == {"run", "head", "asleep", "lock", "drain", "write", "commit"}
InReplaces == {"replace", "replaced", "replaceCommit", "dozing"}

(* The first operation of the window it has or waits for.                  *)
MFirst ==
    IF mPc = "run" \/ main = "waitRa" THEN start[1] + 1
    ELSE IF mPc \in InWrite THEN mPos - slot + 1
    ELSE mPos

(* Told of an error before a window, it goes back by what it counted in    *)
(* the window before, and then ends.                                       *)
Astray == mPc = "head" /\ IsMergeBeginError /\ mPos <= N

Aligned ==
    main = "waitRa" \/ (mPc \in BeforeCommit /\ ~Astray) =>
        header[1] = MFirst - 1 /\ headerDisk[1] = MFirst - 1

Begun == io = "MERGE_BEGIN" /\ ra_thread
HasWindow ==
    mPc \in InWindow \/ Begun =>
        /\ main = "waitRa" \/ mPc \in InWindow \cup {"run", "head", "asleep"}
        /\ Holds(scratch, MFirst - 1, toMerge)
        /\ mPc \notin {"clear", "flush", "finish", "notify"} => header[2] /\ headerDisk[2]

Merges ==
    /\ mPc = "drain" => slot = 1
    /\ mPc = "write" => slot <= toMerge + 1
    /\ mPc \in {"commit", "clear", "flush", "finish", "notify"} => slot = toMerge + 1
    /\ mPc \in {"write", "commit"} =>
          \A i \in MFirst .. mPos - 1 : base[Ops[i].new] = Updated[Ops[i].new]
    /\ mPc = "commit" =>
          \A i \in MFirst .. mPos - 1 : baseDisk[Ops[i].new] = Updated[Ops[i].new]
    /\ mPc \in {"clear", "flush", "finish", "notify"} => header[1] = mPos - 1
    /\ mPc \in {"clear", "flush"} => headerDisk[1] = MFirst - 1 /\ headerDisk[2]
    /\ mPc = "clear" => header[2]
    /\ mPc \in {"finish", "notify"} => headerDisk[1] = mPos - 1 /\ ~headerDisk[2]

MergesReplaces ==
    mPc \in InReplaces =>
        /\ header[1] = mPos - slot /\ header[1] >= N /\ headerDisk[1] >= N
        /\ mPos <= Total + 1
        /\ \A j \in mPos - slot + 1 .. mPos - 1 :
              base[Replaces[j - N]] = FromCow(Replaces[j - N])

OnlyReplaces ==
    ~ra_thread => mPc \notin InWindow \cup {"asleep"} /\ (mPc = "head" => mPos > N)

MData == Aligned /\ HasWindow /\ Merges /\ MergesReplaces /\ OnlyReplaces

-----------------------------------------------------------------------------
Ended ==
    /\ main \in {"serving", "joining"} /\ mPc = "done" /\ ra_thread =>
          io \in {"IO_TERMINATED", "MERGE_FAILED", "MERGE_COMPLETE", "READ_AHEAD_FAILURE"}
    /\ io = "READ_AHEAD_FAILURE" => raPc \in {"done", "dead"}
    /\ io = "MERGE_COMPLETE" => headerDisk[1] >= N
    /\ complete /\ main # "down" => headerDisk[1] = Total

(* Windows are merged one after the other, each once.                      *)
Windows ==
    /\ mPc = "run" \/ main \in {"down", "waitRa"} =>
          mGroup = 1 /\ \A g \in 1 .. N : group[g] = "PENDING"
    /\ mPc \in InWindow \cup {"head", "asleep"} /\ ~Astray => mGroup + start[1] <= MFirst
    /\ \A g \in 1 .. N :
          /\ group[g] = "RA_READY" => mPc = "drain"
          /\ group[g] = "FAILED" => mPc = "done"
          /\ group[g] = "COMPLETED" => g < mGroup \/ (g = mGroup /\ mPc = "notify")
    /\ mPc \in {"write", "commit", "clear", "flush", "finish"} =>
          group[mGroup] = "IN_PROGRESS"

DataInv == Counts /\ OnBase /\ Saved /\ RaData /\ MData /\ Ended /\ Windows

-----------------------------------------------------------------------------
(* The operations, and what the scratch space holds.                       *)

LEMMA Sizes ==
    /\ N \in Nat /\ Window \in Nat /\ Window >= 1 /\ Batch \in Nat
    /\ Len(Replaces) \in Nat /\ Total = N + Len(Replaces) /\ Total \in Nat /\ N <= Total
BY SequenceAssumption DEF SequenceAssumption, N, Total

LEMMA Fields ==
    Typed => /\ header[1] \in Nat /\ headerDisk[1] \in Nat /\ start[1] \in Nat
             /\ header[2] \in BOOLEAN /\ headerDisk[2] \in BOOLEAN /\ start[2] \in BOOLEAN
             /\ raPos \in 1 .. N + 1 /\ Len(temp) \in 0 .. Window /\ toMerge \in 0 .. Window
             /\ mPos \in Nat /\ slot \in Nat /\ mGroup \in Nat /\ 1 <= slot /\ slot <= mPos
             /\ main = "down" => raPc = "done" /\ mPc = "done"
             /\ main = "waitRa" => mPc = "done" /\ slot = 1
BY DEF Typed, DisksTyped, BootTyped, WindowTyped, RaTyped, MTyped

(* The same facts, as far as arithmetic on the counters needs them.        *)
LEMMA Numbers ==
    Typed => /\ header[1] \in Nat /\ headerDisk[1] \in Nat /\ start[1] \in Nat
             /\ mPos \in Nat /\ slot \in Nat /\ toMerge \in Nat
             /\ N \in Nat /\ Total \in Nat /\ N <= Total
<1>1. toMerge \in 0 .. Window => toMerge \in Nat
    BY Sizes
<1> QED BY <1>1, Fields, Sizes

LEMMA ReplacesTyped ==
    ASSUME NEW j \in 1 .. Len(Replaces)
    PROVE  Replaces[j] \in Blocks /\ Replaces[j] \in Replaced
BY SequenceAssumption DEF SequenceAssumption, Replaced

(* An operation is the only one on its block, of either kind.              *)
LEMMA OneOpOnBlock ==
    ASSUME NEW i \in 1 .. N
    PROVE  /\ OpOn(Ops[i].new) = {i}
           /\ Ops[i].new \notin Replaced
           /\ \A j \in 1 .. N : Ops[j].new = Ops[i].new => j = i
<1>1. \A j \in 1 .. N : Ops[j].new = Ops[i].new => j = i
  <2> SUFFICES ASSUME NEW j \in 1 .. N, Ops[j].new = Ops[i].new PROVE j = i
      OBVIOUS
  <2>1. i \in OpOn(Ops[i].new) /\ j \in OpOn(Ops[i].new) BY DEF OpOn
  <2> QED BY <2>1, OnlyOne
<1>2. OpOn(Ops[i].new) = {i} BY <1>1 DEF OpOn
<1>3. Ops[i].new \notin Replaced
    BY SequenceAssumption DEF SequenceAssumption, Replaced
<1> QED BY <1>1, <1>2, <1>3

LEMMA UpdatedByOp ==
    ASSUME NEW i \in 1 .. N
    PROVE  Updated[Ops[i].new] = Result(Ops[i], Old(Ops[i].src))
<1>1. Ops[i].new \in Blocks /\ OpOn(Ops[i].new) = {i} /\ Ops[i].new \notin Replaced
    BY OpTyped, OneOpOnBlock
<1>2. (CHOOSE j \in OpOn(Ops[i].new) : TRUE) = i
    BY <1>1
<1> QED BY <1>1, <1>2 DEF Updated

LEMMA UpdatedElsewhere ==
    /\ \A b \in Blocks : b \in Replaced => Updated[b] = FromCow(b)
    /\ \A b \in Blocks : b \notin Replaced /\ OpOn(b) = {} => Updated[b] = Old(b)
BY DEF Updated

LEMMA HoldsOnce ==
    ASSUME NEW space, NEW f, NEW n, NEW m, Holds(space, f, n), Holds(space, f, m)
    PROVE  n = m
<1>1. \A k, l : Holds(space, f, k) /\ Holds(space, f, l) => ~(k < l)
  <2> SUFFICES ASSUME NEW k, NEW l, Holds(space, f, k), Holds(space, f, l), k < l
               PROVE  FALSE
      OBVIOUS
  <2>1. k \in 1 .. Window /\ l \in 1 .. Window /\ f \in Nat /\ f + l <= N
      BY DEF Holds
  <2>2. k + 1 \in 1 .. l /\ f + (k + 1) \in 1 .. N /\ k < Window
      BY <2>1, Sizes
  <2>3. space[k + 1] = Free /\ space[k + 1] = <<Ops[f + (k + 1)].new, Updated[Ops[f + (k + 1)].new]>>
      BY <2>2 DEF Holds
  <2>4. Ops[f + (k + 1)].new = 0
      BY <2>3 DEF Free
  <2>5. Ops[f + (k + 1)].new \in Blocks
      BY <2>2, OpTyped
  <2> QED BY <2>4, <2>5, SequenceAssumption DEF SequenceAssumption
<1>2. n \in 1 .. Window /\ m \in 1 .. Window
    BY DEF Holds
<1>3. ~(n < m) /\ ~(m < n)
    BY <1>1
<1> QED BY <1>2, <1>3, Sizes

(* The window the scratch space holds lies within the operations.          *)
LEMMA HoldsBounds ==
    ASSUME NEW space, NEW f, NEW n, Holds(space, f, n)
    PROVE  f \in Nat /\ n \in 1 .. Window /\ n \in Nat /\ n >= 1 /\ f + n <= N /\ f < N
<1>1. f \in Nat /\ n \in 1 .. Window /\ f + n <= N
    BY DEF Holds
<1>2. N \in Nat /\ Window \in Nat
    BY Sizes
<1>3. n \in Nat /\ n >= 1
    BY <1>1, <1>2
<1> QED BY <1>1, <1>2, <1>3

(* An operation can be carried out, and its block be read from its source, *)
(* as long as neither it nor one after it has been.                        *)
Unwritten(i) == i > headerDisk[1] /\ \A j \in i .. N : Untouched(Ops[j].new)

LEMMA SourceUnwritten ==
    ASSUME Typed, OnBase, NEW i \in 1 .. N, Unwritten(i)
    PROVE  Result(Ops[i], base[Ops[i].src]) = Updated[Ops[i].new]
<1> DEFINE src == Ops[i].src
<1>1. src \in Blocks BY OpTyped
<1>2. headerDisk[1] < N
  <2>1. headerDisk[1] \in Nat /\ N \in Nat BY Numbers
  <2>2. i > headerDisk[1] BY DEF Unwritten
  <2> QED BY <2>1, <2>2
<1>3. base[src] = Old(src)
  <2>1. CASE src \in Replaced
      BY <1>2, <2>1 DEF OnBase, Untouched
  <2>2. CASE OpOn(src) = {} /\ src \notin Replaced
      BY <1>1, <2>2 DEF OnBase, Untouched
  <2>3. ASSUME NEW j \in OpOn(src) PROVE base[src] = Old(src)
    <3>1. j \in 1 .. N /\ Ops[j].new = src BY <2>3 DEF OpOn
    <3>2. ~(j < i)
      <4>1. \A k, l \in 1 .. N : k < l => Ops[l].src # Ops[k].new
          BY SequenceAssumption DEF SequenceAssumption
      <4> QED BY <3>1, <4>1
    <3>3. j \in i .. N
      <4>1. N \in Nat BY Sizes
      <4> QED BY <3>1, <3>2, <4>1
    <3> QED BY <3>1, <3>3 DEF Unwritten, Untouched
  <2> QED BY <2>1, <2>2, <2>3
<1> QED BY <1>3, UpdatedByOp

(* So it is as long as it is neither counted nor in hand.                  *)
LEMMA SourceKept ==
    ASSUME Typed, OnBase, NEW i \in 1 .. N, headerDisk[1] < i, ~InHand(i)
    PROVE  Result(Ops[i], base[Ops[i].src]) = Updated[Ops[i].new]
<1>1. ASSUME NEW j \in i .. N PROVE Untouched(Ops[j].new)
  <2>1. j \in 1 .. N /\ j > headerDisk[1] /\ i <= j
    <3>1. headerDisk[1] \in Nat /\ N \in Nat BY Numbers
    <3> QED BY <3>1
  <2>2. ~InHand(j)
    <3> SUFFICES ASSUME InHand(j) PROVE FALSE
        OBVIOUS
    <3>1. PICK n \in 1 .. Window : Holds(scratch, headerDisk[1], n) /\ j <= headerDisk[1] + n
        BY DEF InHand
    <3>2. i <= headerDisk[1] + n
      <4>1. headerDisk[1] \in Nat /\ n \in Nat /\ N \in Nat
          BY Numbers, Sizes
      <4>2. j \in 1 .. N /\ i <= j /\ j <= headerDisk[1] + n
          BY <2>1, <3>1
      <4> QED BY <4>1, <4>2
    <3>3. headerDisk[2] BY DEF InHand
    <3> QED BY <3>1, <3>2, <3>3 DEF InHand
  <2> QED BY <2>1, <2>2 DEF OnBase
<1>2. Unwritten(i) BY <1>1 DEF Unwritten
<1> QED BY <1>2, SourceUnwritten

-----------------------------------------------------------------------------
(* What a step may rely on. *)

MergeInv == Typed /\ Handshake /\ DataInv

LEMMA HeaderIsSynced ==
    HeaderReachesDisk => /\ ~Kill /\ ~MFlushFails
                         /\ MReplaceCommit =>
                               /\ headerDisk' = header' /\ slot' = 1
                               /\ complete' = (complete \/ header'[1] = Total)
                               /\ mPc' \in {"replaced", "replace"} /\ UNCHANGED io
BY DEF HeaderReachesDisk, Kill, MFlushFails, MReplaceCommit

(* While the read-ahead thread holds on to a window the merge thread has   *)
(* none.                                                                   *)
LEMMA OneHasTheWindow ==
    Handshake /\ raPc \in Refilling \cup {"reconstruct", "flush", "mark", "announce"} =>
        mPc \notin InWindow /\ io # "MERGE_BEGIN" /\ ra_thread
BY DEF Handshake, LockStep, Refilling, Announcing, InWindow

(* While a window waits to be announced it has still to be counted.        *)
LEMMA AnnouncedIsNext ==
    MergeInv /\ raPc \in {"flush", "mark", "announce"} =>
        /\ Holds(scratch, header[1], toMerge)
        /\ header[1] < N /\ headerDisk[1] = header[1]
        /\ mPc \notin InWindow /\ io # "MERGE_BEGIN"
<1> SUFFICES ASSUME MergeInv, raPc \in {"flush", "mark", "announce"}
             PROVE  /\ Holds(scratch, header[1], toMerge)
                    /\ header[1] < N /\ headerDisk[1] = header[1]
                    /\ mPc \notin InWindow /\ io # "MERGE_BEGIN"
    OBVIOUS
<1>1. Announces BY DEF MergeInv, DataInv, RaData
<1>2. Holds(scratch, header[1], toMerge) /\ headerDisk[1] = header[1]
    BY <1>1 DEF Announces
<1> QED BY <1>2, HoldsBounds, OneHasTheWindow DEF MergeInv

(* The window the merge thread writes, commits and counts.                 *)
LEMMA WindowInHand ==
    MergeInv /\ mPc \in InWindow =>
        /\ Holds(scratch, MFirst - 1, toMerge)
        /\ MFirst - 1 \in Nat /\ MFirst - 1 + toMerge <= N /\ toMerge \in Nat /\ toMerge >= 1
        /\ ra_thread /\ raPc \notin Refilling \cup {"reconstruct", "flush", "mark", "announce"}
        /\ mPc # "lock" => MFirst = mPos - slot + 1
        /\ mPc = "lock" => MFirst = mPos
<1> SUFFICES ASSUME MergeInv, mPc \in InWindow
             PROVE  /\ Holds(scratch, MFirst - 1, toMerge)
                    /\ MFirst - 1 \in Nat /\ MFirst - 1 + toMerge <= N
                    /\ toMerge \in Nat /\ toMerge >= 1
                    /\ ra_thread /\ raPc \notin Refilling \cup {"reconstruct", "flush", "mark", "announce"}
                    /\ mPc # "lock" => MFirst = mPos - slot + 1
                    /\ mPc = "lock" => MFirst = mPos
    OBVIOUS
<1>1. HasWindow /\ OnlyReplaces /\ Handshake /\ Typed
    BY DEF MergeInv, DataInv, MData
<1>2. Holds(scratch, MFirst - 1, toMerge) /\ ra_thread
    BY <1>1 DEF HasWindow, OnlyReplaces
<1>3. main # "waitRa" /\ mPc # "run"
    BY <1>1, Fields DEF InWindow
<1>4. mPc # "lock" => mPc \in InWrite
    BY DEF InWindow, InWrite
<1>5. mPc = "lock" => mPc \notin InWrite
    BY DEF InWrite
<1> QED BY <1>1, <1>2, <1>3, <1>4, <1>5, HoldsBounds, OneHasTheWindow DEF MFirst

LEMMA CommitsWindow ==
    MergeInv /\ mPc = "commit" =>
        /\ header[1] = MFirst - 1 /\ headerDisk[1] = MFirst - 1 /\ header[2] /\ headerDisk[2]
        /\ slot = toMerge + 1 /\ header[1] + toMerge = mPos - 1
<1> SUFFICES ASSUME MergeInv, mPc = "commit"
             PROVE  /\ header[1] = MFirst - 1 /\ headerDisk[1] = MFirst - 1
                    /\ header[2] /\ headerDisk[2]
                    /\ slot = toMerge + 1 /\ header[1] + toMerge = mPos - 1
    OBVIOUS
<1>1. mPc \in InWindow /\ mPc \in BeforeCommit /\ ~Astray
    BY DEF InWindow, BeforeCommit, Astray
<1>2. Aligned /\ HasWindow /\ Merges /\ Typed
    BY DEF MergeInv, DataInv, MData
<1>3. header[1] = MFirst - 1 /\ headerDisk[1] = MFirst - 1
    BY <1>1, <1>2 DEF Aligned
<1>4. header[2] /\ headerDisk[2]
    BY <1>1, <1>2 DEF HasWindow
<1>5. slot = toMerge + 1
    BY <1>2 DEF Merges
<1>6. MFirst = mPos - slot + 1
    BY <1>1, WindowInHand
<1>7. mPos \in Nat /\ slot \in Nat /\ toMerge \in Nat
    BY <1>2, Numbers
<1> HIDE DEF MFirst
<1>8. header[1] + toMerge = mPos - 1
    BY <1>3, <1>5, <1>6, <1>7
<1> QED BY <1>3, <1>4, <1>5, <1>8

-----------------------------------------------------------------------------
(* The steps that leave the disks alone.                                   *)

MQuiet ==
    \/ MRun \/ WaitForMergeBegin \/ MLock \/ MDrain \/ MFails \/ SetMergeCompleted
    \/ NotifyRAForMergeReady \/ MWakes \/ MReplaceBegin \/ MReplaceFails \/ MReplaced
    \/ MergeCompleted
RaQuiet ==
    \/ RaInit \/ RaHead \/ Reconstruct \/ RaRead \/ RaReadFails \/ WaitForMergeReady
    \/ RaMap \/ RaWakes
MainQuiet == Boot \/ RaWaitEnds \/ InitiateMerge \/ Pause \/ NotifyIOTerminated

LEMMA QuietSteps ==
    MQuiet \/ RaQuiet \/ MainQuiet \/ Join => UNCHANGED disks
<1> USE DEF disks, scratchVars
<1>1. CASE MRun \/ WaitForMergeBegin \/ MLock \/ MDrain \/ MFails
    BY <1>1 DEF MRun, WaitForMergeBegin, MLock, MDrain, MFails, MRest
<1>2. CASE SetMergeCompleted \/ NotifyRAForMergeReady \/ MWakes \/ MReplaceBegin
    BY <1>2 DEF SetMergeCompleted, NotifyRAForMergeReady, MWakes, MReplaceBegin, MRest
<1>3. CASE MReplaceFails \/ MReplaced \/ MergeCompleted
    BY <1>3 DEF MReplaceFails, MReplaced, MergeCompleted, MRest
<1>4. CASE RaInit \/ RaHead \/ Reconstruct \/ RaRead
    BY <1>4 DEF RaInit, RaHead, Reconstruct, RaRead
<1>5. CASE RaReadFails \/ WaitForMergeReady \/ RaMap \/ RaWakes
    BY <1>5 DEF RaReadFails, WaitForMergeReady, RaMap, RaWakes
<1>6. CASE MainQuiet \/ Join
    BY <1>6 DEF MainQuiet, Boot, RaWaitEnds, InitiateMerge, Pause, NotifyIOTerminated, Join
<1> QED BY <1>1, <1>2, <1>3, <1>4, <1>5, <1>6 DEF MQuiet, RaQuiet

LEMMA AllSteps ==
    HeaderReachesDisk /\ [Next]_vars =>
        \/ MQuiet \/ RaQuiet \/ MainQuiet \/ Join \/ Crash
        \/ RaCopy \/ RaFlush \/ RaMark \/ RaAnnounce
        \/ MWrite \/ MSync \/ MCommit \/ MClear \/ MFlush \/ MReplace \/ MReplaceCommit
        \/ \E r \in Readers : Worker(r)
        \/ UNCHANGED vars
BY HeaderIsSynced DEF Next, RaStep, MStep, MQuiet, RaQuiet, MainQuiet, Worker

-----------------------------------------------------------------------------
(* What the headers count.                                                 *)

LEMMA CountsStep ==
    HeaderReachesDisk /\ MergeInv /\ [Next]_vars => Counts'
<1> SUFFICES ASSUME HeaderReachesDisk, MergeInv, [Next]_vars PROVE Counts'
    OBVIOUS
<1>0. Counts /\ Typed /\ Handshake BY DEF MergeInv, DataInv
<1>1. ASSUME UNCHANGED <<header, headerDisk, start>>,
             mPc' = mPc \/ mPc \notin {"clear", "flush"}
      PROVE  Counts'
    BY <1>0, <1>1 DEF Counts
<1>2. CASE MQuiet
  <2>1. mPc \notin {"clear", "flush"}
      BY <1>2 DEF MQuiet, MRun, WaitForMergeBegin, MLock, MDrain, MFails, SetMergeCompleted,
                  NotifyRAForMergeReady, MWakes, MReplaceBegin, MReplaceFails, MReplaced,
                  MergeCompleted
  <2>2. start' = start
      BY <1>2, MFrame DEF MQuiet, MThread, MStep
  <2> QED BY <1>1, <1>2, <2>1, <2>2, QuietSteps DEF disks, headerVars
<1>3. CASE RaQuiet \/ RaCopy
  <2>1. UNCHANGED <<start, mPc>>
      BY <1>3, RaFrame DEF RaQuiet, RaThread, RaStep, mVars
  <2>2. CASE RaCopy
      BY <1>1, <2>1, <2>2 DEF RaCopy, headerVars
  <2> QED BY <1>1, <1>3, <2>1, <2>2, QuietSteps DEF disks, headerVars
<1>4. CASE MainQuiet
  <2>1. UNCHANGED headerVars
      BY <1>4, QuietSteps DEF disks
  <2>2. CASE Boot
    <3>1. start' = header /\ main = "down"
        BY <2>2 DEF Boot
    <3>2. mPc = "done"
        BY <1>0, <3>1, Fields
    <3> QED BY <1>0, <2>1, <3>1, <3>2, Fields DEF Counts, headerVars
  <2>3. CASE RaWaitEnds
    <3>1. main = "waitRa" /\ start' = start
        BY <2>3 DEF RaWaitEnds
    <3> QED BY <1>0, <1>1, <2>1, <3>1, Fields DEF headerVars
  <2>4. CASE InitiateMerge \/ Pause \/ NotifyIOTerminated
      BY <1>1, <2>1, <2>4 DEF InitiateMerge, Pause, NotifyIOTerminated, headerVars, mVars
  <2> QED BY <1>4, <2>2, <2>3, <2>4 DEF MainQuiet
<1>5. CASE Join
  <2>1. mPc = "done" /\ start' = <<0, FALSE>> /\ UNCHANGED headerVars
      BY <1>5 DEF Join, End, disks
  <2>2. headerDisk[1] >= 0
      BY <1>0, Fields
  <2> QED BY <1>0, <2>1, <2>2 DEF Counts, headerVars
<1>6. CASE Crash
  <2>1. header' \in {header, headerDisk} /\ headerDisk' = header' /\ start' = <<0, FALSE>>
      BY <1>6 DEF Crash, End
  <2> QED BY <1>0, <2>1, Fields DEF Counts
<1>7. CASE RaFlush \/ RaAnnounce
  <2>1. header' = header /\ headerDisk' \in {header, headerDisk} /\ raPc \in {"flush", "announce"}
      BY <1>7 DEF RaFlush, RaAnnounce
  <2>2. UNCHANGED <<start, mPc>>
      BY <1>7, RaFrame DEF RaThread, RaStep, mVars
  <2>3. headerDisk[1] = header[1] /\ mPc \notin InWindow
      BY <2>1, AnnouncedIsNext
  <2> QED BY <1>0, <2>1, <2>2, <2>3 DEF Counts, InWindow
<1>8. CASE RaMark
  <2>1. header' = <<header[1], TRUE>> /\ headerDisk' = headerDisk /\ raPc = "mark"
      BY <1>8 DEF RaMark
  <2>2. UNCHANGED <<start, mPc>>
      BY <1>8, RaFrame DEF RaThread, RaStep, mVars
  <2>3. headerDisk[1] = header[1] /\ header[1] < N
      BY <2>1, AnnouncedIsNext
  <2>4. header'[1] = header[1] /\ header'[2] = TRUE
      BY <2>1
  <2>5. header[1] \in Nat /\ headerDisk'[1] = header[1] /\ start'[1] = start[1] /\ ~(header[1] >= N)
      BY <1>0, <2>1, <2>2, <2>3, Fields, Sizes
  <2> HIDE <2>1
  <2> QED BY <1>0, <2>2, <2>3, <2>4, <2>5 DEF Counts
<1>9. CASE MWrite \/ MSync
  <2>1. UNCHANGED <<header, headerDisk, start>> /\ mPc = "write"
      BY <1>9, MFrame DEF MWrite, MSync, headerVars, MThread, MStep
  <2> QED BY <1>1, <2>1
<1>10. CASE MCommit
  <2>1. mPc = "commit" /\ header' = <<header[1] + toMerge, header[2]>> /\ mPc' = "clear"
        /\ headerDisk' = headerDisk /\ start' = start
      BY <1>10, MFrame DEF MCommit, MThread, MStep
  <2>2. header[1] = headerDisk[1] /\ header[2] /\ headerDisk[2] /\ header[1] + toMerge <= N
        /\ toMerge \in Nat /\ toMerge >= 1
      BY <2>1, CommitsWindow, WindowInHand DEF InWindow
  <2>3. header'[1] = header[1] + toMerge /\ header'[2] = header[2]
      BY <2>1
  <2>4. header'[1] <= Total /\ headerDisk[1] <= header'[1] /\ ~(headerDisk[1] >= N)
    <3>1. header[1] \in Nat /\ toMerge \in Nat /\ toMerge >= 1 /\ N \in Nat /\ Total \in Nat
          /\ N <= Total
        BY <1>0, <2>2, Numbers
    <3>2. header'[1] = header[1] + toMerge /\ headerDisk[1] = header[1] /\ header[1] + toMerge <= N
        BY <2>2, <2>3
    <3> QED BY <3>1, <3>2
  <2>5. mPc' = "clear" /\ headerDisk' = headerDisk /\ start' = start
      BY <2>1
  <2>6. start[1] <= headerDisk[1] /\ headerDisk[1] <= Total
      BY <1>0 DEF Counts
  <2> HIDE <2>1
  <2> QED BY <2>2, <2>3, <2>4, <2>5, <2>6 DEF Counts
<1>11. CASE MClear
  <2>1. mPc = "clear" /\ header' = <<header[1], FALSE>> /\ mPc' = "flush"
        /\ headerDisk' = headerDisk /\ start' = start
      BY <1>11, MFrame DEF MClear, MThread, MStep
  <2>2. headerDisk[1] = MFirst - 1
      BY <2>1 DEF MergeInv, DataInv, MData, Merges
  <2>3. headerDisk[1] < N
      BY <2>1, <2>2, WindowInHand, Sizes DEF InWindow
  <2>4. header'[1] = header[1] /\ ~(headerDisk[1] >= N)
      BY <1>0, <2>1, <2>3, Fields, Sizes
  <2>5. mPc' = "flush" /\ UNCHANGED <<headerDisk, start>>
      BY <2>1
  <2> QED BY <1>0, <2>4, <2>5 DEF Counts
<1>12. CASE MFlush
  <2>1. headerDisk' = header /\ header' = header /\ start' = start
      BY <1>12, MFrame DEF MFlush, MThread, MStep
  <2> QED BY <1>0, <2>1, Fields DEF Counts
<1>13. CASE MReplace
  <2>1. UNCHANGED <<header, headerDisk, start>> /\ mPc = "replace"
      BY <1>13, MFrame DEF MReplace, headerVars, MThread, MStep
  <2> QED BY <1>1, <2>1
<1>14. CASE MReplaceCommit
  <2>1. mPc = "replaceCommit" /\ header' = <<header[1] + slot - 1, header[2] /\ ~ra_thread>>
        /\ headerDisk' = header' /\ start' = start
      BY <1>14, HeaderIsSynced, MFrame DEF MReplaceCommit, MThread, MStep
  <2>2. header[1] = mPos - slot /\ mPos <= Total + 1
      BY <2>1 DEF MergeInv, DataInv, MData, MergesReplaces, InReplaces
  <2>3. header'[1] = header[1] + slot - 1 /\ headerDisk' = header' /\ start' = start
      BY <2>1
  <2>4. /\ header[1] \in Nat /\ mPos \in Nat /\ slot \in Nat /\ 1 <= slot /\ start[1] \in Nat
        /\ headerDisk[1] \in Nat /\ Total \in Nat
      BY <1>0, Numbers, Fields
  <2>5. start[1] <= headerDisk[1] /\ headerDisk[1] <= header[1]
      BY <1>0 DEF Counts
  <2>6. header'[1] \in Nat /\ header'[1] <= Total /\ start[1] <= header'[1]
    <3>1. header'[1] = header[1] + slot - 1
        BY <2>3
    <3> QED BY <2>2, <2>4, <2>5, <3>1
  <2> HIDE <2>1
  <2> QED BY <2>3, <2>6 DEF Counts
<1>15. ASSUME NEW r \in Readers, Worker(r) PROVE Counts'
    BY <1>1, <1>15, WorkerFrame DEF disks, headerVars, boot, mVars
<1>16. CASE UNCHANGED vars
    BY <1>1, <1>16 DEF vars, disks, headerVars, boot, mVars
<1> QED BY <1>2, <1>3, <1>4, <1>5, <1>6, <1>7, <1>8, <1>9, <1>10, <1>11, <1>12, <1>13,
           <1>14, <1>15, <1>16, AllSteps

-----------------------------------------------------------------------------
(* What a header that says Done stands for.                                *)

LEMMA SavedStep ==
    HeaderReachesDisk /\ MergeInv /\ [Next]_vars => Saved'
<1> SUFFICES ASSUME HeaderReachesDisk, MergeInv, [Next]_vars PROVE Saved'
    OBVIOUS
<1>0. Saved /\ Counts /\ Typed /\ Handshake BY DEF MergeInv, DataInv
<1>1. ASSUME UNCHANGED disks PROVE Saved'
    BY <1>0, <1>1 DEF Saved, disks, headerVars, scratchVars
<1>2. CASE Crash
  <2>1. header' \in {header, headerDisk} /\ headerDisk' = header' /\ scratchDisk' = scratch'
      BY <1>2 DEF Crash
  <2>2. ASSUME scratch = scratchDisk PROVE scratch' = scratch
    <3>1. Unsynced(scratch, scratchDisk) = {} BY <2>2 DEF Unsynced
    <3>2. scratch' = Kept(scratch, scratchDisk, {})
        BY <1>2, <3>1 DEF Crash
    <3>3. scratchDisk = [k \in DOMAIN scratch |-> scratchDisk[k]]
        BY <1>0, <2>2 DEF Typed, DisksTyped
    <3> QED BY <2>2, <3>2, <3>3 DEF Kept
  <2>3. CASE header' = header
      BY <1>0, <2>1, <2>2, <2>3 DEF Saved
  <2>4. CASE header' = headerDisk
      BY <1>0, <2>1, <2>2, <2>4 DEF Saved
  <2> QED BY <2>1, <2>3, <2>4
<1>3. CASE RaCopy
  <2>1. UNCHANGED headerVars /\ raPc = "lock"
      BY <1>3 DEF RaCopy
  <2>2. ~header[2] /\ ~headerDisk[2]
      BY <2>1 DEF MergeInv, DataInv, RaData, Refills, Refilling
  <2> QED BY <2>1, <2>2 DEF Saved, headerVars
<1>4. CASE RaFlush
  <2>1. raPc = "flush" /\ UNCHANGED <<header, scratch>>
      BY <1>4 DEF RaFlush
  <2>2. CASE scratchDisk' = scratch /\ headerDisk' = header
      BY <1>0, <2>1, <2>2 DEF Saved
  <2>3. CASE UNCHANGED <<scratchDisk, headerDisk>>
      BY <1>1, <1>4, <2>3 DEF RaFlush, disks, headerVars, scratchVars
  <2> QED BY <1>4, <2>2, <2>3 DEF RaFlush
<1>5. CASE RaMark
  <2>1. raPc = "mark" /\ header' = <<header[1], TRUE>> /\ UNCHANGED <<headerDisk, scratch, scratchDisk>>
      BY <1>5 DEF RaMark, scratchVars
  <2>2. scratch = scratchDisk
      BY <2>1 DEF MergeInv, DataInv, RaData, Announces
  <2>3. Holds(scratch, header[1], toMerge) /\ toMerge \in 1 .. Window
      BY <2>1, AnnouncedIsNext, HoldsBounds
  <2>4. header'[1] = header[1] BY <2>1
  <2>5. HeldFor(scratch, header') BY <2>3, <2>4 DEF HeldFor
  <2> QED BY <1>0, <2>1, <2>2, <2>5 DEF Saved
<1>6. CASE RaAnnounce
  <2>1. UNCHANGED <<header, scratch, scratchDisk>> /\ headerDisk' \in {header, headerDisk}
      BY <1>6 DEF RaAnnounce, scratchVars
  <2> QED BY <1>0, <2>1 DEF Saved
<1>7. CASE MWrite \/ MSync \/ MReplace
  <2>1. UNCHANGED <<headerVars, scratchVars>>
      BY <1>7, MFrame DEF MWrite, MSync, MReplace, scratchVars, MThread, MStep
  <2> QED BY <1>0, <2>1 DEF Saved, headerVars, scratchVars
<1>8. CASE MCommit
  <2>1. mPc = "commit" /\ header' = <<header[1] + toMerge, header[2]>>
        /\ UNCHANGED <<headerDisk, scratch, scratchDisk>>
      BY <1>8, MFrame DEF MCommit, MThread, MStep
  <2>2. header[1] = MFirst - 1 /\ header[2] /\ Holds(scratch, MFirst - 1, toMerge)
      BY <2>1, CommitsWindow, WindowInHand DEF InWindow
  <2>3. toMerge \in 1 .. Window /\ header[1] < N
      BY <2>2, HoldsBounds
  <2>4. scratch = scratchDisk
      BY <1>0, <2>2, <2>3 DEF Saved
  <2>5. header'[1] - toMerge = header[1]
      BY <1>0, <2>1, <2>3, Fields
  <2>6. HeldFor(scratch, header') BY <2>2, <2>3, <2>5 DEF HeldFor
  <2> QED BY <1>0, <2>1, <2>4, <2>6 DEF Saved
<1>9. CASE MClear
  <2>1. header' = <<header[1], FALSE>> /\ UNCHANGED <<headerDisk, scratch, scratchDisk>>
      BY <1>9, MFrame DEF MClear, MThread, MStep
  <2>2. header'[2] = FALSE BY <2>1
  <2> QED BY <1>0, <2>1, <2>2 DEF Saved
<1>10. CASE MFlush
  <2>1. headerDisk' = header /\ UNCHANGED <<header, scratch, scratchDisk>>
      BY <1>10, MFrame DEF MFlush, MThread, MStep
  <2> QED BY <1>0, <2>1 DEF Saved
<1>11. CASE MReplaceCommit
  <2>1. mPc = "replaceCommit" /\ header' = <<header[1] + slot - 1, header[2] /\ ~ra_thread>>
        /\ headerDisk' = header'
      BY <1>11, HeaderIsSynced DEF MReplaceCommit
  <2>2. header[1] >= N
      BY <2>1 DEF MergeInv, DataInv, MData, MergesReplaces, InReplaces
  <2>3. ~(header'[1] < N)
    <3>1. header'[1] = header[1] + slot - 1
        BY <2>1
    <3>2. header[1] \in Nat /\ slot \in Nat /\ 1 <= slot /\ N \in Nat
        BY <1>0, Numbers, Fields
    <3> QED BY <2>2, <3>1, <3>2
  <2> QED BY <2>1, <2>3 DEF Saved
<1>12. ASSUME NEW r \in Readers, Worker(r) PROVE Saved'
    BY <1>1, <1>12, WorkerFrame
<1>13. CASE UNCHANGED vars
    BY <1>1, <1>13 DEF vars
<1> QED BY <1>1, <1>2, <1>3, <1>4, <1>5, <1>6, <1>7, <1>8, <1>9, <1>10, <1>11, <1>12,
           <1>13, AllSteps, QuietSteps

-----------------------------------------------------------------------------
(* What is on the base device.                                             *)

LEMMA OnBaseKept ==
    ASSUME OnBase, UNCHANGED <<base, baseDisk, scratch>>,
           header'[1] = header[1], headerDisk'[1] = headerDisk[1],
           headerDisk[2] => headerDisk'[2]
    PROVE  OnBase'
<1>1. \A b \in Blocks : Settled(b) => Settled(b)' BY DEF Settled
<1>2. \A b \in Blocks : Untouched(b) => Untouched(b)' BY DEF Untouched
<1>3. \A i \in 1 .. N : InHand(i) => InHand(i)' BY DEF InHand
<1>4. \A i \in 1 .. N : Ops[i].new \in Blocks BY OpTyped
<1>5. Replaced \subseteq Blocks BY ReplacesTyped DEF Replaced
<1> HIDE DEF Settled, Untouched, InHand
<1> QED BY <1>1, <1>2, <1>3, <1>4, <1>5, ReplacesTyped DEF OnBase

(* Power loss takes nothing from a block that is the same on disk, and the *)
(* header found is one that both the base device and the scratch space     *)
(* agree with.                                                             *)
LEMMA OnBaseAfterCrash ==
    MergeInv /\ Crash => OnBase'
<1> SUFFICES ASSUME MergeInv, Crash PROVE OnBase'
    OBVIOUS
<1>0. OnBase /\ Saved /\ Counts /\ Typed BY DEF MergeInv, DataInv
<1>1. header' \in {header, headerDisk} /\ headerDisk' = header' /\ baseDisk' = base'
    BY DEF Crash
<1>2. \A b \in Blocks : base[b] = baseDisk[b] => base'[b] = base[b]
    BY <1>0 DEF Crash, Kept, Typed, DisksTyped
<1>3. \A b \in Blocks : (Settled(b) => Settled(b)') /\ (Untouched(b) => Untouched(b)')
    BY <1>1, <1>2 DEF Settled, Untouched
<1>4. ASSUME scratch = scratchDisk PROVE scratch' = scratch
  <2>1. Unsynced(scratch, scratchDisk) = {} BY <1>4 DEF Unsynced
  <2>2. scratch' = Kept(scratch, scratchDisk, {})
      BY <2>1 DEF Crash
  <2>3. scratchDisk = [k \in DOMAIN scratch |-> scratchDisk[k]]
      BY <1>0, <1>4 DEF Typed, DisksTyped
  <2> QED BY <1>4, <2>2, <2>3 DEF Kept
<1>5. \A i \in 1 .. N : Ops[i].new \in Blocks BY OpTyped
<1>6. Replaced \subseteq Blocks BY ReplacesTyped DEF Replaced
<1>7. header'[1] <= header[1] /\ headerDisk[1] <= headerDisk'[1]
    BY <1>0, <1>1, Fields DEF Counts
<1>8. ASSUME NEW i \in 1 .. N, i > headerDisk'[1], InHand(i) PROVE InHand(i)'
  <2>1. PICK n \in 1 .. Window : Holds(scratch, headerDisk[1], n) /\ i <= headerDisk[1] + n
      BY <1>8 DEF InHand
  <2>2. headerDisk[2] /\ headerDisk[1] < N
      BY <1>8, <2>1, HoldsBounds DEF InHand
  <2>3. scratch' = scratch
      BY <1>0, <1>4, <2>2 DEF Saved
  <2>4. CASE mPc \in {"clear", "flush"}
    <3>1. headerDisk[1] = MFirst - 1 /\ header[1] = mPos - 1 /\ slot = toMerge + 1
        BY <2>4 DEF MergeInv, DataInv, MData, Merges
    <3>2. Holds(scratch, headerDisk[1], toMerge) /\ MFirst = mPos - slot + 1
        BY <2>4, <3>1, WindowInHand DEF InWindow
    <3>3. toMerge = n
        BY <2>1, <3>2, HoldsOnce
    <3>4. header[1] = headerDisk[1] + n
      <4>1. mPos \in Nat /\ slot \in Nat /\ toMerge \in Nat
          BY <1>0, Numbers
      <4> HIDE DEF MFirst
      <4> QED BY <3>1, <3>2, <3>3, <4>1
    <3>5. header' # header
        BY <1>1, <1>8, <2>1, <3>4, Fields, <1>0
    <3> QED BY <1>1, <2>1, <2>2, <2>3, <3>5 DEF InHand
  <2>5. CASE mPc \notin {"clear", "flush"}
    <3>1. header[1] = headerDisk[1] /\ header[2]
        BY <1>0, <2>2, <2>5 DEF Counts
    <3>2. headerDisk'[1] = headerDisk[1] /\ headerDisk'[2]
        BY <1>1, <2>2, <3>1
    <3> QED BY <2>1, <2>3, <3>2 DEF InHand
  <2> QED BY <2>4, <2>5
<1> HIDE DEF Settled, Untouched, InHand
<1>9. header[1] \in Nat /\ headerDisk[1] \in Nat /\ header'[1] \in Nat /\ headerDisk'[1] \in Nat
      /\ N \in Nat
    BY <1>0, <1>1, Numbers
<1>10. ASSUME NEW i \in 1 .. N, i <= header'[1] PROVE Settled(Ops[i].new)'
  <2>1. i <= header[1] BY <1>7, <1>9, <1>10
  <2>2. Settled(Ops[i].new) BY <1>0, <2>1 DEF OnBase
  <2> QED BY <1>3, <1>5, <2>2
<1>11. ASSUME NEW i \in 1 .. N, i > headerDisk'[1] PROVE Untouched(Ops[i].new)' \/ InHand(i)'
  <2>1. i > headerDisk[1] BY <1>7, <1>9, <1>11
  <2>2. Untouched(Ops[i].new) \/ InHand(i) BY <1>0, <2>1 DEF OnBase
  <2> QED BY <1>3, <1>5, <1>8, <1>11, <2>2
<1>12. ASSUME NEW b \in Replaced, headerDisk'[1] < N PROVE Untouched(b)'
  <2>1. headerDisk[1] < N BY <1>7, <1>9, <1>12
  <2> QED BY <1>0, <1>3, <1>6, <2>1 DEF OnBase
<1>13. ASSUME NEW j \in 1 .. Len(Replaces), N + j <= header'[1] PROVE Settled(Replaces[j])'
  <2>1. N + j <= header[1] BY <1>7, <1>9, <1>13
  <2> QED BY <1>0, <1>3, <2>1, ReplacesTyped DEF OnBase
<1>14. \A b \in Blocks : OpOn(b) = {} /\ b \notin Replaced => Untouched(b)'
    BY <1>0, <1>3 DEF OnBase
<1> QED BY <1>10, <1>11, <1>12, <1>13, <1>14 DEF OnBase

LEMMA OnBaseStep ==
    HeaderReachesDisk /\ MergeInv /\ [Next]_vars => OnBase'
<1> SUFFICES ASSUME HeaderReachesDisk, MergeInv, [Next]_vars PROVE OnBase'
    OBVIOUS
<1>0. OnBase /\ Counts /\ Typed /\ Handshake BY DEF MergeInv, DataInv
<1>1. ASSUME UNCHANGED disks PROVE OnBase'
    BY <1>0, <1>1, OnBaseKept DEF disks, baseVars, headerVars, scratchVars
<1>2. CASE RaCopy
  <2>1. UNCHANGED <<base, baseDisk, header, headerDisk>> /\ raPc = "lock"
      BY <1>2 DEF RaCopy, baseVars, headerVars
  <2>2. ~headerDisk[2]
      BY <2>1 DEF MergeInv, DataInv, RaData, Refills, Refilling
  <2>3. \A b : Settled(b)' = Settled(b) /\ Untouched(b)' = Untouched(b)
      BY <2>1 DEF Settled, Untouched
  <2>4. \A i : ~InHand(i)
      BY <2>2 DEF InHand
  <2> HIDE DEF Settled, Untouched, InHand
  <2> QED BY <1>0, <2>1, <2>3, <2>4 DEF OnBase
<1>3. CASE RaFlush \/ RaAnnounce
  <2>1. UNCHANGED <<base, baseDisk, scratch, header>> /\ raPc \in {"flush", "announce"}
        /\ headerDisk' \in {header, headerDisk}
      BY <1>3 DEF RaFlush, RaAnnounce, baseVars, scratchVars
  <2>2. headerDisk[1] = header[1] /\ mPc \notin InWindow
      BY <2>1, AnnouncedIsNext
  <2>3. headerDisk[2] => header[2]
      BY <1>0, <2>2 DEF Counts, InWindow
  <2> QED BY <1>0, <2>1, <2>2, <2>3, OnBaseKept
<1>4. CASE RaMark
  <2>1. UNCHANGED <<base, baseDisk, scratch, headerDisk>> /\ header' = <<header[1], TRUE>>
      BY <1>4 DEF RaMark, baseVars, scratchVars
  <2>2. header'[1] = header[1] BY <2>1
  <2> QED BY <1>0, <2>1, <2>2, OnBaseKept
<1>5. CASE MWrite
  <2> DEFINE new == Ops[mPos].new
  <2>1. mPc = "write" /\ slot <= toMerge /\ mPos <= N
        /\ base' = [base EXCEPT ![new] = scratch[slot][2]]
        /\ UNCHANGED <<baseDisk, scratch, header, headerDisk>>
      BY <1>5, MFrame DEF MWrite, headerVars, MThread, MStep
  <2>2. Holds(scratch, MFirst - 1, toMerge) /\ MFirst - 1 \in Nat /\ toMerge \in Nat
        /\ MFirst = mPos - slot + 1
      BY <2>1, WindowInHand DEF InWindow
  <2>3. header[1] = MFirst - 1 /\ headerDisk[1] = MFirst - 1 /\ headerDisk[2]
    <3>1. mPc \in InWindow /\ mPc \in BeforeCommit /\ ~Astray
        BY <2>1 DEF InWindow, BeforeCommit, Astray
    <3>2. Aligned /\ HasWindow
        BY DEF MergeInv, DataInv, MData
    <3> QED BY <2>1, <3>1, <3>2 DEF Aligned, HasWindow
  <2>4. mPos \in 1 .. N /\ slot \in 1 .. toMerge /\ (MFirst - 1) + slot = mPos
    <3>1. mPos \in Nat /\ slot \in Nat /\ toMerge \in Nat /\ N \in Nat /\ 1 <= slot /\ slot <= mPos
        BY <1>0, Numbers, Fields
    <3>2. slot <= toMerge /\ mPos <= N /\ MFirst = mPos - slot + 1
        BY <2>1, <2>2
    <3> HIDE DEF MFirst
    <3> QED BY <3>1, <3>2
  <2>5. scratch[slot] = <<new, Updated[new]>>
      BY <2>2, <2>4 DEF Holds
  <2>6. scratch[slot][2] = Updated[new]
      BY <2>5
  <2>7. \A b \in Blocks : base'[b] = IF b = new THEN Updated[b] ELSE base[b]
      BY <1>0, <2>1, <2>6 DEF Typed, DisksTyped
  <2>8. new \in Blocks /\ OpOn(new) = {mPos} /\ new \notin Replaced
        /\ \A i \in 1 .. N : Ops[i].new = new => i = mPos
      BY <2>4, OpTyped, OneOpOnBlock
  <2>9. \A i : InHand(i) => InHand(i)'
      BY <2>1 DEF InHand
  <2>10. \A i : i = mPos => InHand(i)'
    <3>1. toMerge \in 1 .. Window /\ mPos <= headerDisk[1] + toMerge
        BY <2>2, <2>3, <2>4, HoldsBounds
    <3> QED BY <2>1, <2>2, <2>3, <3>1 DEF InHand
  <2>11. \A b \in Blocks : Settled(b) => Settled(b)'
      BY <2>1, <2>7 DEF Settled
  <2>12. \A b \in Blocks : b # new /\ Untouched(b) => Untouched(b)'
      BY <2>1, <2>7 DEF Untouched
  <2>13. \A i \in 1 .. N : Ops[i].new \in Blocks BY OpTyped
  <2>14. Replaced \subseteq Blocks BY ReplacesTyped DEF Replaced
  <2> HIDE DEF Settled, Untouched, InHand, new
  <2>15. \A i \in 1 .. N : i <= header'[1] => Settled(Ops[i].new)'
      BY <1>0, <2>1, <2>11, <2>13 DEF OnBase
  <2>16. \A i \in 1 .. N : i > headerDisk'[1] => Untouched(Ops[i].new)' \/ InHand(i)'
      BY <1>0, <2>1, <2>8, <2>9, <2>10, <2>12, <2>13 DEF OnBase
  <2>17. \A b \in Replaced : headerDisk'[1] < N => Untouched(b)'
      BY <1>0, <2>1, <2>8, <2>12, <2>14 DEF OnBase
  <2>18. \A j \in 1 .. Len(Replaces) : N + j <= header'[1] => Settled(Replaces[j])'
      BY <1>0, <2>1, <2>11, ReplacesTyped DEF OnBase
  <2>19. \A b \in Blocks : OpOn(b) = {} /\ b \notin Replaced => Untouched(b)'
      BY <1>0, <2>8, <2>12 DEF OnBase
  <2> QED BY <2>15, <2>16, <2>17, <2>18, <2>19 DEF OnBase
<1>6. CASE MSync
  <2>1. UNCHANGED <<base, scratch, header, headerDisk>> /\ baseDisk' = base
      BY <1>6, MFrame DEF MSync, Fsync, headerVars, MThread, MStep
  <2>2. \A b : (Settled(b) => Settled(b)') /\ (Untouched(b) => Untouched(b)')
      BY <2>1 DEF Settled, Untouched
  <2>3. \A i : InHand(i) => InHand(i)'
      BY <2>1 DEF InHand
  <2> HIDE DEF Settled, Untouched, InHand
  <2> QED BY <1>0, <2>1, <2>2, <2>3 DEF OnBase
<1>7. CASE MCommit
  <2>1. mPc = "commit" /\ header' = <<header[1] + toMerge, header[2]>>
        /\ UNCHANGED <<base, baseDisk, scratch, headerDisk>>
      BY <1>7, MFrame DEF MCommit, baseVars, MThread, MStep
  <2>2. header[1] = MFirst - 1 /\ header[1] + toMerge = mPos - 1 /\ header[1] + toMerge <= N
        /\ toMerge \in Nat
      BY <2>1, CommitsWindow, WindowInHand DEF InWindow
  <2>3. header'[1] = mPos - 1 /\ header'[1] <= N
      BY <2>1, <2>2
  <2>4. \A i \in MFirst .. mPos - 1 : Settled(Ops[i].new)
      BY <2>1 DEF MergeInv, DataInv, MData, Merges, Settled
  <2>5. \A b : Settled(b)' = Settled(b) /\ Untouched(b)' = Untouched(b)
      BY <2>1 DEF Settled, Untouched
  <2>6. \A i : InHand(i)' = InHand(i)
      BY <2>1 DEF InHand
  <2> HIDE DEF Settled, Untouched, InHand, MFirst
  <2>7. \A i \in 1 .. N : i <= header'[1] => i <= header[1] \/ i \in MFirst .. mPos - 1
    <3>1. MFirst = mPos - slot + 1 /\ mPos \in Nat /\ slot \in Nat
        BY <1>0, <2>1, WindowInHand, Fields DEF InWindow
    <3> QED BY <2>2, <2>3, <3>1
  <2>8. \A i \in 1 .. N : i <= header'[1] => Settled(Ops[i].new)'
      BY <1>0, <2>4, <2>5, <2>7 DEF OnBase
  <2>9. \A j \in 1 .. Len(Replaces) : ~(N + j <= header'[1])
    <3>1. header'[1] <= N /\ header'[1] \in Int /\ N \in Nat
      <4>1. mPos \in Nat /\ N \in Nat BY <1>0, Numbers
      <4> QED BY <2>3, <4>1
    <3> QED BY <3>1
  <2> QED BY <1>0, <2>1, <2>5, <2>6, <2>8, <2>9 DEF OnBase
<1>8. CASE MClear
  <2>1. UNCHANGED <<base, baseDisk, scratch, headerDisk>> /\ header' = <<header[1], FALSE>>
      BY <1>8, MFrame DEF MClear, baseVars, MThread, MStep
  <2>2. header'[1] = header[1] BY <2>1
  <2> QED BY <1>0, <2>1, <2>2, OnBaseKept
<1>9. CASE MFlush
  <2>1. UNCHANGED <<base, baseDisk, scratch, header>> /\ headerDisk' = header /\ mPc = "flush"
      BY <1>9, MFrame DEF MFlush, baseVars, MThread, MStep
  <2>2. headerDisk[1] = MFirst - 1 /\ header[1] = mPos - 1 /\ slot = toMerge + 1 /\ headerDisk[2]
      BY <2>1 DEF MergeInv, DataInv, MData, Merges
  <2>3. Holds(scratch, headerDisk[1], toMerge) /\ MFirst = mPos - slot + 1 /\ headerDisk[1] < N
      BY <2>1, <2>2, WindowInHand, HoldsBounds DEF InWindow
  <2>4. header[1] = headerDisk[1] + toMerge /\ toMerge \in Nat
    <3>1. mPos \in Nat /\ slot \in Nat /\ toMerge \in Nat
        BY <1>0, Numbers
    <3>2. MFirst = mPos - slot + 1
        BY <2>3
    <3> HIDE DEF MFirst
    <3> QED BY <2>2, <3>1, <3>2
  <2>5. \A i \in 1 .. N : i > header[1] => ~InHand(i)
      BY <1>0, <2>3, <2>4, HoldsOnce, HoldsBounds, Fields DEF InHand
  <2>6. \A b : Settled(b)' = Settled(b) /\ Untouched(b)' = Untouched(b)
      BY <2>1 DEF Settled, Untouched
  <2> HIDE DEF Settled, Untouched, InHand, MFirst
  <2>7. \A i \in 1 .. N : i > headerDisk'[1] => Untouched(Ops[i].new)'
      BY <1>0, <2>1, <2>4, <2>5, <2>6, Fields DEF OnBase
  <2>8. \A b \in Replaced : headerDisk'[1] < N => Untouched(b)'
      BY <1>0, <2>3, <2>6 DEF OnBase
  <2> QED BY <1>0, <2>1, <2>6, <2>7, <2>8 DEF OnBase
<1>10. CASE MReplace
  <2> DEFINE b == Replaces[mPos - N]
  <2>1. mPc = "replace" /\ mPos <= Total /\ base' = [base EXCEPT ![b] = FromCow(b)]
        /\ UNCHANGED <<baseDisk, scratch, header, headerDisk>>
      BY <1>10, MFrame DEF MReplace, headerVars, MThread, MStep
  <2>2. header[1] = mPos - slot /\ header[1] >= N /\ headerDisk[1] >= N
      BY <2>1 DEF MergeInv, DataInv, MData, MergesReplaces, InReplaces
  <2>3. mPos - N \in 1 .. Len(Replaces)
    <3>1. mPos \in Nat /\ slot \in Nat /\ 1 <= slot
        BY <1>0, Fields
    <3>2. N \in Nat /\ Len(Replaces) \in Nat /\ mPos <= N + Len(Replaces)
        BY <2>1, Sizes
    <3>3. mPos - slot >= N
        BY <2>2
    <3>4. mPos - N >= 1 /\ mPos - N <= Len(Replaces) /\ mPos - N \in Int
        BY <3>1, <3>2, <3>3
    <3> QED BY <3>2, <3>4
  <2>4. b \in Blocks /\ b \in Replaced
      BY <2>3, ReplacesTyped
  <2>5. Updated[b] = FromCow(b) BY <2>4, UpdatedElsewhere
  <2> HIDE DEF b
  <2>6. \A c \in Blocks : base'[c] = IF c = b THEN Updated[b] ELSE base[c]
      BY <1>0, <2>1, <2>5 DEF Typed, DisksTyped
  <2>7. \A c \in Blocks : Settled(c) => Settled(c)'
      BY <2>1, <2>6 DEF Settled
  <2>8. \A c \in Blocks : c # b /\ Untouched(c) => Untouched(c)'
      BY <2>1, <2>6 DEF Untouched
  <2>9. \A i \in 1 .. N : Ops[i].new \in Blocks BY OpTyped
  <2> HIDE DEF Settled, Untouched, InHand
  <2>10. (\A i \in 1 .. N : ~(i > headerDisk'[1])) /\ ~(headerDisk'[1] < N)
    <3>1. headerDisk'[1] = headerDisk[1] /\ headerDisk[1] >= N
        BY <2>1, <2>2
    <3>2. headerDisk[1] \in Nat /\ N \in Nat
        BY <1>0, Numbers
    <3> QED BY <3>1, <3>2
  <2> QED BY <1>0, <2>1, <2>4, <2>7, <2>8, <2>9, <2>10, ReplacesTyped DEF OnBase
<1>11. CASE MReplaceCommit
  <2>1. mPc = "replaceCommit" /\ header' = <<header[1] + slot - 1, header[2] /\ ~ra_thread>>
        /\ headerDisk' = header' /\ UNCHANGED <<base, scratch>> /\ baseDisk' = base
      BY <1>11, HeaderIsSynced, MFrame DEF MReplaceCommit, Fsync, MThread, MStep
  <2>2. header[1] = mPos - slot /\ header[1] >= N /\ mPos <= Total + 1
        /\ \A j \in mPos - slot + 1 .. mPos - 1 :
               base[Replaces[j - N]] = FromCow(Replaces[j - N])
      BY <2>1 DEF MergeInv, DataInv, MData, MergesReplaces, InReplaces
  <2>3. header'[1] = mPos - 1 /\ headerDisk'[1] = mPos - 1 /\ mPos - 1 >= N
    <3>1. header'[1] = header[1] + slot - 1 /\ headerDisk'[1] = header'[1]
        BY <2>1
    <3>2. header[1] \in Nat /\ mPos \in Nat /\ slot \in Nat /\ 1 <= slot /\ N \in Nat
        BY <1>0, Numbers, Fields
    <3>3. header[1] = mPos - slot /\ header[1] >= N
        BY <2>2
    <3> QED BY <3>1, <3>2, <3>3
  <2>4. \A c : (Settled(c) => Settled(c)') /\ (Untouched(c) => Untouched(c)')
      BY <2>1 DEF Settled, Untouched
  <2>5. ASSUME NEW j \in 1 .. Len(Replaces), N + j <= header'[1] PROVE Settled(Replaces[j])'
    <3>1. CASE N + j <= header[1]
        BY <1>0, <2>4, <3>1 DEF OnBase
    <3>2. CASE ~(N + j <= header[1])
      <4>1. N + j \in mPos - slot + 1 .. mPos - 1
        <5>1. header[1] = mPos - slot /\ header'[1] = mPos - 1
            BY <2>2, <2>3
        <5>2. mPos \in Nat /\ slot \in Nat /\ N \in Nat /\ j \in Nat
            BY <1>0, Fields, Sizes
        <5> QED BY <2>5, <3>2, <5>1, <5>2
      <4>2. base[Replaces[j]] = FromCow(Replaces[j])
        <5>1. (N + j) - N = j BY Sizes
        <5> QED BY <2>2, <4>1, <5>1
      <4>3. Updated[Replaces[j]] = FromCow(Replaces[j])
          BY ReplacesTyped, UpdatedElsewhere
      <4> QED BY <2>1, <4>2, <4>3 DEF Settled
    <3> QED BY <3>1, <3>2
  <2> HIDE DEF Settled, Untouched, InHand
  <2>6. /\ \A i \in 1 .. N : i <= header[1] /\ ~(i > headerDisk'[1])
        /\ ~(headerDisk'[1] < N)
    <3>1. header[1] \in Nat /\ mPos \in Nat /\ N \in Nat
        BY <1>0, Numbers
    <3>2. header[1] >= N /\ headerDisk'[1] = mPos - 1 /\ mPos - 1 >= N
        BY <2>2, <2>3
    <3> QED BY <3>1, <3>2
  <2> QED BY <1>0, <2>4, <2>5, <2>6 DEF OnBase
<1>12. ASSUME NEW r \in Readers, Worker(r) PROVE OnBase'
    BY <1>1, <1>12, WorkerFrame
<1>13. CASE UNCHANGED vars
    BY <1>1, <1>13 DEF vars
<1> QED BY <1>1, <1>2, <1>3, <1>4, <1>5, <1>6, <1>7, <1>8, <1>9, <1>10, <1>11, <1>12,
           <1>13, AllSteps, QuietSteps, OnBaseAfterCrash

-----------------------------------------------------------------------------
(* The read-ahead thread.                                                  *)

LEMMA MHeaders ==
    MThread => \/ UNCHANGED headerVars
               \/ MCommit \/ MClear \/ MFlush \/ MReplaceCommit
<1>1. CASE MRun \/ WaitForMergeBegin \/ MLock \/ MDrain \/ MFails
    BY <1>1 DEF MRun, WaitForMergeBegin, MLock, MDrain, MFails
<1>2. CASE SetMergeCompleted \/ NotifyRAForMergeReady \/ MWakes \/ MReplaceBegin
    BY <1>2 DEF SetMergeCompleted, NotifyRAForMergeReady, MWakes, MReplaceBegin
<1>3. CASE MReplaceFails \/ MReplaced \/ MergeCompleted
    BY <1>3 DEF MReplaceFails, MReplaced, MergeCompleted
<1>4. CASE MWrite \/ MSync \/ MReplace \/ MFlushFails
    BY <1>4 DEF MWrite, MSync, MReplace, MFlushFails
<1> QED BY <1>1, <1>2, <1>3, <1>4 DEF MThread, MStep

(* Who moves whom.                                                         *)
LEMMA Movers ==
    HeaderReachesDisk /\ [Next]_vars =>
        \/ Join \/ Crash \/ MainQuiet \/ RaThread \/ MThread
        \/ UNCHANGED <<disks, boot, io, toMerge, map, bufferLock, raVars, mVars, group>>
<1> SUFFICES ASSUME HeaderReachesDisk, [Next]_vars,
                    ~(Join \/ Crash \/ MainQuiet \/ RaThread \/ MThread)
             PROVE  UNCHANGED <<disks, boot, io, toMerge, map, bufferLock, raVars, mVars, group>>
    OBVIOUS
<1>1. CASE UNCHANGED vars BY <1>1 DEF vars, groups
<1>2. ASSUME NEW r \in Readers, Worker(r)
      PROVE  UNCHANGED <<disks, boot, io, toMerge, map, bufferLock, raVars, mVars, group>>
    BY <1>2, WorkerFrame
<1> QED BY <1>1, <1>2, Steps, HeaderIsSynced DEF Stops, MainQuiet

LEMMA EndsAll ==
    Join \/ Crash => raPc' = "done" /\ mPc' = "done" /\ main' = "down" /\ io' = "INVALID"
                     /\ start' = <<0, FALSE>> /\ complete' = FALSE /\ mGroup' = 1
                     /\ group' = [g \in 1 .. N |-> "PENDING"]
BY DEF Join, Crash, End

(* A handler that starts finds the header as it was synced.                *)
LEMMA StartsStep ==
    HeaderReachesDisk /\ MergeInv /\ [Next]_vars => Starts'
<1> SUFFICES ASSUME HeaderReachesDisk, MergeInv, [Next]_vars PROVE Starts'
    OBVIOUS
<1>0. Starts /\ Counts /\ Typed /\ Handshake BY DEF MergeInv, DataInv, RaData
<1> USE DEF Starting
<1>1. CASE Join \/ Crash
    BY <1>1, EndsAll DEF Starts
<1>2. CASE Boot
  <2>1. main = "down" /\ raPc' \in {"init", "done"} /\ header' = header /\ headerDisk' = headerDisk
        /\ start' = header /\ populate' = header[2] /\ io' = "MERGE_READY"
        /\ (main' = "waitRa" \/ mPc' = "run")
      BY <1>2 DEF Boot, Launch, disks, headerVars
  <2>2. mPc = "done" BY <1>0, <2>1, Fields
  <2>3. header[1] = headerDisk[1] BY <1>0, <2>2 DEF Counts
  <2> QED BY <2>1, <2>3 DEF Starts
<1>3. CASE RaWaitEnds
  <2>1. mPc' = "run" /\ UNCHANGED <<disks, start, populate, io, raVars>>
      BY <1>3 DEF RaWaitEnds, Launch
  <2> QED BY <1>0, <2>1 DEF Starts, disks, headerVars, raVars
<1>4. CASE InitiateMerge
  <2>1. UNCHANGED <<disks, main, start, populate, raVars, mVars>> /\ (ra_thread => io' = io)
      BY <1>4 DEF InitiateMerge
  <2>2. Starting => ra_thread
      BY <1>0 DEF Handshake, LockStep
  <2> QED BY <1>0, <2>1, <2>2 DEF Starts, disks, headerVars, raVars, mVars
<1>5. CASE Pause
    BY <1>0, <1>5 DEF Starts, Pause, disks, headerVars, raVars, mVars
<1>6. CASE NotifyIOTerminated
  <2>1. UNCHANGED <<disks, start, populate, raVars, mVars>> /\ main = "serving"
        /\ io' = "IO_TERMINATED"
      BY <1>6 DEF NotifyIOTerminated
  <2> QED BY <1>0, <2>1 DEF Starts, disks, headerVars, raVars, mVars
<1>7. CASE RaThread
  <2>0. UNCHANGED <<main, start, mPc>> BY <1>7, RaFrame DEF mVars
  <2>1. CASE RaInit
    <3>1. raPc = "init" /\ UNCHANGED <<header, headerDisk, io, populate>>
          /\ (raPc' = "head" => raPos' = start[1] + 1) /\ raPc' \in {"head", "dead"}
        BY <2>1 DEF RaInit, disks, headerVars
    <3> QED BY <1>0, <2>0, <3>1 DEF Starts
  <2>2. CASE RaHead
    <3>1. raPc = "head" /\ UNCHANGED <<header, headerDisk, io, populate, raPos>>
          /\ raPc' \in {"done", "reconstruct", "read"} /\ (raPc' = "reconstruct" => populate)
        BY <2>2 DEF RaHead, disks, headerVars
    <3> QED BY <1>0, <2>0, <3>1 DEF Starts
  <2>3. CASE RaAnnounce
    <3>1. raPc = "announce" /\ populate' = populate /\ raPc' \in {"head", "done"}
        BY <2>3 DEF RaAnnounce, ReadAheadIOFailed
    <3>2. ~populate BY <1>0, <3>1 DEF Handshake
    <3> QED BY <3>1, <3>2 DEF Starts
  <2>4. CASE Reconstruct \/ RaRead \/ RaReadFails \/ WaitForMergeReady
    <3>1. raPc' \notin {"init", "head", "reconstruct"}
        BY <2>4 DEF Reconstruct, RaRead, RaReadFails, WaitForMergeReady, ReadAheadIOFailed
    <3> QED BY <3>1 DEF Starts
  <2>5. CASE RaCopy \/ RaMap \/ RaFlush \/ RaMark \/ RaWakes
    <3>1. raPc' \notin {"init", "head", "reconstruct"}
        BY <2>5 DEF RaCopy, RaMap, RaFlush, RaMark, RaWakes, ReadAheadIOFailed
    <3> QED BY <3>1 DEF Starts
  <2> QED BY <1>7, <2>1, <2>2, <2>3, <2>4, <2>5 DEF RaThread, RaStep
<1>8. CASE MThread
  <2>1. UNCHANGED <<main, populate, start, raVars>> BY <1>8, MFrame
  <2>2. CASE ~Starting
      BY <1>0, <2>1, <2>2 DEF Starts, raVars
  <2>3. CASE Starting
    <3>1. mPc \in {"run", "done"} /\ io # "MERGE_BEGIN"
        BY <1>0, <2>3, Fields DEF Starts
    <3>2. mPc' = "done" /\ io' = io /\ UNCHANGED headerVars
      <4>1. MRun
          BY <1>8, <3>1 DEF MThread, MStep, MRun, WaitForMergeBegin, MLock, MDrain, MWrite, MSync,
                            MFails, MCommit, MClear, MFlush, MFlushFails, SetMergeCompleted,
                            NotifyRAForMergeReady, MWakes, MReplaceBegin, MReplace,
                            MReplaceCommit, MReplaceFails, MReplaced, MergeCompleted
      <4> QED BY <3>1, <4>1 DEF MRun
    <3> QED BY <1>0, <2>1, <2>3, <3>1, <3>2 DEF Starts, headerVars, raVars
  <2> QED BY <2>2, <2>3
<1>9. CASE UNCHANGED <<disks, boot, io, toMerge, map, bufferLock, raVars, mVars, group>>
    BY <1>0, <1>9 DEF Starts, disks, headerVars, boot, raVars, mVars
<1> QED BY <1>1, <1>2, <1>3, <1>4, <1>5, <1>6, <1>7, <1>8, <1>9, Movers DEF MainQuiet

(* For the other conjuncts: the threads of Start() and its clients leave   *)
(* the read-ahead thread alone, or put it at its start or its end.         *)
LEMMA OthersLeaveRa ==
    Join \/ Crash \/ MainQuiet \/ MThread
      \/ UNCHANGED <<disks, boot, io, toMerge, map, bufferLock, raVars, mVars, group>>
    => \/ raPc' \in {"init", "done"}
       \/ UNCHANGED <<raVars, scratch, scratchDisk, toMerge, populate>>
<1>1. CASE Join \/ Crash
    BY <1>1, EndsAll
<1>2. CASE MainQuiet
    BY <1>2 DEF MainQuiet, Boot, RaWaitEnds, InitiateMerge, Pause, NotifyIOTerminated, disks,
                scratchVars
<1>3. CASE MThread
    BY <1>3, MFrame
<1>4. CASE UNCHANGED <<disks, boot, io, toMerge, map, bufferLock, raVars, mVars, group>>
    BY <1>4 DEF disks, scratchVars, boot
<1> QED BY <1>1, <1>2, <1>3, <1>4

(* What the read-ahead thread reads is the updated data: no operation on a *)
(* source it reads is counted, or in the hands of the merge thread.        *)
LEMMA ReadsStep ==
    HeaderReachesDisk /\ MergeInv /\ [Next]_vars => Reads'
<1> SUFFICES ASSUME HeaderReachesDisk, MergeInv, [Next]_vars PROVE Reads'
    OBVIOUS
<1>0. Reads /\ Ahead /\ OnBase /\ Typed /\ Handshake BY DEF MergeInv, DataInv, RaData
<1>1. ASSUME raPc' \notin {"read", "asleep", "lock", "map"} PROVE Reads'
    BY <1>1 DEF Reads
<1>2. ASSUME UNCHANGED <<raPos, temp>>, raPc \in {"read", "asleep", "lock", "map"} PROVE Reads'
  <2>1. RaFirst' = RaFirst BY <1>2 DEF RaFirst
  <2> QED BY <1>0, <1>2, <2>1 DEF Reads
<1>3. CASE Join \/ Crash \/ MainQuiet \/ MThread
             \/ UNCHANGED <<disks, boot, io, toMerge, map, bufferLock, raVars, mVars, group>>
    BY <1>1, <1>2, <1>3, OthersLeaveRa DEF raVars
<1>4. CASE RaThread
  <2>1. CASE RaHead
    <3>1. raPc = "head" /\ temp' = <<>> /\ raPos' = raPos
          /\ (raPc' = "read" => raPos <= N) /\ raPc' \in {"read", "done", "reconstruct"}
        BY <1>0, <2>1, Fields, Sizes DEF RaHead
    <3>2. Len(temp') = 0 BY <3>1
    <3>3. RaFirst' = raPos BY <1>0, <3>1, <3>2, Fields DEF RaFirst
    <3> QED BY <3>1, <3>2, <3>3 DEF Reads
  <2>2. CASE RaRead
    <3> DEFINE new == Ops[raPos].new
               read == Result(Ops[raPos], base[Ops[raPos].src])
    <3>1. raPc = "read" /\ raPc' = raPc /\ raPos <= N /\ temp' = Append(temp, read)
          /\ raPos' = raPos + 1
        BY <2>2 DEF RaRead
    <3>2. raPos \in 1 .. N /\ ~populate /\ temp \in Seq(Data)
        BY <1>0, <3>1, Fields, Sizes DEF Handshake, Typed, RaTyped
    <3>3. headerDisk[1] < raPos /\ ~InHand(raPos)
      <4>1. RaNext = raPos - Len(temp) /\ Len(temp) \in Nat
          BY <1>0, <3>1, Fields DEF RaNext, RaFirst
      <4>2. CASE ~headerDisk[2] /\ headerDisk[1] = RaNext - 1
          BY <1>0, <4>1, <4>2, Fields DEF InHand
      <4>3. CASE headerDisk[2] /\ RaNext = headerDisk[1] + toMerge + 1
                 /\ Holds(scratch, headerDisk[1], toMerge)
        <5>1. \A n : Holds(scratch, headerDisk[1], n) => n = toMerge
            BY <4>3, HoldsOnce
        <5>2. ~(raPos <= headerDisk[1] + toMerge) /\ headerDisk[1] < raPos
            BY <1>0, <4>1, <4>3, Fields
        <5> QED BY <5>1, <5>2 DEF InHand
      <4> QED BY <1>0, <3>1, <3>2, <4>2, <4>3 DEF Ahead
    <3>4. read = Updated[new]
        BY <1>0, <3>2, <3>3, SourceKept
    <3> HIDE DEF read, new
    <3>5. Len(temp') = Len(temp) + 1
          /\ \A s \in 1 .. Len(temp) + 1 : temp'[s] = IF s = Len(temp) + 1 THEN read ELSE temp[s]
        BY <3>1, <3>2
    <3>6. RaFirst' = RaFirst /\ RaFirst + (Len(temp) + 1) - 1 = raPos /\ Len(temp) \in Nat
      <4>1. raPos \in Int /\ Len(temp) \in Nat /\ raPos' = raPos + 1 /\ Len(temp') = Len(temp) + 1
          BY <1>0, <3>1, <3>5, Fields
      <4> HIDE <3>1, <3>5
      <4> QED BY <4>1 DEF RaFirst
    <3>7. ASSUME NEW s \in 1 .. Len(temp')
          PROVE  temp'[s] = Updated[Ops[RaFirst + s - 1].new]
      <4>1. CASE s = Len(temp) + 1
          BY <3>4, <3>5, <3>6, <4>1 DEF new
      <4>2. CASE s # Len(temp) + 1
        <5>1. s \in 1 .. Len(temp) BY <3>5, <3>6, <4>2
        <5> QED BY <1>0, <3>1, <3>5, <4>2, <5>1 DEF Reads
      <4> QED BY <4>1, <4>2
    <3> QED BY <1>0, <3>1, <3>6, <3>7 DEF Reads
  <2>3. CASE RaReadFails
    <3>1. raPc = "read" /\ temp' = <<>> /\ raPos' = RaFirst
        BY <2>3 DEF RaReadFails, RaFirst
    <3>2. Len(temp') = 0 BY <3>1
    <3>3. RaFirst' = RaFirst
      <4>1. raPos' \in Int BY <1>0, <3>1, Fields DEF RaFirst
      <4> QED BY <3>1, <3>2, <4>1 DEF RaFirst
    <3> QED BY <1>0, <3>1, <3>2, <3>3 DEF Reads
  <2>4. CASE WaitForMergeReady
      BY <1>1, <1>2, <2>4 DEF WaitForMergeReady
  <2>5. CASE RaWakes \/ RaCopy
      BY <1>1, <1>2, <2>5 DEF RaWakes, RaCopy
  <2>6. CASE RaInit \/ Reconstruct \/ RaMap \/ RaFlush \/ RaMark \/ RaAnnounce
      BY <1>1, <2>6 DEF RaInit, Reconstruct, RaMap, RaFlush, RaMark, RaAnnounce, ReadAheadIOFailed
  <2> QED BY <1>4, <2>1, <2>2, <2>3, <2>4, <2>5, <2>6 DEF RaThread, RaStep
<1> QED BY <1>3, <1>4, Movers

(* The two threads agree on where the window begins when the scratch space *)
(* is overwritten, and no header refers to it any more.                    *)
LEMMA RefillsStep ==
    HeaderReachesDisk /\ MergeInv /\ [Next]_vars => Refills'
<1> SUFFICES ASSUME HeaderReachesDisk, MergeInv, [Next]_vars PROVE Refills'
    OBVIOUS
<1>0. Refills /\ Reads /\ Ahead /\ Counts /\ Typed /\ Handshake
    BY DEF MergeInv, DataInv, RaData
<1>1. ASSUME raPc' \notin Refilling PROVE Refills'
    BY <1>1 DEF Refills
<1>2. ASSUME UNCHANGED <<raVars, headerVars, scratch>> PROVE Refills'
  <2>1. RaFirst' = RaFirst BY <1>2 DEF RaFirst, raVars
  <2> QED BY <1>0, <1>2, <2>1 DEF Refills, raVars, headerVars
<1>3. CASE Join \/ Crash \/ MainQuiet
             \/ UNCHANGED <<disks, boot, io, toMerge, map, bufferLock, raVars, mVars, group>>
  <2>1. CASE raPc' \in {"init", "done"}
      BY <1>1, <2>1 DEF Refilling
  <2>2. CASE UNCHANGED raVars /\ (Join \/ Crash)
      BY <1>1, <2>2, EndsAll DEF Refilling
  <2>3. CASE UNCHANGED raVars /\ ~(Join \/ Crash)
      BY <1>2, <1>3, <2>3, QuietSteps DEF disks, scratchVars
  <2> QED BY <1>3, <2>1, <2>2, <2>3, OthersLeaveRa
<1>4. CASE MThread
  <2>1. UNCHANGED <<raVars, scratch>> BY <1>4, MFrame
  <2>2. CASE UNCHANGED headerVars
      BY <1>2, <2>1, <2>2
  <2>3. CASE raPc \in Refilling
    <3>1. ~(MCommit \/ MClear \/ MFlush)
        BY <2>3, <1>0, OneHasTheWindow DEF MCommit, MClear, MFlush, InWindow
    <3>2. header[1] < N
      <4>1. raPc \in {"read", "asleep", "lock", "map"} BY <2>3 DEF Refilling
      <4>2. RaFirst <= N /\ header[1] = RaFirst - 1
          BY <1>0, <2>3, <4>1 DEF Reads, Refills
      <4> QED BY <1>0, <4>2, Fields, Sizes DEF RaFirst
    <3>3. ~MReplaceCommit
      <4>1. MReplaceCommit => header[1] >= N
          BY DEF MReplaceCommit, MergeInv, DataInv, MData, MergesReplaces, InReplaces
      <4>2. header[1] \in Nat /\ N \in Nat
          BY <1>0, Numbers
      <4> QED BY <3>2, <4>1, <4>2
    <3> QED BY <1>4, <2>2, <3>1, <3>3, MHeaders
  <2>4. CASE raPc \notin Refilling
      BY <1>1, <2>1, <2>4 DEF raVars
  <2> QED BY <2>3, <2>4
<1>5. CASE RaThread
  <2>1. CASE WaitForMergeReady
    <3>1. raPc = "read" /\ UNCHANGED <<raPos, temp, headerVars>> /\ (raPos > N \/ Len(temp) = Window)
          /\ (raPc' = "done" \/ (io = "MERGE_READY" /\ raPc' \in {"asleep", "lock"}))
        BY <2>1 DEF WaitForMergeReady, MayRefill, disks
    <3>2. CASE raPc' = "done"
        BY <1>1, <3>2 DEF Refilling
    <3>3. CASE io = "MERGE_READY" /\ raPc' \in {"asleep", "lock"}
      <4>1. ~header[2] /\ mPc \notin InWindow /\ ~populate
          BY <1>0, <3>1, <3>3 DEF Handshake, LockStep
      <4>2. ~headerDisk[2] /\ header[1] = headerDisk[1]
          BY <1>0, <4>1 DEF Counts, InWindow
      <4>3. headerDisk[1] = RaFirst - 1
          BY <1>0, <3>1, <4>1, <4>2 DEF Ahead, RaNext
      <4>4. raPos > N => raPos = N + 1
          BY <1>0, Fields, Sizes
      <4>5. RaFirst' = RaFirst
          BY <3>1 DEF RaFirst
      <4> QED BY <3>1, <3>3, <4>1, <4>2, <4>3, <4>4, <4>5 DEF Refills, headerVars
    <3> QED BY <3>1, <3>2, <3>3
  <2>2. CASE RaWakes
    <3>1. raPc = "asleep" /\ raPc' = "lock" /\ UNCHANGED <<raPos, temp, headerVars>>
        BY <2>2 DEF RaWakes, disks
    <3>2. RaFirst' = RaFirst
        BY <3>1 DEF RaFirst
    <3> QED BY <1>0, <3>1, <3>2 DEF Refills, headerVars, Refilling
  <2>3. CASE RaCopy
    <3> DEFINE f == RaFirst - 1
    <3>1. raPc = "lock" /\ raPc' = "map" /\ UNCHANGED <<raPos, temp, headerVars>>
          /\ scratch' = [s \in Slots |->
                      IF s <= Len(temp) THEN <<Ops[RaFirst + s - 1].new, temp[s]>>
                      ELSE IF s = Len(temp) + 1 THEN Free ELSE scratch[s]]
        BY <2>3 DEF RaCopy
    <3>2. header[1] = f /\ f \in Nat /\ (Len(temp) = Window \/ raPos = N + 1) /\ RaFirst <= N
          /\ \A s \in 1 .. Len(temp) : temp[s] = Updated[Ops[RaFirst + s - 1].new]
        BY <1>0, <3>1, Fields DEF Refills, Refilling, Reads
    <3>3. raPos = f + 1 + Len(temp) /\ Len(temp) \in 0 .. Window /\ raPos \in 1 .. N + 1
          /\ RaFirst = f + 1
        BY <1>0, <3>2, Fields DEF RaFirst
    <3> HIDE DEF f
    <3>4. Len(temp) \in 1 .. Window /\ f + Len(temp) <= N /\ (Len(temp) = Window \/ f + Len(temp) = N)
      <4>1. f + 1 <= N /\ f \in Nat /\ (Len(temp) = Window \/ raPos = N + 1)
          BY <3>2, <3>3
      <4> QED BY <3>3, <4>1, Sizes
    <3>5. ASSUME NEW s \in 1 .. Len(temp)
          PROVE  scratch'[s] = <<Ops[f + s].new, Updated[Ops[f + s].new]>>
      <4>1. s \in Slots /\ s <= Len(temp) BY <3>4, Sizes DEF Slots
      <4>2. RaFirst + s - 1 = f + s BY <3>2, <3>3, <3>4
      <4> QED BY <3>1, <3>2, <4>1, <4>2
    <3>6. Len(temp) < Window => scratch'[Len(temp) + 1] = Free
        BY <3>1, <3>4, Sizes DEF Slots
    <3>7. Holds(scratch', f, Len(temp))
        BY <3>2, <3>4, <3>5, <3>6 DEF Holds
    <3>8. RaFirst' = RaFirst
        BY <3>1 DEF RaFirst
    <3> QED BY <1>0, <3>1, <3>7, <3>8 DEF Refills, headerVars, Refilling, f
  <2>4. CASE RaInit \/ RaHead \/ Reconstruct \/ RaRead \/ RaReadFails
    <3>1. raPc' \in {"head", "dead", "done", "reconstruct", "read", "flush"}
        BY <2>4 DEF RaInit, RaHead, Reconstruct, RaRead, RaReadFails, ReadAheadIOFailed
    <3> QED BY <1>1, <3>1 DEF Refilling
  <2>5. CASE RaMap \/ RaFlush \/ RaMark \/ RaAnnounce
    <3>1. raPc' \in {"flush", "mark", "announce", "head", "done"}
        BY <2>5 DEF RaMap, RaFlush, RaMark, RaAnnounce, ReadAheadIOFailed
    <3> QED BY <1>1, <3>1 DEF Refilling
  <2> QED BY <1>5, <2>1, <2>2, <2>3, <2>4, <2>5 DEF RaThread, RaStep
<1> QED BY <1>3, <1>4, <1>5, Movers

(* The slots of a scratch space that holds a window.                        *)
LEMMA SlotOf ==
    ASSUME NEW space, NEW f, NEW n, Holds(space, f, n), NEW s \in 1 .. n
    PROVE  /\ f + s \in 1 .. N /\ s \in Slots
           /\ space[s] = <<Ops[f + s].new, Updated[Ops[f + s].new]>>
           /\ space[s][1] = Ops[f + s].new /\ space[s][2] = Updated[Ops[f + s].new]
           /\ space[s][1] \in Blocks /\ space[s][1] # 0
<1>1. f + s \in 1 .. N /\ s \in Slots BY HoldsBounds, Sizes DEF Slots
<1>2. space[s] = <<Ops[f + s].new, Updated[Ops[f + s].new]>> BY DEF Holds
<1>3. space[s][1] = Ops[f + s].new /\ space[s][2] = Updated[Ops[f + s].new] BY <1>2
<1>4. Ops[f + s].new \in Blocks BY <1>1, OpTyped
<1> QED BY <1>1, <1>2, <1>3, <1>4, SequenceAssumption DEF SequenceAssumption

LEMMA ListedIs ==
    ASSUME NEW f, NEW n, Holds(scratch, f, n)
    PROVE  Listed = 1 .. n
<1>1. n \in 1 .. Window /\ n \in Nat BY HoldsBounds
<1>2. \A s \in 1 .. n : scratch[s][1] # 0 BY SlotOf
<1>3. n < Window => scratch[n + 1][1] = 0 BY DEF Holds, Free
<1> QED BY <1>1, <1>2, <1>3, Sizes DEF Listed, Slots

LEMMA MapRebuilt ==
    ASSUME Reconstruct, NEW b \in Blocks
    PROVE  /\ map'[b] # 0 <=> Mapped(b) # {}
           /\ map'[b] # 0 => map'[b] \in Mapped(b)
<1>1. map'[b] = IF Mapped(b) = {} THEN 0 ELSE CHOOSE s \in Mapped(b) : \A t \in Mapped(b) : t <= s
    BY DEF Reconstruct
<1>2. Mapped(b) \subseteq Slots BY DEF Mapped, Listed
<1>3. ASSUME Mapped(b) # {}
      PROVE  (CHOOSE s \in Mapped(b) : \A t \in Mapped(b) : t <= s) \in Mapped(b)
  <2>1. \E s \in Mapped(b) : \A t \in Mapped(b) : t <= s
      BY <1>2, <1>3, LastSlot
  <2> QED BY <2>1
<1>4. \A s \in Slots : s # 0 BY Sizes DEF Slots
<1> QED BY <1>1, <1>2, <1>3, <1>4

(* The window rebuilt from the scratch space after a restart is the one    *)
(* the header on disk has still to count, or none.                         *)
LEMMA ReconstructsIt ==
    MergeInv /\ Reconstruct /\ raPc' = "flush" =>
        /\ Holds(scratch, header[1], toMerge') /\ headerDisk[1] = header[1]
        /\ raPos' = header[1] + toMerge' + 1
<1> SUFFICES ASSUME MergeInv, Reconstruct, raPc' = "flush"
             PROVE  /\ Holds(scratch, header[1], toMerge') /\ headerDisk[1] = header[1]
                    /\ raPos' = header[1] + toMerge' + 1
    OBVIOUS
<1>0. Saved /\ Starts /\ Typed /\ Handshake BY DEF MergeInv, DataInv, RaData
<1> DEFINE h == header[1]
<1>1. raPc = "reconstruct" BY DEF Reconstruct
<1>2. populate /\ header = start /\ headerDisk[1] = h /\ header[2] /\ raPos = h + 1
    BY <1>0, <1>1 DEF Starts, Starting
<1>3. h < N
    BY <1>0, <1>1, <1>2 DEF Handshake, LockStep, ra_thread
<1>4. PICK n \in 1 .. Window : Holds(scratch, h, n) \/ Holds(scratch, h - n, n)
    BY <1>0, <1>2, <1>3 DEF Saved, HeldFor
<1>5. h \in Nat /\ n \in Nat BY <1>0, <1>4, Fields, Sizes
<1>6. PICK f \in Nat : Holds(scratch, f, n) /\ (f = h \/ f = h - n)
    BY <1>4, <1>5 DEF Holds
<1> HIDE DEF h
<1>7. \A s \in 1 .. n : f + s \in 1 .. N /\ scratch[s][1] = Ops[f + s].new
    BY <1>6, SlotOf
<1>9. Listed = 1 .. n
    BY <1>6, ListedIs
<1>10. Cardinality(Listed) = n
    BY <1>5, <1>9, FS_Interval
<1>11. \A i \in 1 .. N : Mapped(Ops[i].new) # {} <=> i \in f + 1 .. f + n
  <2> SUFFICES ASSUME NEW i \in 1 .. N
               PROVE  Mapped(Ops[i].new) # {} <=> i \in f + 1 .. f + n
      OBVIOUS
  <2>1. ASSUME i \in f + 1 .. f + n PROVE Mapped(Ops[i].new) # {}
    <3>1. i - f \in 1 .. n /\ f + (i - f) = i BY <1>5, <2>1
    <3>2. scratch[i - f][1] = Ops[i].new BY <1>7, <3>1
    <3> QED BY <1>9, <3>1, <3>2 DEF Mapped
  <2>2. ASSUME NEW s \in Mapped(Ops[i].new) PROVE i \in f + 1 .. f + n
    <3>1. s \in 1 .. n /\ scratch[s][1] = Ops[i].new BY <1>9, <2>2 DEF Mapped
    <3>2. i = f + s BY <1>7, <3>1, OneOpOnBlock
    <3> QED BY <1>5, <3>1, <3>2
  <2> QED BY <2>1, <2>2
<1>12. \A i \in 1 .. N : map'[Ops[i].new] # 0 <=> i \in f + 1 .. f + n
    BY <1>11, MapRebuilt, OpTyped
<1>13. PICK last \in raPos - 1 .. N :
           /\ \A i \in raPos .. last : map'[Ops[i].new] # 0
           /\ last < N => map'[Ops[last + 1].new] = 0
           /\ raPos' = last + 1
           /\ (last = N \/ last - raPos + 1 = n) /\ toMerge' = n
    BY <1>10 DEF Reconstruct, ReadAheadIOFailed
<1>14. /\ last \in Nat /\ N \in Nat /\ n >= 1 /\ h <= last /\ last <= N /\ raPos = h + 1
       /\ last = N \/ last = h + n
  <2>1. last \in raPos - 1 .. N /\ (last = N \/ last - raPos + 1 = n)
      BY <1>13
  <2>2. raPos = h + 1 BY <1>2
  <2>3. n \in 1 .. Window /\ Window \in Nat /\ N \in Nat
      BY <1>4, Sizes
  <2> QED BY <1>5, <2>1, <2>2, <2>3
<1>15. \A i \in 1 .. N : i >= h + 1 /\ i <= last => i >= f + 1 /\ i <= f + n
  <2> SUFFICES ASSUME NEW i \in 1 .. N, i >= h + 1, i <= last
               PROVE  i >= f + 1 /\ i <= f + n
      OBVIOUS
  <2>1. i \in raPos .. last BY <1>5, <1>14
  <2>2. map'[Ops[i].new] # 0 BY <1>13, <2>1
  <2>3. i \in f + 1 .. f + n BY <1>12, <2>2
  <2> QED BY <1>5, <1>6, <2>3
<1>16. last < N => ~(last + 1 >= f + 1 /\ last + 1 <= f + n)
  <2> SUFFICES ASSUME last < N, last + 1 >= f + 1, last + 1 <= f + n PROVE FALSE
      OBVIOUS
  <2>1. last + 1 \in 1 .. N /\ last + 1 \in f + 1 .. f + n BY <1>5, <1>6, <1>14
  <2>2. map'[Ops[last + 1].new] = 0 BY <1>13
  <2> QED BY <1>12, <2>1, <2>2
<1>17. f = h
  <2> SUFFICES ASSUME f = h - n PROVE FALSE
      BY <1>6
  <2>1. h + 1 \in 1 .. N /\ h + 1 <= last
      BY <1>3, <1>5, <1>14
  <2>2. h + 1 <= f + n BY <1>5, <1>15, <2>1
  <2> QED BY <1>5, <2>2
<1>18. h + n <= N BY <1>6, <1>17, HoldsBounds
<1>19. last = h + n
  <2>1. ~(last < h + n)
    <3> SUFFICES ASSUME last < h + n PROVE FALSE
        OBVIOUS
    <3>1. last < N /\ last + 1 >= f + 1 /\ last + 1 <= f + n
        BY <1>5, <1>14, <1>17, <1>18
    <3> QED BY <1>16, <3>1
  <2>2. ~(last > h + n)
    <3> SUFFICES ASSUME last > h + n PROVE FALSE
        OBVIOUS
    <3>1. h + n + 1 \in 1 .. N /\ h + n + 1 >= h + 1 /\ h + n + 1 <= last
        BY <1>5, <1>14
    <3>2. h + n + 1 <= f + n BY <1>15, <3>1
    <3> QED BY <1>5, <1>17, <3>2
  <2> QED BY <1>5, <1>14, <2>1, <2>2
<1>20. Holds(scratch, h, n) /\ raPos' = h + n + 1 /\ toMerge' = n
    BY <1>6, <1>13, <1>17, <1>19
<1> QED BY <1>2, <1>20 DEF h

LEMMA AnnouncesStep ==
    HeaderReachesDisk /\ MergeInv /\ [Next]_vars => Announces'
<1> SUFFICES ASSUME HeaderReachesDisk, MergeInv, [Next]_vars PROVE Announces'
    OBVIOUS
<1>0. Announces /\ Refills /\ Typed /\ Handshake
    BY DEF MergeInv, DataInv, RaData
<1>1. ASSUME raPc' \notin {"flush", "mark", "announce"} PROVE Announces'
    BY <1>1 DEF Announces
<1>2. ASSUME UNCHANGED <<raVars, headerVars, scratch, scratchDisk, toMerge>> PROVE Announces'
    BY <1>0, <1>2 DEF Announces, raVars, headerVars
<1>3. CASE Join \/ Crash \/ MainQuiet
             \/ UNCHANGED <<disks, boot, io, toMerge, map, bufferLock, raVars, mVars, group>>
  <2>1. CASE raPc' \in {"init", "done"}
      BY <1>1, <2>1
  <2>2. CASE UNCHANGED <<raVars, toMerge>> /\ (Join \/ Crash)
      BY <1>1, <2>2, EndsAll
  <2>3. CASE UNCHANGED <<raVars, toMerge>> /\ ~(Join \/ Crash)
      BY <1>2, <1>3, <2>3, QuietSteps DEF disks, scratchVars
  <2> QED BY <1>3, <2>1, <2>2, <2>3, OthersLeaveRa
<1>4. CASE MThread
  <2>1. UNCHANGED <<raVars, scratch, scratchDisk, toMerge>> BY <1>4, MFrame
  <2>2. CASE UNCHANGED headerVars
      BY <1>2, <2>1, <2>2
  <2>3. CASE raPc \in {"flush", "mark", "announce"}
    <3>1. ~(MCommit \/ MClear \/ MFlush)
        BY <2>3, AnnouncedIsNext DEF MCommit, MClear, MFlush, InWindow
    <3>2. header[1] < N
        BY <2>3, AnnouncedIsNext
    <3>3. ~MReplaceCommit
      <4>1. MReplaceCommit => header[1] >= N
          BY DEF MReplaceCommit, MergeInv, DataInv, MData, MergesReplaces, InReplaces
      <4>2. header[1] \in Nat /\ N \in Nat
          BY <1>0, Numbers
      <4> QED BY <3>2, <4>1, <4>2
    <3> QED BY <1>4, <2>2, <3>1, <3>3, MHeaders
  <2>4. CASE raPc \notin {"flush", "mark", "announce"}
      BY <1>1, <2>1, <2>4 DEF raVars
  <2> QED BY <2>3, <2>4
<1>5. CASE RaThread
  <2>1. CASE Reconstruct
    <3>1. CASE raPc' = "flush"
      <4>1. Holds(scratch, header[1], toMerge') /\ headerDisk[1] = header[1]
            /\ raPos' = header[1] + toMerge' + 1
          BY <2>1, <3>1, ReconstructsIt
      <4>2. UNCHANGED <<header, headerDisk, scratch>>
          BY <2>1 DEF Reconstruct, disks, headerVars, scratchVars
      <4>3. toMerge' \in Nat /\ header[1] \in Nat
          BY <1>0, <4>1, HoldsBounds, Fields
      <4>4. raPos' - toMerge' - 1 = header[1]
          BY <4>1, <4>3
      <4> QED BY <3>1, <4>1, <4>2, <4>4 DEF Announces
    <3>2. CASE raPc' # "flush"
        BY <1>1, <2>1, <3>2 DEF Reconstruct, ReadAheadIOFailed
    <3> QED BY <3>1, <3>2
  <2>2. CASE RaMap
    <3>1. raPc = "map" /\ raPc' = "flush" /\ toMerge' = Len(temp) /\ raPos' = raPos
          /\ UNCHANGED <<header, headerDisk, scratch>>
        BY <2>2 DEF RaMap, disks, headerVars, scratchVars
    <3>2. Holds(scratch, RaFirst - 1, Len(temp)) /\ header[1] = RaFirst - 1
          /\ headerDisk[1] = RaFirst - 1
        BY <1>0, <3>1 DEF Refills, Refilling
    <3>3. raPos' - toMerge' - 1 = RaFirst - 1
        BY <1>0, <3>1, Fields DEF RaFirst
    <3> QED BY <3>1, <3>2, <3>3 DEF Announces
  <2>3. CASE RaFlush
    <3>1. raPc = "flush" /\ UNCHANGED <<header, scratch, toMerge, raPos>>
          /\ ((raPc' = "mark" /\ scratchDisk' = scratch /\ headerDisk' = header) \/ raPc' = "done")
        BY <2>3 DEF RaFlush, ReadAheadIOFailed
    <3> QED BY <1>0, <3>1 DEF Announces
  <2>4. CASE RaMark
    <3>1. raPc = "mark" /\ UNCHANGED <<headerDisk, scratch, scratchDisk, toMerge, raPos>>
          /\ raPc' = "announce" /\ header' = <<header[1], TRUE>>
        BY <2>4 DEF RaMark, scratchVars
    <3>2. header'[1] = header[1] /\ header'[2] = TRUE BY <3>1
    <3> QED BY <1>0, <3>1, <3>2 DEF Announces
  <2>5. CASE RaInit \/ RaHead \/ RaRead \/ RaReadFails \/ WaitForMergeReady
      BY <1>1, <2>5 DEF RaInit, RaHead, RaRead, RaReadFails, WaitForMergeReady, ReadAheadIOFailed
  <2>6. CASE RaCopy \/ RaAnnounce \/ RaWakes
      BY <1>1, <2>6 DEF RaCopy, RaAnnounce, RaWakes, ReadAheadIOFailed
  <2> QED BY <1>5, <2>1, <2>2, <2>3, <2>4, <2>5, <2>6 DEF RaThread, RaStep
<1> QED BY <1>3, <1>4, <1>5, Movers

LEMMA AheadStep ==
    HeaderReachesDisk /\ MergeInv /\ [Next]_vars => Ahead'
<1> SUFFICES ASSUME HeaderReachesDisk, MergeInv, [Next]_vars PROVE Ahead'
    OBVIOUS
<1>0. Ahead /\ Reads /\ Starts /\ Counts /\ Typed /\ Handshake
    BY DEF MergeInv, DataInv, RaData
<1>1. ASSUME raPc' \notin {"head", "read"} PROVE Ahead'
    BY <1>1 DEF Ahead
<1>2. ASSUME UNCHANGED <<raVars, headerDisk, scratch, toMerge, populate>> PROVE Ahead'
  <2>1. RaNext' = RaNext BY <1>2 DEF RaNext, RaFirst, raVars
  <2> QED BY <1>0, <1>2, <2>1 DEF Ahead, raVars
<1>3. CASE Join \/ Crash \/ MainQuiet
             \/ UNCHANGED <<disks, boot, io, toMerge, map, bufferLock, raVars, mVars, group>>
  <2>1. CASE raPc' \in {"init", "done"}
      BY <1>1, <2>1
  <2>2. CASE UNCHANGED <<raVars, toMerge, populate>> /\ (Join \/ Crash)
      BY <1>1, <2>2, EndsAll
  <2>3. CASE UNCHANGED <<raVars, toMerge, populate>> /\ ~(Join \/ Crash)
      BY <1>2, <1>3, <2>3, QuietSteps DEF disks, scratchVars, headerVars
  <2> QED BY <1>3, <2>1, <2>2, <2>3, OthersLeaveRa
<1>4. CASE MThread
  <2>1. UNCHANGED <<raVars, scratch, toMerge, populate>> BY <1>4, MFrame
  <2>2. CASE UNCHANGED headerDisk
      BY <1>2, <2>1, <2>2
  <2>3. CASE raPc \notin {"head", "read"} \/ populate
      BY <2>1, <2>3 DEF Ahead, raVars
  <2>4. CASE MFlush /\ raPc \in {"head", "read"} /\ ~populate
    <3>1. mPc = "flush" /\ headerDisk' = header
        BY <2>4 DEF MFlush
    <3>2. headerDisk[1] = MFirst - 1 /\ headerDisk[2] /\ header[1] = mPos - 1 /\ slot = toMerge + 1
        BY <3>1 DEF MergeInv, DataInv, MData, Merges
    <3>3. ~header[2] BY <1>0, <3>1 DEF Handshake, LockStep
    <3>4. MFirst = mPos - slot + 1 /\ headerDisk[1] < N
        BY <3>1, <3>2, WindowInHand, HoldsBounds DEF InWindow
    <3>5. RaNext = headerDisk[1] + toMerge + 1
      <4>1. ~(headerDisk[1] >= N)
        <5>1. headerDisk[1] \in Nat /\ N \in Nat /\ headerDisk[1] < N
            BY <1>0, <3>4, Numbers
        <5> QED BY <5>1
      <4> HIDE DEF RaNext
      <4> QED BY <1>0, <2>4, <3>2, <4>1 DEF Ahead
    <3>6. headerDisk'[1] = RaNext - 1
      <4>1. mPos \in Nat /\ slot \in Nat /\ toMerge \in Nat
          BY <1>0, Fields
      <4>2. headerDisk[1] = mPos - toMerge - 1 /\ headerDisk'[1] = mPos - 1
          BY <3>1, <3>2, <3>4, <4>1
      <4> QED BY <3>5, <4>1, <4>2
    <3>7. RaNext' = RaNext BY <2>1 DEF RaNext, RaFirst, raVars
    <3> QED BY <2>1, <3>1, <3>3, <3>6, <3>7 DEF Ahead
  <2>5. CASE MReplaceCommit /\ raPc \in {"head", "read"} /\ ~populate
    <3>1. mPc = "replaceCommit" /\ header' = <<header[1] + slot - 1, header[2] /\ ~ra_thread>>
          /\ headerDisk' = header'
        BY <2>5, HeaderIsSynced DEF MReplaceCommit
    <3>2. header[1] >= N /\ headerDisk[1] >= N
        BY <3>1 DEF MergeInv, DataInv, MData, MergesReplaces, InReplaces
    <3>3. headerDisk'[1] >= N
      <4>1. headerDisk'[1] = header[1] + slot - 1
          BY <3>1
      <4>2. header[1] \in Nat /\ slot \in Nat /\ 1 <= slot /\ N \in Nat
          BY <1>0, Numbers, Fields
      <4> QED BY <3>2, <4>1, <4>2
    <3>4. ~Holds(scratch, headerDisk[1], toMerge)
      <4>1. headerDisk[1] \in Nat /\ N \in Nat /\ ~(headerDisk[1] < N)
          BY <1>0, <3>2, Numbers
      <4> QED BY <4>1, HoldsBounds
    <3>5. RaNext >= N + 1
      <4>1. CASE ~headerDisk[2] /\ headerDisk[1] = RaNext - 1
        <5>1. RaNext \in Int BY <1>0, Fields DEF RaNext, RaFirst
        <5> QED BY <1>0, <3>2, <4>1, <5>1, Fields, Sizes
      <4>2. CASE raPc = "head" /\ raPos = N + 1
          BY <4>2, Sizes DEF RaNext
      <4> QED BY <1>0, <2>5, <3>4, <4>1, <4>2 DEF Ahead
    <3>6. raPc # "read"
      <4> SUFFICES ASSUME raPc = "read" PROVE FALSE
          OBVIOUS
      <4>1. RaFirst <= N /\ RaNext = RaFirst BY <1>0 DEF Reads, RaNext
      <4>2. RaFirst \in Int BY <1>0, Fields DEF RaFirst
      <4> QED BY <3>5, <4>1, <4>2, Sizes
    <3>7. raPc = "head" /\ raPos = N + 1
      <4>1. raPc = "head" BY <2>5, <3>6
      <4>2. raPos >= N + 1 BY <3>5, <4>1 DEF RaNext
      <4> QED BY <1>0, <4>1, <4>2, Fields, Sizes
    <3> QED BY <2>1, <3>3, <3>7 DEF Ahead, raVars
  <2>6. headerDisk' = headerDisk \/ MFlush \/ MReplaceCommit
      BY <1>4, MHeaders DEF MCommit, MClear, headerVars
  <2> QED BY <2>2, <2>3, <2>4, <2>5, <2>6
<1>5. CASE RaThread
  <2>1. CASE RaInit
    <3>1. raPc = "init" /\ (raPc' = "dead" \/ (raPc' = "head" /\ raPos' = start[1] + 1))
          /\ UNCHANGED <<headerDisk, populate>>
        BY <2>1 DEF RaInit, disks, headerVars
    <3>2. header = start /\ headerDisk[1] = start[1] /\ populate = start[2]
          /\ (main = "waitRa" \/ mPc \in {"run", "done"})
        BY <1>0, <3>1 DEF Starts, Starting
    <3>3. ~populate => ~headerDisk[2]
        BY <1>0, <3>2, Fields DEF Counts
    <3>4. start[1] = (start[1] + 1) - 1
        BY <1>0, Fields
    <3> QED BY <3>1, <3>2, <3>3, <3>4 DEF Ahead, RaNext
  <2>2. CASE RaHead
    <3>1. raPc = "head" /\ raPc' \in {"done", "reconstruct", "read"} /\ temp' = <<>>
          /\ (raPc' = "read" => raPos <= N)
          /\ UNCHANGED <<raPos, headerDisk, scratch, toMerge, populate>>
        BY <1>0, <2>2, Fields, Sizes DEF RaHead, disks, headerVars, scratchVars
    <3>2. Len(temp') = 0 BY <3>1
    <3>3. raPc' = "read" => RaNext' = raPos
        BY <1>0, <3>1, <3>2, Fields DEF RaNext, RaFirst
    <3>4. RaNext = raPos BY <3>1 DEF RaNext
    <3>5. raPc' = "read" => raPos # N + 1
        BY <1>0, <3>1, Fields, Sizes
    <3> QED BY <1>0, <3>1, <3>3, <3>4, <3>5 DEF Ahead
  <2>3. CASE RaRead \/ RaReadFails
    <3>1. raPc = "read" /\ raPc' \in {"read", "done"}
          /\ UNCHANGED <<headerDisk, scratch, toMerge, populate>>
        BY <2>3 DEF RaRead, RaReadFails, ReadAheadIOFailed, disks, headerVars, scratchVars
    <3>2. RaFirst' = RaFirst
      <4>1. CASE RaRead
        <5>1. temp \in Seq(Data) BY <1>0 DEF Typed, RaTyped
        <5>2. Len(temp') = Len(temp) + 1 /\ raPos' = raPos + 1
            BY <4>1, <5>1 DEF RaRead
        <5> QED BY <1>0, <5>2, Fields DEF RaFirst
      <4>2. CASE RaReadFails
        <5>1. Len(temp') = 0 /\ raPos' = raPos - Len(temp)
            BY <4>2 DEF RaReadFails
        <5> QED BY <1>0, <5>1, Fields DEF RaFirst
      <4> QED BY <2>3, <4>1, <4>2
    <3> QED BY <1>0, <3>1, <3>2 DEF Ahead, RaNext
  <2>4. CASE RaAnnounce
    <3>1. raPc = "announce" /\ UNCHANGED <<scratch, toMerge, raPos>>
          /\ (raPc' = "done" \/ (raPc' = "head" /\ headerDisk' = header))
        BY <2>4 DEF RaAnnounce, ReadAheadIOFailed, scratchVars
    <3>2. Holds(scratch, header[1], toMerge) /\ header[2] /\ header[1] = raPos - toMerge - 1
        BY <3>1, AnnouncedIsNext DEF MergeInv, DataInv, RaData, Announces
    <3>3. raPos = header[1] + toMerge + 1
        BY <1>0, <3>2, Fields
    <3> QED BY <3>1, <3>2, <3>3 DEF Ahead, RaNext
  <2>5. CASE WaitForMergeReady \/ Reconstruct
      BY <1>1, <2>5 DEF WaitForMergeReady, Reconstruct, ReadAheadIOFailed
  <2>6. CASE RaCopy \/ RaMap \/ RaFlush \/ RaMark \/ RaWakes
      BY <1>1, <2>6 DEF RaCopy, RaMap, RaFlush, RaMark, RaWakes, ReadAheadIOFailed
  <2> QED BY <1>5, <2>1, <2>2, <2>3, <2>4, <2>5, <2>6 DEF RaThread, RaStep
<1> QED BY <1>3, <1>4, <1>5, Movers

LEMMA RaDataStep ==
    HeaderReachesDisk /\ MergeInv /\ [Next]_vars => RaData'
BY StartsStep, ReadsStep, RefillsStep, AnnouncesStep, AheadStep DEF RaData

-----------------------------------------------------------------------------
(* The merge thread.                                                       *)

(* What the steps of the others leave it with.                             *)
MStays ==
    /\ UNCHANGED <<mVars, start, base, baseDisk, complete, group>>
    /\ header'[1] = header[1] /\ headerDisk'[1] = headerDisk[1]
    /\ MFirst' = MFirst /\ (Astray => Astray')
    /\ main' = main \/ (main = "serving" /\ main' = "joining" /\ ~Begun')
    /\ mPc \in InWindow => UNCHANGED <<scratch, toMerge, header, headerDisk>>
    /\ Begun' => RaAnnounce \/ (Begun /\ UNCHANGED <<scratch, toMerge, header, headerDisk>>)

LEMMA RaStays ==
    MergeInv /\ RaThread => MStays
<1> SUFFICES ASSUME MergeInv, RaThread PROVE MStays
    OBVIOUS
<1>0. Typed /\ Handshake /\ Ended BY DEF MergeInv, DataInv
<1>1. UNCHANGED <<mVars, start, base, baseDisk, complete, group, main>>
    BY RaFrame
<1>2. header'[1] = header[1] /\ headerDisk'[1] = headerDisk[1]
  <2>1. CASE RaQuiet
      BY <2>1, QuietSteps DEF disks, headerVars
  <2>2. CASE RaCopy
      BY <2>2 DEF RaCopy, headerVars
  <2>3. CASE RaFlush \/ RaAnnounce
    <3>1. header' = header /\ headerDisk' \in {header, headerDisk} /\ raPc \in {"flush", "announce"}
        BY <2>3 DEF RaFlush, RaAnnounce
    <3> QED BY <3>1, AnnouncedIsNext
  <2>4. CASE RaMark
    <3>1. header' = <<header[1], TRUE>> /\ headerDisk' = headerDisk
        BY <2>4 DEF RaMark
    <3> QED BY <3>1
  <2> QED BY <2>1, <2>2, <2>3, <2>4 DEF RaThread, RaStep, RaQuiet
<1>3. MFirst' = MFirst
    BY <1>1 DEF MFirst, mVars
<1>4. IsMergeBeginError => IsMergeBeginError'
  <2>1. CASE RaAnnounce
    <3>1. raPc = "announce" BY <2>1 DEF RaAnnounce
    <3>2. io # "READ_AHEAD_FAILURE" BY <1>0, <3>1 DEF Ended
    <3> QED BY <2>1, <3>2 DEF RaAnnounce, ReadAheadIOFailed, IsMergeBeginError
  <2>2. CASE Reconstruct \/ RaReadFails \/ RaFlush
      BY <2>2 DEF Reconstruct, RaReadFails, RaFlush, ReadAheadIOFailed, IsMergeBeginError
  <2>3. CASE RaInit \/ RaHead \/ RaRead \/ WaitForMergeReady \/ RaCopy \/ RaMap \/ RaMark \/ RaWakes
      BY <2>3 DEF RaInit, RaHead, RaRead, WaitForMergeReady, RaCopy, RaMap, RaMark, RaWakes,
                  IsMergeBeginError
  <2> QED BY <2>1, <2>2, <2>3 DEF RaThread, RaStep
<1>5. Astray => Astray'
    BY <1>1, <1>4 DEF Astray, mVars
<1>6. ASSUME raPc \notin Refilling \cup {"reconstruct", "flush", "mark", "announce"}
      PROVE  /\ UNCHANGED <<scratch, toMerge, header, headerDisk>>
             /\ io' = io \/ io' # "MERGE_BEGIN"
    BY <1>6 DEF RaThread, RaStep, RaInit, RaHead, Reconstruct, RaRead, RaReadFails,
                WaitForMergeReady, RaCopy, RaMap, RaFlush, RaMark, RaAnnounce, RaWakes,
                ReadAheadIOFailed, disks, headerVars, scratchVars, Refilling
<1>7. mPc \in InWindow => raPc \notin Refilling \cup {"reconstruct", "flush", "mark", "announce"}
    BY WindowInHand
<1>8. ASSUME Begun', ~RaAnnounce PROVE Begun /\ UNCHANGED <<scratch, toMerge, header, headerDisk>>
  <2>1. ra_thread' = ra_thread BY <1>1 DEF ra_thread
  <2>2. io = "MERGE_BEGIN"
    <3>1. CASE io' = io BY <1>8, <3>1 DEF Begun
    <3>2. CASE io' # io
      <4>1. io' = "READ_AHEAD_FAILURE"
          BY <1>8, <3>2 DEF RaThread, RaStep, RaInit, RaHead, Reconstruct, RaRead, RaReadFails,
                WaitForMergeReady, RaCopy, RaMap, RaFlush, RaMark, RaWakes, ReadAheadIOFailed
      <4> QED BY <1>8, <4>1 DEF Begun
    <3> QED BY <3>1, <3>2
  <2>3. raPc \notin Refilling \cup {"reconstruct", "flush", "mark", "announce"}
      BY <1>0, <2>2, OneHasTheWindow
  <2> QED BY <1>6, <1>8, <2>1, <2>2, <2>3 DEF Begun
<1> QED BY <1>1, <1>2, <1>3, <1>5, <1>6, <1>7, <1>8 DEF MStays

LEMMA OthersLeaveM ==
    HeaderReachesDisk /\ MergeInv /\ [Next]_vars =>
        Join \/ Crash \/ Boot \/ RaWaitEnds \/ MThread \/ MStays
<1> SUFFICES ASSUME HeaderReachesDisk, MergeInv, [Next]_vars
             PROVE  Join \/ Crash \/ Boot \/ RaWaitEnds \/ MThread \/ MStays
    OBVIOUS
<1>0. Typed /\ Handshake /\ OnlyReplaces BY DEF MergeInv, DataInv, MData
<1>1. ASSUME UNCHANGED <<disks, mVars, start, complete, group, toMerge>>,
             main' = main \/ (main = "serving" /\ main' = "joining" /\ ~Begun'),
             IsMergeBeginError /\ ra_thread => IsMergeBeginError', Begun' => Begun
      PROVE  MStays
  <2>1. MFirst' = MFirst
      BY <1>1 DEF MFirst, mVars
  <2>2. Astray => Astray'
    <3>1. Astray => ra_thread
        BY <1>0, Fields, Sizes DEF Astray, OnlyReplaces
    <3> QED BY <1>1, <3>1 DEF Astray, mVars
  <2> QED BY <1>1, <2>1, <2>2 DEF MStays, disks, baseVars, headerVars, scratchVars
<1>2. CASE InitiateMerge
  <2>1. UNCHANGED <<disks, mVars, start, complete, group, toMerge, main>>
        /\ io' = (IF ra_thread THEN io ELSE "MERGE_BEGIN")
      BY <1>2 DEF InitiateMerge, groups
  <2>2. (ra_thread)' = ra_thread BY <2>1 DEF ra_thread
  <2> QED BY <1>1, <2>1, <2>2 DEF IsMergeBeginError, Begun
<1>3. CASE Pause
  <2>1. UNCHANGED <<disks, mVars, start, complete, group, toMerge, main, io>>
      BY <1>3 DEF Pause, groups
  <2>2. (ra_thread)' = ra_thread BY <2>1 DEF ra_thread
  <2> QED BY <1>1, <2>1, <2>2 DEF IsMergeBeginError, Begun
<1>4. CASE NotifyIOTerminated
  <2>1. UNCHANGED <<disks, mVars, start, complete, group, toMerge>> /\ io' = "IO_TERMINATED"
        /\ (main' = main \/ (main = "serving" /\ main' = "joining"))
      BY <1>4 DEF NotifyIOTerminated, groups
  <2> QED BY <1>1, <2>1 DEF IsMergeBeginError, Begun
<1>5. CASE UNCHANGED <<disks, boot, io, toMerge, map, bufferLock, raVars, mVars, group>>
  <2>1. UNCHANGED <<disks, mVars, start, complete, group, toMerge, main, io>>
      BY <1>5 DEF boot
  <2>2. (ra_thread)' = ra_thread BY <2>1 DEF ra_thread
  <2> QED BY <1>1, <2>1, <2>2 DEF IsMergeBeginError, Begun
<1> QED BY <1>2, <1>3, <1>4, <1>5, RaStays, Movers DEF MainQuiet

(* FallBack, in the terms of the invariant.                                *)
LEMMA FallsBack ==
    FallBack => \/ /\ mPc' = "head" /\ mPos' = mPos - (slot - 1) /\ UNCHANGED <<io, group>>
                   /\ slot' = 1
                \/ /\ mPc' = "done" /\ io' = "MERGE_FAILED" /\ SetGroup("FAILED")
                   /\ UNCHANGED <<mPos, slot>>
BY DEF FallBack, MergeFailed

LEMMA MergeThreadIsUp ==
    Typed /\ MThread => mPc # "done" /\ main # "waitRa" /\ main' = main /\ start' = start
                        /\ (ra_thread)' = ra_thread /\ UNCHANGED <<scratch, toMerge>>
<1>1. MThread => mPc # "done"
    BY DEF MThread, MStep, MRun, WaitForMergeBegin, MLock, MDrain, MWrite, MSync,
           MFails, MCommit, MClear, MFlush, MFlushFails, SetMergeCompleted,
           NotifyRAForMergeReady, MWakes, MReplaceBegin, MReplace, MReplaceCommit,
           MReplaceFails, MReplaced, MergeCompleted
<1> QED BY <1>1, Fields, MFrame DEF ra_thread

LEMMA OnlyReplacesStep ==
    HeaderReachesDisk /\ MergeInv /\ [Next]_vars => OnlyReplaces'
<1> SUFFICES ASSUME HeaderReachesDisk, MergeInv, [Next]_vars PROVE OnlyReplaces'
    OBVIOUS
<1>0. OnlyReplaces /\ Typed BY DEF MergeInv, DataInv, MData
<1> USE DEF InWindow
<1>1. ASSUME mPc' \in InReplaces \cup {"done", "run"} PROVE OnlyReplaces'
    BY <1>1 DEF OnlyReplaces, InReplaces
<1>2. CASE Join \/ Crash
    BY <1>1, <1>2, EndsAll
<1>3. CASE Boot
    BY <1>0, <1>1, <1>3, Fields DEF Boot, Launch
<1>4. CASE RaWaitEnds
    BY <1>1, <1>4 DEF RaWaitEnds, Launch
<1>5. CASE MStays
    BY <1>0, <1>5 DEF MStays, OnlyReplaces, mVars, ra_thread
<1>6. CASE MThread
  <2>1. start' = start /\ ra_thread' = ra_thread BY <1>6, MFrame DEF ra_thread
  <2>2. CASE ra_thread
      BY <2>1, <2>2 DEF OnlyReplaces
  <2>3. CASE ~ra_thread
    <3>1. CASE MRun
      <4>1. mPc' = "done" \/ (mPc' = "head" /\ mPos' = start[1] + 1)
          BY <3>1 DEF MRun, MergeFailed
      <4>2. mPc' = "head" => mPos' > N
        <5>1. start[1] \in Nat /\ N \in Nat
            BY <1>0, Numbers
        <5>2. ~(start[1] < N)
            BY <2>3 DEF ra_thread
        <5> QED BY <4>1, <5>1, <5>2
      <4>3. mPc' \notin InWindow \cup {"asleep"}
          BY <4>1
      <4> QED BY <4>2, <4>3 DEF OnlyReplaces
    <3>2. CASE MWakes \/ MReplaceBegin \/ MReplace \/ MReplaceFails \/ MReplaced \/ MergeCompleted
      <4>1. mPc # "asleep" BY <1>0, <2>3 DEF OnlyReplaces
      <4>2. mPc' \in InReplaces \cup {"done"}
          BY <3>2, <4>1 DEF MWakes, MReplaceBegin, MReplace, MReplaceFails, MReplaced,
                            MergeCompleted, MergeFailed, InReplaces
      <4> QED BY <1>1, <4>2
    <3>3. CASE MReplaceCommit
        BY <1>1, <3>3, HeaderIsSynced DEF InReplaces
    <3>4. ~WaitForMergeBegin
        BY <1>0, <2>3, Fields, Sizes DEF WaitForMergeBegin, OnlyReplaces
    <3>5. ~(MLock \/ MDrain \/ MWrite \/ MSync \/ MFails \/ MCommit \/ MClear \/ MFlush \/ MFlushFails
            \/ SetMergeCompleted \/ NotifyRAForMergeReady)
        BY <1>0, <2>3 DEF OnlyReplaces, MLock, MDrain, MWrite, MSync, MFails, MCommit, MClear,
                          MFlush, MFlushFails, SetMergeCompleted, NotifyRAForMergeReady
    <3> QED BY <1>6, <3>1, <3>2, <3>3, <3>4, <3>5 DEF MThread, MStep
  <2> QED BY <2>2, <2>3
<1> QED BY <1>2, <1>3, <1>4, <1>5, <1>6, OthersLeaveM

(* The headers count what is before the window the merge thread is at.     *)
LEMMA AlignedStep ==
    HeaderReachesDisk /\ MergeInv /\ [Next]_vars => Aligned'
<1> SUFFICES ASSUME HeaderReachesDisk, MergeInv, [Next]_vars PROVE Aligned'
    OBVIOUS
<1>0. Aligned /\ Counts /\ Merges /\ Typed BY DEF MergeInv, DataInv, MData
<1>2. CASE Join \/ Crash
    BY <1>2, EndsAll DEF Aligned, BeforeCommit
<1>3. CASE Boot
  <2>1. main = "down" /\ start' = header /\ UNCHANGED headerVars
        /\ (main' = "waitRa" \/ mPc' = "run")
      BY <1>3 DEF Boot, Launch, disks
  <2>2. mPc = "done" BY <1>0, <2>1, Fields
  <2>3. header[1] = headerDisk[1] BY <1>0, <2>2 DEF Counts
  <2>4. MFirst' = header[1] + 1 BY <2>1 DEF MFirst
  <2> QED BY <1>0, <2>1, <2>3, <2>4, Fields DEF Aligned, headerVars
<1>4. CASE RaWaitEnds
  <2>1. main = "waitRa" /\ mPc' = "run" /\ UNCHANGED <<start, headerVars>>
      BY <1>4 DEF RaWaitEnds, Launch, disks
  <2>2. MFirst' = start[1] + 1 /\ MFirst = start[1] + 1 BY <2>1 DEF MFirst
  <2> QED BY <1>0, <2>1, <2>2 DEF Aligned, headerVars
<1>5. CASE MStays
    BY <1>0, <1>5 DEF MStays, Aligned, mVars
<1>6. CASE MThread
  <2>3. main # "waitRa" /\ main' # "waitRa" /\ start' = start
      BY <1>0, <1>6, MergeThreadIsUp
  <2>4. ASSUME mPc' \notin BeforeCommit PROVE Aligned'
      BY <2>3, <2>4 DEF Aligned
  <2>5. ASSUME mPc \in BeforeCommit, ~Astray, UNCHANGED headerVars, MFirst' = MFirst PROVE Aligned'
      BY <1>0, <2>5 DEF Aligned, headerVars
  <2>6. mPos \in Nat /\ slot \in Nat BY <1>0, Fields
  <2> USE DEF InWrite, BeforeCommit, InReplaces
  <2>7. CASE MRun
    <3>1. mPc = "run" /\ (mPc' = "done" \/ (mPc' = "head" /\ mPos' = start[1] + 1))
          /\ UNCHANGED headerVars
        BY <2>7 DEF MRun, MergeFailed
    <3>2. mPc' = "head" => MFirst' = MFirst
        BY <2>3, <3>1 DEF MFirst
    <3> QED BY <2>4, <2>5, <3>1, <3>2 DEF Astray
  <2>8. CASE WaitForMergeBegin
    <3>1. mPc = "head" /\ mPos <= N /\ UNCHANGED headerVars
          /\ ((~IsMergeBeginError /\ mPc' = "lock" /\ mPos' = mPos)
              \/ (IsMergeBeginError /\ FallBack))
        BY <2>8 DEF WaitForMergeBegin
    <3>2. CASE ~IsMergeBeginError /\ mPc' = "lock" /\ mPos' = mPos
        BY <2>3, <2>5, <3>1, <3>2 DEF Astray, MFirst
    <3>3. CASE IsMergeBeginError /\ mPc' = "head" /\ mPos' = mPos - (slot - 1) /\ io' = io
      <4>1. mPos' <= N BY <1>0, <2>6, <3>1, <3>3, Fields, Sizes
      <4>2. Astray' BY <3>3, <4>1 DEF Astray, IsMergeBeginError
      <4> QED BY <2>3, <4>2 DEF Aligned
    <3>4. CASE mPc' = "done"
        BY <2>4, <3>4
    <3> QED BY <3>1, <3>2, <3>3, <3>4, FallsBack
  <2>9. CASE MLock
    <3>1. mPc = "lock" /\ mPc' \in {"write", "drain"} /\ slot' = 1 /\ mPos' = mPos
          /\ UNCHANGED headerVars
        BY <2>9 DEF MLock
    <3>2. MFirst = mPos /\ MFirst' = mPos - 1 + 1
        BY <2>3, <3>1 DEF MFirst
    <3> QED BY <2>5, <2>6, <3>1, <3>2 DEF Astray
  <2>10. CASE MDrain \/ MSync
    <3>1. mPc \in {"drain", "write"} /\ mPc' \in {"write", "commit"} /\ UNCHANGED <<slot, mPos, headerVars>>
        BY <2>10 DEF MDrain, MSync
    <3> QED BY <2>3, <2>5, <3>1 DEF Astray, MFirst
  <2>11. CASE MWrite
    <3>1. mPc = "write" /\ mPc' = "write" /\ slot' = slot + 1 /\ mPos' = mPos + 1 /\ UNCHANGED headerVars
        BY <2>11 DEF MWrite
    <3>2. mPos' - slot' + 1 = mPos - slot + 1 BY <2>6, <3>1
    <3> QED BY <2>3, <2>5, <3>1, <3>2 DEF Astray, MFirst
  <2>12. CASE MFails
    <3>1. mPc = "write" /\ FallBack /\ UNCHANGED headerVars
        BY <2>12 DEF MFails
    <3>2. CASE mPc' = "head" /\ mPos' = mPos - (slot - 1)
      <4>1. MFirst' = MFirst BY <2>3, <2>6, <3>1, <3>2 DEF MFirst
      <4> QED BY <2>5, <3>1, <4>1 DEF Astray
    <3>3. CASE mPc' = "done"
        BY <2>4, <3>3
    <3> QED BY <3>1, <3>2, <3>3, FallsBack
  <2>13. CASE MCommit \/ MClear \/ MFlush \/ SetMergeCompleted
    <3>1. mPc' \in {"clear", "flush", "finish", "notify"}
        BY <2>13 DEF MCommit, MClear, MFlush, SetMergeCompleted
    <3> QED BY <2>4, <3>1
  <2>14. CASE NotifyRAForMergeReady
    <3>1. mPc = "notify" /\ mPc' \in {"asleep", "head"} /\ mPos' = mPos /\ UNCHANGED headerVars
        BY <2>14 DEF NotifyRAForMergeReady
    <3>2. header[1] = mPos - 1 /\ headerDisk[1] = mPos - 1
        BY <1>0, <3>1 DEF Merges
    <3>3. MFirst' = mPos BY <2>3, <3>1 DEF MFirst
    <3> QED BY <3>1, <3>2, <3>3 DEF Aligned, headerVars
  <2>15. CASE MWakes
    <3>1. (mPc = "asleep" /\ mPc' = "head") \/ mPc' = "replace"
        BY <2>15 DEF MWakes
    <3>2. UNCHANGED headerVars /\ mPos' = mPos
        BY <2>15 DEF MWakes
    <3>3. mPc = "asleep" /\ mPc' = "head" => MFirst' = MFirst
        BY <2>3, <3>2 DEF MFirst
    <3> QED BY <2>4, <2>5, <3>1, <3>2, <3>3 DEF Astray
  <2>16. CASE MReplaceBegin \/ MReplace \/ MReplaceFails \/ MReplaced \/ MergeCompleted
    <3>1. mPc' \in {"replace", "replaced", "replaceCommit", "dozing", "done"}
        BY <2>16 DEF MReplaceBegin, MReplace, MReplaceFails, MReplaced, MergeCompleted, MergeFailed
    <3> QED BY <2>4, <3>1
  <2>17. CASE MReplaceCommit
      BY <2>4, <2>17, HeaderIsSynced
  <2>18. ~MFlushFails BY HeaderIsSynced
  <2> QED BY <1>6, <2>7, <2>8, <2>9, <2>10, <2>11, <2>12, <2>13, <2>14, <2>15, <2>16, <2>17, <2>18
          DEF MThread, MStep
<1> QED BY <1>2, <1>3, <1>4, <1>5, <1>6, OthersLeaveM

LEMMA HasWindowStep ==
    HeaderReachesDisk /\ MergeInv /\ [Next]_vars => HasWindow'
<1> SUFFICES ASSUME HeaderReachesDisk, MergeInv, [Next]_vars PROVE HasWindow'
    OBVIOUS
<1>0. HasWindow /\ OnlyReplaces /\ Aligned /\ Ended /\ Typed /\ Handshake
    BY DEF MergeInv, DataInv, MData
<1>1. ASSUME mPc' \notin InWindow, ~Begun' PROVE HasWindow'
    BY <1>1 DEF HasWindow
<1> USE DEF InWindow
<1>2. CASE Join \/ Crash
    BY <1>1, <1>2, EndsAll DEF Begun
<1>3. CASE Boot
  <2>1. io' = "MERGE_READY" /\ (mPc' = "run" \/ mPc' = mPc) /\ main = "down"
      BY <1>3 DEF Boot, Launch
  <2> QED BY <1>0, <1>1, <2>1, Fields DEF Begun
<1>4. CASE RaWaitEnds
  <2>1. main = "waitRa" /\ mPc' = "run"
        /\ UNCHANGED <<start, scratch, header, headerDisk, toMerge, io>>
      BY <1>4 DEF RaWaitEnds, Launch, disks, headerVars, scratchVars
  <2>2. MFirst' = start[1] + 1 /\ MFirst = start[1] + 1 BY <2>1 DEF MFirst
  <2>3. Begun' = Begun BY <2>1 DEF Begun, ra_thread
  <2>4. mPc = "done" BY <1>0, <2>1, Fields
  <2> QED BY <1>0, <2>1, <2>2, <2>3, <2>4 DEF HasWindow
<1>5. CASE MStays
  <2>1. CASE mPc \in InWindow
    <3>1. UNCHANGED <<mVars, scratch, toMerge, header, headerDisk>> /\ MFirst' = MFirst
        BY <1>5, <2>1 DEF MStays
    <3> QED BY <1>0, <2>1, <3>1 DEF HasWindow, mVars
  <2>2. CASE mPc \notin InWindow /\ Begun /\ UNCHANGED <<scratch, toMerge, header, headerDisk>>
    <3>1. mPc' = mPc /\ MFirst' = MFirst /\ (main' = main \/ ~Begun')
        BY <1>5 DEF MStays, mVars
    <3> QED BY <1>0, <1>1, <2>2, <3>1 DEF HasWindow
  <2>3. CASE mPc \notin InWindow /\ Begun' /\ RaAnnounce
    <3>1. mPc' = mPc /\ MFirst' = MFirst /\ (main' = main \/ ~Begun')
        BY <1>5 DEF MStays, mVars
    <3>2. raPc = "announce" /\ headerDisk' = header /\ UNCHANGED <<header, scratch, toMerge>>
          /\ io \notin {"IO_TERMINATED", "MERGE_FAILED"}
        BY <2>3 DEF RaAnnounce, ReadAheadIOFailed, scratchVars, Begun
    <3>3. Holds(scratch, header[1], toMerge) /\ header[1] < N /\ ra_thread /\ headerDisk[1] = header[1]
        BY <1>0, <3>2, AnnouncedIsNext, OneHasTheWindow
    <3>4. header[2]
        BY <3>2 DEF MergeInv, DataInv, RaData, Announces
    <3>5. io \notin {"READ_AHEAD_FAILURE", "MERGE_COMPLETE"}
        BY <1>0, <3>2, <3>3, Fields, Sizes DEF Ended
    <3>6. main = "waitRa" \/ mPc # "done"
        BY <1>0, <3>2, <3>3, <3>5, Fields DEF Ended, Typed, BootTyped
    <3>7. mPc \notin InReplaces
        BY <1>0, <3>3, Fields, Sizes DEF MergeInv, DataInv, MData, MergesReplaces
    <3>8. main = "waitRa" \/ mPc \in {"run", "head", "asleep"}
        BY <1>0, <2>3, <3>6, <3>7 DEF Typed, MTyped, InReplaces
    <3>9. ~Astray
        BY <3>2, <3>5 DEF Astray, IsMergeBeginError
    <3>10. header[1] = MFirst - 1
        BY <1>0, <3>8, <3>9 DEF Aligned, BeforeCommit
    <3>11. Holds(scratch, MFirst - 1, toMerge) BY <3>3, <3>10
    <3> QED BY <3>1, <3>2, <3>4, <3>8, <3>11 DEF HasWindow
  <2>4. mPc' = mPc /\ (Begun' => RaAnnounce \/ (Begun /\ UNCHANGED <<scratch, toMerge, header, headerDisk>>))
      BY <1>5 DEF MStays, mVars
  <2> QED BY <1>1, <2>1, <2>2, <2>3, <2>4
<1>6. CASE MThread
  <2>1. main # "waitRa" /\ main' = main /\ start' = start /\ ra_thread' = ra_thread
        /\ UNCHANGED <<scratch, toMerge>>
      BY <1>0, <1>6, MergeThreadIsUp
  <2>2. ASSUME mPc \in InWindow \/ Begun, mPc' \in InWindow \cup {"run", "head", "asleep"},
               UNCHANGED headerVars, MFirst' = MFirst,
               mPc' \notin {"clear", "flush", "finish", "notify"}
                 => mPc \notin {"clear", "flush", "finish", "notify"}
        PROVE  HasWindow'
      BY <1>0, <2>1, <2>2 DEF HasWindow, headerVars
  <2>3. ASSUME mPc \in InWindow, mPc' \in {"clear", "flush", "finish", "notify"}, MFirst' = MFirst
        PROVE  HasWindow'
      BY <1>0, <2>1, <2>3 DEF HasWindow
  <2>4. ASSUME io' = io, mPc' \notin InWindow, ~Begun PROVE HasWindow'
      BY <1>1, <2>1, <2>4 DEF Begun
  <2>5. mPos \in Nat /\ slot \in Nat BY <1>0, Fields
  <2>6. Begun => mPc \in InWindow \cup {"run", "head", "asleep"}
      BY <1>0, <2>1 DEF HasWindow
  <2> USE DEF InWrite
  <2>7. CASE MRun
    <3>1. mPc = "run" /\ UNCHANGED headerVars
          /\ \/ io' = io /\ mPc' = "head" /\ mPos' = start[1] + 1
             \/ mPc' = "done" /\ io' # "MERGE_BEGIN"
        BY <2>7 DEF MRun, MergeFailed, IsMergeBeginError
    <3>2. mPc' = "head" /\ mPos' = start[1] + 1 => MFirst' = MFirst
        BY <2>1, <3>1 DEF MFirst
    <3> QED BY <1>1, <2>2, <2>4, <3>1, <3>2 DEF Begun
  <2>8. CASE WaitForMergeBegin
    <3>1. mPc = "head" /\ mPos <= N /\ UNCHANGED headerVars
          /\ ((io = "MERGE_BEGIN" /\ mPc' = "lock" /\ mPos' = mPos)
              \/ (IsMergeBeginError /\ FallBack))
        BY <2>8 DEF WaitForMergeBegin
    <3>2. CASE io = "MERGE_BEGIN" /\ mPc' = "lock" /\ mPos' = mPos
      <4>1. Begun BY <1>0, <2>5, <3>1, <3>2, Sizes DEF OnlyReplaces, Begun
      <4>2. MFirst' = MFirst BY <2>1, <3>1, <3>2 DEF MFirst
      <4> QED BY <2>2, <3>1, <3>2, <4>1, <4>2
    <3>3. CASE IsMergeBeginError /\ FallBack
        BY <1>1, <3>3, FallsBack DEF IsMergeBeginError, Begun
    <3> QED BY <3>1, <3>2, <3>3
  <2>9. CASE MLock
    <3>1. mPc = "lock" /\ mPc' \in {"write", "drain"} /\ slot' = 1 /\ mPos' = mPos
          /\ UNCHANGED headerVars
        BY <2>9 DEF MLock
    <3>2. MFirst = mPos /\ MFirst' = mPos - 1 + 1
        BY <2>1, <3>1 DEF MFirst
    <3> QED BY <2>2, <2>5, <3>1, <3>2
  <2>10. CASE MDrain \/ MSync
    <3>1. mPc \in {"drain", "write"} /\ mPc' \in {"write", "commit"} /\ UNCHANGED <<slot, mPos, headerVars>>
        BY <2>10 DEF MDrain, MSync
    <3>2. MFirst' = MFirst BY <2>1, <3>1 DEF MFirst
    <3> QED BY <2>2, <3>1, <3>2
  <2>11. CASE MWrite
    <3>1. mPc = "write" /\ mPc' = "write" /\ slot' = slot + 1 /\ mPos' = mPos + 1 /\ UNCHANGED headerVars
        BY <2>11 DEF MWrite
    <3>2. mPos' - slot' + 1 = mPos - slot + 1 BY <2>5, <3>1
    <3>3. MFirst' = MFirst BY <2>1, <3>1, <3>2 DEF MFirst
    <3> QED BY <2>2, <3>1, <3>3
  <2>12. CASE MFails
    <3>1. mPc = "write" /\ FallBack /\ UNCHANGED headerVars
        BY <2>12 DEF MFails
    <3>2. CASE mPc' = "head" /\ mPos' = mPos - (slot - 1)
      <4>1. MFirst' = MFirst BY <2>1, <2>5, <3>1, <3>2 DEF MFirst
      <4> QED BY <2>2, <3>1, <3>2, <4>1
    <3>3. CASE mPc' = "done" /\ io' = "MERGE_FAILED"
        BY <1>1, <3>3 DEF Begun
    <3> QED BY <3>1, <3>2, <3>3, FallsBack
  <2>13. CASE MCommit \/ MClear \/ MFlush \/ SetMergeCompleted
    <3>1. mPc \in {"commit", "clear", "flush", "finish"} /\ UNCHANGED <<mPos, slot>>
          /\ mPc' \in {"clear", "flush", "finish", "notify"}
        BY <2>13 DEF MCommit, MClear, MFlush, SetMergeCompleted
    <3>2. MFirst' = MFirst BY <2>1, <3>1 DEF MFirst
    <3> QED BY <2>3, <3>1, <3>2
  <2>14. CASE NotifyRAForMergeReady
    <3>1. mPc' \in {"asleep", "head"} /\ io' # "MERGE_BEGIN"
        BY <2>14 DEF NotifyRAForMergeReady, IsMergeBeginError
    <3> QED BY <1>1, <3>1 DEF Begun
  <2>15. CASE MWakes
    <3>1. io' = io /\ UNCHANGED headerVars /\ mPos' = mPos
          /\ ((mPc = "asleep" /\ mPc' = "head") \/ (mPc = "dozing" /\ mPc' = "replace"))
        BY <2>15 DEF MWakes
    <3>2. mPc = "asleep" /\ mPc' = "head" => MFirst' = MFirst
        BY <2>1, <3>1 DEF MFirst
    <3> QED BY <2>2, <2>4, <2>6, <3>1, <3>2
  <2>16. CASE MReplaceBegin
    <3>1. mPc = "head" /\ mPos > N /\ mPc' = "replace" /\ io' = io
        BY <2>16 DEF MReplaceBegin
    <3>2. MFirst = mPos BY <2>1, <3>1 DEF MFirst
    <3>3. ~Holds(scratch, MFirst - 1, toMerge)
        BY <2>5, <3>1, <3>2, HoldsBounds, Sizes
    <3>4. ~Begun BY <1>0, <3>3 DEF HasWindow
    <3> QED BY <2>4, <3>1, <3>4
  <2>17. CASE MReplace \/ MReplaceFails \/ MReplaced \/ MergeCompleted
    <3>1. mPc \in InReplaces /\ mPc' \in {"replace", "replaced", "replaceCommit", "dozing", "done"}
          /\ (io' = io \/ io' # "MERGE_BEGIN")
        BY <2>17 DEF MReplace, MReplaceFails, MReplaced, MergeCompleted, MergeFailed, InReplaces
    <3> QED BY <1>1, <2>1, <2>6, <3>1 DEF Begun, InReplaces
  <2>18. CASE MReplaceCommit
    <3>1. mPc = "replaceCommit" BY <2>18 DEF MReplaceCommit
    <3> QED BY <2>4, <2>6, <2>18, <3>1, HeaderIsSynced
  <2>19. ~MFlushFails BY HeaderIsSynced
  <2> QED BY <1>6, <2>7, <2>8, <2>9, <2>10, <2>11, <2>12, <2>13, <2>14, <2>15, <2>16, <2>17, <2>18,
             <2>19 DEF MThread, MStep
<1> QED BY <1>2, <1>3, <1>4, <1>5, <1>6, OthersLeaveM

(* What is written of the window, in the page cache, on disk, and counted. *)
LEMMA MergesStep ==
    HeaderReachesDisk /\ MergeInv /\ [Next]_vars => Merges'
<1> SUFFICES ASSUME HeaderReachesDisk, MergeInv, [Next]_vars PROVE Merges'
    OBVIOUS
<1>0. Merges /\ HasWindow /\ Aligned /\ Typed /\ Handshake BY DEF MergeInv, DataInv, MData
<1>1. ASSUME mPc' \notin InWindow \ {"lock"} PROVE Merges'
    BY <1>1 DEF Merges, InWindow
<1> USE DEF InWindow
<1>2. CASE Join \/ Crash
    BY <1>1, <1>2, EndsAll
<1>3. CASE Boot
    BY <1>0, <1>1, <1>3, Fields DEF Boot, Launch
<1>4. CASE RaWaitEnds
    BY <1>1, <1>4 DEF RaWaitEnds, Launch
<1>5. CASE MStays
  <2>1. UNCHANGED <<mVars, base, baseDisk>> /\ MFirst' = MFirst BY <1>5 DEF MStays
  <2>2. CASE mPc \in InWindow
    <3>1. UNCHANGED <<toMerge, header, headerDisk>> BY <1>5, <2>2 DEF MStays
    <3> QED BY <1>0, <2>1, <3>1 DEF Merges, mVars
  <2>3. CASE mPc \notin InWindow
      BY <1>1, <2>1, <2>3 DEF mVars
  <2> QED BY <2>2, <2>3
<1>6. CASE MThread
  <2>1. main # "waitRa" /\ main' = main /\ UNCHANGED <<scratch, toMerge>>
      BY <1>0, <1>6, MergeThreadIsUp
  <2>2. mPos \in Nat /\ slot \in Nat /\ toMerge \in Nat BY <1>0, Fields
  <2>3. \A pc \in {"write", "commit"} : mPc = pc => MFirst = mPos - slot + 1
      BY <2>1 DEF MFirst, InWrite
  <2>4. \A pc \in {"write", "commit"} : mPc' = pc => MFirst' = mPos' - slot' + 1
      BY <2>1 DEF MFirst, InWrite
  <2>5. CASE MLock
    <3>1. mPc = "lock" /\ mPc' \in {"write", "drain"} /\ slot' = 1 /\ mPos' = mPos
        BY <2>5 DEF MLock
    <3>2. mPc' = "write" => MFirst' = mPos BY <2>2, <2>4, <3>1
    <3> QED BY <2>1, <2>2, <3>1, <3>2 DEF Merges
  <2>6. CASE MDrain
    <3>1. mPc = "drain" /\ mPc' = "write" /\ UNCHANGED <<slot, mPos>>
        BY <2>6 DEF MDrain
    <3>2. slot = 1 BY <1>0, <3>1 DEF Merges
    <3>3. MFirst' = mPos BY <2>2, <2>4, <3>1, <3>2
    <3> QED BY <2>1, <2>2, <3>1, <3>2, <3>3 DEF Merges
  <2>7. CASE MWrite
    <3> DEFINE new == Ops[mPos].new
    <3>1. mPc = "write" /\ mPc' = "write" /\ slot <= toMerge /\ mPos <= N
          /\ base' = [base EXCEPT ![new] = scratch[slot][2]]
          /\ slot' = slot + 1 /\ mPos' = mPos + 1
        BY <2>7 DEF MWrite
    <3>2. Holds(scratch, MFirst - 1, toMerge) /\ MFirst = mPos - slot + 1 /\ MFirst - 1 \in Nat
        BY <3>1, WindowInHand
    <3>3. slot \in 1 .. toMerge /\ (MFirst - 1) + slot = mPos /\ mPos \in 1 .. N
        BY <1>0, <2>2, <3>1, <3>2, Fields, Sizes
    <3>4. scratch[slot] = <<new, Updated[new]>> BY <3>2, <3>3 DEF Holds
    <3>5. scratch[slot][2] = Updated[new] BY <3>4
    <3>6. \A b \in Blocks : base'[b] = IF b = new THEN Updated[b] ELSE base[b]
        BY <1>0, <3>1, <3>5 DEF Typed, DisksTyped
    <3>7. new \in Blocks BY <3>3, OpTyped
    <3>8. MFirst' = MFirst
        BY <2>2, <2>4, <3>1, <3>2
    <3>9. ASSUME NEW i \in MFirst .. mPos PROVE base'[Ops[i].new] = Updated[Ops[i].new]
      <4>1. i \in 1 .. N BY <3>2, <3>3, <3>9, <2>2, Sizes
      <4>2. Ops[i].new \in Blocks BY <4>1, OpTyped
      <4>3. CASE i = mPos BY <3>6, <3>7, <4>3
      <4>4. CASE i # mPos
        <5>1. i \in MFirst .. mPos - 1 BY <2>2, <3>2, <3>9, <4>4
        <5>2. base[Ops[i].new] = Updated[Ops[i].new] BY <1>0, <3>1, <5>1 DEF Merges
        <5> QED BY <3>6, <4>2, <5>2
      <4> QED BY <4>3, <4>4
    <3>10. mPos' - 1 = mPos /\ slot' <= toMerge + 1
        BY <2>2, <3>1
    <3> QED BY <2>1, <3>1, <3>8, <3>9, <3>10 DEF Merges
  <2>8. CASE MSync
    <3>1. mPc = "write" /\ mPc' = "commit" /\ slot > toMerge /\ baseDisk' = base
          /\ UNCHANGED <<base, slot, mPos>>
        BY <2>8 DEF MSync, Fsync
    <3>2. MFirst' = MFirst BY <2>3, <2>4, <3>1
    <3>3. slot <= toMerge + 1 BY <1>0, <3>1 DEF Merges
    <3>4. slot = toMerge + 1 BY <2>2, <3>1, <3>3
    <3>5. \A i \in MFirst .. mPos - 1 : base[Ops[i].new] = Updated[Ops[i].new]
        BY <1>0, <3>1 DEF Merges
    <3> QED BY <2>1, <3>1, <3>2, <3>4, <3>5 DEF Merges
  <2>9. CASE MCommit
    <3>1. mPc = "commit" /\ mPc' = "clear" /\ UNCHANGED <<slot, mPos, headerDisk>>
          /\ header' = <<header[1] + toMerge, header[2]>>
        BY <2>9 DEF MCommit
    <3>2. slot = toMerge + 1 /\ header[1] + toMerge = mPos - 1 /\ header[2] /\ headerDisk[2]
          /\ headerDisk[1] = MFirst - 1
        BY <3>1, CommitsWindow
    <3>3. MFirst' = MFirst BY <2>1, <3>1 DEF MFirst, InWrite
    <3>4. header'[1] = mPos - 1 /\ header'[2] = header[2] BY <3>1, <3>2
    <3> QED BY <2>1, <3>1, <3>2, <3>3, <3>4 DEF Merges
  <2>10. CASE MClear
    <3>1. mPc = "clear" /\ mPc' = "flush" /\ UNCHANGED <<slot, mPos, headerDisk>>
          /\ header' = <<header[1], FALSE>>
        BY <2>10 DEF MClear
    <3>2. MFirst' = MFirst BY <2>1, <3>1 DEF MFirst, InWrite
    <3>3. header'[1] = header[1] BY <3>1
    <3> QED BY <1>0, <2>1, <3>1, <3>2, <3>3 DEF Merges
  <2>11. CASE MFlush
    <3>1. mPc = "flush" /\ mPc' = "finish" /\ UNCHANGED <<slot, mPos, header>> /\ headerDisk' = header
        BY <2>11 DEF MFlush
    <3>2. ~header[2] BY <1>0, <3>1 DEF Handshake, LockStep
    <3> QED BY <1>0, <2>1, <3>1, <3>2 DEF Merges
  <2>12. CASE SetMergeCompleted
    <3>1. mPc = "finish" /\ mPc' = "notify" /\ UNCHANGED <<slot, mPos, headerVars>>
        BY <2>12 DEF SetMergeCompleted
    <3> QED BY <1>0, <2>1, <3>1 DEF Merges, headerVars
  <2>13. CASE MRun \/ WaitForMergeBegin \/ MFails
      BY <1>1, <2>13, FallsBack DEF MRun, MergeFailed, WaitForMergeBegin, MFails
  <2>14. CASE NotifyRAForMergeReady \/ MWakes \/ MReplaceBegin
      BY <1>1, <2>14 DEF NotifyRAForMergeReady, MWakes, MReplaceBegin
  <2>15. CASE MReplace \/ MReplaceFails \/ MReplaced \/ MergeCompleted
      BY <1>1, <2>15 DEF MReplace, MReplaceFails, MReplaced, MergeCompleted, MergeFailed
  <2>16. CASE MReplaceCommit
      BY <1>1, <2>16, HeaderIsSynced
  <2>17. ~MFlushFails BY HeaderIsSynced
  <2> QED BY <1>6, <2>5, <2>6, <2>7, <2>8, <2>9, <2>10, <2>11, <2>12, <2>13, <2>14, <2>15, <2>16,
             <2>17 DEF MThread, MStep
<1> QED BY <1>2, <1>3, <1>4, <1>5, <1>6, OthersLeaveM

(* The replace and zero operations of the batch not yet committed.         *)
LEMMA MergesReplacesStep ==
    HeaderReachesDisk /\ MergeInv /\ [Next]_vars => MergesReplaces'
<1> SUFFICES ASSUME HeaderReachesDisk, MergeInv, [Next]_vars PROVE MergesReplaces'
    OBVIOUS
<1>0. MergesReplaces /\ Aligned /\ Counts /\ Typed BY DEF MergeInv, DataInv, MData
<1>1. ASSUME mPc' \notin InReplaces PROVE MergesReplaces'
    BY <1>1 DEF MergesReplaces
<1> USE DEF InReplaces
<1>2. CASE Join \/ Crash
    BY <1>1, <1>2, EndsAll
<1>3. CASE Boot
    BY <1>0, <1>1, <1>3, Fields DEF Boot, Launch
<1>4. CASE RaWaitEnds
    BY <1>1, <1>4 DEF RaWaitEnds, Launch
<1>5. CASE MStays
    BY <1>0, <1>5 DEF MStays, MergesReplaces, mVars
<1>6. CASE MThread
  <2>1. ASSUME mPc \in InReplaces, UNCHANGED <<base, headerVars, mPos, slot>> PROVE MergesReplaces'
      BY <1>0, <2>1 DEF MergesReplaces, headerVars
  <2>2. mPos \in Nat /\ slot \in Nat /\ 1 <= slot BY <1>0, Fields
  <2>3. CASE MReplaceBegin
    <3>1. mPc = "head" /\ mPos > N /\ mPc' = "replace" /\ slot' = 1 /\ UNCHANGED <<mPos, headerVars>>
        BY <2>3 DEF MReplaceBegin
    <3>2. ~Astray /\ MFirst = mPos
        BY <1>0, <1>6, <2>2, <3>1, MergeThreadIsUp, Sizes DEF Astray, MFirst, InWrite
    <3>3. header[1] = mPos - 1 /\ headerDisk[1] = mPos - 1
        BY <1>0, <3>1, <3>2 DEF Aligned, BeforeCommit
    <3>4. mPos - 1 >= N /\ mPos <= Total + 1
        BY <1>0, <2>2, <3>1, <3>3, Sizes DEF Counts
    <3>5. \A j \in Int : j \notin mPos - 1 + 1 .. mPos - 1
        BY <2>2
    <3> QED BY <2>2, <3>1, <3>3, <3>4, <3>5 DEF MergesReplaces, headerVars
  <2>4. CASE MReplace
    <3> DEFINE b == Replaces[mPos - N]
    <3>1. mPc = "replace" /\ mPos <= Total /\ base' = [base EXCEPT ![b] = FromCow(b)]
          /\ mPos' = mPos + 1 /\ slot' = slot + 1 /\ UNCHANGED headerVars
        BY <2>4 DEF MReplace
    <3>2. header[1] = mPos - slot /\ header[1] >= N /\ headerDisk[1] >= N
          /\ \A j \in mPos - slot + 1 .. mPos - 1 :
                base[Replaces[j - N]] = FromCow(Replaces[j - N])
        BY <1>0, <3>1 DEF MergesReplaces
    <3>3. mPos - slot >= N BY <3>2
    <3>4. \A c \in Blocks : base'[c] = IF c = b THEN FromCow(c) ELSE base[c]
        BY <1>0, <3>1 DEF Typed, DisksTyped
    <3>5. ASSUME NEW j \in mPos - slot + 1 .. mPos
          PROVE  base'[Replaces[j - N]] = FromCow(Replaces[j - N])
      <4>1. j - N \in 1 .. Len(Replaces) BY <2>2, <3>1, <3>3, <3>5, Sizes
      <4>2. Replaces[j - N] \in Blocks BY <4>1, ReplacesTyped
      <4>3. CASE j = mPos BY <3>4, <4>2, <4>3
      <4>4. CASE j # mPos
        <5>1. j \in mPos - slot + 1 .. mPos - 1 BY <2>2, <3>5, <4>4
        <5> QED BY <3>2, <3>4, <4>2, <5>1
      <4> QED BY <4>3, <4>4
    <3>6. mPos' - slot' = mPos - slot /\ mPos' - 1 = mPos /\ mPos' <= Total + 1
          /\ mPos' - slot' + 1 = mPos - slot + 1
        BY <2>2, <3>1, Sizes
    <3> QED BY <3>1, <3>2, <3>5, <3>6 DEF MergesReplaces, headerVars
  <2>5. CASE MReplaceCommit
    <3>1. mPc = "replaceCommit" /\ header' = <<header[1] + slot - 1, header[2] /\ ~ra_thread>>
          /\ headerDisk' = header' /\ slot' = 1 /\ mPos' = mPos
        BY <2>5, HeaderIsSynced DEF MReplaceCommit
    <3>2. header[1] = mPos - slot /\ header[1] >= N /\ mPos <= Total + 1
        BY <1>0, <3>1 DEF MergesReplaces
    <3>3. header'[1] = mPos - 1 /\ headerDisk'[1] = mPos - 1
        BY <2>2, <3>1, <3>2
    <3>4. mPos - 1 >= N
        BY <2>2, <3>2, Sizes
    <3>5. \A j \in Int : j \notin mPos - 1 + 1 .. mPos - 1
        BY <2>2
    <3> QED BY <2>2, <3>1, <3>2, <3>3, <3>4, <3>5 DEF MergesReplaces
  <2>6. CASE MWakes
      BY <1>1, <2>1, <2>6 DEF MWakes, baseVars
  <2>7. CASE MReplaceFails \/ MReplaced \/ MergeCompleted
    <3>1. mPc \in InReplaces /\ UNCHANGED <<base, headerVars, mPos, slot>>
        BY <2>7 DEF MReplaceFails, MReplaced, MergeCompleted, baseVars
    <3> QED BY <2>1, <3>1
  <2>8. CASE MRun \/ WaitForMergeBegin \/ MLock \/ MDrain \/ MWrite \/ MSync \/ MFails
      BY <1>1, <2>8, FallsBack DEF MRun, MergeFailed, WaitForMergeBegin, MLock, MDrain, MWrite,
                                   MSync, MFails
  <2>9. CASE MCommit \/ MClear \/ MFlush \/ SetMergeCompleted \/ NotifyRAForMergeReady
      BY <1>1, <2>9 DEF MCommit, MClear, MFlush, SetMergeCompleted, NotifyRAForMergeReady
  <2>10. ~MFlushFails BY HeaderIsSynced
  <2> QED BY <1>6, <2>3, <2>4, <2>5, <2>6, <2>7, <2>8, <2>9, <2>10 DEF MThread, MStep
<1> QED BY <1>2, <1>3, <1>4, <1>5, <1>6, OthersLeaveM

LEMMA MDataStep ==
    HeaderReachesDisk /\ MergeInv /\ [Next]_vars => MData'
BY AlignedStep, HasWindowStep, MergesStep, MergesReplacesStep, OnlyReplacesStep DEF MData

-----------------------------------------------------------------------------
(* How the threads end, and when the merge is complete.                    *)

Endings == {"IO_TERMINATED", "MERGE_FAILED", "MERGE_COMPLETE", "READ_AHEAD_FAILURE"}

(* What the merge thread tells the others.                                 *)
LEMMA MergeThreadTells ==
    HeaderReachesDisk /\ MThread =>
        /\ \/ io' = io
           \/ io' \in {"MERGE_FAILED", "MERGE_READY"}
           \/ io' = "MERGE_COMPLETE" /\ MergeCompleted
        /\ mPc' = "done" => io' \in Endings
        /\ \/ UNCHANGED <<headerDisk, complete>> \/ MFlush \/ MReplaceCommit
<1> DEFINE Tells ==
        /\ \/ io' = io
           \/ io' \in {"MERGE_FAILED", "MERGE_READY"}
           \/ io' = "MERGE_COMPLETE" /\ MergeCompleted
        /\ mPc' = "done" => io' \in Endings
        /\ \/ UNCHANGED <<headerDisk, complete>> \/ MFlush \/ MReplaceCommit
<1> USE DEF Endings, headerVars
<1>1. ASSUME MRun PROVE Tells
    BY <1>1 DEF MRun, MergeFailed, IsMergeBeginError
<1>2. ASSUME WaitForMergeBegin \/ MFails PROVE Tells
    BY <1>2, FallsBack DEF WaitForMergeBegin, MFails
<1>3. ASSUME MLock \/ MDrain \/ MWrite \/ MSync \/ MCommit \/ MClear PROVE Tells
    BY <1>3 DEF MLock, MDrain, MWrite, MSync, MCommit, MClear
<1>4. ASSUME SetMergeCompleted \/ NotifyRAForMergeReady \/ MWakes \/ MReplaceBegin PROVE Tells
    BY <1>4 DEF SetMergeCompleted, NotifyRAForMergeReady, MWakes, MReplaceBegin
<1>5. ASSUME MReplace \/ MReplaceFails \/ MReplaced PROVE Tells
    BY <1>5 DEF MReplace, MReplaceFails, MReplaced, MergeFailed
<1>6. ASSUME MergeCompleted PROVE Tells
    BY <1>6 DEF MergeCompleted
<1>7. ASSUME MFlush PROVE Tells
    BY <1>7 DEF MFlush
<1>8. ASSUME HeaderReachesDisk, MReplaceCommit PROVE Tells
    BY <1>8, HeaderIsSynced
<1>9. HeaderReachesDisk => ~MFlushFails
    BY HeaderIsSynced
<1> HIDE DEF Tells
<1>10. HeaderReachesDisk /\ MThread => Tells
    BY <1>1, <1>2, <1>3, <1>4, <1>5, <1>6, <1>7, <1>8, <1>9 DEF MThread, MStep
<1> QED BY <1>10 DEF Tells

(* What the read-ahead thread tells the others.                            *)
LEMMA ReadAheadTells ==
    MergeInv /\ RaThread =>
        /\ \/ io' = io
           \/ io' = "READ_AHEAD_FAILURE" /\ raPc' = "done"
           \/ io' = "MERGE_BEGIN" /\ io \notin Endings
        /\ io # "READ_AHEAD_FAILURE"
<1> SUFFICES ASSUME MergeInv, RaThread
             PROVE  /\ \/ io' = io
                       \/ io' = "READ_AHEAD_FAILURE" /\ raPc' = "done"
                       \/ io' = "MERGE_BEGIN" /\ io \notin Endings
                    /\ io # "READ_AHEAD_FAILURE"
    OBVIOUS
<1>0. Ended /\ Typed BY DEF MergeInv, DataInv
<1>1. io # "READ_AHEAD_FAILURE"
  <2>1. raPc \notin {"done", "dead"}
      BY DEF RaThread, RaStep, RaInit, RaHead, Reconstruct, RaRead, RaReadFails,
             WaitForMergeReady, RaCopy, RaMap, RaFlush, RaMark, RaAnnounce, RaWakes
  <2> QED BY <1>0, <2>1 DEF Ended
<1>2. CASE RaAnnounce
  <2>1. raPc = "announce" BY <1>2 DEF RaAnnounce
  <2>2. headerDisk[1] < N BY <2>1, AnnouncedIsNext
  <2>3. io # "MERGE_COMPLETE" BY <1>0, <2>2, Fields, Sizes DEF Ended
  <2> QED BY <1>1, <1>2, <2>3 DEF RaAnnounce, ReadAheadIOFailed, Endings
<1>3. CASE Reconstruct \/ RaReadFails \/ RaFlush
    BY <1>1, <1>3 DEF Reconstruct, RaReadFails, RaFlush, ReadAheadIOFailed
<1>4. CASE RaInit \/ RaHead \/ RaRead \/ WaitForMergeReady \/ RaCopy \/ RaMap \/ RaMark \/ RaWakes
    BY <1>1, <1>4 DEF RaInit, RaHead, RaRead, WaitForMergeReady, RaCopy, RaMap, RaMark, RaWakes
<1> QED BY <1>2, <1>3, <1>4 DEF RaThread, RaStep

LEMMA EndedStep ==
    HeaderReachesDisk /\ MergeInv /\ [Next]_vars => Ended'
<1> SUFFICES ASSUME HeaderReachesDisk, MergeInv, [Next]_vars PROVE Ended'
    OBVIOUS
<1>0. Ended /\ Counts /\ MergesReplaces /\ Typed BY DEF MergeInv, DataInv, MData
<1>1. CASE Join \/ Crash
    BY <1>1, EndsAll DEF Ended
<1>2. CASE Boot
  <2>1. main = "down" /\ io' = "MERGE_READY" /\ complete' = (header[1] = Total)
        /\ headerDisk' = headerDisk /\ (main' = "waitRa" \/ mPc' = "run")
      BY <1>2 DEF Boot, Launch, disks, headerVars
  <2>2. mPc = "done" BY <1>0, <2>1, Fields
  <2>3. header[1] = headerDisk[1] BY <1>0, <2>2 DEF Counts
  <2> QED BY <2>1, <2>3 DEF Ended
<1>3. CASE RaWaitEnds
  <2>1. main = "waitRa" /\ mPc' = "run" /\ UNCHANGED <<io, raPc, headerDisk, complete>>
      BY <1>3 DEF RaWaitEnds, Launch, disks, headerVars, raVars
  <2> QED BY <1>0, <2>1 DEF Ended
<1>4. CASE InitiateMerge
  <2>1. UNCHANGED <<raPc, mPc, headerDisk, complete, main, start>>
        /\ io' = (IF ra_thread THEN io ELSE "MERGE_BEGIN")
      BY <1>4 DEF InitiateMerge, disks, headerVars, raVars, mVars
  <2>2. (ra_thread)' = ra_thread BY <2>1 DEF ra_thread
  <2> QED BY <1>0, <2>1, <2>2 DEF Ended
<1>5. ASSUME UNCHANGED <<raPc, mPc, headerDisk, complete, main, start, io>> PROVE Ended'
  <2>1. (ra_thread)' = ra_thread BY <1>5 DEF ra_thread
  <2> QED BY <1>0, <1>5, <2>1 DEF Ended
<1>6. CASE Pause
    BY <1>5, <1>6 DEF Pause, disks, headerVars, raVars, mVars
<1>7. CASE NotifyIOTerminated
  <2>1. UNCHANGED <<raPc, mPc, headerDisk, complete, start>> /\ main # "down"
        /\ io' = "IO_TERMINATED"
      BY <1>7 DEF NotifyIOTerminated, disks, headerVars, raVars, mVars
  <2> QED BY <1>0, <2>1 DEF Ended
<1>8. CASE RaThread
  <2>1. UNCHANGED <<mPc, complete, main, start>>
      BY <1>8, RaFrame DEF mVars
  <2>2. headerDisk'[1] = headerDisk[1]
      BY <1>8, RaStays DEF MStays
  <2>3. (ra_thread)' = ra_thread BY <2>1 DEF ra_thread
  <2>4. /\ \/ io' = io
           \/ io' = "READ_AHEAD_FAILURE" /\ raPc' = "done"
           \/ io' = "MERGE_BEGIN" /\ io \notin Endings
        /\ io # "READ_AHEAD_FAILURE"
      BY <1>8, ReadAheadTells
  <2> QED BY <1>0, <2>1, <2>2, <2>3, <2>4 DEF Ended, Endings
<1>9. CASE MThread
  <2>1. mPc # "done" /\ UNCHANGED <<main, start, raPc>>
      BY <1>0, <1>9, MergeThreadIsUp, MFrame DEF raVars
  <2>2. /\ \/ io' = io
           \/ io' \in {"MERGE_FAILED", "MERGE_READY"}
           \/ io' = "MERGE_COMPLETE" /\ MergeCompleted
        /\ mPc' = "done" => io' \in Endings
        /\ \/ UNCHANGED <<headerDisk, complete>> \/ MFlush \/ MReplaceCommit
      BY <1>9, MergeThreadTells
  <2>3. headerDisk'[1] >= headerDisk[1] /\ headerDisk'[1] <= Total
        /\ (complete' => complete \/ headerDisk'[1] = Total)
    <3>1. CASE UNCHANGED <<headerDisk, complete>>
        BY <1>0, <3>1, Fields DEF Counts
    <3>2. CASE MFlush
      <4>1. headerDisk' = header /\ complete' = (complete \/ header[1] = Total)
          BY <3>2 DEF MFlush
      <4> QED BY <1>0, <4>1 DEF Counts
    <3>3. CASE MReplaceCommit
      <4>1. mPc = "replaceCommit" /\ header' = <<header[1] + slot - 1, header[2] /\ ~ra_thread>>
            /\ headerDisk' = header' /\ complete' = (complete \/ header'[1] = Total)
          BY <3>3, HeaderIsSynced DEF MReplaceCommit
      <4>2. header'[1] = header[1] + slot - 1 BY <4>1
      <4>3. header[1] = mPos - slot /\ mPos <= Total + 1
          BY <1>0, <4>1 DEF MergesReplaces, InReplaces
      <4>4. header[1] \in Nat /\ headerDisk[1] \in Nat /\ slot \in Nat /\ mPos \in Nat /\ 1 <= slot
            /\ headerDisk[1] <= header[1]
          BY <1>0, Fields DEF Counts
      <4>5. header'[1] <= Total /\ header'[1] >= headerDisk[1]
          BY <4>2, <4>3, <4>4, Sizes
      <4> QED BY <4>1, <4>5
    <3> QED BY <2>2, <3>1, <3>2, <3>3
  <2>4. io' = "MERGE_COMPLETE" => headerDisk'[1] >= N
    <3>1. CASE MergeCompleted
      <4>1. mPc = "replace" /\ headerDisk' = headerDisk
          BY <3>1 DEF MergeCompleted, headerVars
      <4> QED BY <1>0, <4>1 DEF MergesReplaces, InReplaces
    <3>2. headerDisk'[1] \in Nat /\ headerDisk[1] \in Nat
        BY <1>0, TypedStep, Fields DEF Typed, DisksTyped
    <3>3. CASE io' = io
        BY <1>0, <2>3, <3>2, <3>3, Sizes DEF Ended
    <3> QED BY <2>2, <3>1, <3>3
  <2>5. complete' /\ main' # "down" => headerDisk'[1] = Total
    <3>1. headerDisk'[1] \in Nat /\ headerDisk[1] \in Nat
        BY <1>0, TypedStep, Fields DEF Typed, DisksTyped
    <3>2. ASSUME complete, main # "down" PROVE headerDisk'[1] = Total
      <4>1. headerDisk[1] = Total BY <1>0, <3>2 DEF Ended
      <4> QED BY <2>3, <3>1, <4>1, Sizes
    <3> QED BY <2>1, <2>3, <3>2
  <2>6. (ra_thread)' = ra_thread BY <2>1 DEF ra_thread
  <2>7. io' = "READ_AHEAD_FAILURE" => raPc' \in {"done", "dead"}
      BY <1>0, <2>1, <2>2 DEF Ended
  <2> QED BY <2>2, <2>4, <2>5, <2>7 DEF Ended, Endings
<1>10. CASE UNCHANGED <<disks, boot, io, toMerge, map, bufferLock, raVars, mVars, group>>
    BY <1>5, <1>10 DEF boot, disks, headerVars, raVars, mVars
<1> QED BY <1>1, <1>2, <1>3, <1>4, <1>6, <1>7, <1>8, <1>9, <1>10, Movers DEF MainQuiet

LEMMA WindowsStep ==
    HeaderReachesDisk /\ MergeInv /\ [Next]_vars => Windows'
<1> SUFFICES ASSUME HeaderReachesDisk, MergeInv, [Next]_vars PROVE Windows'
    OBVIOUS
<1>0. Windows /\ Merges /\ Typed /\ Handshake BY DEF MergeInv, DataInv, MData
<1>1. mGroup \in Nat /\ mGroup >= 1 /\ group \in [1 .. N -> GroupStates] /\ mPos \in Nat /\ slot \in Nat
      /\ start[1] \in Nat /\ toMerge \in Nat
    BY <1>0, Fields DEF Typed, MTyped, WindowTyped
<1> USE DEF InWindow
<1>2. CASE Join \/ Crash
    BY <1>2, EndsAll DEF Windows
<1>3. CASE Boot
  <2>1. main = "down" /\ UNCHANGED <<mGroup, group>> /\ (mPc' = "run" \/ mPc' = mPc)
      BY <1>3 DEF Boot, Launch, groups
  <2>2. mPc = "done" BY <1>0, <2>1, Fields
  <2> QED BY <1>0, <2>1, <2>2 DEF Windows
<1>4. CASE RaWaitEnds
  <2>1. main = "waitRa" /\ UNCHANGED <<mGroup, group>> /\ mPc' = "run"
      BY <1>4 DEF RaWaitEnds, Launch, groups
  <2> QED BY <1>0, <2>1 DEF Windows
<1>5. CASE MStays
  <2>1. UNCHANGED <<mPc, mGroup, group, start>> /\ MFirst' = MFirst /\ (Astray => Astray')
        /\ (main' \in {"down", "waitRa"} => main' = main)
      BY <1>5 DEF MStays, mVars
  <2> QED BY <1>0, <2>1 DEF Windows
<1>6. CASE MThread
  <2>1. main # "waitRa" /\ main # "down" /\ main' = main /\ start' = start /\ toMerge' = toMerge
        /\ mPc # "done"
      BY <1>0, <1>6, MergeThreadIsUp, Fields
  <2>2. Served \subseteq {mGroup}
      BY <1>0 DEF Handshake, LockStep
  <2>3. \A g \in 1 .. N : group[g] = "RA_READY" => g = mGroup
      BY <1>1, <2>2 DEF Served
  <2>4. \A g \in 1 .. N :
          /\ group[g] = "RA_READY" => mPc = "drain"
          /\ group[g] # "FAILED"
          /\ group[g] = "COMPLETED" => g < mGroup \/ (g = mGroup /\ mPc = "notify")
      BY <1>0, <2>1 DEF Windows
  <2>5. ASSUME UNCHANGED <<group, mGroup>>, mPc' # "run", mPc \notin {"drain", "notify"},
               mPc' \in InWindow \cup {"head", "asleep"} /\ ~Astray' => mGroup + start[1] <= MFirst',
               mPc' \in {"write", "commit", "clear", "flush", "finish"}
                 => group[mGroup] = "IN_PROGRESS"
        PROVE  Windows'
      BY <2>1, <2>4, <2>5 DEF Windows
  <2>6. ASSUME SetGroup("FAILED"), UNCHANGED mGroup, mPc' = "done", mPc \notin {"drain", "notify"}
        PROVE  Windows'
    <3>1. \A g \in 1 .. N : group'[g] = IF g = mGroup THEN "FAILED" ELSE group[g]
        BY <1>1, <2>6 DEF SetGroup
    <3> QED BY <2>1, <2>4, <2>6, <3>1 DEF Windows
  <2>7. ASSUME mPc \in InWindow \cup {"head", "asleep"}, ~Astray PROVE mGroup + start[1] <= MFirst
      BY <1>0, <2>7 DEF Windows
  <2>8. mPc \in InWindow => ~Astray /\ mGroup \in 1 .. N
    <3> SUFFICES ASSUME mPc \in InWindow PROVE ~Astray /\ mGroup \in 1 .. N
        OBVIOUS
    <3>1. ~Astray BY DEF Astray
    <3>2. MFirst - 1 \in Nat /\ MFirst - 1 + toMerge <= N /\ toMerge >= 1 BY WindowInHand
    <3>3. mGroup + start[1] <= MFirst BY <2>7, <3>1
    <3>4. MFirst \in Int
        BY <1>1 DEF MFirst
    <3> QED BY <1>1, <3>1, <3>2, <3>3, <3>4, Sizes
  <2>9. \A state : SetGroup(state) =>
            \A g \in 1 .. N : group'[g] = IF g = mGroup THEN state ELSE group[g]
      BY <1>1 DEF SetGroup
  <2> USE DEF InWrite
  <2>10. CASE MRun
    <3>1. mPc = "run" /\ (mPc' = "done" \/ (mPc' = "head" /\ mPos' = start[1] + 1))
          /\ UNCHANGED <<group, mGroup>>
        BY <2>10 DEF MRun, MergeFailed, groups
    <3>2. mPc' = "head" => MFirst' = start[1] + 1 BY <2>1, <3>1 DEF MFirst
    <3>3. mGroup = 1 BY <1>0, <3>1 DEF Windows
    <3>4. mGroup + start[1] <= start[1] + 1 BY <1>1, <3>3
    <3> QED BY <2>5, <3>1, <3>2, <3>4
  <2>11. CASE WaitForMergeBegin
    <3>1. mPc = "head" /\ mPos <= N /\ UNCHANGED mGroup
          /\ ((~IsMergeBeginError /\ mPc' = "lock" /\ mPos' = mPos /\ group' = group)
              \/ (IsMergeBeginError /\ FallBack))
        BY <2>11 DEF WaitForMergeBegin
    <3>2. CASE ~IsMergeBeginError /\ mPc' = "lock" /\ mPos' = mPos /\ group' = group
      <4>1. MFirst' = MFirst BY <2>1, <3>1, <3>2 DEF MFirst
      <4>2. mGroup + start[1] <= MFirst BY <2>7, <3>1, <3>2 DEF Astray
      <4> QED BY <2>5, <3>1, <3>2, <4>1, <4>2
    <3>3. CASE /\ IsMergeBeginError /\ mPc' = "head" /\ mPos' = mPos - (slot - 1)
               /\ UNCHANGED <<io, group>>
      <4>1. mPos' <= N BY <1>0, <1>1, <3>1, <3>3, Fields, Sizes
      <4>2. Astray' BY <3>3, <4>1 DEF Astray, IsMergeBeginError
      <4> QED BY <2>5, <3>1, <3>3, <4>2
    <3>4. CASE mPc' = "done" /\ SetGroup("FAILED")
        BY <2>6, <3>1, <3>4
    <3> QED BY <3>1, <3>2, <3>3, <3>4, FallsBack
  <2>12. CASE MLock
    <3>1. /\ mPc = "lock" /\ slot' = 1 /\ UNCHANGED <<mPos, mGroup>>
          /\ \/ group[mGroup] = "IN_PROGRESS" /\ mPc' = "write" /\ UNCHANGED group
             \/ mPc' = "drain" /\ SetGroup("RA_READY")
        BY <2>12 DEF MLock
    <3>2. MFirst = mPos /\ MFirst' = mPos - 1 + 1 BY <2>1, <3>1 DEF MFirst
    <3>3. mGroup + start[1] <= MFirst /\ MFirst' = MFirst
        BY <1>1, <2>7, <2>8, <3>1, <3>2
    <3>4. CASE group[mGroup] = "IN_PROGRESS" /\ mPc' = "write" /\ UNCHANGED group
        BY <2>5, <3>1, <3>3, <3>4
    <3>5. CASE mPc' = "drain" /\ SetGroup("RA_READY")
      <4>1. \A g \in 1 .. N : group'[g] = IF g = mGroup THEN "RA_READY" ELSE group[g]
          BY <2>9, <3>5
      <4> QED BY <2>1, <2>4, <3>1, <3>3, <3>5, <4>1 DEF Windows
    <3> QED BY <3>1, <3>4, <3>5
  <2>13. CASE MDrain
    <3>1. mPc = "drain" /\ mPc' = "write" /\ UNCHANGED <<mPos, mGroup, slot>> /\ SetGroup("IN_PROGRESS")
        BY <2>13 DEF MDrain
    <3>2. MFirst' = MFirst BY <2>1, <3>1 DEF MFirst
    <3>3. mGroup + start[1] <= MFirst /\ mGroup \in 1 .. N BY <2>7, <2>8, <3>1
    <3>4. \A g \in 1 .. N : group'[g] = IF g = mGroup THEN "IN_PROGRESS" ELSE group[g]
        BY <2>9, <3>1
    <3> QED BY <2>1, <2>3, <2>4, <3>1, <3>2, <3>3, <3>4 DEF Windows
  <2>14. CASE MWrite \/ MSync \/ MCommit \/ MClear \/ MFlush
    <3>1. mPc \in {"write", "commit", "clear", "flush"} /\ UNCHANGED <<group, mGroup>>
          /\ mPc' \in {"write", "commit", "clear", "flush", "finish"}
          /\ (UNCHANGED <<mPos, slot>> \/ (mPos' = mPos + 1 /\ slot' = slot + 1))
        BY <2>14 DEF MWrite, MSync, MCommit, MClear, MFlush, groups
    <3>2. mPos' - slot' + 1 = mPos - slot + 1 BY <1>1, <3>1
    <3>3. MFirst' = MFirst BY <2>1, <3>1, <3>2 DEF MFirst
    <3>4. mGroup + start[1] <= MFirst BY <2>7, <2>8, <3>1
    <3>5. group[mGroup] = "IN_PROGRESS" BY <1>0, <3>1 DEF Windows
    <3> QED BY <2>5, <3>1, <3>3, <3>4, <3>5
  <2>15. CASE MFails
    <3>1. mPc = "write" /\ FallBack /\ UNCHANGED mGroup
        BY <2>15 DEF MFails
    <3>2. CASE mPc' = "head" /\ mPos' = mPos - (slot - 1) /\ group' = group
      <4>1. MFirst' = MFirst BY <1>1, <2>1, <3>1, <3>2 DEF MFirst
      <4>2. mGroup + start[1] <= MFirst BY <2>7, <2>8, <3>1
      <4> QED BY <2>5, <3>1, <3>2, <4>1, <4>2
    <3>3. CASE mPc' = "done" /\ SetGroup("FAILED")
        BY <2>6, <3>1, <3>3
    <3> QED BY <3>1, <3>2, <3>3, FallsBack
  <2>16. CASE SetMergeCompleted
    <3>1. mPc = "finish" /\ mPc' = "notify" /\ UNCHANGED <<mPos, mGroup, slot>> /\ SetGroup("COMPLETED")
        BY <2>16 DEF SetMergeCompleted
    <3>2. MFirst' = MFirst BY <2>1, <3>1 DEF MFirst
    <3>3. mGroup + start[1] <= MFirst BY <2>7, <2>8, <3>1
    <3>4. \A g \in 1 .. N : group'[g] = IF g = mGroup THEN "COMPLETED" ELSE group[g]
        BY <2>9, <3>1
    <3> QED BY <2>1, <2>4, <3>1, <3>2, <3>3, <3>4 DEF Windows
  <2>17. CASE NotifyRAForMergeReady
    <3>1. mPc = "notify" /\ mPc' \in {"asleep", "head"} /\ mPos' = mPos /\ mGroup' = mGroup + 1
          /\ group' = group
        BY <2>17 DEF NotifyRAForMergeReady, groups
    <3>2. MFirst' = mPos /\ MFirst = mPos - slot + 1 BY <2>1, <3>1 DEF MFirst
    <3>3. slot = toMerge + 1 /\ toMerge >= 1 BY <1>0, <3>1, WindowInHand DEF Merges
    <3>4. mGroup + start[1] <= MFirst BY <2>7, <2>8, <3>1
    <3>5. mGroup + 1 + start[1] <= mPos BY <1>1, <3>2, <3>3, <3>4
    <3>6. \A g \in 1 .. N : group[g] = "COMPLETED" => g < mGroup + 1
        BY <1>1, <2>4
    <3> QED BY <2>1, <2>4, <3>1, <3>2, <3>5, <3>6 DEF Windows
  <2>18. CASE MWakes
    <3>1. /\ (mPc = "asleep" /\ mPc' = "head") \/ (mPc = "dozing" /\ mPc' = "replace")
          /\ UNCHANGED <<mPos, group, mGroup>>
        BY <2>18 DEF MWakes, groups
    <3>2. mPc' = "head" => MFirst' = MFirst /\ ~Astray BY <2>1, <3>1 DEF MFirst, Astray
    <3>3. mPc' = "head" => mGroup + start[1] <= MFirst BY <2>7, <3>1, <3>2
    <3> QED BY <2>5, <3>1, <3>2, <3>3
  <2>19. CASE \/ MReplaceBegin \/ MReplace \/ MReplaceFails \/ MReplaced \/ MergeCompleted
              \/ MReplaceCommit
    <3>1. mPc' \in {"replace", "replaced", "replaceCommit", "dozing", "done"}
          /\ mPc \notin {"drain", "notify"} /\ UNCHANGED <<group, mGroup>>
        BY <2>19 DEF MReplaceBegin, MReplace, MReplaceFails, MReplaced, MergeCompleted,
                     MReplaceCommit, MergeFailed, groups
    <3> QED BY <2>5, <3>1
  <2>20. ~MFlushFails BY HeaderIsSynced
  <2> QED BY <1>6, <2>10, <2>11, <2>12, <2>13, <2>14, <2>15, <2>16, <2>17, <2>18, <2>19, <2>20
          DEF MThread, MStep
<1> QED BY <1>2, <1>3, <1>4, <1>5, <1>6, OthersLeaveM

-----------------------------------------------------------------------------
LEMMA DataInit == Init => DataInv
<1> SUFFICES ASSUME Init PROVE DataInv
    OBVIOUS
<1>1. /\ header = <<0, FALSE>> /\ headerDisk = <<0, FALSE>> /\ start = <<0, FALSE>>
      /\ base = [b \in Blocks |-> Old(b)] /\ baseDisk = [b \in Blocks |-> Old(b)]
      /\ main = "down" /\ raPc = "done" /\ mPc = "done" /\ io = "INVALID" /\ populate = FALSE
      /\ complete = FALSE /\ mGroup = 1 /\ group = [g \in 1 .. N |-> "PENDING"]
    BY DEF Init, Idle
<1>2. header[1] = 0 /\ ~header[2] /\ headerDisk[1] = 0 /\ ~headerDisk[2] /\ start[1] = 0
    BY <1>1
<1>3. Counts BY <1>1, <1>2, Sizes DEF Counts
<1>4. OnBase
  <2>1. \A b \in Blocks : Untouched(b) BY <1>1 DEF Untouched
  <2>2. \A b \in Replaced : b \in Blocks BY ReplacesTyped DEF Replaced
  <2>3. \A i \in 1 .. N : Ops[i].new \in Blocks BY OpTyped
  <2>4. \A i \in 1 .. N : ~(i <= header[1]) BY <1>2, Sizes
  <2>5. \A j \in 1 .. Len(Replaces) : ~(N + j <= header[1]) BY <1>2, Sizes
  <2> QED BY <2>1, <2>2, <2>3, <2>4, <2>5 DEF OnBase
<1>5. Saved BY <1>2 DEF Saved
<1>6. RaData
    BY <1>1 DEF RaData, Starts, Starting, Reads, Refills, Refilling, Announces, Ahead
<1>7. MData
    BY <1>1 DEF MData, Aligned, BeforeCommit, HasWindow, InWindow, Begun, Merges, MergesReplaces,
                InReplaces, OnlyReplaces
<1>8. Ended BY <1>1 DEF Ended
<1>9. Windows BY <1>1 DEF Windows, InWindow
<1> QED BY <1>3, <1>4, <1>5, <1>6, <1>7, <1>8, <1>9 DEF DataInv

(* For any faults but a header that is not synced, and power lost at any   *)
(* moment: what is on the base device, in the scratch space and in the     *)
(* header, in the page cache and on disk, and where the two threads are in *)
(* the sequence of operations, agree.                                      *)
THEOREM DataInvariant ==
    ASSUME HeaderReachesDisk PROVE Spec => []DataInv
<1>1. MergeInv /\ [Next]_vars => DataInv'
    BY CountsStep, OnBaseStep, SavedStep, RaDataStep, MDataStep, EndedStep, WindowsStep DEF DataInv
<1>2. Typed /\ Drained /\ Handshake => Typed /\ Handshake
    OBVIOUS
<1>3. Typed /\ Drained /\ Handshake /\ DataInv /\ [Next]_vars => DataInv'
    BY <1>1 DEF MergeInv
<1> QED BY <1>3, DataInit, MergeInvariant, PTL DEF Spec

-----------------------------------------------------------------------------
(* What the invariant is for.                                              *)

LEMMA InHandHasItsData ==
    ASSUME Typed, NEW i \in 1 .. N, headerDisk[1] < i, InHand(i)
    PROVE  \E s \in Mapped(Ops[i].new) : scratch[s][2] = Updated[Ops[i].new]
<1>1. PICK n \in 1 .. Window : Holds(scratch, headerDisk[1], n) /\ i <= headerDisk[1] + n
    BY DEF InHand
<1> DEFINE f == headerDisk[1]
           s == i - f
<1>2. f \in Nat /\ n \in Nat /\ f + n <= N BY <1>1, HoldsBounds
<1> HIDE DEF f
<1>3. s \in 1 .. n /\ s \in Slots /\ f + s = i
    BY <1>1, <1>2, Sizes DEF f, Slots
<1>4. scratch[s][1] = Ops[i].new /\ scratch[s][2] = Updated[Ops[i].new] /\ Listed = 1 .. n
    BY <1>1, <1>3, SlotOf, ListedIs DEF f
<1> QED BY <1>3, <1>4 DEF Mapped

(* Power may be lost at any moment, in any thread, with any of the blocks  *)
(* that were not synced kept and the others lost, and any number of times: *)
(* what the header counts is on the base device, and each other operation  *)
(* can still be carried out, from its source or from the scratch space.    *)
THEOREM NoOperationIsLost ==
    ASSUME HeaderReachesDisk PROVE Spec => []NothingLost
<1>1. Typed /\ DataInv => NothingLost
  <2> SUFFICES ASSUME Typed, DataInv, main = "down", NEW i \in 1 .. N
               PROVE  IF i <= header[1] THEN base[Ops[i].new] = Updated[Ops[i].new]
                      ELSE \/ /\ header[2]
                              /\ \E s \in Mapped(Ops[i].new) : scratch[s][2] = Updated[Ops[i].new]
                           \/ FromSource(i) = Updated[Ops[i].new]
      BY DEF NothingLost
  <2>0. Counts /\ OnBase BY DEF DataInv
  <2>1. mPc = "done" BY Fields
  <2>2. header[1] = headerDisk[1] /\ (headerDisk[2] => header[2])
      BY <2>0, <2>1 DEF Counts
  <2>3. CASE i <= header[1]
      BY <2>0, <2>3 DEF OnBase, Settled
  <2>4. CASE ~(i <= header[1]) /\ InHand(i)
    <3>1. header[2] BY <2>2, <2>4 DEF InHand
    <3>2. headerDisk[1] < i BY <2>2, <2>4, Fields, Sizes
    <3> QED BY <2>4, <3>1, <3>2, InHandHasItsData
  <2>5. CASE ~(i <= header[1]) /\ ~InHand(i)
    <3>1. headerDisk[1] < i BY <2>2, <2>5, Fields, Sizes
    <3> QED BY <2>0, <2>5, <3>1, SourceKept DEF FromSource
  <2> QED BY <2>3, <2>4, <2>5
<1> QED BY <1>1, DataInvariant, MergeInvariant, PTL

(* The snapshot is deleted only when nothing of it is needed: as soon as   *)
(* the merge is reported complete, and from then on, every block of the    *)
(* updated image is on the base device and on disk.                        *)
THEOREM ReportedOnlyWhenMerged ==
    ASSUME HeaderReachesDisk PROVE Spec => []CompleteMeansMerged
<1>1. Typed /\ DataInv => CompleteMeansMerged
  <2> SUFFICES ASSUME Typed, DataInv, main # "down",
                      GetMergeStatus = "snapshot-merge-complete"
               PROVE  baseDisk = Updated
      BY DEF CompleteMeansMerged
  <2>0. Counts /\ OnBase /\ Ended BY DEF DataInv
  <2>1. complete BY DEF GetMergeStatus
  <2>2. headerDisk[1] = Total BY <2>0, <2>1 DEF Ended
  <2>3. header[1] = Total BY <2>0, <2>2, Sizes DEF Counts
  <2>4. ASSUME NEW b \in Blocks PROVE baseDisk[b] = Updated[b]
    <3>1. CASE b \in Replaced
      <4>1. PICK j \in 1 .. Len(Replaces) : Replaces[j] = b BY <3>1 DEF Replaced
      <4>2. N + j <= header[1] BY <2>3, Sizes
      <4> QED BY <2>0, <4>1, <4>2 DEF OnBase, Settled
    <3>2. CASE b \notin Replaced /\ OpOn(b) = {}
        BY <2>0, <3>2, UpdatedElsewhere DEF OnBase, Untouched
    <3>3. ASSUME NEW i \in OpOn(b) PROVE baseDisk[b] = Updated[b]
      <4>1. i \in 1 .. N /\ Ops[i].new = b BY DEF OpOn
      <4>2. i <= header[1] BY <2>3, <4>1, Sizes
      <4> QED BY <2>0, <4>1, <4>2 DEF OnBase, Settled
    <3> QED BY <3>1, <3>2, <3>3
  <2>5. baseDisk = [b \in Blocks |-> baseDisk[b]] BY DEF Typed, DisksTyped
  <2>6. Updated = [b \in Blocks |-> Updated[b]] BY DEF Updated
  <2> QED BY <2>4, <2>5, <2>6
<1> QED BY <1>1, DataInvariant, MergeInvariant, PTL

(* The merge thread never aborts the daemon: the window it takes is one it *)
(* has not merged, nobody reads the sources of one it is merging, and it   *)
(* has an operation for each block of the window.                          *)
THEOREM MergeThreadNeverAborts ==
    ASSUME HeaderReachesDisk PROVE Spec => []ChecksHold
<1>1. MergeInv /\ Drained => ChecksHold
  <2> SUFFICES ASSUME MergeInv, Drained PROVE ChecksHold
      OBVIOUS
  <2> USE DEF InWindow
  <2>0. Windows /\ Merges /\ Typed BY DEF MergeInv, DataInv, MData
  <2>1. mGroup \in Nat /\ mGroup >= 1 /\ group \in [1 .. N -> GroupStates] /\ start[1] \in Nat
        /\ mPos \in Nat /\ slot \in Nat
      BY <2>0, Fields DEF Typed, MTyped, WindowTyped
  <2>2. mPc \in InWindow => mGroup \in 1 .. N
    <3> SUFFICES ASSUME mPc \in InWindow PROVE mGroup \in 1 .. N
        OBVIOUS
    <3>1. MFirst - 1 \in Nat /\ MFirst - 1 + toMerge <= N /\ toMerge >= 1 /\ toMerge \in Nat
        BY WindowInHand
    <3>2. mGroup + start[1] <= MFirst BY <2>0 DEF Windows, Astray
    <3>3. MFirst \in Int BY <2>1 DEF MFirst
    <3> QED BY <2>1, <3>1, <3>2, <3>3, Sizes
  <2>3. mPc = "lock" => group[mGroup] \in {"PENDING", "IN_PROGRESS"}
    <3> SUFFICES ASSUME mPc = "lock" PROVE group[mGroup] \in {"PENDING", "IN_PROGRESS"}
        OBVIOUS
    <3>1. mGroup \in 1 .. N BY <2>2
    <3>2. group[mGroup] \notin {"RA_READY", "FAILED", "COMPLETED"}
        BY <2>0, <2>1, <3>1 DEF Windows
    <3> QED BY <2>1, <3>1, <3>2 DEF GroupStates
  <2>4. mPc \in {"write", "commit", "clear", "flush", "finish"} =>
            group[mGroup] = "IN_PROGRESS" /\ ios[mGroup] = 0
      BY <2>0, <2>2 DEF Windows, Drained
  <2>5. mPc = "write" /\ slot <= toMerge => mPos <= N
    <3> SUFFICES ASSUME mPc = "write", slot <= toMerge PROVE mPos <= N
        OBVIOUS
    <3>1. MFirst - 1 + toMerge <= N /\ MFirst = mPos - slot + 1 /\ toMerge \in Nat
        BY WindowInHand
    <3> QED BY <2>1, <3>1, Sizes
  <2> QED BY <2>3, <2>4, <2>5 DEF ChecksHold
<1> QED BY <1>1, DataInvariant, MergeInvariant, PTL DEF MergeInv

-----------------------------------------------------------------------------
(***************************************************************************)
(* What a read returns, while the blocks move from the COW file over the   *)
(* scratch space to the base device.                                       *)
(***************************************************************************)

(* A handler that resumes a merge serves no read before its read-ahead     *)
(* thread has found the scratch space: the thread comes up, and in 3 s.    *)
ReadAheadStarts == Faults \cap {"raInit", "slowRa"} = {}

-----------------------------------------------------------------------------
(* A block in the map is in its slot, with its updated data.               *)
MapRight == \A b \in Blocks : map[b] # 0 => scratch[map[b]] = <<b, Updated[b]>>

(* The first operation of a window.                                        *)
First(g) == start[1] + (g - 1) * Window + 1

(* The state of a window tells which of its operations are counted.        *)
Grouped ==
    \A i \in 1 .. N : i > start[1] =>
        /\ group[GroupOf(i)] = "COMPLETED" => i <= headerDisk[1]
        /\ group[GroupOf(i)] \in {"PENDING", "RA_READY"} /\ main # "down" => i > header[1]

(* The merge thread is at the window it thinks it is at, and the header is *)
(* counted on in whole windows.                                            *)
WindowAt ==
    /\ mPc \in InWindow \cup {"head", "asleep"} /\ ~Astray /\ MFirst <= N =>
          MFirst = First(mGroup)
    /\ main # "down" /\ headerDisk[1] < N =>
          \E g \in Nat \ {0} : headerDisk[1] + 1 = First(g)

(* What is served, or will be when the merge thread takes its window, is   *)
(* in the map.                                                             *)
Covered == \A s \in 1 .. toMerge : map[scratch[s][1]] # 0
MapCovers ==
    /\ \A i \in 1 .. N :
          i > start[1] /\ group[GroupOf(i)] \in {"RA_READY", "IN_PROGRESS"} => map[Ops[i].new] # 0
    /\ mPc \in {"lock", "drain"} \/ Begun \/ raPc \in {"flush", "mark", "announce"} => Covered

(* The handler starts on a window that one before it may have begun.       *)
Resumed == start[2] /\ headerDisk[1] = start[1]

(* Nothing of a window is written before its reads have drained.           *)
Pristine ==
    main # "down" =>
        \A i \in 1 .. N : i > headerDisk[1] =>
            \/ Untouched(Ops[i].new)
            \/ InHand(i) /\ (group[GroupOf(i)] \in {"IN_PROGRESS", "FAILED"} \/ Resumed)

(* A window that was begun is in the map before reads are served.          *)
Resumes ==
    /\ raPc # "dead" /\ (main = "down" => ~started)
    /\ main # "down" /\ Resumed /\ start[1] \in 1 .. N - 1 =>
          /\ header[2] \/ mPc = "flush"
          /\ raPc \in {"flush", "mark", "announce"} \/ Starting => ~started
          /\ main # "waitRa" => started \/ raPc = "done"
          /\ ~Starting => \A n \in 1 .. Window : Holds(scratch, start[1], n) =>
                             \A s \in 1 .. n : map[scratch[s][1]] # 0

(* The operations whose reads are not looked up in the scratch space: see  *)
(* ReadsRight.                                                             *)
Blind(i) == FirstWindowCut /\ GroupOf(i) = 1

(* A read that lasts reads what no operation has overwritten.              *)
Reading ==
    \A r \in Readers : rPc[r] = "source" =>
        \A i \in OpOn(rBlock[r]) : ~Blind(i) => Unwritten(i)

ReadsInv ==
    MapRight /\ Grouped /\ WindowAt /\ MapCovers /\ Pristine /\ Resumes /\ Reading

ServingInv == MergeInv /\ Drained /\ ReadsInv

-----------------------------------------------------------------------------
(* Windows as numbers, and as intervals of operations.                     *)

LEMMA Quotient ==
    ASSUME NEW w \in Nat \ {0}, NEW x \in Nat, NEW q \in Nat
    PROVE  /\ q * w \in Nat /\ q <= q * w /\ (q + 1) * w = q * w + w
           /\ x \div w \in Nat /\ x \div w <= x
           /\ x \div w = q <=> q * w <= x /\ x < q * w + w
<1>1. q * w \in Nat /\ (q + 1) * w = q * w + w
    OBVIOUS
<1>2. q <= q * w
    OBVIOUS
<1>3. x \div w \in Nat /\ (x \div w) * w <= x /\ x < (x \div w) * w + w
    OBVIOUS
<1>4. x \div w <= x
    BY <1>3
<1>5. q * w <= x /\ x < q * w + w => x \div w = q
    OBVIOUS
<1> QED BY <1>1, <1>2, <1>3, <1>4, <1>5

LEMMA WindowOf ==
    ASSUME start[1] \in Nat, NEW i \in Nat, i > start[1]
    PROVE  /\ GroupOf(i) \in Nat /\ GroupOf(i) >= 1 /\ GroupOf(i) <= i
           /\ \A g \in Nat \ {0} :
                 GroupOf(i) = g <=> First(g) <= i /\ i < First(g) + Window
<1> DEFINE x == i - start[1] - 1
           w == Window
<1>1. x \in Nat /\ w \in Nat \ {0} /\ x < i
    BY Sizes
<1>2. GroupOf(i) = 1 + (x \div w)
    BY DEF GroupOf
<1>3. i = start[1] + 1 + x
    BY Sizes
<1>4. ASSUME NEW g \in Nat \ {0}
      PROVE  /\ (g - 1) * w \in Nat /\ x \div w \in Nat /\ x \div w <= x
             /\ x \div w = g - 1 <=> (g - 1) * w <= x /\ x < (g - 1) * w + w
  <2>1. g - 1 \in Nat OBVIOUS
  <2> HIDE DEF x, w
  <2> QED BY <1>1, <2>1, Quotient
<1>5. 1 \in Nat \ {0}
    OBVIOUS
<1>6. \A g \in Nat \ {0} : First(g) = start[1] + (g - 1) * w + 1
    BY DEF First
<1> HIDE DEF x, w
<1>7. x \div w \in Nat /\ x \div w <= x
    BY <1>4, <1>5
<1>8. ASSUME NEW g \in Nat \ {0}
      PROVE  GroupOf(i) = g <=> First(g) <= i /\ i < First(g) + w
  <2> DEFINE y == (g - 1) * w
  <2>1. y \in Nat /\ First(g) = start[1] + y + 1 BY <1>4, <1>6
  <2>2. x \div w = g - 1 <=> y <= x /\ x < y + w BY <1>4
  <2> HIDE DEF y
  <2>3. First(g) <= i <=> y <= x BY <1>1, <1>3, <2>1
  <2>4. i < First(g) + w <=> x < y + w BY <1>1, <1>3, <2>1
  <2>5. GroupOf(i) = g <=> x \div w = g - 1 BY <1>2, <1>7
  <2> QED BY <2>2, <2>3, <2>4, <2>5
<1> QED BY <1>1, <1>2, <1>7, <1>8 DEF w

LEMMA Firsts ==
    ASSUME start[1] \in Nat, NEW g \in Nat \ {0}
    PROVE  /\ First(g) \in Nat /\ First(g) > start[1] /\ First(g) >= start[1] + g
           /\ First(g + 1) = First(g) + Window /\ First(1) = start[1] + 1
<1>1. g - 1 \in Nat /\ Window \in Nat \ {0} /\ (g + 1) - 1 = (g - 1) + 1
    BY Sizes
<1>2. /\ (g - 1) * Window \in Nat /\ g - 1 <= (g - 1) * Window
      /\ ((g - 1) + 1) * Window = (g - 1) * Window + Window
    BY <1>1, Quotient
<1>3. (1 - 1) * Window = 0
    BY <1>1
<1>4. ((g + 1) - 1) * Window = (g - 1) * Window + Window
    BY <1>1, <1>2
<1> QED BY <1>1, <1>2, <1>3, <1>4 DEF First

-----------------------------------------------------------------------------
(* The operations of the window the merge thread has.                      *)
LEMMA WindowIsGroup ==
    MergeInv /\ WindowAt /\ mPc \in InWindow =>
        /\ mGroup \in 1 .. N /\ MFirst \in Nat /\ MFirst > start[1] /\ MFirst = First(mGroup)
        /\ toMerge \in Nat /\ toMerge <= Window
        /\ toMerge = Window \/ MFirst - 1 + toMerge = N
        /\ \A i \in 1 .. N :
              i > start[1] /\ GroupOf(i) = mGroup <=> MFirst <= i /\ i <= MFirst - 1 + toMerge
<1> SUFFICES ASSUME MergeInv, WindowAt, mPc \in InWindow
             PROVE  /\ mGroup \in 1 .. N /\ MFirst \in Nat /\ MFirst > start[1]
                    /\ MFirst = First(mGroup)
                    /\ toMerge \in Nat /\ toMerge <= Window
                    /\ toMerge = Window \/ MFirst - 1 + toMerge = N
                    /\ \A i \in 1 .. N :
                          i > start[1] /\ GroupOf(i) = mGroup
                            <=> MFirst <= i /\ i <= MFirst - 1 + toMerge
    OBVIOUS
<1>1. Typed BY DEF MergeInv
<1>2. start[1] \in Nat /\ mGroup \in Nat \ {0} /\ toMerge \in 0 .. Window /\ mPos \in Nat /\ slot \in Nat
    BY <1>1, Fields DEF Typed, MTyped
<1>3. Holds(scratch, MFirst - 1, toMerge) /\ MFirst - 1 \in Nat /\ MFirst - 1 + toMerge <= N
      /\ toMerge \in Nat /\ toMerge >= 1
    BY WindowInHand
<1>4. MFirst \in Int
    BY <1>2 DEF MFirst
<1>5. MFirst <= N /\ MFirst \in Nat
    BY <1>3, <1>4, Sizes
<1>6. MFirst = First(mGroup)
    BY <1>5 DEF WindowAt, Astray, InWindow
<1>7. MFirst > start[1] /\ MFirst >= start[1] + mGroup
    BY <1>2, <1>6, Firsts
<1>8. mGroup \in 1 .. N
    BY <1>2, <1>5, <1>7, Sizes
<1>9. toMerge = Window \/ MFirst - 1 + toMerge = N
    BY <1>3 DEF Holds
<1>10. ASSUME NEW i \in 1 .. N
       PROVE  i > start[1] /\ GroupOf(i) = mGroup <=> MFirst <= i /\ i <= MFirst - 1 + toMerge
  <2>1. i > start[1] => (GroupOf(i) = mGroup <=> MFirst <= i /\ i < MFirst + Window)
      BY <1>2, <1>6, WindowOf
  <2>2. MFirst <= i => i > start[1]
      BY <1>2, <1>5, <1>7
  <2>3. i < MFirst + Window <=> i <= MFirst - 1 + toMerge
      BY <1>2, <1>3, <1>5, <1>9, Sizes
  <2> QED BY <2>1, <2>2, <2>3
<1> QED BY <1>2, <1>5, <1>6, <1>7, <1>8, <1>9, <1>10, Sizes

(* Who moves what reads depend on.                                         *)
LEMMA ReadMovers ==
    HeaderReachesDisk /\ MergeInv /\ [Next]_vars =>
        \/ (Join \/ Crash) /\ main' = "down" /\ started' = FALSE
             /\ map' = [b \in Blocks |-> 0] /\ group' = [g \in 1 .. N |-> "PENDING"]
             /\ rPc' = [r \in Readers |-> "done"] /\ mPc' = "done" /\ raPc' = "done" /\ io' = "INVALID"
        \/ Boot \/ RaWaitEnds
        \/ /\ UNCHANGED <<disks, start, started, populate, toMerge, map, group, raVars, mVars, rVars>>
           /\ main' = main \/ (main = "serving" /\ main' = "joining")
           /\ MStays
        \/ RaThread \/ MThread
        \/ \E r \in Readers :
              Worker(r) /\ UNCHANGED <<disks, boot, io, toMerge, map, bufferLock, raVars, mVars, group>>
<1> SUFFICES ASSUME HeaderReachesDisk, MergeInv, [Next]_vars, ~RaThread, ~MThread, ~Boot, ~RaWaitEnds,
                    ~(Join \/ Crash)
             PROVE  \/ /\ UNCHANGED <<disks, start, started, populate, toMerge, map, group, raVars,
                                      mVars, rVars>>
                       /\ main' = main \/ (main = "serving" /\ main' = "joining")
                       /\ MStays
                    \/ \E r \in Readers : Worker(r) /\ UNCHANGED <<disks, boot, io, toMerge, map,
                                                             bufferLock, raVars, mVars, group>>
    BY DEF Join, Crash, End
<1>1. MStays BY OthersLeaveM
<1>2. CASE InitiateMerge \/ Pause \/ NotifyIOTerminated
    BY <1>1, <1>2 DEF InitiateMerge, Pause, NotifyIOTerminated, groups
<1>3. CASE UNCHANGED vars
    BY <1>1, <1>3 DEF vars, boot, groups
<1>4. ASSUME NEW r \in Readers, Worker(r)
      PROVE  UNCHANGED <<disks, boot, io, toMerge, map, bufferLock, raVars, mVars, group>>
    BY <1>4, WorkerFrame
<1> QED BY <1>2, <1>3, <1>4, Steps, HeaderIsSynced DEF Stops

-----------------------------------------------------------------------------
(* The map.                                                                *)

LEMMA MapMovers ==
    HeaderReachesDisk /\ MergeInv /\ [Next]_vars =>
        UNCHANGED <<scratch, map>> \/ Reconstruct \/ RaCopy \/ RaMap \/ map' = [b \in Blocks |-> 0]
<1> SUFFICES ASSUME HeaderReachesDisk, MergeInv, [Next]_vars
             PROVE  UNCHANGED <<scratch, map>> \/ Reconstruct \/ RaCopy \/ RaMap
                      \/ map' = [b \in Blocks |-> 0]
    OBVIOUS
<1>1. CASE Boot \/ RaWaitEnds
    BY <1>1 DEF Boot, RaWaitEnds, disks, scratchVars
<1>2. CASE MThread
    BY <1>2, MFrame
<1>3. CASE RaThread
    BY <1>3 DEF RaThread, RaStep, RaInit, RaHead, RaRead, RaReadFails, WaitForMergeReady, RaFlush,
                RaMark, RaAnnounce, RaWakes, disks, scratchVars
<1>4. CASE UNCHANGED <<disks, map>>
    BY <1>4 DEF disks, scratchVars
<1> QED BY <1>1, <1>2, <1>3, <1>4, ReadMovers

(* What the read-ahead thread finds in the scratch space after a restart.  *)
LEMMA Reconstructs ==
    MergeInv /\ Reconstruct =>
        /\ header = start /\ header[2] /\ header[1] < N
        /\ \E f \in Nat, n \in 1 .. Window : Holds(scratch, f, n)
<1> SUFFICES ASSUME MergeInv, Reconstruct
             PROVE  /\ header = start /\ header[2] /\ header[1] < N
                    /\ \E f \in Nat, n \in 1 .. Window : Holds(scratch, f, n)
    OBVIOUS
<1>0. Typed /\ Handshake /\ Saved /\ Starts
    BY DEF MergeInv, DataInv, RaData
<1>1. raPc = "reconstruct" /\ populate
    BY <1>0 DEF Reconstruct, Starts
<1>2. header = start /\ header[2] /\ ra_thread
    BY <1>0, <1>1 DEF Starts, Starting, Handshake, LockStep
<1>3. header[1] < N
    BY <1>2 DEF ra_thread
<1>4. HeldFor(scratch, header)
    BY <1>0, <1>2, <1>3 DEF Saved
<1>5. PICK n \in 1 .. Window : Holds(scratch, header[1], n) \/ Holds(scratch, header[1] - n, n)
    BY <1>4 DEF HeldFor
<1>6. PICK f : Holds(scratch, f, n)
    BY <1>5
<1> QED BY <1>2, <1>3, <1>6, HoldsBounds

LEMMA MapRightStep ==
    HeaderReachesDisk /\ ServingInv /\ [Next]_vars => MapRight'
<1> SUFFICES ASSUME HeaderReachesDisk, ServingInv, [Next]_vars PROVE MapRight'
    OBVIOUS
<1>0. MergeInv /\ MapRight /\ Typed /\ RaData
    BY DEF ServingInv, ReadsInv, MergeInv, DataInv
<1>1. CASE UNCHANGED <<scratch, map>>
    BY <1>0, <1>1 DEF MapRight
<1>2. CASE map' = [b \in Blocks |-> 0]
    BY <1>2 DEF MapRight
<1>3. CASE Reconstruct
  <2>1. PICK f \in Nat, n \in 1 .. Window : Holds(scratch, f, n)
      BY <1>0, <1>3, Reconstructs
  <2>2. UNCHANGED scratch
      BY <1>3 DEF Reconstruct, disks, scratchVars
  <2>3. ASSUME NEW b \in Blocks, map'[b] # 0
        PROVE  scratch[map'[b]] = <<b, Updated[b]>>
    <3>1. map'[b] \in Mapped(b)
        BY <1>3, <2>3, MapRebuilt
    <3>2. map'[b] \in 1 .. n /\ scratch[map'[b]][1] = b
        BY <2>1, <3>1, ListedIs DEF Mapped
    <3>3. /\ scratch[map'[b]] = <<Ops[f + map'[b]].new, Updated[Ops[f + map'[b]].new]>>
          /\ scratch[map'[b]][1] = Ops[f + map'[b]].new
        BY <2>1, <3>2, SlotOf
    <3> QED BY <3>2, <3>3
  <2> QED BY <2>2, <2>3 DEF MapRight
<1>4. CASE RaCopy
    BY <1>4 DEF RaCopy, MapRight
<1>5. CASE RaMap
  <2>0. UNCHANGED scratch /\ raPc = "map"
      BY <1>5 DEF RaMap, disks, scratchVars
  <2>1. Holds(scratch, RaFirst - 1, Len(temp))
      BY <1>0, <2>0 DEF RaData, Refills, Refilling
  <2>2. RaFirst = raPos - Len(temp) /\ raPos \in Nat /\ Len(temp) \in Nat
      BY <1>0, Fields, Sizes DEF RaFirst
  <2>3. ASSUME NEW b \in Blocks, map'[b] # 0
        PROVE  scratch[map'[b]] = <<b, Updated[b]>>
    <3>1. PICK i \in OpOn(b) : i \in RaFirst .. raPos - 1
        BY <1>5, <2>3 DEF RaMap
    <3>2. (CHOOSE j \in OpOn(b) : TRUE) = i
        BY <3>1, OnlyOne
    <3>3. map'[b] = i - RaFirst + 1
        BY <1>5, <3>1, <3>2 DEF RaMap
    <3>4. map'[b] \in 1 .. Len(temp) /\ RaFirst - 1 + map'[b] = i
        BY <2>2, <3>1, <3>3
    <3>5. scratch[map'[b]] = <<Ops[i].new, Updated[Ops[i].new]>>
        BY <2>1, <3>4, SlotOf
    <3> QED BY <3>1, <3>5 DEF OpOn
  <2> QED BY <2>0, <2>3 DEF MapRight
<1> QED BY <1>0, <1>1, <1>2, <1>3, <1>4, <1>5, MapMovers

-----------------------------------------------------------------------------
(* The windows and the header.                                             *)

LEMMA GroupInRange ==
    ASSUME NEW s \in Nat, NEW i \in 1 .. N, i > s
    PROVE  1 + ((i - s - 1) \div Window) \in 1 .. N
<1> DEFINE x == i - s - 1
<1>1. x \in Nat /\ x < i /\ Window \in Nat \ {0} /\ 0 \in Nat /\ i \in Nat /\ i <= N
    BY Sizes
<1> HIDE DEF x
<1>2. x \div Window \in Nat /\ x \div Window <= x
    BY <1>1, Quotient
<1> QED BY <1>1, <1>2, Sizes DEF x

LEMMA GroupTyped ==
    ASSUME Typed, NEW i \in 1 .. N, i > start[1]
    PROVE  GroupOf(i) \in 1 .. N
BY Fields, GroupInRange DEF GroupOf

(* The merge thread counts on, its window or a batch.                      *)
LEMMA MCounts ==
    HeaderReachesDisk /\ MergeInv /\ MThread =>
        /\ headerDisk'[1] >= headerDisk[1]
        /\ header'[1] = header[1] \/ MCommit \/ (MReplaceCommit /\ header[1] >= N)
<1> SUFFICES ASSUME HeaderReachesDisk, MergeInv, MThread
             PROVE  /\ headerDisk'[1] >= headerDisk[1]
                    /\ header'[1] = header[1] \/ MCommit \/ (MReplaceCommit /\ header[1] >= N)
    OBVIOUS
<1>0. Typed /\ Counts /\ MergesReplaces
    BY DEF MergeInv, DataInv, MData
<1>1. header[1] \in Nat /\ headerDisk[1] \in Nat /\ headerDisk[1] <= header[1] /\ slot \in Nat /\ slot >= 1
    BY <1>0, Fields DEF Counts
<1>2. CASE UNCHANGED headerVars
    BY <1>1, <1>2 DEF headerVars
<1>3. CASE MCommit
  <2>1. headerDisk' = headerDisk BY <1>3 DEF MCommit
  <2> QED BY <1>1, <1>3, <2>1
<1>5. CASE MClear
  <2>1. headerDisk' = headerDisk /\ header' = <<header[1], FALSE>> BY <1>5 DEF MClear
  <2> QED BY <1>1, <2>1
<1>6. CASE MFlush
  <2>1. headerDisk' = header /\ header' = header BY <1>6 DEF MFlush
  <2> QED BY <1>1, <2>1
<1>4. CASE MReplaceCommit
  <2>1. headerDisk' = header' /\ header'[1] = header[1] + slot - 1 /\ header[1] >= N
      BY <1>0, <1>4, HeaderIsSynced DEF MReplaceCommit, MergesReplaces, InReplaces
  <2> QED BY <1>1, <1>4, <2>1
<1> QED BY <1>2, <1>3, <1>4, <1>5, <1>6, MHeaders

LEMMA GroupedStep ==
    HeaderReachesDisk /\ ServingInv /\ [Next]_vars => Grouped'
<1> SUFFICES ASSUME HeaderReachesDisk, ServingInv, [Next]_vars PROVE Grouped'
    OBVIOUS
<1>0. MergeInv /\ WindowAt /\ Grouped /\ Typed /\ Counts /\ Windows
    BY DEF ServingInv, ReadsInv, MergeInv, DataInv
<1>00. Typed' BY <1>0, TypedStep
<1>1. ASSUME NEW i \in 1 .. N, i > start'[1], group' = [g \in 1 .. N |-> "PENDING"]
      PROVE  group'[(GroupOf(i))'] = "PENDING"
  <2>1. start'[1] \in Nat
      BY <1>00 DEF Typed, BootTyped
  <2>2. (GroupOf(i))' \in 1 .. N
      BY <1>1, <2>1, GroupInRange DEF GroupOf
  <2> QED BY <1>1, <2>2
<1>2. ASSUME UNCHANGED <<start, group>>, header'[1] = header[1], headerDisk'[1] = headerDisk[1],
             main' # "down" => main # "down"
      PROVE  Grouped'
    BY <1>0, <1>2 DEF Grouped, GroupOf
<1>3. CASE Join \/ Crash
  <2>1. main' = "down" /\ group' = [g \in 1 .. N |-> "PENDING"]
      BY <1>3, EndsAll
  <2> QED BY <1>1, <2>1 DEF Grouped
<1>4. CASE Boot
  <2>1. main = "down" /\ UNCHANGED <<group, header, headerDisk>> /\ start' = header
      BY <1>4 DEF Boot, disks, headerVars, groups
  <2>2. group' = [g \in 1 .. N |-> "PENDING"]
      BY <1>0, <2>1 DEF Windows, Typed, WindowTyped
  <2> QED BY <1>1, <2>1, <2>2 DEF Grouped
<1>5. CASE RaWaitEnds
    BY <1>2, <1>5 DEF RaWaitEnds, disks, headerVars, groups
<1>6. CASE RaThread
  <2>1. MStays BY <1>0, <1>6, RaStays
  <2> QED BY <1>2, <2>1 DEF MStays
<1>7. CASE MThread
  <2>1. UNCHANGED <<start, main>> /\ main # "down"
    <3>1. mPc # "done" BY <1>0, <1>7, MergeThreadIsUp
    <3> QED BY <1>0, <1>7, <3>1, Fields, MFrame
  <2>2. /\ headerDisk'[1] >= headerDisk[1] /\ headerDisk'[1] \in Int /\ headerDisk[1] \in Int
        /\ header[1] \in Int /\ header'[1] \in Int /\ mGroup \in Nat
    <3>1. headerDisk'[1] >= headerDisk[1] BY <1>0, <1>7, MCounts
    <3>2. headerDisk'[1] \in Nat /\ header'[1] \in Nat BY <1>00 DEF Typed, DisksTyped
    <3> QED BY <1>0, <3>1, <3>2, Fields
  <2>3. ASSUME NEW i \in 1 .. N, i > start[1], group[GroupOf(i)] = "COMPLETED"
        PROVE  i <= headerDisk'[1]
    <3>1. i <= headerDisk[1] BY <1>0, <2>3 DEF Grouped
    <3> QED BY <2>2, <3>1
  <2>4. ASSUME NEW i \in 1 .. N, i > start[1], group[GroupOf(i)] \in {"PENDING", "RA_READY"}
        PROVE  i > header'[1]
    <3>1. i > header[1] BY <1>0, <2>1, <2>4 DEF Grouped
    <3>2. CASE header'[1] = header[1]
        BY <3>1, <3>2
    <3>3. CASE MCommit
      <4>1. mPc = "commit" /\ header'[1] = header[1] + toMerge
          BY <3>3 DEF MCommit
      <4>2. GroupOf(i) # mGroup
          BY <1>0, <2>4, <4>1 DEF Windows
      <4>3. ~(MFirst <= i /\ i <= MFirst - 1 + toMerge) /\ MFirst \in Nat /\ toMerge \in Nat
          BY <1>0, <2>4, <4>1, <4>2, WindowIsGroup DEF InWindow
      <4>4. header[1] = MFirst - 1
          BY <1>0, <4>1, CommitsWindow
      <4> QED BY <3>1, <4>1, <4>3, <4>4
    <3>4. CASE header[1] >= N
        BY <3>1, <3>4, <2>2, Sizes
    <3> QED BY <1>0, <1>7, <3>2, <3>3, <3>4, MCounts
  <2>5. CASE UNCHANGED group
      BY <2>1, <2>3, <2>4, <2>5 DEF Grouped, GroupOf
  <2>6. ASSUME NEW state, SetGroup(state),
               NEW i \in 1 .. N, i > start[1], GroupOf(i) # mGroup
        PROVE  /\ group'[GroupOf(i)] = "COMPLETED" => i <= headerDisk'[1]
               /\ group'[GroupOf(i)] \in {"PENDING", "RA_READY"} => i > header'[1]
    <3>1. group'[GroupOf(i)] = group[GroupOf(i)]
        BY <1>0, <2>6, GroupTyped DEF SetGroup, Typed, WindowTyped
    <3> QED BY <2>3, <2>4, <2>6, <3>1
  <2>7. ASSUME NEW state, SetGroup(state), NEW i \in 1 .. N, i > start[1], GroupOf(i) = mGroup
        PROVE  group'[GroupOf(i)] = state
      BY <1>0, <2>7, GroupTyped DEF SetGroup, Typed, WindowTyped
  <2>8. CASE MLock /\ mPc' = "drain" /\ SetGroup("RA_READY")
    <3>1. group[mGroup] = "PENDING"
        BY <2>8 DEF MLock
    <3>2. ASSUME NEW i \in 1 .. N, i > start[1], GroupOf(i) = mGroup
          PROVE  group'[GroupOf(i)] = "RA_READY" /\ i > header'[1]
        BY <2>4, <2>7, <2>8, <3>1, <3>2
    <3> QED BY <2>1, <2>6, <2>8, <3>2 DEF Grouped, GroupOf
  <2>9. CASE SetGroup("IN_PROGRESS") \/ SetGroup("FAILED")
    <3>1. ASSUME NEW i \in 1 .. N, i > start[1], GroupOf(i) = mGroup
          PROVE  group'[GroupOf(i)] \in {"IN_PROGRESS", "FAILED"}
        BY <2>7, <2>9, <3>1
    <3> QED BY <2>1, <2>6, <2>9, <3>1 DEF Grouped, GroupOf
  <2>10. CASE SetMergeCompleted /\ SetGroup("COMPLETED")
    <3>1. mPc = "finish" BY <2>10 DEF SetMergeCompleted
    <3>2. headerDisk[1] = mPos - 1 /\ slot = toMerge + 1
        BY <1>0, <3>1 DEF MergeInv, DataInv, MData, Merges
    <3>3. MFirst = mPos - slot + 1
        BY <1>0, <3>1, WindowInHand DEF InWindow
    <3>4. MFirst - 1 + toMerge = headerDisk[1]
      <4>1. mPos \in Nat /\ toMerge \in Nat BY <1>0, Fields, Sizes
      <4> QED BY <3>2, <3>3, <4>1
    <3>5. ASSUME NEW i \in 1 .. N, i > start[1], GroupOf(i) = mGroup
          PROVE  group'[GroupOf(i)] = "COMPLETED" /\ i <= headerDisk'[1]
      <4>1. i <= headerDisk[1]
          BY <1>0, <3>1, <3>4, <3>5, WindowIsGroup DEF InWindow
      <4> QED BY <2>2, <2>7, <2>10, <3>5, <4>1
    <3> QED BY <2>1, <2>6, <2>10, <3>5 DEF Grouped, GroupOf
  <2> QED BY <1>7, <2>5, <2>8, <2>9, <2>10, GroupChanges
<1>8. CASE UNCHANGED <<disks, start, group>> /\ (main' # "down" => main # "down")
    BY <1>2, <1>8 DEF disks, headerVars
<1>9. CASE \E r \in Readers :
              UNCHANGED <<disks, boot, io, toMerge, map, bufferLock, raVars, mVars, group>>
    BY <1>8, <1>9 DEF boot
<1> QED BY <1>3, <1>4, <1>5, <1>6, <1>7, <1>8, <1>9, ReadMovers, <1>0

-----------------------------------------------------------------------------
(* Where the merge thread is.                                              *)

AtWindow == InWindow \cup {"head", "asleep"}

LEMMA MFirstMoves ==
    HeaderReachesDisk /\ MergeInv /\ MThread =>
        \/ mPc = "run" /\ mPc' = "head" /\ MFirst' = start[1] + 1 /\ mGroup' = mGroup
        \/ mPc \in AtWindow /\ ~Astray /\ MFirst' = MFirst /\ mGroup' = mGroup
        \/ Astray'
        \/ mPc = "notify" /\ MFirst' = MFirst + toMerge /\ mGroup' = mGroup + 1
        \/ mPc' \notin AtWindow
<1> SUFFICES ASSUME HeaderReachesDisk, MergeInv, MThread, mPc' \in AtWindow, ~Astray'
             PROVE  \/ mPc = "run" /\ mPc' = "head" /\ MFirst' = start[1] + 1 /\ mGroup' = mGroup
                    \/ mPc \in AtWindow /\ ~Astray /\ MFirst' = MFirst /\ mGroup' = mGroup
                    \/ mPc = "notify" /\ MFirst' = MFirst + toMerge /\ mGroup' = mGroup + 1
    OBVIOUS
<1>0. Typed /\ Merges
    BY DEF MergeInv, DataInv, MData
<1>1. main # "waitRa" /\ main' # "waitRa" /\ start' = start
    BY <1>0, MergeThreadIsUp
<1>2. mPos \in Nat /\ slot \in Nat /\ toMerge \in Nat
    BY <1>0, Fields, Sizes
<1> USE DEF InWrite, InWindow, AtWindow
<1>3. CASE MRun
  <2>1. mPc = "run" /\ mPc' = "head" /\ mPos' = start[1] + 1 /\ mGroup' = mGroup
      BY <1>3 DEF MRun, MergeFailed
  <2> QED BY <1>1, <2>1 DEF MFirst
<1>4. CASE WaitForMergeBegin
  <2>1. mPc = "head" /\ mPos <= N /\ mGroup' = mGroup
        /\ ((~IsMergeBeginError /\ mPc' = "lock" /\ mPos' = mPos) \/ (IsMergeBeginError /\ FallBack))
      BY <1>4 DEF WaitForMergeBegin
  <2>2. CASE ~IsMergeBeginError /\ mPc' = "lock" /\ mPos' = mPos
      BY <1>1, <2>1, <2>2 DEF Astray, MFirst
  <2>3. CASE IsMergeBeginError /\ mPc' = "head" /\ mPos' = mPos - (slot - 1) /\ io' = io
    <3>1. mPos' <= N BY <1>0, <1>2, <2>1, <2>3, Fields, Sizes
    <3> QED BY <2>3, <3>1 DEF Astray, IsMergeBeginError
  <2> QED BY <2>1, <2>2, <2>3, FallsBack
<1>5. CASE MLock
  <2>1. mPc = "lock" /\ mPc' \in {"write", "drain"} /\ slot' = 1 /\ mPos' = mPos /\ mGroup' = mGroup
      BY <1>5 DEF MLock
  <2>2. MFirst = mPos /\ MFirst' = mPos - 1 + 1
      BY <1>1, <2>1 DEF MFirst
  <2> QED BY <1>2, <2>1, <2>2 DEF Astray
<1>6. CASE MDrain \/ MSync \/ MCommit \/ MClear \/ MFlush \/ SetMergeCompleted
  <2>1. mPc \in InWrite /\ mPc' \in InWrite /\ UNCHANGED <<slot, mPos, mGroup>> /\ mPc # "head"
      BY <1>6 DEF MDrain, MSync, MCommit, MClear, MFlush, SetMergeCompleted
  <2> QED BY <1>1, <2>1 DEF Astray, MFirst
<1>7. CASE MWrite
  <2>1. mPc = "write" /\ mPc' = "write" /\ slot' = slot + 1 /\ mPos' = mPos + 1 /\ mGroup' = mGroup
      BY <1>7 DEF MWrite
  <2>2. mPos' - slot' + 1 = mPos - slot + 1 BY <1>2, <2>1
  <2> QED BY <1>1, <2>1, <2>2 DEF Astray, MFirst
<1>8. CASE MFails
  <2>1. mPc = "write" /\ FallBack /\ mGroup' = mGroup
      BY <1>8 DEF MFails
  <2>2. mPc' = "head" /\ mPos' = mPos - (slot - 1)
      BY <2>1, FallsBack
  <2>3. MFirst' = MFirst BY <1>1, <1>2, <2>1, <2>2 DEF MFirst
  <2> QED BY <2>1, <2>3 DEF Astray
<1>9. CASE NotifyRAForMergeReady
  <2>1. mPc = "notify" /\ mPc' \in {"asleep", "head"} /\ mPos' = mPos /\ mGroup' = mGroup + 1
      BY <1>9 DEF NotifyRAForMergeReady
  <2>2. MFirst = mPos - slot + 1 /\ MFirst' = mPos BY <1>1, <2>1 DEF MFirst
  <2>3. slot = toMerge + 1 BY <1>0, <2>1 DEF Merges
  <2>4. mPos = (mPos - slot + 1) + toMerge BY <1>2, <2>3
  <2> QED BY <2>1, <2>2, <2>4
<1>10. CASE MWakes
  <2>1. mPc = "asleep" /\ mPc' = "head" /\ mPos' = mPos /\ mGroup' = mGroup
      BY <1>10 DEF MWakes
  <2> QED BY <1>1, <2>1 DEF Astray, MFirst
<1>11. ~(MReplaceBegin \/ MReplace \/ MReplaceFails \/ MReplaced \/ MergeCompleted \/ MReplaceCommit)
    BY HeaderIsSynced DEF MReplaceBegin, MReplace, MReplaceFails, MReplaced, MergeCompleted, MergeFailed
<1> QED BY <1>3, <1>4, <1>5, <1>6, <1>7, <1>8, <1>9, <1>10, <1>11, HeaderIsSynced DEF MThread, MStep

LEMMA WindowAtStep ==
    HeaderReachesDisk /\ ServingInv /\ [Next]_vars => WindowAt'
<1> SUFFICES ASSUME HeaderReachesDisk, ServingInv, [Next]_vars PROVE WindowAt'
    OBVIOUS
<1>0. MergeInv /\ WindowAt /\ Typed /\ Counts /\ Windows /\ Merges /\ MergesReplaces
    BY DEF ServingInv, ReadsInv, MergeInv, DataInv, MData
<1>1. start[1] \in Nat /\ headerDisk[1] \in Nat /\ mGroup \in Nat \ {0} /\ toMerge \in Nat
    BY <1>0, Fields, Sizes DEF Typed, MTyped
<1>2. CASE Join \/ Crash
    BY <1>2, EndsAll DEF WindowAt, InWindow
<1>3. CASE Boot
  <2>1. main = "down" /\ UNCHANGED <<header, headerDisk>> /\ start' = header /\ mPc' \in {"run", mPc}
      BY <1>3 DEF Boot, Launch, disks, headerVars
  <2>2. mPc = "done" /\ header[1] \in Nat BY <1>0, <2>1, Fields
  <2>3. headerDisk[1] = header[1] BY <1>0, <2>2 DEF Counts
  <2>4. (1 - 1) * Window = 0 BY Sizes
  <2>5. (First(1))' = headerDisk'[1] + 1 BY <2>1, <2>2, <2>3, <2>4 DEF First
  <2>6. 1 \in Nat \ {0} OBVIOUS
  <2> QED BY <2>1, <2>2, <2>5, <2>6 DEF WindowAt, InWindow
<1>4. CASE RaWaitEnds
  <2>1. main = "waitRa" /\ mPc' = "run" /\ UNCHANGED <<headerDisk, start>>
      BY <1>4 DEF RaWaitEnds, Launch, disks, headerVars
  <2> QED BY <1>0, <2>1 DEF WindowAt, InWindow, First
<1>5. CASE MStays
    BY <1>0, <1>5 DEF MStays, WindowAt, First, mVars
<1>6. CASE MThread
  <2>1. start' = start /\ main' = main /\ mPc # "done"
      BY <1>0, <1>6, MergeThreadIsUp
  <2>2. main # "down"
      BY <1>0, <2>1, Fields
  <2>3. ASSUME mPc' \in InWindow \cup {"head", "asleep"}, ~Astray', MFirst' <= N
        PROVE  MFirst' = First(mGroup')
    <3>1. CASE mPc = "run" /\ MFirst' = start[1] + 1 /\ mGroup' = mGroup
      <4>1. mGroup = 1 BY <1>0, <3>1 DEF Windows
      <4> QED BY <1>1, <3>1, <4>1, Firsts
    <3>2. CASE mPc \in AtWindow /\ ~Astray /\ MFirst' = MFirst /\ mGroup' = mGroup
        BY <1>0, <2>3, <3>2 DEF WindowAt, AtWindow
    <3>3. CASE mPc = "notify" /\ MFirst' = MFirst + toMerge /\ mGroup' = mGroup + 1
      <4>1. MFirst = First(mGroup) /\ MFirst \in Nat /\ (toMerge = Window \/ MFirst - 1 + toMerge = N)
          BY <1>0, <3>3, WindowIsGroup DEF InWindow
      <4>2. toMerge = Window
          BY <1>1, <2>3, <3>3, <4>1, Sizes
      <4> QED BY <1>1, <3>3, <4>1, <4>2, Firsts
    <3> QED BY <1>0, <1>6, <2>3, <3>1, <3>2, <3>3, MFirstMoves DEF AtWindow
  <2>4. ASSUME headerDisk'[1] < N
        PROVE  \E g \in Nat \ {0} : headerDisk'[1] + 1 = First(g)
    <3>1. CASE headerDisk' = headerDisk
        BY <1>0, <2>2, <2>4, <3>1 DEF WindowAt
    <3>2. CASE MFlush
      <4>1. mPc = "flush" /\ headerDisk' = header BY <3>2 DEF MFlush
      <4>2. MFirst = First(mGroup) /\ MFirst \in Nat /\ (toMerge = Window \/ MFirst - 1 + toMerge = N)
          BY <1>0, <4>1, WindowIsGroup DEF InWindow
      <4>3. header[1] = mPos - 1 /\ slot = toMerge + 1
          BY <1>0, <4>1 DEF Merges
      <4>4. MFirst = mPos - slot + 1
          BY <1>0, <4>1, WindowInHand DEF InWindow
      <4>5. header[1] = MFirst - 1 + toMerge
        <5>1. mPos \in Nat BY <1>0, Fields
        <5> QED BY <1>1, <4>3, <4>4, <5>1
      <4>6. headerDisk'[1] + 1 = MFirst + Window
        <5>1. headerDisk'[1] = MFirst - 1 + toMerge BY <4>1, <4>5
        <5>2. toMerge = Window BY <2>4, <4>2, <5>1, Sizes
        <5> QED BY <1>1, <4>2, <5>1, <5>2
      <4>7. First(mGroup + 1) = MFirst + Window
          BY <1>1, <4>2, Firsts
      <4> QED BY <1>1, <4>6, <4>7
    <3>3. CASE MReplaceCommit
      <4>1. headerDisk[1] >= N
          BY <1>0, <3>3 DEF MReplaceCommit, MergesReplaces, InReplaces
      <4>2. headerDisk'[1] >= headerDisk[1] BY <1>0, <1>6, MCounts
      <4>3. headerDisk'[1] \in Nat
        <5>1. Typed' BY <1>0, TypedStep
        <5> QED BY <5>1 DEF Typed, DisksTyped
      <4> QED BY <1>1, <2>4, <4>1, <4>2, <4>3, Sizes
    <3>4. CASE MCommit \/ MClear
        BY <3>1, <3>4 DEF MCommit, MClear
    <3> QED BY <1>6, <3>1, <3>2, <3>3, <3>4, MHeaders DEF headerVars
  <2> QED BY <2>1, <2>2, <2>3, <2>4 DEF WindowAt, First
<1> QED BY <1>0, <1>2, <1>3, <1>4, <1>5, <1>6, OthersLeaveM

-----------------------------------------------------------------------------
(* What is in the map.                                                     *)

(* Every operation of the window that waits to be announced.               *)
LEMMA CoveredByRa ==
    ASSUME MergeInv, Reconstruct \/ RaMap, raPc' = "flush"
    PROVE  Covered'
<1>0. Typed /\ RaData
    BY DEF MergeInv, DataInv
<1>1. CASE Reconstruct
  <2>1. Holds(scratch, header[1], toMerge') /\ UNCHANGED scratch
      BY <1>1, ReconstructsIt DEF Reconstruct, disks, scratchVars
  <2>2. ASSUME NEW s \in 1 .. toMerge'
        PROVE  map'[scratch[s][1]] # 0
    <3>1. scratch[s][1] \in Blocks /\ s \in Listed
        BY <2>1, SlotOf, ListedIs
    <3>2. Mapped(scratch[s][1]) # {}
        BY <3>1 DEF Mapped
    <3> QED BY <1>1, <3>1, <3>2, MapRebuilt
  <2> QED BY <2>1, <2>2 DEF Covered
<1>2. CASE RaMap
  <2>0. UNCHANGED scratch /\ raPc = "map" /\ toMerge' = Len(temp)
      BY <1>2 DEF RaMap, disks, scratchVars
  <2>1. Holds(scratch, RaFirst - 1, Len(temp))
      BY <1>0, <2>0 DEF RaData, Refills, Refilling
  <2>2. RaFirst = raPos - Len(temp) /\ raPos \in Nat /\ Len(temp) \in Nat
      BY <1>0, Fields, Sizes DEF RaFirst
  <2>3. ASSUME NEW s \in 1 .. Len(temp)
        PROVE  map'[scratch[s][1]] # 0
    <3> DEFINE b == scratch[s][1]
               i == RaFirst - 1 + s
    <3>1. b \in Blocks /\ i \in 1 .. N /\ b = Ops[i].new
        BY <2>1, SlotOf
    <3>2. i \in OpOn(b) /\ i \in RaFirst .. raPos - 1 /\ i - RaFirst + 1 = s
        BY <2>2, <3>1 DEF OpOn
    <3>3. (CHOOSE j \in OpOn(b) : TRUE) = i
        BY <3>2, OnlyOne
    <3> HIDE DEF b, i
    <3>4. map'[b] = i - RaFirst + 1
        BY <1>2, <3>1, <3>2, <3>3 DEF RaMap
    <3>5. map'[b] # 0
        BY <3>2, <3>4
    <3> QED BY <3>5 DEF b
  <2> QED BY <2>0, <2>3 DEF Covered
<1> QED BY <1>1, <1>2

LEMMA PendingInRange ==
    ASSUME start'[1] \in Nat, group' = [g \in 1 .. N |-> "PENDING"],
           NEW i \in 1 .. N, i > start'[1]
    PROVE  group'[(GroupOf(i))'] = "PENDING"
<1>1. (GroupOf(i))' \in 1 .. N
    BY GroupInRange DEF GroupOf
<1> QED BY <1>1

(* Boot, for all that is about windows.                                    *)
LEMMA BootIs ==
    ASSUME MergeInv, Boot
    PROVE  /\ main = "down" /\ raPc = "done" /\ mPc = "done" /\ header[1] = headerDisk[1]
           /\ group = [g \in 1 .. N |-> "PENDING"] /\ UNCHANGED <<group, disks, map, toMerge, started>>
           /\ start' = header /\ io' = "MERGE_READY" /\ populate' = header[2]
           /\ raPc' = (IF header[1] < N THEN "init" ELSE "done")
           /\ IF header[1] \in 1 .. N - 1 /\ header[2] THEN main' = "waitRa" ELSE main' = "serving"
           /\ \/ main' = "waitRa" /\ UNCHANGED <<rPc, mPc>>
              \/ rPc' = [r \in Readers |-> "idle"] /\ mPc' = "run"
<1>0. Typed /\ Windows /\ Counts
    BY DEF MergeInv, DataInv
<1>1. main = "down" BY DEF Boot
<1>2. raPc = "done" /\ mPc = "done" BY <1>0, <1>1, Fields
<1>3. header[1] = headerDisk[1] BY <1>0, <1>2 DEF Counts
<1>4. group = [g \in 1 .. N |-> "PENDING"] BY <1>0, <1>1 DEF Windows, Typed, WindowTyped
<1> QED BY <1>1, <1>2, <1>3, <1>4 DEF Boot, Launch, groups

LEMMA MapCoversStep ==
    HeaderReachesDisk /\ ServingInv /\ [Next]_vars => MapCovers'
<1> SUFFICES ASSUME HeaderReachesDisk, ServingInv, [Next]_vars PROVE MapCovers'
    OBVIOUS
<1>0. MergeInv /\ WindowAt /\ MapCovers /\ Typed /\ Handshake
    BY DEF ServingInv, ReadsInv, MergeInv
<1>00. start'[1] \in Nat
  <2>1. Typed' BY <1>0, TypedStep
  <2> QED BY <2>1 DEF Typed, BootTyped
<1> USE DEF InWindow
<1>1. CASE Join \/ Crash
  <2>1. group' = [g \in 1 .. N |-> "PENDING"] /\ mPc' = "done" /\ raPc' = "done" /\ io' = "INVALID"
      BY <1>1, EndsAll
  <2> QED BY <1>00, <2>1, PendingInRange DEF MapCovers, Begun
<1>2. CASE Boot
  <2>1. group' = [g \in 1 .. N |-> "PENDING"] /\ mPc' \in {"run", "done"} /\ raPc' \in {"init", "done"}
        /\ io' = "MERGE_READY"
      BY <1>0, <1>2, BootIs
  <2> QED BY <1>00, <2>1, PendingInRange DEF MapCovers, Begun
<1>3. CASE RaWaitEnds
  <2>1. UNCHANGED <<map, scratch, toMerge, group, start, io, raPc>> /\ mPc' = "run"
      BY <1>3 DEF RaWaitEnds, Launch, disks, scratchVars, groups, raVars
  <2> QED BY <1>0, <2>1 DEF MapCovers, Begun, Covered, ra_thread, GroupOf
<1>4. ASSUME UNCHANGED <<map, scratch, toMerge, group, start, raPc>>, MStays
      PROVE  MapCovers'
  <2>1. RaAnnounce => raPc = "announce" BY DEF RaAnnounce
  <2> QED BY <1>0, <1>4, <2>1 DEF MStays, MapCovers, Covered, GroupOf, mVars
<1>5. CASE RaThread
  <2>0. MStays /\ UNCHANGED <<group, start>> /\ mPc' = mPc
      BY <1>0, <1>5, RaStays DEF MStays, mVars
  <2>1. ASSUME raPc \in Refilling \cup {"reconstruct"}, NEW i \in 1 .. N, i > start[1]
        PROVE  group[GroupOf(i)] \notin {"RA_READY", "IN_PROGRESS"}
    <3>1. Served = {}
        BY <1>0, <2>1 DEF Handshake, LockStep, Announcing
    <3>2. GroupOf(i) \in DOMAIN group
        BY <1>0, <2>1, GroupTyped DEF Typed, WindowTyped
    <3> QED BY <3>1, <3>2 DEF Served
  <2>2. ASSUME raPc \in Refilling \cup {"reconstruct"}, Reconstruct \/ RaMap \/ RaCopy,
               raPc' \in {"flush", "mark", "announce"} => Covered'
        PROVE  MapCovers'
    <3>1. mPc \notin {"lock", "drain"} /\ io # "MERGE_BEGIN"
        BY <1>0, <2>2, OneHasTheWindow
    <3>2. ~Begun'
        BY <2>0, <2>2, <3>1 DEF MStays, Begun, RaAnnounce, Refilling
    <3> QED BY <2>0, <2>1, <2>2, <3>1, <3>2 DEF MapCovers, GroupOf
  <2>3. CASE Reconstruct
    <3>1. raPc = "reconstruct" /\ raPc' \in {"flush", "done"}
        BY <2>3 DEF Reconstruct, ReadAheadIOFailed
    <3> QED BY <1>0, <2>2, <2>3, <3>1, CoveredByRa
  <2>4. CASE RaMap
    <3>1. raPc = "map" /\ raPc' = "flush" BY <2>4 DEF RaMap
    <3> QED BY <1>0, <2>2, <2>4, <3>1, CoveredByRa DEF Refilling
  <2>5. CASE RaCopy
    <3>1. raPc = "lock" /\ raPc' = "map" BY <2>5 DEF RaCopy
    <3> QED BY <2>2, <2>5, <3>1 DEF Refilling
  <2>6. ASSUME UNCHANGED <<map, scratch, toMerge>>,
               raPc' \in {"flush", "mark", "announce"} => raPc \in {"flush", "mark", "announce"}
        PROVE  MapCovers'
    <3>1. RaAnnounce => raPc = "announce" BY DEF RaAnnounce
    <3> QED BY <1>0, <2>0, <2>6, <3>1 DEF MStays, MapCovers, Covered, GroupOf
  <2>7. CASE RaInit \/ RaHead \/ RaRead \/ RaReadFails \/ WaitForMergeReady \/ RaWakes
      BY <2>6, <2>7 DEF RaInit, RaHead, RaRead, RaReadFails, ReadAheadIOFailed, WaitForMergeReady,
                        RaWakes, disks, scratchVars
  <2>8. CASE RaFlush \/ RaMark \/ RaAnnounce
      BY <2>6, <2>8 DEF RaFlush, RaMark, RaAnnounce, ReadAheadIOFailed, scratchVars
  <2> QED BY <1>5, <2>3, <2>4, <2>5, <2>7, <2>8 DEF RaThread, RaStep
<1>6. CASE MThread
  <2>1. UNCHANGED <<scratch, map, toMerge, raPc, start>>
      BY <1>6, MFrame DEF raVars
  <2>2. Begun' => Begun
      BY <1>6, <2>1, MergeThreadTells DEF Begun, ra_thread
  <2>3. mPc' \in {"lock", "drain"} => mPc = "lock" \/ Begun
    <3>1. WaitForMergeBegin /\ mPc' = "lock" => Begun
      <4>1. OnlyReplaces BY <1>0 DEF MergeInv, DataInv, MData
      <4>2. WaitForMergeBegin => mPc = "head" /\ mPos <= N
            /\ (FallBack \/ io = "MERGE_BEGIN")
          BY DEF WaitForMergeBegin
      <4>3. FallBack => mPc' # "lock" BY FallsBack
      <4>4. mPos <= N => ~(mPos > N) BY <1>0, Fields, Sizes
      <4> QED BY <4>1, <4>2, <4>3, <4>4 DEF Begun, OnlyReplaces
    <3>2. ASSUME mPc' \in {"lock", "drain"}
          PROVE  (WaitForMergeBegin /\ mPc' = "lock") \/ mPc = "lock"
        BY <1>6, <3>2, FallsBack
           DEF MThread, MStep, MRun, WaitForMergeBegin, MLock, MDrain, MWrite, MSync, MFails, MCommit,
               MClear, MFlush, MFlushFails, SetMergeCompleted, NotifyRAForMergeReady, MWakes,
               MReplaceBegin, MReplace, MReplaceCommit, MReplaceFails, MReplaced, MergeCompleted,
               MergeFailed
    <3> QED BY <3>1, <3>2
  <2>4. mPc' \in {"lock", "drain"} \/ Begun' \/ raPc' \in {"flush", "mark", "announce"} => Covered'
      BY <1>0, <2>1, <2>2, <2>3 DEF MapCovers, Covered
  <2>5. ASSUME NEW i \in 1 .. N, i > start[1], group'[GroupOf(i)] \in {"RA_READY", "IN_PROGRESS"}
        PROVE  map[Ops[i].new] # 0
    <3>1. CASE group[GroupOf(i)] \in {"RA_READY", "IN_PROGRESS"}
        BY <1>0, <2>5, <3>1 DEF MapCovers
    <3>2. CASE group[GroupOf(i)] \notin {"RA_READY", "IN_PROGRESS"}
      <4>1. \/ MLock /\ SetGroup("RA_READY")
            \/ MDrain /\ SetGroup("IN_PROGRESS")
            \/ SetGroup("FAILED") \/ SetGroup("COMPLETED")
          BY <1>6, <2>5, <3>2, GroupChanges
      <4>2. GroupOf(i) \in 1 .. N
          BY <1>0, <2>5, GroupTyped
      <4>3. \A state : SetGroup(state) =>
               group'[GroupOf(i)] = IF GroupOf(i) = mGroup THEN state ELSE group[GroupOf(i)]
          BY <1>0, <4>2 DEF SetGroup, Typed, WindowTyped
      <4>4. GroupOf(i) = mGroup /\ (MLock \/ MDrain)
          BY <2>5, <3>2, <4>1, <4>3
      <4>5. mPc \in {"lock", "drain"}
          BY <4>4 DEF MLock, MDrain
      <4>6. /\ MFirst <= i /\ i <= MFirst - 1 + toMerge
            /\ MFirst \in Nat /\ toMerge \in Nat
          BY <1>0, <2>5, <4>4, <4>5, WindowIsGroup
      <4>7. Holds(scratch, MFirst - 1, toMerge)
          BY <1>0, <4>5, WindowInHand
      <4> DEFINE s == i - MFirst + 1
      <4>8. s \in 1 .. toMerge /\ MFirst - 1 + s = i
          BY <4>6
      <4>9. scratch[s][1] = Ops[i].new
          BY <4>7, <4>8, SlotOf
      <4> QED BY <1>0, <4>5, <4>8, <4>9 DEF MapCovers, Covered
    <3> QED BY <3>1, <3>2
  <2> QED BY <2>1, <2>4, <2>5 DEF MapCovers, GroupOf
<1>7. CASE UNCHANGED <<disks, start, toMerge, map, group, raVars>> /\ MStays
    BY <1>4, <1>7 DEF disks, scratchVars, raVars
<1>8. CASE UNCHANGED <<disks, boot, io, toMerge, map, raVars, mVars, group>>
    BY <1>0, <1>8 DEF disks, scratchVars, boot, raVars, mVars, MapCovers, Covered, Begun, ra_thread, GroupOf
<1> QED BY <1>0, <1>1, <1>2, <1>3, <1>5, <1>6, <1>7, <1>8, ReadMovers

-----------------------------------------------------------------------------
(* What is written of a window.                                            *)

LEMMA PristineStep ==
    HeaderReachesDisk /\ ServingInv /\ [Next]_vars => Pristine'
<1> SUFFICES ASSUME HeaderReachesDisk, ServingInv, [Next]_vars PROVE Pristine'
    OBVIOUS
<1>0. MergeInv /\ WindowAt /\ Pristine /\ Typed /\ Handshake /\ Counts /\ Windows /\ Merges
      /\ MergesReplaces
    BY DEF ServingInv, ReadsInv, MergeInv, DataInv, MData
<1>1. OnBase'
    BY <1>0, OnBaseStep
<1> DEFINE Right(i) == \/ Untouched(Ops[i].new)
                       \/ InHand(i) /\ (group[GroupOf(i)] \in {"IN_PROGRESS", "FAILED"} \/ Resumed)
<1>2. ASSUME NEW i \in 1 .. N, i > headerDisk'[1],
             (Untouched(Ops[i].new))' \/ (group[GroupOf(i)])' \in {"IN_PROGRESS", "FAILED"} \/ Resumed'
                \/ ~(InHand(i))'
      PROVE  (Right(i))'
    BY <1>1, <1>2 DEF OnBase
<1>3. ASSUME NEW i \in 1 .. N, i > headerDisk'[1], main # "down",
             UNCHANGED start, headerDisk'[1] = headerDisk[1],
             Untouched(Ops[i].new) => (Untouched(Ops[i].new))',
             group[GroupOf(i)] = "IN_PROGRESS" =>
                 group'[GroupOf(i)] \in {"IN_PROGRESS", "FAILED"} \/ ~InHand(i),
             group[GroupOf(i)] = "FAILED" => group'[GroupOf(i)] = "FAILED"
      PROVE  (Right(i))'
  <2>1. Right(i)
      BY <1>0, <1>3 DEF Pristine
  <2>2. Untouched(Ops[i].new) \/ group'[GroupOf(i)] \in {"IN_PROGRESS", "FAILED"} \/ Resumed
      BY <1>3, <2>1
  <2>3. (group[GroupOf(i)])' = group'[GroupOf(i)] /\ Resumed' = Resumed
      BY <1>3 DEF GroupOf, Resumed
  <2> QED BY <1>2, <1>3, <2>2, <2>3
<1>4. ASSUME main # "down", UNCHANGED <<base, baseDisk, group, start>>, headerDisk'[1] = headerDisk[1]
      PROVE  Pristine'
  <2>1. \A i \in 1 .. N : i > headerDisk'[1] => (Right(i))'
      BY <1>3, <1>4 DEF Untouched
  <2> QED BY <2>1 DEF Pristine
<1>5. CASE Join \/ Crash
    BY <1>5, EndsAll DEF Pristine
<1>6. CASE Boot
  <2>1. UNCHANGED headerDisk /\ start' = header /\ mPc = "done" /\ header[1] = headerDisk[1]
      BY <1>0, <1>6, BootIs DEF disks, headerVars
  <2>2. headerDisk[2] => header[2]
      BY <1>0, <2>1 DEF Counts
  <2>3. ASSUME NEW i \in 1 .. N, i > headerDisk'[1]
        PROVE  (Right(i))'
    <3>1. (InHand(i))' => Resumed'
        BY <2>1, <2>2 DEF InHand, Resumed
    <3> QED BY <1>2, <2>3, <3>1
  <2> QED BY <2>3 DEF Pristine
<1>7. CASE RaWaitEnds
    BY <1>4, <1>7 DEF RaWaitEnds, disks, baseVars, headerVars, groups
<1>8. CASE MStays
  <2>1. main = "down" => main' = "down" BY <1>8 DEF MStays
  <2> QED BY <1>4, <1>8, <2>1 DEF MStays, Pristine
<1>9. CASE MThread
  <2>1. UNCHANGED <<start, main>> /\ main # "down"
    <3>1. mPc # "done" BY <1>0, <1>9, MergeThreadIsUp
    <3> QED BY <1>0, <1>9, <3>1, Fields, MFrame
  <2>2. CASE MWrite
    <3>1. mPc = "write" /\ slot <= toMerge /\ mPos <= N /\ mPos' = mPos + 1 /\ slot' = slot + 1
          /\ base' = [base EXCEPT ![Ops[mPos].new] = scratch[slot][2]]
          /\ UNCHANGED <<baseDisk, header, headerDisk, group>>
        BY <2>2 DEF MWrite, headerVars, groups
    <3>2. mPos \in Nat /\ slot \in Nat /\ slot >= 1 /\ toMerge \in Nat
        BY <1>0, Fields, Sizes
    <3>3. MFirst = mPos - slot + 1 /\ MFirst \in Nat /\ MFirst > start[1] /\ start[1] \in Nat
        BY <1>0, <3>1, WindowInHand, WindowIsGroup, Fields DEF InWindow
    <3>4. mPos \in 1 .. N /\ MFirst <= mPos /\ mPos <= MFirst - 1 + toMerge
        BY <3>1, <3>2, <3>3, Sizes
    <3>5. GroupOf(mPos) = mGroup
        BY <1>0, <3>1, <3>4, WindowIsGroup DEF InWindow
    <3>6. group'[GroupOf(mPos)] = "IN_PROGRESS"
        BY <1>0, <3>1, <3>5 DEF Windows
    <3>7. ASSUME NEW i \in 1 .. N, i > headerDisk'[1]
          PROVE  (Right(i))'
      <4>1. CASE i = mPos
        <5>1. group'[GroupOf(i)] = "IN_PROGRESS" BY <3>6, <4>1
        <5>2. (group[GroupOf(i)])' = group'[GroupOf(i)] BY <2>1 DEF GroupOf
        <5> QED BY <1>2, <3>7, <5>1, <5>2
      <4>2. CASE i # mPos
        <5>1. Ops[i].new # Ops[mPos].new BY <3>4, <4>2, OneOpOnBlock
        <5>2. Ops[i].new \in Blocks BY OpTyped
        <5>3. base'[Ops[i].new] = base[Ops[i].new]
            BY <1>0, <3>1, <5>1, <5>2 DEF Typed, DisksTyped
        <5>4. Untouched(Ops[i].new) => (Untouched(Ops[i].new))'
            BY <3>1, <5>3 DEF Untouched
        <5> QED BY <1>3, <2>1, <3>1, <3>7, <5>4
      <4> QED BY <4>1, <4>2
    <3> QED BY <3>7 DEF Pristine
  <2>3. CASE MSync
    <3>1. UNCHANGED <<base, group, headerDisk>> /\ baseDisk' = base
        BY <2>3 DEF MSync, Fsync, headerVars, groups
    <3>2. \A i \in 1 .. N : Untouched(Ops[i].new) => (Untouched(Ops[i].new))'
        BY <3>1 DEF Untouched
    <3>3. \A i \in 1 .. N : i > headerDisk'[1] => (Right(i))'
        BY <1>3, <2>1, <3>1, <3>2
    <3> QED BY <3>3 DEF Pristine
  <2>4. CASE MFlush
    <3>1. mPc = "flush" /\ headerDisk' = header BY <2>4 DEF MFlush
    <3>2. ~headerDisk'[2] BY <1>0, <3>1 DEF Handshake, LockStep
    <3>3. \A i \in 1 .. N : ~(InHand(i))' BY <3>2 DEF InHand
    <3> QED BY <1>2, <3>3 DEF Pristine
  <2>5. CASE MReplace \/ MReplaceCommit
    <3>1. headerDisk[1] >= N
        BY <1>0, <2>5 DEF MReplace, MReplaceCommit, MergesReplaces, InReplaces
    <3>2. headerDisk'[1] >= headerDisk[1] /\ headerDisk'[1] \in Nat /\ headerDisk[1] \in Nat
      <4>1. Typed' BY <1>0, TypedStep
      <4>2. headerDisk'[1] \in Nat BY <4>1 DEF Typed, DisksTyped
      <4> QED BY <1>0, <1>9, <4>2, MCounts, Fields
    <3>3. \A i \in 1 .. N : ~(i > headerDisk'[1])
        BY <3>1, <3>2, Sizes
    <3> QED BY <3>3 DEF Pristine
  <2>6. CASE MCommit \/ MClear
    <3>1. UNCHANGED <<base, baseDisk, group, headerDisk>>
        BY <2>6 DEF MCommit, MClear, baseVars, groups
    <3> QED BY <1>4, <2>1, <3>1
  <2>7. CASE MQuiet
    <3>1. UNCHANGED <<base, baseDisk, headerDisk>>
        BY <2>7, QuietSteps DEF disks, baseVars, headerVars
    <3>2. ASSUME NEW i \in 1 .. N, i > headerDisk'[1]
          PROVE  (Right(i))'
      <4>1. Untouched(Ops[i].new) => (Untouched(Ops[i].new))'
          BY <3>1 DEF Untouched
      <4>2. i > start[1]
        <5>1. start[1] <= headerDisk[1] /\ start[1] \in Nat /\ headerDisk[1] \in Nat
            BY <1>0, Fields DEF Counts
        <5> QED BY <3>1, <3>2, <5>1
      <4>3. \A state : SetGroup(state) =>
               group'[GroupOf(i)] = IF GroupOf(i) = mGroup THEN state ELSE group[GroupOf(i)]
          BY <1>0, <4>2, GroupTyped DEF SetGroup, Typed, WindowTyped
      <4>4. SetMergeCompleted => ~InHand(i)
        <5>1. SetMergeCompleted => mPc = "finish" BY DEF SetMergeCompleted
        <5> QED BY <1>0, <5>1 DEF Merges, InHand
      <4>5. MLock /\ SetGroup("RA_READY") /\ mPc' = "drain" => group[mGroup] = "PENDING"
          BY DEF MLock
      <4>6. group[GroupOf(i)] # "FAILED"
        <5>1. mPc # "done" BY <1>0, <1>9, MergeThreadIsUp
        <5> QED BY <1>0, <4>2, <5>1, GroupTyped DEF Windows
      <4>7. SetMergeCompleted => group[mGroup] = "IN_PROGRESS"
          BY DEF SetMergeCompleted
      <4> QED BY <1>3, <1>9, <2>1, <3>1, <3>2, <4>1, <4>3, <4>4, <4>5, <4>6, <4>7, GroupChanges
    <3> QED BY <3>2 DEF Pristine
  <2> QED BY <1>9, <2>2, <2>3, <2>4, <2>5, <2>6, <2>7, HeaderIsSynced DEF MThread, MStep, MQuiet
<1> QED BY <1>0, <1>5, <1>6, <1>7, <1>8, <1>9, OthersLeaveM

-----------------------------------------------------------------------------
(* The window that was begun before a restart.                             *)

Resuming == main # "down" /\ Resumed /\ start[1] \in 1 .. N - 1
Rebuilt ==
    \A n \in 1 .. Window : Holds(scratch, start[1], n) => \A s \in 1 .. n : map[scratch[s][1]] # 0

LEMMA ResumesIs ==
    Resumes <=> /\ raPc # "dead" /\ (main = "down" => ~started)
                /\ Resuming =>
                      /\ header[2] \/ mPc = "flush"
                      /\ raPc \in {"flush", "mark", "announce"} \/ Starting => ~started
                      /\ main # "waitRa" => started \/ raPc = "done"
                      /\ ~Starting => Rebuilt
BY DEF Resumes, Resuming, Rebuilt

LEMMA ResumesByRa ==
    ReadAheadStarts /\ ServingInv /\ RaThread => Resumes'
<1> SUFFICES ASSUME ReadAheadStarts, ServingInv, RaThread PROVE Resumes'
    OBVIOUS
<1>0. MergeInv /\ Typed /\ Handshake /\ Resumes /\ RaData
    BY DEF ServingInv, ReadsInv, MergeInv, DataInv
<1>1. UNCHANGED <<start, mPc, main>> /\ headerDisk'[1] = headerDisk[1]
    BY <1>0, RaStays, RaFrame DEF MStays, mVars
<1>2. raPc \notin {"done", "dead"} /\ main # "down"
  <2>1. raPc \notin {"done", "dead"}
      BY DEF RaThread, RaStep, RaInit, RaHead, Reconstruct, RaRead, RaReadFails, WaitForMergeReady,
             RaCopy, RaMap, RaFlush, RaMark, RaAnnounce, RaWakes
  <2> QED BY <1>0, <2>1, Fields
<1>3. raPc' # "dead"
    BY DEF ReadAheadStarts, ReadAheadIOFailed, RaThread, RaStep, RaInit, RaHead, Reconstruct, RaRead,
           RaReadFails, WaitForMergeReady, RaCopy, RaMap, RaFlush, RaMark, RaAnnounce, RaWakes
<1>4. CASE ~Resuming'
    BY <1>1, <1>2, <1>3, <1>4 DEF Resumes, Resuming
<1>5. CASE Resuming'
  <2>0. Resuming /\ start[2] /\ start[1] < N /\ start[1] \in Nat
    <3>1. Resuming /\ start[2] /\ start[1] \in 1 .. N - 1
        BY <1>1, <1>5 DEF Resuming, Resumed
    <3>2. start[1] \in Nat /\ N \in Nat
        BY <1>0, Numbers
    <3> QED BY <3>1, <3>2
  <2>1. /\ header[2] \/ mPc = "flush"
        /\ raPc \in {"flush", "mark", "announce"} \/ Starting => ~started
        /\ main # "waitRa" => started
        /\ ~Starting => Rebuilt
      BY <1>0, <1>2, <2>0, ResumesIs
  <2>2. ASSUME header'[2] \/ header'[2] = header[2],
               raPc' \in {"flush", "mark", "announce"} \/ Starting' => ~started',
               started => started',
               ~Starting' => Rebuilt'
        PROVE  Resumes'
      BY <1>1, <1>2, <1>3, <2>1, <2>2 DEF Resumes, Resuming, Rebuilt
  <2>3. ASSUME header'[2] \/ header'[2] = header[2], UNCHANGED <<scratch, map>>,
               raPc' \in {"flush", "mark", "announce"} \/ Starting' => ~started',
               started => started',
               Starting => Starting'
        PROVE  Resumes'
    <3>1. ~Starting' => Rebuilt'
        BY <1>1, <2>1, <2>3 DEF Rebuilt
    <3> QED BY <2>2, <2>3, <3>1
  <2>4. raPc \notin Refilling
      BY <1>0, <2>1 DEF RaData, Refills, Handshake, LockStep, InWindow
  <2>5. CASE RaInit
    <3>1. raPc = "init" /\ raPc' = "head" /\ UNCHANGED <<header, scratch, map, started, populate>>
        BY <1>3, <2>5 DEF RaInit, disks, headerVars, scratchVars
    <3>2. populate = start[2] /\ Starting
        BY <1>0, <3>1 DEF RaData, Starts, Starting
    <3>3. Starting' BY <2>0, <3>1, <3>2 DEF Starting
    <3> QED BY <2>1, <2>3, <3>1, <3>2, <3>3
  <2>6. CASE RaHead
    <3>1. raPc = "head" /\ UNCHANGED <<header, scratch, map, started, populate, raPos>>
          /\ raPc' = IF raPos > N THEN "done" ELSE IF populate THEN "reconstruct" ELSE "read"
        BY <2>6 DEF RaHead, disks, headerVars, scratchVars
    <3>2. Starting => raPos = start[1] + 1 /\ populate
        BY <1>0, <3>1 DEF RaData, Starts, Starting
    <3>3. Starting => ~(raPos > N)
        BY <2>0, <3>2, Sizes
    <3>4. Starting <=> Starting'
        BY <3>1, <3>2, <3>3 DEF Starting
    <3> QED BY <2>1, <2>3, <3>1, <3>4
  <2>7. CASE Reconstruct
    <3>1. raPc = "reconstruct" /\ raPc' \in {"flush", "done"} /\ UNCHANGED <<header, scratch, started>>
        BY <2>7 DEF Reconstruct, ReadAheadIOFailed, disks, headerVars, scratchVars
    <3>2. Starting
        BY <1>0, <3>1 DEF RaData, Starts, Starting
    <3>3. ASSUME NEW n \in 1 .. Window, Holds(scratch, start[1], n), NEW s \in 1 .. n
          PROVE  map'[scratch[s][1]] # 0
      <4>1. scratch[s][1] \in Blocks /\ s \in Listed
          BY <3>3, SlotOf, ListedIs
      <4>2. Mapped(scratch[s][1]) # {}
          BY <4>1 DEF Mapped
      <4> QED BY <2>7, <4>1, <4>2, MapRebuilt
    <3>4. Rebuilt'
        BY <1>1, <3>1, <3>3 DEF Rebuilt
    <3> QED BY <2>1, <2>2, <3>1, <3>2, <3>4
  <2>8. CASE RaRead \/ RaReadFails \/ WaitForMergeReady
    <3>1. raPc = "read" /\ raPc' \in {"read", "asleep", "lock", "done"}
          /\ UNCHANGED <<header, scratch, map, started>>
        BY <2>8 DEF RaRead, RaReadFails, WaitForMergeReady, ReadAheadIOFailed, disks, headerVars,
                    scratchVars
    <3> QED BY <2>3, <3>1 DEF Starting
  <2>9. CASE RaFlush \/ RaMark
    <3>1. /\ raPc \in {"flush", "mark"} /\ raPc' \in {"mark", "announce", "done"}
          /\ UNCHANGED <<scratch, map, started>>
          /\ header' = header \/ header' = <<header[1], TRUE>>
        BY <2>9 DEF RaFlush, RaMark, ReadAheadIOFailed, scratchVars
    <3>2. header'[2] \/ header'[2] = header[2]
      <4>1. CASE header' = <<header[1], TRUE>>
        <5>1. header'[2] = TRUE BY <4>1
        <5> QED BY <5>1
      <4> QED BY <3>1, <4>1
    <3> QED BY <2>1, <2>3, <3>1, <3>2 DEF Starting
  <2>10. CASE RaAnnounce
    <3>1. raPc = "announce" /\ raPc' \in {"head", "done"}
          /\ UNCHANGED <<scratch, map, header, populate>> /\ started' \in {started, start[2]}
        BY <2>10 DEF RaAnnounce, ReadAheadIOFailed, scratchVars
    <3>2. ~populate BY <1>0, <3>1 DEF Handshake
    <3> QED BY <2>0, <2>3, <3>1, <3>2 DEF Starting
  <2>11. ~(RaCopy \/ RaMap \/ RaWakes)
      BY <2>4 DEF RaCopy, RaMap, RaWakes, Refilling
  <2> QED BY <2>5, <2>6, <2>7, <2>8, <2>9, <2>10, <2>11 DEF RaThread, RaStep
<1> QED BY <1>4, <1>5

LEMMA ResumesStep ==
    HeaderReachesDisk /\ ReadAheadStarts /\ ServingInv /\ [Next]_vars => Resumes'
<1> SUFFICES ASSUME HeaderReachesDisk, ReadAheadStarts, ServingInv, [Next]_vars PROVE Resumes'
    OBVIOUS
<1>0. MergeInv /\ Typed /\ Resumes /\ Counts /\ MergesReplaces /\ Merges /\ Handshake
    BY DEF ServingInv, ReadsInv, MergeInv, DataInv, MData
<1>1. CASE Join \/ Crash
  <2>1. main' = "down" /\ started' = FALSE /\ raPc' = "done"
      BY <1>1 DEF Join, Crash, End
  <2> QED BY <2>1 DEF Resumes
<1>2. CASE Boot
  <2>1. /\ main = "down" /\ raPc' = (IF header[1] < N THEN "init" ELSE "done")
        /\ UNCHANGED <<header, started>> /\ start' = header /\ main' # "down"
        /\ (header[1] \in 1 .. N - 1 /\ header[2] => main' = "waitRa")
      BY <1>0, <1>2, BootIs DEF disks, headerVars
  <2>2. ~started' BY <1>0, <2>1 DEF Resumes
  <2>3. ASSUME Resuming'
        PROVE  header'[2] /\ main' = "waitRa" /\ Starting'
    <3>1. header[2] /\ header[1] \in 1 .. N - 1
        BY <2>1, <2>3 DEF Resuming, Resumed
    <3>2. header[1] < N BY <3>1, Sizes
    <3> QED BY <2>1, <3>1, <3>2 DEF Starting
  <2> QED BY <2>1, <2>2, <2>3 DEF Resumes, Resuming
<1>3. CASE RaWaitEnds
  <2>1. mPc = "done" /\ main = "waitRa" /\ main' = "serving" /\ (started \/ raPc = "done")
        /\ UNCHANGED <<start, header, headerDisk, started, populate, raPc, scratch, map>>
    <3>1. RaWaitEnds => /\ main = "waitRa" /\ main' = "serving"
                        /\ started \/ raPc \in {"done", "dead"}
                        /\ UNCHANGED <<start, header, headerDisk, started, populate, raPc, scratch, map>>
        BY DEF RaWaitEnds, Launch, ReadAheadStarts, disks, headerVars, scratchVars, raVars
    <3> QED BY <1>0, <1>3, <3>1, Fields DEF Resumes
  <2>2. Resuming' => Resuming
      BY <2>1 DEF Resuming, Resumed
  <2>3. Starting' = Starting /\ Rebuilt' = Rebuilt
      BY <2>1 DEF Starting, Rebuilt
  <2>4. /\ raPc # "dead"
        /\ Resuming => /\ header[2]
                       /\ raPc \in {"flush", "mark", "announce"} \/ Starting => ~started
                       /\ ~Starting => Rebuilt
      BY <1>0, <2>1, ResumesIs
  <2> QED BY <2>1, <2>2, <2>3, <2>4 DEF Resumes, Resuming, Rebuilt
<1>4. CASE /\ UNCHANGED <<disks, start, started, populate, map, raVars, mVars>>
           /\ main' = main \/ (main = "serving" /\ main' = "joining")
    BY <1>0, <1>4 DEF Resumes, Resumed, Starting, disks, headerVars, scratchVars, raVars, mVars
<1>5. CASE RaThread
    BY <1>5, ResumesByRa
<1>6. CASE MThread
  <2>1. UNCHANGED <<scratch, main, started, populate, start, map, raPc>> /\ main # "down"
    <3>1. mPc # "done" BY <1>0, <1>6, MergeThreadIsUp
    <3> QED BY <1>0, <1>6, <3>1, Fields, MFrame DEF raVars
  <2>2. ASSUME Resuming'
        PROVE  Resuming /\ headerDisk'[1] = headerDisk[1] /\ headerDisk[1] < N
    <3>1. headerDisk'[1] = start[1] /\ headerDisk'[1] >= headerDisk[1] /\ start[1] <= headerDisk[1]
        BY <1>0, <1>6, <2>1, <2>2, MCounts DEF Resuming, Resumed, Counts
    <3>2. headerDisk[1] = start[1] BY <1>0, <3>1, Fields
    <3> QED BY <2>1, <2>2, <3>1, <3>2, Sizes DEF Resuming, Resumed
  <2>3. ASSUME Resuming', header[2] \/ mPc = "flush"
        PROVE  header'[2] \/ mPc' = "flush"
    <3>1. CASE MFlush
      <4>1. mPc = "flush" /\ headerDisk' = header BY <3>1 DEF MFlush
      <4>2. header[1] = mPos - 1 /\ headerDisk[1] = MFirst - 1 /\ slot = toMerge + 1
          BY <1>0, <4>1 DEF Merges
      <4>3. MFirst = mPos - slot + 1 /\ toMerge \in Nat /\ toMerge >= 1 /\ mPos \in Nat
          BY <1>0, <4>1, WindowInHand, Fields DEF InWindow
      <4>4. header[1] # headerDisk[1] BY <4>2, <4>3
      <4> QED BY <2>2, <2>3, <4>1, <4>4
    <3>2. CASE MReplaceCommit
      <4>1. headerDisk[1] >= N /\ headerDisk[1] \in Nat
          BY <1>0, <3>2, Fields DEF MReplaceCommit, MergesReplaces, InReplaces
      <4> QED BY <2>2, <2>3, <4>1, Sizes
    <3>3. CASE MClear
        BY <3>3 DEF MClear
    <3>4. CASE MCommit
      <4>1. mPc = "commit" /\ header' = <<header[1] + toMerge, header[2]>> BY <3>4 DEF MCommit
      <4> QED BY <2>3, <4>1
    <3>5. CASE UNCHANGED headerVars /\ ~MFlush
      <4>1. mPc # "flush"
          BY <1>6, <3>5, HeaderIsSynced
             DEF MThread, MStep, MRun, WaitForMergeBegin, MLock, MDrain, MWrite, MSync, MFails,
                 MCommit, MClear, SetMergeCompleted, NotifyRAForMergeReady, MWakes,
                 MReplaceBegin, MReplace, MReplaceCommit, MReplaceFails, MReplaced, MergeCompleted
      <4> QED BY <2>3, <3>5, <4>1 DEF headerVars
    <3> QED BY <1>6, <3>1, <3>2, <3>3, <3>4, <3>5, MHeaders
  <2>4. Starting' = Starting /\ Rebuilt' = Rebuilt
      BY <2>1 DEF Starting, Rebuilt
  <2>5. /\ raPc # "dead"
        /\ Resuming => /\ header[2] \/ mPc = "flush"
                       /\ raPc \in {"flush", "mark", "announce"} \/ Starting => ~started
                       /\ main # "waitRa" => started \/ raPc = "done"
                       /\ ~Starting => Rebuilt
      BY <1>0, ResumesIs
  <2> QED BY <2>1, <2>2, <2>3, <2>4, <2>5 DEF Resumes, Resuming, Rebuilt
<1>7. CASE UNCHANGED <<disks, boot, map, raVars, mVars>>
    BY <1>4, <1>7 DEF boot
<1> QED BY <1>0, <1>1, <1>2, <1>3, <1>4, <1>5, <1>6, <1>7, ReadMovers

-----------------------------------------------------------------------------
(* The reads that last.                                                    *)

(* While a window is pending, the blocks of its operations not found in    *)
(* the map are read from their sources, and rightly so.                    *)
LEMMA PendingSources ==
    ASSUME ServingInv, main \notin {"down", "waitRa"},
           NEW i \in 1 .. N, ~Blind(i), i > start[1], group[GroupOf(i)] = "PENDING",
           ~InScratch(Ops[i].new) \/ raPc \in {"map", "flush"}
    PROVE  Unwritten(i)
<1>0. MergeInv /\ Typed /\ Counts /\ Handshake /\ RaData
      /\ Grouped /\ WindowAt /\ Pristine /\ Resumes
    BY DEF ServingInv, ReadsInv, MergeInv, DataInv
<1>1. /\ start[1] \in Nat /\ headerDisk[1] \in Nat /\ header[1] \in Nat
      /\ headerDisk[1] <= header[1] /\ start[1] <= headerDisk[1]
    BY <1>0, Fields DEF Counts
<1>2. i > headerDisk[1]
  <2>1. i > header[1] BY <1>0 DEF Grouped
  <2> QED BY <1>1, <2>1
<1>3. ASSUME NEW j \in i .. N, ~Untouched(Ops[j].new)
      PROVE  FALSE
  <2>1. j \in 1 .. N /\ j > headerDisk[1] /\ i <= j /\ headerDisk[1] < N /\ j > start[1]
      BY <1>1, <1>2, <1>3, Sizes
  <2>2. InHand(j) /\ (group[GroupOf(j)] \in {"IN_PROGRESS", "FAILED"} \/ Resumed)
      BY <1>0, <1>3, <2>1 DEF Pristine
  <2>3. PICK n \in 1 .. Window : Holds(scratch, headerDisk[1], n) /\ j <= headerDisk[1] + n
      BY <2>2 DEF InHand
  <2>4. PICK g \in Nat \ {0} : headerDisk[1] + 1 = First(g)
      BY <1>0, <2>1 DEF WindowAt
  <2>5. First(g) <= i /\ i < First(g) + Window /\ First(g) <= j /\ j < First(g) + Window
    <3>1. j < headerDisk[1] + 1 + Window
        BY <1>1, <2>1, <2>3, Sizes
    <3> QED BY <1>1, <1>2, <2>1, <2>4, <3>1, Sizes
  <2>6. GroupOf(i) = GroupOf(j)
      BY <1>1, <2>1, <2>5, WindowOf
  <2>7. Resumed
      BY <2>2, <2>6
  <2>8. start[1] \in 1 .. N - 1
    <3>1. start = <<start[1], TRUE>>
      <4>1. start \in Nat \X BOOLEAN /\ start[2] BY <1>0, <2>7 DEF Typed, BootTyped, Resumed
      <4>2. PICK f \in Nat, d \in BOOLEAN : start = <<f, d>> BY <4>1
      <4>3. start[2] = TRUE BY <4>1
      <4> QED BY <4>2, <4>3
    <3>2. GroupOf(i) = 1
      <4>1. First(g) = start[1] + 1 BY <2>4, <2>7 DEF Resumed
      <4>2. First(1) = start[1] + 1 BY <1>1, Sizes DEF First
      <4>3. First(1) <= i /\ i < First(1) + Window BY <2>5, <4>1, <4>2
      <4> QED BY <2>1, <1>1, <4>3, WindowOf
    <3>3. start[1] # 0
        BY <3>1, <3>2 DEF Blind, FirstWindowCut
    <3> QED BY <1>1, <2>1, <3>3, Sizes
  <2>9. Resuming
      BY <2>7, <2>8 DEF Resuming
  <2>10. raPc \notin {"flush", "mark", "announce"} /\ ~Starting /\ Rebuilt /\ (header[2] \/ mPc = "flush")
      BY <1>0, <2>9, ResumesIs DEF Starting
  <2>11. raPc # "map"
      BY <1>0, <2>10 DEF RaData, Refills, Handshake, LockStep, InWindow, Refilling
  <2>12. headerDisk[1] = start[1]
      BY <2>7 DEF Resumed
  <2> DEFINE s == i - headerDisk[1]
  <2>13. s \in 1 .. n /\ headerDisk[1] + s = i
      BY <1>1, <1>2, <2>1, <2>3
  <2>14. scratch[s][1] = Ops[i].new
      BY <2>3, <2>13, SlotOf
  <2>15. map[Ops[i].new] # 0
      BY <2>3, <2>10, <2>12, <2>13, <2>14 DEF Rebuilt
  <2>16. InScratch(Ops[i].new)
      BY <2>8, <2>15 DEF InScratch, resume_merge
  <2> QED BY <2>10, <2>11, <2>16
<1> QED BY <1>2, <1>3 DEF Unwritten

(* Nobody reads in the window that is being merged.                        *)
LEMMA WindowIsQuiet ==
    ASSUME ServingInv, mPc \in {"write", "flush"}, NEW r \in Readers, rPc[r] = "source",
           NEW i \in OpOn(rBlock[r]), i > headerDisk[1]
    PROVE  i > MFirst - 1 + toMerge
<1>0. MergeInv /\ Typed /\ Drained /\ WindowAt /\ Windows /\ Merges /\ Aligned
    BY DEF ServingInv, ReadsInv, MergeInv, DataInv, MData
<1>1. i \in 1 .. N BY DEF OpOn
<1>2. /\ mGroup \in 1 .. N /\ MFirst \in Nat /\ toMerge \in Nat
      /\ i > start[1] /\ GroupOf(i) = mGroup <=> MFirst <= i /\ i <= MFirst - 1 + toMerge
    BY <1>0, <1>1, WindowIsGroup DEF InWindow
<1>3. headerDisk[1] = MFirst - 1
    BY <1>0 DEF Aligned, Merges, BeforeCommit, Astray
<1>4. group[mGroup] = "IN_PROGRESS"
    BY <1>0 DEF Windows
<1>5. GroupOf(i) # mGroup
    BY <1>0, <1>2, <1>4, NobodyReads DEF ReadsDrained, Typed, WindowTyped
<1> QED BY <1>1, <1>2, <1>3, <1>5

LEMMA ReadingByM ==
    HeaderReachesDisk /\ ServingInv /\ MThread => Reading'
<1> SUFFICES ASSUME HeaderReachesDisk, ServingInv, MThread,
                    NEW r \in Readers, rPc[r] = "source", NEW i \in OpOn(rBlock[r]), ~Blind(i)
             PROVE  (Unwritten(i))'
  <2>1. MThread => UNCHANGED <<start, rPc, rBlock>>
      BY MFrame DEF rVars
  <2>2. MThread => \A i : (Blind(i))' = Blind(i)
      BY <2>1 DEF Blind, FirstWindowCut, GroupOf
  <2> QED BY <2>1, <2>2 DEF Reading, OpOn
<1>0. MergeInv /\ Typed /\ Reading /\ Merges /\ MergesReplaces /\ Windows
    BY DEF ServingInv, ReadsInv, MergeInv, DataInv, MData
<1>1. i > headerDisk[1] /\ i \in 1 .. N /\ \A j \in i .. N : Untouched(Ops[j].new)
    BY <1>0 DEF Reading, Unwritten, OpOn
<1>2. ASSUME i > headerDisk'[1], base' = base, baseDisk' \in {baseDisk, base}
      PROVE  (Unwritten(i))'
    BY <1>1, <1>2 DEF Unwritten, Untouched
<1>3. headerDisk[1] \in Nat /\ mPos \in Nat /\ slot \in Nat /\ toMerge \in Nat
    BY <1>0, Fields, Sizes
<1>4. CASE MWrite
  <2>1. mPc = "write" /\ slot <= toMerge /\ mPos <= N /\ UNCHANGED <<baseDisk, headerDisk>>
        /\ base' = [base EXCEPT ![Ops[mPos].new] = scratch[slot][2]]
      BY <1>4 DEF MWrite, headerVars
  <2>2. i > MFirst - 1 + toMerge
      BY <1>1, <2>1, WindowIsQuiet
  <2>3. MFirst = mPos - slot + 1
      BY <1>0, <2>1, WindowInHand DEF InWindow
  <2>4. mPos < i
      BY <1>1, <1>3, <2>1, <2>2, <2>3
  <2>5. ASSUME NEW j \in i .. N
        PROVE  (Untouched(Ops[j].new))'
    <3>1. j \in 1 .. N /\ j # mPos /\ mPos \in 1 .. N
      <4>1. mPos >= 1 BY <1>0, Fields
      <4> QED BY <1>1, <1>3, <2>1, <2>4, <4>1
    <3>2. Ops[j].new # Ops[mPos].new BY <3>1, OneOpOnBlock
    <3>3. Ops[j].new \in Blocks BY <3>1, OpTyped
    <3>4. base'[Ops[j].new] = base[Ops[j].new]
        BY <1>0, <2>1, <3>2, <3>3 DEF Typed, DisksTyped
    <3>5. Untouched(Ops[j].new) BY <1>1
    <3> QED BY <2>1, <3>4, <3>5 DEF Untouched
  <2> QED BY <1>1, <2>1, <2>5 DEF Unwritten
<1>5. CASE MFlush
  <2>1. mPc = "flush" /\ headerDisk' = header /\ UNCHANGED <<base, baseDisk>>
      BY <1>5 DEF MFlush, baseVars
  <2>2. i > MFirst - 1 + toMerge
      BY <1>1, <2>1, WindowIsQuiet
  <2>3. header[1] = mPos - 1 /\ slot = toMerge + 1 /\ MFirst = mPos - slot + 1
      BY <1>0, <2>1, WindowInHand DEF Merges, InWindow
  <2>4. i > header[1]
    <3>1. header[1] = MFirst - 1 + toMerge BY <1>3, <2>3
    <3> QED BY <2>2, <3>1
  <2> QED BY <1>2, <2>1, <2>4
<1>6. CASE MReplace \/ MReplaceCommit
  <2>1. headerDisk[1] >= N
      BY <1>0, <1>6 DEF MReplace, MReplaceCommit, MergesReplaces, InReplaces
  <2> QED BY <1>1, <1>3, <2>1, Sizes
<1>7. CASE MSync \/ MCommit \/ MClear
    BY <1>1, <1>2, <1>7 DEF MSync, Fsync, MCommit, MClear, headerVars, baseVars
<1>8. CASE MQuiet
    BY <1>1, <1>2, <1>8, QuietSteps DEF disks, headerVars, baseVars
<1> QED BY <1>4, <1>5, <1>6, <1>7, <1>8, HeaderIsSynced DEF MThread, MStep, MQuiet

LEMMA ReadingStep ==
    HeaderReachesDisk /\ ServingInv /\ [Next]_vars => Reading'
<1> SUFFICES ASSUME HeaderReachesDisk, ServingInv, [Next]_vars PROVE Reading'
    OBVIOUS
<1>0. MergeInv /\ Typed /\ Reading
    BY DEF ServingInv, ReadsInv, MergeInv
<1>1. ASSUME \A r \in Readers : rPc'[r] # "source" PROVE Reading'
    BY <1>1 DEF Reading
<1>2. ASSUME UNCHANGED <<base, baseDisk>>, headerDisk'[1] = headerDisk[1]
      PROVE  \A i : (Unwritten(i))' = Unwritten(i)
    BY <1>2 DEF Unwritten, Untouched
<1>3. ASSUME UNCHANGED <<base, baseDisk, start, rVars>>, headerDisk'[1] = headerDisk[1]
      PROVE  Reading'
  <2>1. \A i : (Blind(i))' = Blind(i) BY <1>3 DEF Blind, FirstWindowCut, GroupOf
  <2> QED BY <1>0, <1>2, <1>3, <2>1 DEF Reading, rVars, OpOn
<1>4. CASE Join \/ Crash
    BY <1>1, <1>4 DEF Join, Crash, End
<1>5. CASE Boot
  <2>1. \A r \in Readers : rPc[r] = "done"
      BY <1>0, <1>5, BootIs DEF Typed, ReadsTyped
  <2>2. rPc' = rPc \/ rPc' = [r \in Readers |-> "idle"]
      BY <1>0, <1>5, BootIs
  <2> QED BY <1>1, <2>1, <2>2
<1>6. CASE RaWaitEnds
    BY <1>1, <1>6 DEF RaWaitEnds, Launch
<1>7. CASE UNCHANGED <<disks, start, rVars>>
    BY <1>3, <1>7 DEF disks, baseVars, headerVars
<1>8. CASE RaThread
  <2>1. MStays /\ UNCHANGED rVars BY <1>0, <1>8, RaStays, RaFrame
  <2> QED BY <1>3, <2>1 DEF MStays
<1>9. ASSUME NEW r \in Readers, Worker(r), UNCHANGED <<disks, boot>>
      PROVE  Reading'
  <2>1. UNCHANGED <<base, baseDisk, headerDisk, start>>
      BY <1>9 DEF disks, baseVars, headerVars, boot
  <2>2. \A i : (Unwritten(i))' = Unwritten(i)
      BY <1>2, <2>1
  <2>3. SUFFICES ASSUME NEW q \in Readers, rPc'[q] = "source",
                        NEW i \in OpOn(rBlock'[q]), ~Blind(i)
                 PROVE  Unwritten(i)
    <3>1. \A i : (Blind(i))' = Blind(i) BY <2>1 DEF Blind, FirstWindowCut, GroupOf
    <3> QED BY <2>1, <2>2, <3>1 DEF Reading, OpOn
  <2>4. CASE rPc[q] = "source" /\ rBlock'[q] = rBlock[q]
      BY <1>0, <2>3, <2>4 DEF Reading
  <2>5. CASE BeginRead(r)
    <3>1. PICK b \in Blocks : \E j \in Pending(b) :
             /\ group[GroupOf(j)] = "PENDING"
             /\ ~InScratch(b) \/ raPc \in {"map", "flush"}
             /\ rBlock' = [rBlock EXCEPT ![r] = b]
        BY <2>5 DEF BeginRead, FromSourceNow
    <3>2. PICK j \in Pending(b) :
             /\ group[GroupOf(j)] = "PENDING"
             /\ ~InScratch(b) \/ raPc \in {"map", "flush"}
             /\ rBlock' = [rBlock EXCEPT ![r] = b]
        BY <3>1
    <3>3. rPc[r] = "idle" /\ rPc' = [rPc EXCEPT ![r] = "source"]
        BY <2>5 DEF BeginRead
    <3>4. CASE q = r
      <4>1. rBlock'[q] = b
          BY <1>0, <3>2, <3>4 DEF Typed, ReadsTyped
      <4>2. i = j /\ j \in 1 .. N /\ j > start[1] /\ Ops[j].new = b
          BY <2>3, <3>2, <4>1, OnlyOne DEF Pending, OpOn
      <4>3. main \notin {"down", "waitRa"}
          BY <1>0, <3>3 DEF Typed, ReadsTyped
      <4> QED BY <2>3, <3>2, <4>2, <4>3, PendingSources
    <3>5. CASE q # r
        BY <1>0, <2>3, <2>4, <3>2, <3>3, <3>5 DEF Typed, ReadsTyped
    <3> QED BY <3>4, <3>5
  <2>6. CASE EndRead(r)
    <3>1. rBlock' = [rBlock EXCEPT ![r] = 0]
          /\ \E next \in {"idle", "done"} : rPc' = [rPc EXCEPT ![r] = next]
        BY <2>6 DEF EndRead
    <3> QED BY <1>0, <2>3, <2>4, <3>1 DEF Typed, ReadsTyped
  <2>7. CASE WorkerEnds(r)
    <3>1. rBlock' = rBlock /\ rPc' = [rPc EXCEPT ![r] = "done"]
        BY <2>7 DEF WorkerEnds
    <3> QED BY <1>0, <2>3, <2>4, <3>1 DEF Typed, ReadsTyped
  <2> QED BY <1>9, <2>5, <2>6, <2>7 DEF Worker
<1> QED BY <1>0, <1>4, <1>5, <1>6, <1>7, <1>8, <1>9, ReadMovers, ReadingByM

-----------------------------------------------------------------------------
LEMMA ReadsInit == Init => ReadsInv
<1> SUFFICES ASSUME Init PROVE ReadsInv
    OBVIOUS
<1>1. /\ header = <<0, FALSE>> /\ headerDisk = <<0, FALSE>> /\ start = <<0, FALSE>>
      /\ main = "down" /\ raPc = "done" /\ mPc = "done" /\ io = "INVALID" /\ started = FALSE
      /\ map = [b \in Blocks |-> 0] /\ group = [g \in 1 .. N |-> "PENDING"]
      /\ rPc = [r \in Readers |-> "done"]
    BY DEF Init, Idle
<1>2. \A i \in 1 .. N : i > start[1] => group[GroupOf(i)] = "PENDING"
  <2>1. start[1] \in Nat BY <1>1
  <2> QED BY <1>1, <2>1, GroupInRange DEF GroupOf
<1>3. MapRight /\ Grouped
    BY <1>1, <1>2 DEF MapRight, Grouped
<1>4. WindowAt /\ MapCovers
    BY <1>1, <1>2 DEF WindowAt, MapCovers, InWindow, Begun
<1>5. Pristine /\ Resumes /\ Reading
    BY <1>1 DEF Pristine, Resumes, Reading
<1> QED BY <1>3, <1>4, <1>5 DEF ReadsInv

(* For any faults but a header that is not synced and a read-ahead thread  *)
(* that does not come up in time: the map, the windows and the scratch     *)
(* space agree on what is read from where, at any moment of any merge.     *)
THEOREM ReadsInvariant ==
    ASSUME HeaderReachesDisk, ReadAheadStarts PROVE Spec => []ReadsInv
<1>1. ServingInv /\ [Next]_vars => ReadsInv'
    BY MapRightStep, GroupedStep, WindowAtStep, MapCoversStep, PristineStep, ResumesStep, ReadingStep
       DEF ReadsInv
<1>2. Typed /\ Drained /\ Handshake /\ DataInv /\ ReadsInv /\ [Next]_vars => ReadsInv'
    BY <1>1 DEF ServingInv, MergeInv
<1> QED BY <1>2, ReadsInit, DataInvariant, MergeInvariant, PTL DEF Spec

-----------------------------------------------------------------------------
(* What a read returns.                                                    *)

(* A block whose operations, if it has any, are counted.                   *)
LEMMA CountedOnBase ==
    ASSUME Typed, DataInv, NEW b \in Blocks,
           \A i \in OpOn(b) : i <= header[1],
           \A j \in 1 .. Len(Replaces) : Replaces[j] = b => N + j <= header[1]
    PROVE  base[b] = Updated[b]
<1>0. OnBase BY DEF DataInv
<1>1. CASE b \in Replaced
  <2>1. PICK j \in 1 .. Len(Replaces) : Replaces[j] = b BY <1>1 DEF Replaced
  <2> QED BY <1>0, <2>1 DEF OnBase, Settled
<1>2. CASE b \notin Replaced /\ OpOn(b) = {}
    BY <1>0, <1>2, UpdatedElsewhere DEF OnBase, Untouched
<1>3. ASSUME NEW i \in OpOn(b) PROVE base[b] = Updated[b]
  <2>1. i \in 1 .. N /\ Ops[i].new = b BY DEF OpOn
  <2> QED BY <1>0, <2>1 DEF OnBase, Settled
<1> QED BY <1>1, <1>2, <1>3

(* A block with an operation that was pending when the handler started.    *)
LEMMA AnswersPending ==
    ASSUME ServingInv, main = "serving",
           NEW b \in Blocks, NEW i \in Pending(b), ~(Blind(i) /\ group[GroupOf(i)] = "PENDING")
    PROVE  AnswerNow(b) = Updated[b] \/ (AnswerNow(b) = Error /\ group[GroupOf(i)] = "FAILED")
<1>0. MergeInv /\ Typed /\ DataInv /\ MapRight /\ MapCovers /\ Grouped /\ Counts /\ OnBase
    BY DEF ServingInv, ReadsInv, MergeInv, DataInv
<1>1. i \in 1 .. N /\ i > start[1] /\ Ops[i].new = b /\ i \in OpOn(b)
    BY DEF Pending, OpOn
<1>2. (CHOOSE j \in Pending(b) : TRUE) = i
  <2>1. \A j \in Pending(b) : j = i BY <1>1, OnlyOne DEF Pending
  <2> QED BY <2>1
<1>3. b \notin Replaced
    BY <1>1, OneOpOnBlock
<1> DEFINE state == group[GroupOf(i)]
<1>4. state \in GroupStates
  <2>1. GroupOf(i) \in 1 .. N BY <1>0, <1>1, GroupTyped
  <2> QED BY <1>0, <2>1 DEF Typed, WindowTyped
<1>5. AnswerNow(b) =
         CASE state = "PENDING" /\ ~InScratch(b) -> FromSource(i)
           [] state = "PENDING" /\ InScratch(b) -> scratch[map[b]][2]
           [] state \in {"RA_READY", "IN_PROGRESS"} /\ map[b] # 0 -> scratch[map[b]][2]
           [] state = "COMPLETED" -> base[b]
           [] OTHER -> Error
    BY <1>2, <1>3 DEF AnswerNow
<1>6. map[b] # 0 => scratch[map[b]][2] = Updated[b]
    BY <1>0 DEF MapRight
<1>7. CASE state = "PENDING" /\ ~InScratch(b)
  <2>1. Unwritten(i)
      BY <1>1, <1>7, PendingSources
  <2>2. FromSource(i) = Updated[b]
      BY <1>0, <1>1, <2>1, SourceUnwritten DEF FromSource
  <2> HIDE DEF state
  <2>3. AnswerNow(b) = FromSource(i)
      BY <1>5, <1>7
  <2> QED BY <2>2, <2>3
<1>8. CASE state = "PENDING" /\ InScratch(b)
  <2>1. map[b] # 0
      BY <1>8 DEF InScratch
  <2> HIDE DEF state
  <2>2. AnswerNow(b) = scratch[map[b]][2]
      BY <1>5, <1>8
  <2> QED BY <1>6, <2>1, <2>2
<1>9. CASE state \in {"RA_READY", "IN_PROGRESS"}
  <2>1. map[b] # 0
      BY <1>0, <1>1, <1>9 DEF MapCovers
  <2> HIDE DEF state
  <2>2. AnswerNow(b) = scratch[map[b]][2]
      BY <1>5, <1>9, <2>1
  <2> QED BY <1>6, <2>1, <2>2
<1>10. CASE state = "COMPLETED"
  <2>1. i <= headerDisk[1]
      BY <1>0, <1>1, <1>10 DEF Grouped
  <2>2. i <= header[1]
      BY <1>0, <1>1, <2>1, Fields DEF Counts
  <2>3. base[b] = Updated[b]
      BY <1>0, <1>1, <2>2 DEF OnBase, Settled
  <2> HIDE DEF state
  <2>4. AnswerNow(b) = base[b]
      BY <1>5, <1>10
  <2> QED BY <2>3, <2>4
<1>11. CASE state = "FAILED"
  <2> HIDE DEF state
  <2>1. AnswerNow(b) = Error
      BY <1>5, <1>11
  <2> QED BY <1>11, <2>1 DEF state
<1> QED BY <1>4, <1>7, <1>8, <1>9, <1>10, <1>11 DEF GroupStates

(* Whoever reads what block of the partition, before, while and after it   *)
(* is merged, in a merge that was begun anew or resumed after power was    *)
(* lost, gets the block of the updated image; only in a window whose merge *)
(* failed is the read refused.  A read that takes its time gets it too: no *)
(* operation overwrites a source while it is read.  It is not so, and not  *)
(* claimed, of one window of one kind of resumption: where power was lost  *)
(* in the first window of the merge (FirstWindowCut), the reads of that    *)
(* window that find it pending.  Then too the rest of the partition is     *)
(* read right, and so is that window once the read-ahead has restored it.  *)
THEOREM EveryReadIsRight ==
    ASSUME HeaderReachesDisk, ReadAheadStarts PROVE Spec => []ReadsRight
<1> DEFINE blind == {i \in 1 .. N : FirstWindowCut /\ GroupOf(i) = 1}
<1>1. ServingInv => ReadsRight
  <2> SUFFICES ASSUME ServingInv, main = "serving" PROVE ReadsRight
      BY DEF ReadsRight, ReadsRightBut
  <2>0. Typed /\ DataInv /\ OnBase /\ Counts /\ Reading
      BY DEF ServingInv, ReadsInv, MergeInv, DataInv
  <2>1. start[1] <= header[1] /\ start[1] \in Nat /\ header[1] \in Nat
      BY <2>0, Fields DEF Counts
  <2>2. ASSUME NEW b \in Blocks
        PROVE  \/ AnswerNow(b) = Updated[b]
               \/ \E i \in Pending(b) :
                     \/ AnswerNow(b) = Error /\ group[GroupOf(i)] = "FAILED"
                     \/ i \in blind /\ group[GroupOf(i)] = "PENDING"
    <3>1. CASE b \in Replaced /\ \E j \in 1 .. Len(Replaces) : Replaces[j] = b /\ N + j > start[1]
        BY <3>1, UpdatedElsewhere DEF AnswerNow
    <3>2. ASSUME NEW i \in Pending(b)
          PROVE  \/ AnswerNow(b) = Updated[b]
                 \/ AnswerNow(b) = Error /\ group[GroupOf(i)] = "FAILED"
                 \/ i \in blind /\ group[GroupOf(i)] = "PENDING"
      <4>1. CASE ~(Blind(i) /\ group[GroupOf(i)] = "PENDING")
          BY <4>1, AnswersPending
      <4>2. CASE Blind(i) /\ group[GroupOf(i)] = "PENDING"
          BY <4>2 DEF Blind, Pending, OpOn
      <4> QED BY <4>1, <4>2
    <3>3. CASE /\ ~(b \in Replaced /\ \E j \in 1 .. Len(Replaces) : Replaces[j] = b /\ N + j > start[1])
               /\ Pending(b) = {}
      <4>1. AnswerNow(b) = base[b]
          BY <3>3 DEF AnswerNow
      <4>2. ASSUME NEW i \in OpOn(b) PROVE i <= header[1]
        <5>1. ~(i > start[1]) /\ i \in Nat BY <3>3 DEF Pending, OpOn
        <5> QED BY <2>1, <5>1
      <4>3. ASSUME NEW j \in 1 .. Len(Replaces), Replaces[j] = b PROVE N + j <= header[1]
        <5>1. b \in Replaced BY <4>3 DEF Replaced
        <5>2. ~(N + j > start[1]) BY <3>3, <4>3, <5>1
        <5> QED BY <2>1, <5>2, Sizes
      <4> QED BY <2>0, <4>1, <4>2, <4>3, CountedOnBase
    <3> QED BY <3>1, <3>2, <3>3
  <2>3. ASSUME NEW r \in Readers, rPc[r] = "source", NEW i \in OpOn(rBlock[r]) \ blind
        PROVE  FromSource(i) = Updated[Ops[i].new]
    <3>1. i \in 1 .. N /\ ~Blind(i) BY <2>3 DEF Blind, OpOn
    <3>2. Unwritten(i) BY <2>0, <2>3, <3>1 DEF Reading
    <3> QED BY <2>0, <3>1, <3>2, SourceUnwritten DEF FromSource
  <2> QED BY <2>2, <2>3 DEF ReadsRight, ReadsRightBut
<1>2. Typed /\ Drained /\ Handshake /\ DataInv /\ ReadsInv => ReadsRight
    BY <1>1 DEF ServingInv, MergeInv
<1> QED BY <1>2, ReadsInvariant, DataInvariant, MergeInvariant, PTL

=============================================================================

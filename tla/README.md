# A TLA+ model of the X6840 overclock builder and its tools

`src/X6840-Auto-OC-Builder-v2.sh` takes the `vendor_boot.img` of an Infinix X6840,
asks its user for a higher CPU frequency and, if wanted, other voltages, and writes a
new image `vendor_boot_OC+<MHZ>MHz.img` with that configuration in its device tree and an
AVB footer at its end.  Next to it lie the sources of the tools it runs and of the Android
subsystems they come from.  This directory models the builder, the tools on its path
(`fdtput` with libfdt, `unpack_bootimg` and `mkbootimg`, `avbtool add_hash_footer`) and, of
the Android sources, the daemon `snapuserd`, which merges an update into the partitions of
a running phone.  The models are checked with TLC, and theorems about them are proved with
TLAPS.

The repository has 6542 files and 583,000 lines of C and C++, nearly all of them vendored.
Its own program is the 727-line script; `snapuserd` is the part of the vendored code where
threads, crashes and durable state meet.

## 1. Inventory

| part | state it keeps | operations | how it interacts |
|---|---|---|---|
| Menus of the builder (lines 181-530 of the script) | `CHOICE`, `MHZ`, `ADD_HZ`, the two target frequencies, the two voltages, the two inputs; implicitly: the place in three nested loops | one line read from the terminal at a time | reads the stock values the pipeline found; leaves the configuration the pipeline builds |
| Readers of a number | none | `[ text -gt n ]`, `$(( text ))`, `encode_value` of `fdtput` | the menus check with the first, compute with the second, and hand the text of a voltage to the third |
| Build pipeline (lines 10-180 and 532-727) | the WORK directory, `mt6768_oc.dtb`, the repacked payload, `OUTPUT` | preflight, extraction, two blocks of `fdtput` calls, repacking, the size check, `cp`, `avbtool`, the verification, the EXIT trap | runs the tools one after another; shares nothing with another run but the output directory |
| `avbtool add_hash_footer` and its `ImageHandler` | the file, the size found at the start, the vbmeta blob, a buffer of the file object | strip an old footer, hash, append the vbmeta blob, leave a hole, append the footer; on an exception restore the size | works in place on `OUTPUT` |
| `fdtput` and libfdt | the device tree blob: reserved regions, structure, strings, free space | set, append, delete and nop properties and nodes, rename, reserve, grow, pack | is given a path, a type and the text of a value; its exit status ends the script |
| `mkdtboimg` | the DT table | `dump`, `create` | wraps the one device tree into its container |
| `unpack_bootimg`, `mkbootimg` | the vendor_boot image | unpack into files and arguments, pack again | the argument list passes through the shell's word splitting |
| `snapuserd`, one handler | on disk: base device, COW header, scratch space; in memory: `io_state_`, the states of the windows, the map of the scratch space | read ahead, merge, commit, serve reads, pause, terminate, start again after a crash | three kinds of threads over two condition variables and a few locks |
| `snapuserd`, the manager | `dm_users_`, `merge_handlers_`, `active_merge_threads_`, an eventfd | add, start, merge, delete, detach, stop | the server's thread, a thread per handler and the merge monitor share one lock |
| Setup scripts | installed packages, built tools | straight-line installation | must leave what the preflight looks for |

The rest (libavb and boot control, libufdt in C, dtc, fec, lpunpack, erofs-utils,
squashfs-tools, the other system core trees, of which there are two copies) is vendored and
never run by the builder.

### What is hard about it

* *Three readers of one text.*  `08`, `0100` and `9223372036854775808` pass a regular
  expression for digits; what they mean depends on who reads them.
* *An arithmetic error is a jump.*  In bash an error inside `$(( ))` does not end a script
  under `set -e`: the whole top-level command, here the `while` loop of a menu, is thrown
  away and the next command runs, with whichever variables were already assigned.
* *One variable for two loops.*  `CHOICE` decides whether the outer loop is left, and an
  inner `break` leaves it as it was.
* *A configuration in five variables*, each assigned at up to five places.
* *Work in place under the final name.*  `cp` and `avbtool` write to `OUTPUT` itself, so a
  failure, a kill or a second run with the same frequency finds or leaves a partial file.
* *A buffered write whose failure nobody sees* (`append_raw` in avbtool).
* *The same calls twice*: the block that applies the configuration is in the script two times.
* *Everything in one buffer.*  A change to a device tree moves the blocks behind it by offsets
  kept in a header; a call that finds no room must have changed nothing.
* *A merge in place over the data it reads.*  In `snapuserd` an operation overwrites what an
  earlier one still needs after a crash; the scratch space is then the only copy, and every
  combination of synced and lost blocks can be found at the next start.
* *Two threads in lock-step through one state variable* that failures and commands overwrite.
* *Threads that end by themselves* while a command looks for them under their name.

`PROJECT.json` lists these as hazards at their lines with the properties that cover them, or
why none does.

### What makes each part correct

* Menus: one coherent frequency, in range; voltages that change together; no build that the
  Summary was not accepted for; no loop that traps the user.
* Readers: the value that is checked bounds the value that is used.
* Pipeline: success means that the file under the name shown is complete, sealed and carries
  the configuration accepted; nothing half-written passes for finished; every way a
  script can end by itself removes WORK.
* avbtool: a footer always seals the payload before it; a failure restores the payload.
* libfdt and fdtput: a call changes what it names and nothing else; fdtput makes enough room.
* unpack and pack: what is not changed on purpose is unchanged in the rebuilt image (which the
  code keeps but for quotes that stay), or there is none.
* a merge: every read returns the updated image, before, during and after; after any crash what
  is needed is there; complete means on disk; no thread waits for ever.
* the manager: no more merges than slots, no wakeup lost, no handler used after it is freed.

## 2. The modules

| module | models |
|---|---|
| `Words` | a signed machine word and its wrap-around |
| `Numerals` | the three readers of a text of digits |
| `MCNumerals` | every text up to a length, one digit typed per step |
| `NumeralsProofs` | theorems about `Numerals` |
| `OcDecision` | abstract: what the menus promise |
| `OcMenu` | the three menus and their sub-menus, one action per line typed |
| `MCOcMenu` | values for `OcMenu`, its two tables of readings computed by `Numerals` |
| `OcMenuProofs` | theorems about `OcMenu` |
| `AvbImage` | an image file as a sequence of blocks, and when it is sealed |
| `OcImages` | abstract: what the reader of the output directory may see |
| `OcBuild` | runs of the whole script over one output directory |
| `OcBuildProofs` | theorems about `OcBuild`: types, the tree on its way through the pipeline, and the image files |
| `MCOcBuild` | values for `OcBuild` |
| `FdtTree` | abstract: what libfdt promises of a device tree |
| `Fdt` | the blob byte by byte, libfdt's readers and writers, `fdtput` |
| `FdtMarks` | what a blob must be, as a set of marks over its bytes, and the assumption on the blobs to start from |
| `MCFdt` | blobs to start from |
| `FdtReadProofs` | lemmas about `Fdt`: memory, splices, and what the readers find at the marks |
| `FdtProofs` | theorems about `Fdt`, and the lemmas for each call |
| `Repack`, `MCRepack` | the vendor_boot image through unpack, `$ARGS` and mkbootimg |
| `SnapMerge`, `MCSnapMerge` | one snapshot handler of snapuserd |
| `SnapMergeProofs` | theorems about `SnapMerge`: the threads, under every fault |
| `SnapMergeDataProofs` | theorems about `SnapMerge`: the data, what is on disk, and what a read returns |
| `SnapHandlers`, `MCSnapHandlers` | the daemon around its handlers |
| `SnapHandlersProofs` | theorems about `SnapHandlers` |

`OcMenu` is stated over an opaque set of texts with two functions, `TestValue` and
`ArithValue`, of which it assumes little; `MCOcMenu` fills these in from `Numerals`, and
`NumeralsProofs` shows that the readings in `Numerals` are as assumed.

### OcMenu and the script

`pc` names the prompt the script waits at.

| `pc` | prompt | lines |
|---|---|---|
| `freq`, `freqPause`, `freqConfirm` | MENU FREQUENCY, its retry pause, its K/Y | 193-250 |
| `volt` | MENU VOLTAGE y/n/k | 255-274, 322-328 |
| `little`, `big`, `voltPause` | voltage entry | 278-320 |
| `voltFreq`, `voltMhz` | CPU FREQUENCY inside the voltage menu | 330-373 |
| `summary` | MENU SUMMARY | 393-425 |
| `sumVolt`, `sumLittle`, `sumBig`, `sumPause` | VOLTAGE inside the Summary | 425-466 |
| `sumFreq`, `sumMhz` | CPU FREQUENCY inside the Summary | 466-513 |
| `build`, `cancelled`, `failed` | the menus are over | |

Variables have the script's names.  A value computed by `$(( ))` goes through `Wrap`;
`FrequencyRejected` and `VoltageRejected` are lists of `||`, where a test that cannot read its
operand counts as false and lets the text in; `NewFrequencyValid` and `NewVoltageValid` are lists
of `&&`, where it keeps the text out.  The actions named `...Discarded` are the jumps after an
arithmetic error.  That bash behaves so (it reports the error, drops the running top-level
command, and neither `set -e` nor a status ends the script) was observed with bash 5.2 on the
script's own menu code.  The two copies of the review of the frequency in the script differ only
in where they return to, and are one set of operators with that place as a parameter.  Upper and
lower case answers are one answer; any other line is `"other"`.

### OcBuild and the script

A builder `b` is a terminal in which the script may be started up to `MaxRuns[b]` times.

| actions | script |
|---|---|
| `Start`, `Preflight` | a new process; the checks of lines 14-52, `mktemp`, `mkdir` and the trap, with the runs that end before the trap is set |
| `ReadInput` | [1/8] to [4/8] and every check there that exits |
| `Settle` | the menus, as one step: a configuration or a cancel |
| `ApplyCall` | one call of `fdtput`, of the list in both blocks (544-635) |
| `Repack` | [5/8], [6/8] and the check of the payload's size |
| `CopyOpen`, `CopyBlock` | `cp` to `OUTPUT`: truncation, then its writes |
| `AvbOpen`, `AvbHash`, `AvbVbmeta`, `AvbHole`, `AvbFooter`, `AvbError` | `add_hash_footer` |
| `Verify` | [8/8] and the banner |
| `Cleanup` | `trap cleanup EXIT` |
| `Stop`, `Kill` | a failing command or a signal that runs the trap; one that does not |

The output directory is a function from names to files and a file is a sequence of blocks:
header, device tree, vbmeta with the payload it was computed from as its digest, hole, footer with
the original size and the place of the vbmeta block.  avbtool's file offsets, sizes and
truncations are kept; hashing is injective and signing is left out.  Which faults may strike is the
constant `Faults`: `preflight` (something is missing, or `mkdir` fails and WORK stays), `stop`,
`kill`, `resized` (the payload comes out at another size), `avbError`
(an exception inside avbtool), `flushLost` (the buffered last block cannot be written).

### Fdt and libfdt

`blob` is the memory behind the header and the fields of the header.  A byte of a 32-bit word
is the pair of the word and its number, so that reading a word whose bytes were torn apart fails
instead of giving a plausible number; `TAGSIZE` is the size of a word.  The writers are operators
from a blob to a blob and an error, called as the C functions call each other (`fdt_splice_` is
`Splice` with `Fits`), and the readers of `fdt_ro.c` (`Read`, `TreeIn`) find the tree in the
result.  Actions named `Client...` are a program that calls libfdt in any order; those named
`Fdtput...` are one command of `fdtput`, from reading the file to packing and writing it.
`FdtTree` knows nodes by paths and properties by node and name, and the call that was made: its
`call` is the command with the path, the name and the value given to it, and each step of it does
to the tree what that call promises of that node, that property and that value.  `Fdt` records in
`call` what each of its actions was asked for; the refinement mapping takes the call as it is and the
tree from what the readers find.  So a call that changes another node, another property or stores
another value is no step of `FdtTree`.  `nospace` is an answer of those calls only that need room.

### Repack

Four steps of the builder over one image.  A text is a sequence of characters; `Quote` is
`shlex.quote`, `Split` is what bash does to a variable without quotes.  A quote that comes out of
a variable is a character like any other, so that a text which had to be quoted, or is empty, comes
back with its quotes: `OnlyQuotesStay` has this as what the code does, and says that it is all.
`TextsAssumption`: no text has an option of `mkbootimg` among its words.

### SnapMerge and snapuserd

| state | code |
|---|---|
| `base`, `header`, `scratch` and their `...Disk` | the page cache and the disk: base device, first page of the COW device (`num_merge_ops`, `read_ahead_state`), scratch space |
| `start` | what `ReadMetadata` found, from which `resume_merge_` and the existence of the read-ahead thread follow |
| `io` | `io_state_` |
| `group`, `ios` | `merge_state_` and `num_ios_in_progress` of each window |
| `map` | `read_ahead_buffer_map_` |
| `raPc`, `mPc`, `rPc`, `main` | where the read-ahead thread, the merge thread, the workers and `Start()` are |

A step is one critical section, one I/O or one store that another thread or a crash can come in
between; `ReadAheadIOCompleted` and `CommitMerge` are three steps each for that reason.  The data of
a block are the block of the old image they came from and the xors applied, so that a block merged
twice or from the wrong source is told apart.  `Crash` keeps any subset of the unsynced blocks.  A
read that is answered at once changes nothing: `AnswerNow` is what it would return in this state, and
`ReadsRight` quantifies over it; only a read that has taken its count in a window lasts.

### SnapHandlers and snapuserd

The thread of the server carries out one command after another (`server` says where it is in one
that has several critical sections), `thread[h]` is where `RunThread` of a handler is, `monitor`
where the merge monitor is.  A handler is numbered in the order of `AddHandler`, so that two handlers
of one name are two.  `MergeEnds` and `DeviceGone` are what `SnapMerge` and the kernel do.

## 3. What is checked

Passing runs:

| run | bounds | shows |
|---|---|---|
| `numerals` | all texts up to 4 digits, 8-bit word, 6-bit cell | octal is never above decimal and never 0 where decimal is not; texts without a leading zero mean the same to all readers; `$(( ))` and `fdtput` refuse the same texts |
| `menu_safety` | 8 frequency texts, 3 voltage texts, 16-bit word | `TypeOK`, `Coherent`, `OffsetInRange`, `VoltagesPaired`, `EntryAllOrNothing`, `SummaryGate`, and that answers which go forward reach the build |
| `menu_decides` | the same without the text `$(( ))` cannot read | the menus implement `OcDecision` |
| `build` | 2 terminals with different frequencies, 2 runs in one and 1 in the other, 4 configurations, 4 inputs, all faults but `flushLost` | success means the image, whatever the other terminal does; a footer always seals its payload; nothing incomplete reaches the output directory; images are replaced through an unfinished state only; every run ends and removes WORK |
| `snap_merge` | 7 blocks, 5 copies and xors that overlap, 2 replaces, windows and batches of 2, 2 readers, 3 starts | reads (all but those of the first window after power was lost in it), crashes, completion, the CHECKs of the merge thread, the drain of reads and the handshake of the threads |
| `snap_live` | 4 blocks, 3 operations, 1 replace, 1 reader, 2 starts, all faults | an initiated merge ends; a handler told to end does |
| `snap_handlers` | 2 names, 2 handlers, 1 slot, 2 waiting merges, all faults | slots, wakeups, lifetimes; queued merges go on; shutdown and removal end |
| `fdtput` | 2 names of which one ends in the other, 2 values, words of 2 bytes, blobs up to 38 bytes, up to 9 bytes of growth | blobs stay well-formed, `fdtput` has room, each call does to the tree what `FdtTree` says of that call |
| `repack` | versions 3 and 4, texts that are empty, plain, full, spaced or quoted, up to 2 ramdisks | what is packed again is the stock image but for the tree and for quotes that stayed |

Why the bounds are enough.  Four digits with an 8-bit word contain every case the readers
distinguish: leading zeros followed by octal and by other digits, values at, above and far
above both limits of a word.  The texts of the menus contain one member of each class the checks
distinguish: zero, in range, at the bound, above it, octal in range, unreadable to `$(( ))`, too
large for `[ ]` with a result that wraps into and out of the range.  2 Hz stand for a MHz so that
an offset in range fits the small word as it fits the real one.  Two runs in one terminal are
one that leaves something behind and one that must succeed over it, while a run in another terminal
is anywhere; longer histories are left to the proofs, which bound neither runs nor terminals.  Five
blocks are the smallest partition that has a payload, a vbmeta block, a hole and a footer.
In `snap_merge` five operations are three windows, the last one not full, in a chain where each reads
what the next overwrites, one of them an xor of a block onto itself; three starts are a crash, a crash
of the resumed merge, and a merge that ends.  Two handlers and two names are a handler removed and
another one of its name added while the first still runs; one slot is full with one merge.
In `fdtput` a value of three bytes is not aligned and an empty one has no data; one blob has gaps
between its blocks, the other no byte to spare.  38 bytes hold, beside the root, one or two properties
or nodes, which is enough for a splice in the middle, a string to share and one to take back.  The
run has `VIEW Told`, the blob, the names and the answer: which call led to a state has no influence on
what may follow, and TLC checks `KeepsTree` on every step it finds, with the call of that step.

Violation runs, each a statement of the repository the code does not keep:

| run | statement | what happens |
|---|---|---|
| `summary_skipped` | script:532 "Setelah pengguna menekan Y pada Summary, baru tentukan output." | `08` as a new frequency in the Summary: the build starts at once, named `+08MHz`, with the old offset |
| `snap_stale` | snapuserd_transitions.cpp:708 "Data from scratch space takes higher precedence than from source device for overlapping blocks." | power lost in the first window: `num_merge_ops` is still 0, `resume_merge_` is false, and a read goes to a source that the window has overwritten |
| `range_let_in` | script:205 "Rentang: 1-500 MHz", src/README.md:286 "1-500 MHz" | a number too large for `[ ]` (66536 with the 16-bit word of the run, 18446744073709552616 in bash) makes both tests of line 210 fail, is let in, wraps to 1000 and is built |

Disagreements met on the way that no run shows:

* src/README.md:532 says "Nama file mengikuti konfigurasi OverClock yang dibuat."; `0100` builds
  +64 MHz under the name `+0100MHz`.
* script:289 says "[K] Kembali ke pilihan voltage"; K at the Little voltage goes to the Summary.
* src/README.md:494 says "Builder melakukan verifikasi terhadap image hasil build."; of two runs with
  one frequency and different voltages one may print and report the other's image as its own.
* avbtool.py:3861 promises an AvbError when adding the footer failed; a disk that is full at the
  last block, which Python writes when the file object is dropped, gives status 0 and no footer.
  `OcBuild` has this fault (`flushLost`), which no run switches on.
* `CheckMergeCompletionStatus` says whether a merge was initiated, not whether it completed;
  `GetMergePercentage` counts failed merges as complete.
* After `NotifyIOTerminated` ended the merge thread, `GetMergeStatus` still answers
  "snapshot-merge" until the next start.

Four faults of `SnapMerge` are left out of `snap_merge`, because the code does not withstand them;
`snap_live` has them all:

* `commitSync`, `commitAsync`: `CommitMerge` fails although its stores are in the page.  The fallback
  to synchronous I/O then merges and counts the window a second time, and a next start begins
  behind operations that were not merged (`NothingLost`, `CompleteMeansMerged`).
* `kill`: the page cache outlives the daemon, the next one takes unsynced data for written, and power
  lost later may take them away (the same two).
* `slowRa`: `WaitForRaThreadToStart` gives up after 3 s, and a worker that starts before the map of
  the scratch space is filled reads an overwritten source (`ReadsRight`).

`ReadsRight` is stated for every resumption, with one window of one kind of it left out: where power
was lost in the first window of the merge (`FirstWindowCut`: the header found says that the scratch
space is in use and that nothing was merged), the reads of that window that find it pending.  That
is the case `snap_stale` shows to go wrong.  The rest of the partition is read right then too, and
so is that window once the read-ahead has restored it.

`OffsetInRange` is stated for the texts `[ ]` can read; the others are `range_let_in`.

`snap_merge` also has no `raInit` and no `pause`, which only matter for liveness.

`CHECK_DEADLOCK FALSE` is used where the system stops: a text has its full length, every
terminal has used its runs, the starts of a handler are used up, the daemon is down, or the image
is repacked.  `OcMenu` has a `Finished` step instead.

Fairness.  `OcMenu!FairSpec` is weak fairness of `Next`: the script does not stop by itself
between two prompts, because `read` either gets a line or meets the end of the input and then
ends the script.  It does not assume anything of what is typed; `ForwardReachesBuild` states the
assumption about the user itself, as the left side of an implication.  `OcBuild!FairSpec` is weak
fairness of `Step(b)` for each terminal: a process that runs is scheduled and its tools
terminate, the user at the menus included.  No fairness is assumed of `Start` or of any fault.

`SnapMerge!FairSpec` is weak fairness of the read-ahead thread, of the merge thread, of `Start()` and of
the end of each read: threads are scheduled and I/O comes back.  No fairness of a spurious wakeup, of
a command or of a new read; `MergeEnds` says which threads may for this reason wait for ever
(those that were paused, and the merge thread whose read-ahead thread died at its start).
`SnapHandlers!FairSpec` is weak fairness of the server in the middle of a command, of the monitor, of
the threads of the handlers once their device is gone, of the end of a merge, and of the client that
removes the device of a partition whose merge is complete; no command need ever come.
`Lost` in `QueueGoesOn` counts slots that are never given back: a merge that failed while its device
stays, a handler asked for twice, one told to merge after it had looked at `merge_initiated_`.

Every property has at least one mutant of a modelled definition, a plausible bug of that code,
under which its run fails; they stand before the definition they change.

## 4. What is proved

`OcMenuProofs` proves, for every set of texts, every pair of readings and every word width:

* `TypeCorrect`, `CoherentFrequency`, `AddedFrequencyInRange`, `PairedVoltages`: the four invariants
  of `menu_safety`;
* `BuildThroughSummary`, `VoltagesAllOrNothing`: its two action properties;
* `MenuImplementsDecision`: under the hypothesis that `$(( ))` reads every text typed for a
  frequency (`AllComputable`), `Spec` implements `OcDecision`.

Assumptions: `HalfWordAssumption` (a word has at least one value on each side), `NumeralsAssumption`
(digits are not the answers y, n, k), `StockAssumption` (stock frequencies are naturals) and
`ReadersAssumption`: the readings are numbers or `Unreadable`, and where both readers read a text
the arithmetic one is not above the test's and not 0 where that is not.  The last is what octal
notation does, and is itself proved, of texts of any length (`NumeralsProofs!ReadersAreAsAssumed`);
TLC evaluates it on the texts of every menu run.

The argument.  None of the four invariants is inductive.  `Coherent` holds after `FrequencyConfirm`
only if the targets computed one prompt earlier still belong to the `MHZ` now confirmed;
`VoltagesPaired` holds after `BigEntry` only if the `LITTLE_INPUT` read one prompt earlier was
accepted; the build after `SummaryBigEntry` needs what the inputs may be at that prompt.  `MenuInv`
adds these facts about the prompts in between: nothing is settled before the first confirmation, the
confirmed targets are those of the text shown, the first input is an accepted one while the second
is asked for, an entry is open only after its y, and every frequency kept passed one of the two
checks.  `InitEstablishesInv` and `StepKeepsInv` (one step per action) show it inductive; the
invariants, the action properties and the step simulation follow from it.  The simulation maps the
five frequency variables to one offer, absent until `ADD_HZ` is set, so that a retry, a rejected
text or a target shown before its confirmation is a stutter of `OcDecision`.

`NumeralsProofs` proves, for texts of any length and any widths of the word and the cell:

* `OctalNeverAboveDecimal`, `PlainTextsMeanOneValue`, `ShellAndCellsAgree`: the three invariants of
  `numerals`;
* `ReadersAreAsAssumed`: `ReadersAssumption` of `OcMenu`, of the two readings of the shell.

Assumptions: `HalfWordAssumption` and `CellAssumption` (a word has as many values as a whole number
of cells, as 2^64 is a multiple of 2^32, and `Unreadable` is no number).  The value of
a text is a function defined by recursion on the number of digits read.  That there is such a
function (`RecursionExists`, then `HornerStep`) and that no prefix of a text is larger in octal, or 0
in octal only (`OctalBelowDecimal`) are inductions on that number.  The induction theorems
of the library take the predicate as a parameter, which the provers cannot instantiate;
`PrefixInduction` says the same of a set, and rests on the least number outside of it, which there
is because `<` is well-founded.  What is left is arithmetic: a value below the limit of `[ ]` does
not wrap (`WrapOfNatural`), and one that wraps does so by a whole number of cells (`SameCell`).

`OcBuildProofs` proves, for any set of terminals, any number of runs, any configurations (under one
name or several) and any faults:

* `BuildTypeCorrect`: the types, of which the one that matters is that a device tree holds cells;
* `WholeTreesOnly`: the action property `OnlyWholeTreesReachOutput`.

Assumptions: `CellsAssumption` and `StockAssumption` (stock frequencies are cells, and `fdtput` can
read the voltages `fdtget` prints), `ConfigsAssumption` (a configuration is an integer offset and
two texts), `RunsAssumption`, `FaultsAssumption`, `SizesAssumption`.  The property speaks of the
moment a file is written, steps after the tree was made, so `BuildInv` follows the tree through the
pipeline: at the menus it is the stock tree; while `fdtput` is called, each of the four cells either
is the one asked for or its call is still in the list; from the size check on, the payload carries
the whole tree.  The second conjunct needs that one block of calls covers every field whose stock
cell is not the one asked for (`ApplyCovers`, where the comparison of both voltages with the stock
texts matters) and that a call leaves the rest of the list pending (`CallAppliesHead`).  That
terminals share the output directory costs one lemma (`OthersUntouched`): they share nothing else.

The second part of `OcBuildProofs` proves, for any terminals, runs, configurations and leftovers:

* `ImageInvariant`, and from it `HalfWrittenNeverLooksFinished` (`FooterSealsPayload`),
  `SuccessIsAnImage` (`SuccessMeansImage`) and `DirectoryImplementsImages` (`KeepsImages`: the
  output directory implements `OcImages`).

They have two hypotheses.  `NamesApart`: configurations of different terminals have different output
names.  Without it TLC violates `FooterSealsPayload` and `SuccessMeansImage` with two terminals and
one name: `avbtool` of one run then works on the file that the other one copies.  `BuffersReachTheFile`: the fault `flushLost`
does not strike; with it `FooterSealsPayload` is false, a footer being there whose vbmeta block is
not.  All other faults may strike: stops, kills, a payload of another size, an exception at any step
of avbtool.

`FooterSealsPayload` speaks of files and not of the runs that write them, so that no step can be
judged by it alone.  The invariant gives, for each step of `cp` and of `avbtool`, the exact content
of `OUTPUT` before it (`Contents`: so many blocks of the payload; the payload; the payload and the
vbmeta block made from it; that with the hole; the whole image) and what avbtool has computed by
then (`Computed`: the size found, the size to restore, the digest).  `Succeeded` says that the image
of a run that succeeded is still there until its terminal starts again, and `Chosen` that a run
works under a name of its own terminal, which is where `NamesApart` is needed.  A run that fails or
is killed leaves one of the states on the way, none of which ends in a footer but the last.  The
simulation of `OcImages` reads its steps off the same description.

`SnapMergeProofs` proves, for every sequence of operations that `VerifyMergeOps` accepts, every size
of window and batch, any workers, starts and faults (all of `FaultNames`, the four above included):

* `MergeTypeCorrect`, `MergeWaitsForReads` (`ReadsDrained`), `ThreadsInLockStep` (`LockStep`) and
  the action property `ScratchSpaceIsStable` (`ScratchStable`).

The only assumption is `SequenceAssumption`.  The inductive invariant is `Typed`, `Drained` and
`Handshake`.  `Typed` is sharper than `TypeOK` where a step computes an index: the position of a
thread is not past the operations it has read, the slot is not past the window or the batch.
`Drained` adds to `ReadsDrained` that `num_ios_in_progress` is exactly the number of workers reading
in a window, without which the wait of `SetMergeInProgress` says nothing; that needs the cardinality
of a set that changes by one worker (`InFlightFinite`).  `Handshake` adds to `LockStep` what is true
of the two threads between its cases: nobody merges before the scratch space of an earlier start is
reconstructed, and a window that is merged is one of ordered operations.  Each conjunct has one
lemma for a step, and in it one step per action; `RaFrame`, `MFrame` and `WorkerFrame` say once what
a thread leaves alone.

`SnapMergeDataProofs` proves, for the same sequences, windows, workers and starts:

* `DataInvariant`, and from it `NoOperationIsLost` (`NothingLost`), `ReportedOnlyWhenMerged`
  (`CompleteMeansMerged`) and `MergeThreadNeverAborts` (`ChecksHold`).

The hypothesis is `HeaderReachesDisk`: none of `commitSync`, `commitAsync` and `kill` strikes
(section 3 says what each of them does).  It is not there for convenience: on the instance of
`snap_merge`, TLC violates `NothingLost` with any one of the three, and `CompleteMeansMerged` with
`commitAsync`.  `ChecksHold` was not violated there under any fault, but the proof takes it from the
invariant, which has the hypothesis.  Power may be lost at any time and as often as there are
starts, every other I/O may fail, and threads may end.

Its invariant relates the base device, the header and the scratch space, each in the page cache and
on disk, to the places of the two threads in the sequence of operations.  `OnBase`: an operation the
header counts has its block on the base device, synced; one that the header on disk does not count
has left its block as it was, or is one of the window in the scratch space.  `Saved`: a header that
says the scratch space is filled is about the window it has still to count, or the one it counted
last, and that window is in the scratch space and on disk.  `RaData` and `MData` say, for every
place a thread can be at, what it has read and what it has written; `Counts`, `Ended` and `Windows`
tie the counters, the end of a thread and the states of the windows to these.  A crash keeps any
subset of the unsynced blocks (`OnBaseAfterCrash`); all of these are blocks of the window in hand,
whose data are in the scratch space, so that the window can be begun again.

The second part of `SnapMergeDataProofs` proves, for the same:

* `ReadsInvariant`, and from it `EveryReadIsRight` (`ReadsRight`).

It has a second hypothesis, `ReadAheadStarts`: neither `raInit` nor `slowRa` strikes, so that after
a restart the map of the scratch space is filled before a worker serves reads.  TLC violates
`ReadsRight` with either of them alone, and with `commitAsync`.

A read looks at the state of its window and at the map, which different threads change at different
times, and then at a block.  `MapRight`: a block in the map is in its slot with its updated data.
`MapCovers`: every operation of a window that is ready or under way is in the map.  `Grouped` and
`WindowAt`: the state of a window tells which operations the header counts, and the merge thread is
at the window it takes itself to be at; for this the windows are intervals of the sequence of
operations (`WindowIsGroup`).  `Pristine`: an operation that is not counted has written nothing,
unless its window is under way, has failed, or was begun before the restart.  `Resumes`: in the last
case the window is in the map before reads are served.  `Reading` is about the reads that last: a
read of the source of an operation ends before the operation writes, because a merge waits for the
reads counted in the window (`ReadsDrained`), and no operation of a window before has written to
that source, because `VerifyMergeOps` accepts the sequence (`PendingSources`).  An operation that has
written although its window is pending again belongs to the one window that was begun before the
restart.  Where nothing was counted this is the first one, no read looks for it in the map, and its
operations are `Blind`: they are what `ReadsRight` leaves out, and `Reading` with it.

`FdtProofs` proves, for blobs of any size with any gaps, words of any width, any names, values,
sizes, growths and limit, and any sequence of calls, those that fail among them:

* `AlwaysFdtInv`, and from it `BlobStaysWellFormed` (`WellFormed`) and `FdtputAlwaysHasRoom`
  (`FdtputHasRoom`: the room that `fdtput` adds before a call is room enough for that call, and for
  every node of a path that `-p` creates).

The only assumption is `FdtAssumption`: a name has no NUL, and the blobs to start from are `Sound`.
TLC evaluates it on the blobs of the run `fdtput`.

`WellFormed` says what the readers find, and a reader goes over the structure from its start; a call
changes bytes in the middle and moves all behind them.  So `FdtMarks` says the same of the bytes
alone.  A mark is one tag with what is its own: where it is, its size, the words after it, how deep
it is, whether properties may still follow.  `Marks(b, M)` says that the marks `M` do not overlap,
that the bytes of each are those of such a tag, that a property has its name among the strings, and
that each mark but `FDT_END` is followed by one that may follow it.  `Good(b)`: the blocks are in
order (`Layout`), the reserved regions end, and there is such a set of marks.  The inductive
invariant `FdtInv` is `Good(blob)`, the names kept of earlier calls, and the answers a call can give.

* `FdtReadProofs` has the readers: what `memmove` and `fdt_splice_` leave of the bytes, and that over a
  blob with marks `Read` goes from mark to mark, ends at `FDT_END`, and finds the depths, paths, names
  and lengths of the marks (`WalkIs`, `MarkWords`, `PropIs`, `PlaceIs`).  Reading the same marks in
  another blob gives the same (`SameRead`, `SameNames`).
* `FdtProofs` has one lemma for each way of editing: marks dropped (`fdt_del_node`, `fdt_delprop`),
  overwritten by nops, one property or node put in, one made longer or shorter, a name rewritten,
  blocks moved by `fdt_open_into` and `fdt_pack`, a region added or removed, a string added and taken
  back.  Each says where the marks of the result come from, and that strings are never hidden
  (`MoreStrings`).  Each call is then `Good` to `Good` (`StepInv` has one step per action), and so is
  every prefix of the calls of one `fdtput -p` (`CreatePathsFine`).
* `FdtputHasRoom` needs arithmetic besides: what `realloc_node` and `realloc_property` add is not less
  than what the call then splices in, rounded up on either side (`ReallocNodeFits`,
  `ReallocPropertyIs`).

`Read` and the creation of the nodes of a path are recursive functions, over the number of tags read
and the number of nodes created, because TLAPS proves nothing about RECURSIVE operators.  Induction
on that number is done with a set of numbers that holds 0 and, with each number, the next
(`PrefixInduction`, from `WFMin` of the library), which also gives that the recursive function exists.

`SnapHandlersProofs` proves, for any names, number of handlers, slots, waiting merges and faults:

* `HandlersTypeCorrect`, `NeverTooManyMerges` (`MergesBounded`), `ListedHandlersAlive`
  (`ListedIsAlive`), `ThreadsKeepToOwnEntry` (`OwnEntry`), `MonitorMissesNoWakeup` (`NoLostWakeup`).

The inductive invariant is `Typed`, `Roles` (who is in the list, whose thread may be joined, and
that two handlers of one name are never both in the list), `Slots` (`MergesBounded`, and a thread
that will give a slot back was told to merge and so holds one) and `Awake` (the eventfd can be read,
or the monitor is on its way to the queue, or there is nothing to start).

Only model-checked:

* liveness (`ForwardReachesBuild`, `EveryRunEnds`, `MergeEnds`, `HandlerEnds`, `QueueGoesOn`,
  `CommandEnds`), which TLAPS does not reach;
* `KeepsTree`, that the calls of `Fdt` implement `FdtTree`: the proofs have which marks a call takes
  away, adds and moves, and where the readers then are, but not that the whole tree read before and
  after differs by just what the call was for;
* `OnlyQuotesStay`: the quoting and splitting of texts is recursion over sequences of the library;
* the statements of the violation runs, which are false.

Every other invariant, action property and refinement of a passing run is a theorem.

## 5. What is not modelled

* The share of the sources that is mapped is small and will stay so: of 583,000 lines of C and C++ the
  builder runs two programs, and most of the rest (compilers of file systems, formatting, init, fastboot)
  is sequential code or input and output without state that a model checker would tell apart.
* libfdt: nodes looked up without their unit address, `fdt_set_name` to the name of a sibling (which
  makes two nodes of one path), `fdt_setprop_inplace`, paths that do not exist, names cut
  short (`namelen` below `strlen`, where `fdt_del_last_string_` takes back more than was added), blobs older
  than version 17 or with blocks out of order, offsets that are no nodes, `fdt_sw.c`, overlays.  `fdtput`: several
  paths in one command, a file that cannot be written.
* mkbootimg: addresses, page layout, board ids, boot images, signing.  `OcBuild` takes the payload as
  carrying the rebuilt tree, at the old size or another (`resized`).
* `mkdtboimg`: straight-line writing of a table.  `create` without `--id`, `--rev` and `--custom` sets those words to 0.
* avbtool: sparse images, signing, `erase_footer`, `resize_image` and every other sub-command; the builder
  takes none of these paths.
* `SnapMerge`: verification of the partition, merge percentages, reads of more than one block, and the
  CRC and compression of the COW file.
* `SnapHandlers`: pausing all merges, queries, the protocol of the socket and its handoff from first
  stage init; commands of other clients that are served in the round of `poll` in which the daemon ends.
* The rest of libsnapshot (`SnapshotManager`, COW writers), the setup scripts, and the vendored code
  listed in `PROJECT.json` as not modelled.
* The composition of `OcMenu` with `OcBuild`: `Settle` is the menus as one step, with any
  configuration of `Choices`.

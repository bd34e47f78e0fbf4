------------------------------ MODULE OcBuild ------------------------------
(***************************************************************************)
(* Runs of the builder script from its start to its end, any number of     *)
(* them at a time and one after another, over one output directory.        *)
(*                                                                         *)
(* A run works on files of its own below WORK until it copies its payload  *)
(* to OUTPUT, whose name holds nothing of the configuration but the MHZ    *)
(* that was typed; avbtool then completes that file in place.  A command   *)
(* that fails ends the script (set -e) and the EXIT trap removes WORK; a   *)
(* run that is killed leaves everything as it is.                          *)
(*                                                                         *)
(* The menus are one step here: OcMenu has their detail.                   *)
(***************************************************************************)
EXTENDS AvbImage

CONSTANTS
    Builders,       \* the terminals a builder may run in
    MaxRuns,        \* bound: the runs of each terminal
    Choices,        \* the configurations the menus may settle on, per terminal
    Inputs,         \* what the tools may say of the vendor_boot.img found
    CellValue,      \* what fdtput stores for a voltage text, or Unreadable
    Unreadable,
    CellSize,       \* the values of a cell
    StockHz,        \* opp-hz of opp15 in the input, per cluster
    StockVoltage,   \* the text of its opp-microvolt, per cluster
    NoImage, Unsealed,      \* how OcImages sees a name without a finished image
    Faults          \* which faults may strike, a subset of AllFaults

AllFaults == {"preflight", "stop", "kill", "resized", "avbError", "flushLost"}

ASSUME FaultsAssumption == Faults \subseteq AllFaults

ASSUME RunsAssumption == MaxRuns \in [Builders -> Nat]

Clusters == {"opp_table0", "opp_table1"}
Cell == 0 .. CellSize - 1

ASSUME CellsAssumption ==
    /\ CellSize \in Nat \ {0}
    /\ Unreadable \notin Cell
    /\ CellValue \in [DOMAIN CellValue -> Cell \cup {Unreadable}]

(* fdtput reads what fdtget printed, as opp-microvolt has one cell. *)
ASSUME StockAssumption ==
    /\ StockHz \in [Clusters -> Cell]
    /\ StockVoltage \in [Clusters -> DOMAIN CellValue]
    /\ \A c \in Clusters : CellValue[StockVoltage[c]] \in Cell

Configs == UNION {Choices[b] : b \in Builders}

ASSUME ConfigsAssumption ==
    \A cfg \in Configs :
        /\ cfg.add \in Int
        /\ cfg.voltage \in [Clusters -> DOMAIN CellValue]

VARIABLES
    pc, runs,
    outcome,    \* how the run of a terminal ended, "none" while it has not
    work,       \* is its WORK directory there
    choice,     \* the configuration its menus settled on
    todo,       \* the fdtput calls it still has to make
    dtb,        \* WORK/mt6768_oc.dtb
    payload,    \* WORK/vendor_boot_payload.img: its device tree, and
                \* whether its size is not that of the input's payload
    avb,        \* the variables of avbtool: original and current size, vbmeta
    shown,      \* the frequencies it printed after the build
    out         \* the files of the output directory

vars == <<pc, runs, outcome, work, choice, todo, dtb, payload, avb, shown, out>>
private == <<runs, choice, todo, dtb, payload, avb, shown>>

NoChoice == [mhz |-> "none", add |-> 0, voltage |-> StockVoltage]
NoAvb == [original |-> 0, size |-> 0, offset |-> 0, vbmeta |-> Hole]

(* A tree is the cells of these fields; the rest of it never changes. *)
Fields == Clusters \X {"opp-hz", "opp-microvolt"}
Dt == [Fields -> Cell]

StockDt ==
    [p \in Fields |-> IF p[2] = "opp-hz" THEN StockHz[p[1]]
                          ELSE CellValue[StockVoltage[p[1]]]]

Names == {cfg.mhz : cfg \in Configs}

OUTPUT(b) == choice[b].mhz

(* "aborted" is the end of a run that has not come to setting its trap. *)
Waiting == {"idle", "aborted", "ended", "killed"}
Running(b) == pc[b] \notin Waiting

Goto(b, label) == pc' = [pc EXCEPT ![b] = label]

(* Mutant of Exit: no trap was set. *)
ExitUntrapped(b, how) ==
    /\ Goto(b, "ended")
    /\ outcome' = [outcome EXCEPT ![b] = how]

(* The script exits; its EXIT trap is still to run. *)
Exit(b, how) ==
    /\ Goto(b, "trap")
    /\ outcome' = [outcome EXCEPT ![b] = how]

Init ==
    /\ pc = [b \in Builders |-> "idle"]
    /\ runs = [b \in Builders |-> 0]
    /\ outcome = [b \in Builders |-> "none"]
    /\ work = [b \in Builders |-> FALSE]
    /\ choice = [b \in Builders |-> NoChoice]
    /\ todo = [b \in Builders |-> <<>>]
    /\ dtb = [b \in Builders |-> StockDt]
    /\ payload = [b \in Builders |-> [dt |-> StockDt, resized |-> FALSE]]
    /\ avb = [b \in Builders |-> NoAvb]
    /\ shown = [b \in Builders |-> <<>>]
    /\ out = [name \in Names |-> Absent]

-----------------------------------------------------------------------------
(* Before the menus. *)

(* A vendor_boot.img the preflight and the first steps accept. *)
Acceptable(image) ==
    /\ image.partition = "vendor_boot"
    /\ image.dt_entry_count = 1
    /\ Clusters \subseteq image.tables

(* What a new process starts with. *)
Start(b) ==
    /\ ~Running(b)
    /\ runs[b] < MaxRuns[b]
    /\ runs' = [runs EXCEPT ![b] = @ + 1]
    /\ Goto(b, "preflight")
    /\ outcome' = [outcome EXCEPT ![b] = "none"]
    /\ work' = [work EXCEPT ![b] = FALSE]
    /\ choice' = [choice EXCEPT ![b] = NoChoice]
    /\ todo' = [todo EXCEPT ![b] = <<>>]
    /\ avb' = [avb EXCEPT ![b] = NoAvb]
    /\ shown' = [shown EXCEPT ![b] = <<>>]
    /\ UNCHANGED <<dtb, payload, out>>

(* The input and the tools are looked for, then come mktemp, mkdir of the  *)
(* output directory, and the trap.  Whatever fails ends the script without *)
(* the trap, and leaves WORK if it was mkdir.                              *)
Preflight(b) ==
    /\ pc[b] = "preflight"
    /\ \/ /\ work' = [work EXCEPT ![b] = TRUE]
          /\ Goto(b, "read")
          /\ UNCHANGED outcome
       \/ /\ "preflight" \in Faults
          /\ \E left \in BOOLEAN : work' = [work EXCEPT ![b] = left]
          /\ Goto(b, "aborted")
          /\ outcome' = [outcome EXCEPT ![b] = "error"]
    /\ UNCHANGED <<private, out>>

(* [1/8] to [4/8]: the parameters of the footer, the container, the one    *)
(* device tree in it, and the stock values of its opp15.                   *)
ReadInput(b) ==
    /\ pc[b] = "read"
    /\ \E image \in Inputs :
          \/ /\ Acceptable(image)
             /\ dtb' = [dtb EXCEPT ![b] = StockDt]
             /\ Goto(b, "menu")
             /\ UNCHANGED outcome
          \/ /\ ~Acceptable(image)
             /\ Exit(b, "error")
             /\ UNCHANGED dtb
    /\ UNCHANGED <<runs, work, choice, todo, payload, avb, shown, out>>

-----------------------------------------------------------------------------
(* The calls of fdtput: opp-hz of both clusters, then opp-microvolt of     *)
(* both if one of the two texts is not the stock text.  The script makes   *)
(* all of them twice.                                                      *)

(* Mutant of VoltageChanged: only the Little voltage is compared. *)
LittleVoltageChanged(cfg) ==
    cfg.voltage["opp_table0"] # StockVoltage["opp_table0"]

VoltageChanged(cfg) == \E c \in Clusters : cfg.voltage[c] # StockVoltage[c]

Apply(cfg) ==
    <<<<"opp_table0", "opp-hz">>, <<"opp_table1", "opp-hz">>>>
    \o IF VoltageChanged(cfg)
       THEN <<<<"opp_table0", "opp-microvolt">>, <<"opp_table1", "opp-microvolt">>>>
       ELSE <<>>

NewHzUncut(b, c) == StockHz[c] + choice[b].add      \* mutant of NewHz

NewHz(b, c) == (StockHz[c] + choice[b].add) % CellSize

CellFor(b, p) ==
    IF p[2] = "opp-hz" THEN NewHz(b, p[1])
    ELSE CellValue[choice[b].voltage[p[1]]]

Settle(b) ==
    /\ pc[b] = "menu"
    /\ \/ \E cfg \in Choices[b] :
             /\ choice' = [choice EXCEPT ![b] = cfg]
             /\ todo' = [todo EXCEPT ![b] = Apply(cfg) \o Apply(cfg)]
             /\ Goto(b, "apply")
             /\ UNCHANGED outcome
       \/ Exit(b, "cancelled") /\ UNCHANGED <<choice, todo>>
    /\ UNCHANGED <<runs, work, dtb, payload, avb, shown, out>>

(* Mutant of ApplyCall: the exit status of fdtput is ignored. *)
ApplyCallIgnored(b) ==
    /\ pc[b] = "apply"
    /\ todo[b] # <<>>
    /\ todo' = [todo EXCEPT ![b] = Tail(@)]
    /\ LET p == Head(todo[b])
           cell == CellFor(b, p)
       IN  dtb' = IF cell = Unreadable THEN dtb
                  ELSE [dtb EXCEPT ![b][p] = cell]
    /\ UNCHANGED <<pc, outcome, runs, work, choice, payload, avb, shown, out>>

ApplyCall(b) ==
    /\ pc[b] = "apply"
    /\ todo[b] # <<>>
    /\ LET p == Head(todo[b])
           cell == CellFor(b, p)
       IN  \/ /\ cell # Unreadable
              /\ dtb' = [dtb EXCEPT ![b][p] = cell]
              /\ todo' = [todo EXCEPT ![b] = Tail(@)]
              /\ UNCHANGED <<pc, outcome>>
           \/ /\ cell = Unreadable
              /\ Exit(b, "error")
              /\ UNCHANGED <<dtb, todo>>
    /\ UNCHANGED <<runs, work, choice, payload, avb, shown, out>>

(* [5/8] and [6/8].  fdtput packs the tree it writes, so that the payload  *)
(* may come out at another size than that of the input: the run ends.      *)
Resizes == IF "resized" \in Faults THEN BOOLEAN ELSE {FALSE}

(* Mutant of Repack: --dtb is not replaced in the arguments, and the stock *)
(* tree is packed again.                                                   *)
RepackStock(b) ==
    /\ pc[b] = "apply"
    /\ todo[b] = <<>>
    /\ payload' = [payload EXCEPT ![b] = [dt |-> StockDt, resized |-> FALSE]]
    /\ Goto(b, "copy")
    /\ UNCHANGED <<runs, outcome, work, choice, todo, dtb, avb, shown, out>>

Repack(b) ==
    /\ pc[b] = "apply"
    /\ todo[b] = <<>>
    /\ \E resized \in Resizes :
          /\ payload' = [payload EXCEPT ![b] = [dt |-> dtb[b], resized |-> resized]]
          /\ \/ ~resized /\ Goto(b, "copy") /\ UNCHANGED outcome
             \/ resized /\ Exit(b, "error")
    /\ UNCHANGED <<runs, work, choice, todo, dtb, avb, shown, out>>

-----------------------------------------------------------------------------
(* [7/8] cp: the file is opened and emptied, then written. *)

SetOut(b, file) == out' = [out EXCEPT ![OUTPUT(b)] = file]

(* Mutant of CopyOpen: the file is not emptied. *)
CopyOpenKeeps(b) ==
    /\ pc[b] = "copy"
    /\ SetOut(b, IF out[OUTPUT(b)] = Absent THEN <<>> ELSE out[OUTPUT(b)])
    /\ Goto(b, "copyHeader")
    /\ UNCHANGED <<private, outcome, work>>

CopyOpen(b) ==
    /\ pc[b] = "copy"
    /\ SetOut(b, <<>>)
    /\ Goto(b, "copyHeader")
    /\ UNCHANGED <<private, outcome, work>>

CopyBlock(b) ==
    /\ UNCHANGED <<private, outcome, work>>
    /\ \/ /\ pc[b] = "copyHeader"
          /\ SetOut(b, WriteAt(out[OUTPUT(b)], 1, Header))
          /\ Goto(b, "copyDtb")
       \/ /\ pc[b] = "copyDtb"
          /\ SetOut(b, WriteAt(out[OUTPUT(b)], 2, Dtb(payload[b].dt)))
          /\ Goto(b, "avbOpen")

-----------------------------------------------------------------------------
(* [7/8] avbtool add_hash_footer, on OUTPUT itself. *)

(* The script ends when avbtool does; avbtool restores the size it found. *)
AvbFails(b) ==
    /\ SetOut(b, Truncate(out[OUTPUT(b)], avb[b].original))
    /\ Exit(b, "error")
    /\ UNCHANGED <<private, work>>

(* A footer that is already there is cut off first. *)
AvbOpen(b) ==
    /\ pc[b] = "avbOpen"
    /\ LET file == out[OUTPUT(b)]
           size == IF HasFooter(file) THEN FooterOf(file).original_image_size
                                      ELSE Len(file)
       IN  \/ /\ file # <<>>
              /\ avb' = [avb EXCEPT ![b] = [NoAvb EXCEPT !.original = size,
                                                        !.size = size]]
              /\ SetOut(b, Truncate(file, size))
              /\ Goto(b, "avbHash")
              /\ UNCHANGED outcome
           \/ /\ file = <<>>
              /\ Exit(b, "error")
              /\ UNCHANGED <<avb, out>>
    /\ UNCHANGED <<runs, work, choice, todo, dtb, payload, shown>>

AvbHash(b) ==
    /\ pc[b] = "avbHash"
    /\ IF avb[b].size > PartitionSize - MetadataSize
       THEN AvbFails(b)
       ELSE /\ avb' = [avb EXCEPT
                  ![b].vbmeta = Vbmeta(Truncate(out[OUTPUT(b)], avb[b].size)),
                  ![b].offset = avb[b].size]
            /\ Goto(b, "avbVbmeta")
            /\ UNCHANGED <<runs, outcome, work, choice, todo, dtb, payload,
                           shown, out>>

(* append_raw leaves one block in a buffer that is written when the file   *)
(* object is dropped, where a failure is not reported.                     *)
Appended(b, block) ==
    {Append(out[OUTPUT(b)], block)}
    \cup IF "flushLost" \in Faults THEN {out[OUTPUT(b)]} ELSE {}

AvbVbmeta(b) ==
    /\ pc[b] = "avbVbmeta"
    /\ \E file \in Appended(b, avb[b].vbmeta) : SetOut(b, file)
    /\ Goto(b, "avbHole")
    /\ UNCHANGED <<private, outcome, work>>

(* append_dont_care, by the number of blocks that should be missing. *)
AvbHole(b) ==
    /\ pc[b] = "avbHole"
    /\ LET missing == PartitionSize - (avb[b].offset + 1) - 1
       IN  SetOut(b, Truncate(out[OUTPUT(b)], Len(out[OUTPUT(b)]) + missing))
    /\ Goto(b, "avbFooter")
    /\ UNCHANGED <<private, outcome, work>>

AvbFooter(b) ==
    /\ pc[b] = "avbFooter"
    /\ \E file \in Appended(b, Footer(avb[b].original, avb[b].offset)) :
          SetOut(b, file)
    /\ Goto(b, "verify")
    /\ UNCHANGED <<private, outcome, work>>

AvbError(b) ==
    /\ "avbError" \in Faults
    /\ pc[b] \in {"avbHash", "avbVbmeta", "avbHole", "avbFooter"}
    /\ AvbFails(b)

-----------------------------------------------------------------------------
(* [8/8]: OUTPUT is unpacked and its frequencies are printed; they are     *)
(* compared with nothing.                                                  *)
Verify(b) ==
    /\ pc[b] = "verify"
    /\ LET file == out[OUTPUT(b)]
       IN  \/ /\ Len(file) >= 2 /\ file[1] = Header /\ file[2].kind = "dtb"
              /\ shown' = [shown EXCEPT ![b] = file[2].dt]
              /\ Exit(b, "success")
           \/ /\ ~(Len(file) >= 2 /\ file[1] = Header /\ file[2].kind = "dtb")
              /\ Exit(b, "error")
              /\ UNCHANGED shown
    /\ UNCHANGED <<runs, work, choice, todo, dtb, payload, avb, out>>

(* trap cleanup EXIT *)
Cleanup(b) ==
    /\ pc[b] = "trap"
    /\ work' = [work EXCEPT ![b] = FALSE]
    /\ Goto(b, "ended")
    /\ UNCHANGED <<private, outcome, out>>

(* A command fails, read meets the end of the input, or Ctrl-C: set -e or  *)
(* the signal ends the script; files stay as the command left them.        *)
Stop(b) ==
    /\ "stop" \in Faults
    /\ Running(b) /\ pc[b] \notin {"preflight", "trap"}
    /\ Exit(b, "error")
    /\ UNCHANGED <<private, work, out>>

(* SIGKILL, or the machine goes down: no trap runs. *)
Kill(b) ==
    /\ "kill" \in Faults
    /\ Running(b)
    /\ Goto(b, "killed")
    /\ outcome' = [outcome EXCEPT ![b] = IF @ = "none" THEN "error" ELSE @]
    /\ UNCHANGED <<private, work, out>>

Step(b) ==
    \/ Preflight(b) \/ ReadInput(b) \/ Settle(b) \/ ApplyCall(b) \/ Repack(b)
    \/ CopyOpen(b) \/ CopyBlock(b)
    \/ AvbOpen(b) \/ AvbHash(b) \/ AvbVbmeta(b) \/ AvbHole(b) \/ AvbFooter(b)
    \/ Verify(b) \/ Cleanup(b)

Fault(b) == AvbError(b) \/ Stop(b) \/ Kill(b)

Next == \E b \in Builders : Start(b) \/ Step(b) \/ Fault(b)

Spec == Init /\ [][Next]_vars

(* A script that runs goes on; nobody has to start one. *)
FairSpec == Spec /\ \A b \in Builders : WF_vars(Step(b))

-----------------------------------------------------------------------------
(* Properties. *)

Labels == Waiting \cup
    {"preflight", "read", "menu", "apply", "copy", "copyHeader", "copyDtb",
     "avbOpen", "avbHash", "avbVbmeta", "avbHole", "avbFooter", "verify", "trap"}

(* Device trees hold cells, whatever was typed. *)
TypeOK ==
    /\ pc \in [Builders -> Labels]
    /\ runs \in [Builders -> Nat] /\ \A b \in Builders : runs[b] <= MaxRuns[b]
    /\ outcome \in [Builders -> {"none", "success", "cancelled", "error"}]
    /\ work \in [Builders -> BOOLEAN]
    /\ choice \in [Builders -> Configs \cup {NoChoice}]
    /\ todo \in [Builders -> Seq(Fields)]
    /\ dtb \in [Builders -> Dt]
    /\ payload \in [Builders -> [dt : Dt, resized : BOOLEAN]]
    /\ DOMAIN out = Names

(* The device tree a configuration asks for, for both clusters. *)
Asked(cfg) ==
    [p \in Fields |->
        IF p[2] = "opp-hz" THEN (StockHz[p[1]] + cfg.add) % CellSize
        ELSE CellValue[cfg.voltage[p[1]]]]

(* After BUILD BERHASIL the file named by OUTPUT fills the partition,      *)
(* carries the tree of the configuration the user accepted, in both        *)
(* clusters, is sealed around it, and what was printed is what is in it;   *)
(* whatever earlier runs left under that name.                             *)
SuccessMeansImage ==
    \A b \in Builders : outcome[b] = "success" =>
        /\ Len(out[OUTPUT(b)]) = PartitionSize
        /\ Truncate(out[OUTPUT(b)], 2) = Payload(Asked(choice[b]))
        /\ Sealed(out[OUTPUT(b)])
        /\ shown[b] = Asked(choice[b])

(* At no moment, also not after a run that failed or was killed, does a    *)
(* file with a footer hold another payload than the footer's digest says:  *)
(* a half-written image never looks finished.                              *)
FooterSealsPayload ==
    \A name \in Names : HasFooter(out[name]) => Sealed(out[name])

(* Nothing is written to the output directory before both clusters of the  *)
(* tree are complete and the size of the payload has been checked.         *)
OnlyWholeTreesReachOutput ==
    [][\A name \in Names : out'[name] # out[name] =>
           \E b \in Builders :
               /\ OUTPUT(b) = name
               /\ payload[b] = [dt |-> Asked(choice[b]), resized |-> FALSE]]_vars

(* Every run comes to its end, and once its trap is set it leaves no WORK  *)
(* behind, unless it is killed.                                            *)
EveryRunEnds ==
    \A b \in Builders :
        /\ Running(b) ~> ~Running(b)
        /\ Running(b) /\ pc[b] # "preflight"
              ~> pc[b] = "killed" \/ (pc[b] = "ended" /\ ~work[b])

(* One name changes from one finished image to another only by becoming    *)
(* unfinished, and what it is sealed around is a tree that was asked for.  *)
finished == [name \in Names |->
    IF out[name] = Absent THEN NoImage
    ELSE IF Sealed(out[name]) THEN out[name][2].dt ELSE Unsealed]

Images == INSTANCE OcImages WITH
    Trees <- {Asked(cfg) : cfg \in Configs},
    image <- finished

KeepsImages == Images!Spec

=============================================================================

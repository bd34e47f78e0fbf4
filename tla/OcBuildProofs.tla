--------------------------- MODULE OcBuildProofs ----------------------------
(***************************************************************************)
(* Proofs about runs of the builder, for any number of terminals, runs,    *)
(* configurations, leftovers of earlier runs and killed runs.  First what  *)
(* holds whether their names differ or not and whichever faults strike;    *)
(* then, under the two hypotheses stated there, what is in the output      *)
(* directory.                                                              *)
(***************************************************************************)
EXTENDS OcBuild, TLAPS

(* Where a run works on OUTPUT: from the size check to the verification. *)
OnOutput == {"copy", "copyHeader", "copyDtb", "avbOpen", "avbHash",
             "avbVbmeta", "avbHole", "avbFooter", "verify"}

Pending(b, p) == \E i \in 1 .. Len(todo[b]) : todo[b][i] = p

(* The menus start from the stock tree; while fdtput is called, each of    *)
(* the four cells is already the one asked for or its call is still to     *)
(* come; and what is copied to OUTPUT is the whole tree at the old size.   *)
StockAtMenu(b) == pc[b] = "menu" => dtb[b] = StockDt

AskedOrPending(b) ==
    pc[b] = "apply" =>
        \A p \in Fields : dtb[b][p] = Asked(choice[b])[p] \/ Pending(b, p)

WholePayload(b) ==
    pc[b] \in OnOutput =>
        payload[b] = [dt |-> Asked(choice[b]), resized |-> FALSE]

BuildInv ==
    /\ TypeOK
    /\ \A b \in Builders : StockAtMenu(b) /\ AskedOrPending(b) /\ WholePayload(b)

-----------------------------------------------------------------------------
(* The data of a build. *)

(* The stock tree holds cells. *)
LEMMA StockDtTyped == StockDt \in Dt
BY StockAssumption DEF StockDt, Dt, Fields

(* The configuration of a run, or what stands for it before the menus.     *)
LEMMA ChoiceTyped ==
    ASSUME TypeOK, NEW b \in Builders
    PROVE  /\ choice[b].add \in Int
           /\ choice[b].voltage \in [Clusters -> DOMAIN CellValue]
<1>1. CASE choice[b] \in Configs
  BY <1>1, ConfigsAssumption
<1>2. CASE choice[b] = NoChoice
  <2>1. choice[b].add = 0 /\ choice[b].voltage = StockVoltage
    BY <1>2 DEF NoChoice
  <2> QED
    BY <2>1, StockAssumption
<1> QED
  BY <1>1, <1>2 DEF TypeOK

(* A sum of frequencies is cut to a cell; a voltage is one if fdtput reads *)
(* it; and both are what the configuration asks for.                       *)
LEMMA CellForAsked ==
    ASSUME TypeOK, NEW b \in Builders, NEW p \in Fields
    PROVE  /\ CellFor(b, p) \in Cell \cup {Unreadable}
           /\ CellFor(b, p) = Asked(choice[b])[p]
<1>1. PICK c \in Clusters, f \in {"opp-hz", "opp-microvolt"} : p = <<c, f>>
  BY DEF Fields
<1>2. CASE f = "opp-hz"
  <2>1. StockHz[c] \in Int
    BY StockAssumption, CellsAssumption DEF Cell
  <2>2. choice[b].add \in Int
    BY ChoiceTyped
  <2>3. (StockHz[c] + choice[b].add) % CellSize \in Cell
    BY <2>1, <2>2, CellsAssumption DEF Cell
  <2> QED
    BY <1>1, <1>2, <2>3 DEF CellFor, NewHz, Asked
<1>3. CASE f = "opp-microvolt"
  <2>1. CellValue[choice[b].voltage[c]] \in Cell \cup {Unreadable}
    BY ChoiceTyped, CellsAssumption
  <2> QED
    BY <1>1, <1>3, <2>1 DEF CellFor, Asked
<1> QED
  BY <1>2, <1>3

(* The calls of one block are calls for fields.  *)
LEMMA ApplyTyped ==
    ASSUME NEW cfg
    PROVE  Apply(cfg) \in Seq(Fields)
<1>1. <<<<"opp_table0", "opp-hz">>, <<"opp_table1", "opp-hz">>>> \in Seq(Fields)
  BY DEF Fields, Clusters
<1>2. <<<<"opp_table0", "opp-microvolt">>, <<"opp_table1", "opp-microvolt">>>>
        \in Seq(Fields)
  BY DEF Fields, Clusters
<1>3. <<>> \in Seq(Fields)
  OBVIOUS
<1> QED
  BY <1>1, <1>2, <1>3 DEF Apply

(* One block is enough: it calls for every field whose stock cell is not   *)
(* the one asked for.                                                      *)
LEMMA ApplyCovers ==
    ASSUME TypeOK, NEW b \in Builders, NEW cfg \in Choices[b], NEW p \in Fields
    PROVE  \/ StockDt[p] = Asked(cfg)[p]
           \/ \E i \in 1 .. Len(Apply(cfg) \o Apply(cfg)) :
                 (Apply(cfg) \o Apply(cfg))[i] = p
<1> DEFINE hz == <<<<"opp_table0", "opp-hz">>, <<"opp_table1", "opp-hz">>>>
           uv == IF VoltageChanged(cfg)
                 THEN <<<<"opp_table0", "opp-microvolt">>,
                        <<"opp_table1", "opp-microvolt">>>>
                 ELSE <<>>
<1>1. Apply(cfg) = hz \o uv
  BY DEF Apply
<1>2. PICK c \in Clusters, f \in {"opp-hz", "opp-microvolt"} : p = <<c, f>>
  BY DEF Fields
<1>3. SUFFICES ASSUME ~ \E i \in 1 .. Len(Apply(cfg)) : Apply(cfg)[i] = p
               PROVE  StockDt[p] = Asked(cfg)[p]
  BY ApplyTyped
<1>4. f = "opp-microvolt" /\ ~VoltageChanged(cfg)
  <2>1. CASE f = "opp-hz"
    <3>1. Apply(cfg)[1] = <<"opp_table0", "opp-hz">>
          /\ Apply(cfg)[2] = <<"opp_table1", "opp-hz">>
          /\ Len(Apply(cfg)) >= 2
      BY <1>1
    <3> QED
      BY <1>2, <1>3, <2>1, <3>1 DEF Clusters
  <2>2. CASE f = "opp-microvolt" /\ VoltageChanged(cfg)
    <3>1. Apply(cfg)[3] = <<"opp_table0", "opp-microvolt">>
          /\ Apply(cfg)[4] = <<"opp_table1", "opp-microvolt">>
          /\ Len(Apply(cfg)) = 4
      BY <1>1, <2>2
    <3> QED
      BY <1>2, <1>3, <2>2, <3>1 DEF Clusters
  <2> QED
    BY <2>1, <2>2
<1>5. cfg.voltage[c] = StockVoltage[c]
  BY <1>4 DEF VoltageChanged
<1> QED
  BY <1>2, <1>4, <1>5 DEF StockDt, Asked

-----------------------------------------------------------------------------
(* Types. *)

(* A script starts with the types its variables keep. *)
LEMMA InitTyped == Init => TypeOK
<1> SUFFICES ASSUME Init PROVE TypeOK
  OBVIOUS
<1>1. StockDt \in Dt
  BY StockDtTyped
<1>2. <<>> \in Seq(Fields)
  OBVIOUS
<1> QED
  BY <1>1, <1>2, RunsAssumption DEF Init, TypeOK, Labels, Waiting

(* Every step of a terminal keeps them. *)
LEMMA StepKeepsTypes ==
    ASSUME TypeOK, NEW b \in Builders, Start(b) \/ Step(b) \/ Fault(b)
    PROVE  TypeOK'
<1> USE DEF Goto, Labels, Waiting
<1>1. CASE Start(b)
  <2>1. runs' = [runs EXCEPT ![b] = @ + 1] /\ runs[b] < MaxRuns[b]
    BY <1>1 DEF Start
  <2>2. runs \in [Builders -> Nat] /\ \A c \in Builders : runs[c] <= MaxRuns[c]
    BY DEF TypeOK
  <2>3. runs' \in [Builders -> Nat]
    BY <2>1, <2>2
  <2>4. \A c \in Builders : runs'[c] <= MaxRuns[c]
    BY <2>1, <2>2, RunsAssumption
  <2>5. /\ pc' \in [Builders -> Labels]
        /\ outcome' \in [Builders -> {"none", "success", "cancelled", "error"}]
        /\ work' \in [Builders -> BOOLEAN]
        /\ choice' \in [Builders -> Configs \cup {NoChoice}]
    BY <1>1 DEF Start, TypeOK
  <2>6. /\ todo' \in [Builders -> Seq(Fields)]
        /\ dtb' \in [Builders -> Dt]
        /\ payload' \in [Builders -> [dt : Dt, resized : BOOLEAN]]
        /\ DOMAIN out' = Names
    BY <1>1 DEF Start, TypeOK
  <2> QED
    BY <2>3, <2>4, <2>5, <2>6 DEF TypeOK
<1>2. CASE Preflight(b)
  <2>1. UNCHANGED <<private, out>>
    BY <1>2 DEF Preflight
  <2>2. PICK l \in Labels, w \in BOOLEAN, o \in {outcome[b], "error"} :
           /\ pc' = [pc EXCEPT ![b] = l]
           /\ work' = [work EXCEPT ![b] = w]
           /\ outcome' = [outcome EXCEPT ![b] = o]
    BY <1>2 DEF Preflight, TypeOK
  <2> QED
    BY <2>1, <2>2 DEF TypeOK, private
<1>3. CASE ReadInput(b)
  <2>1. UNCHANGED <<runs, work, choice, todo, payload, avb, shown, out>>
    BY <1>3 DEF ReadInput
  <2>2. dtb' \in {dtb, [dtb EXCEPT ![b] = StockDt]}
    BY <1>3 DEF ReadInput
  <2>3. dtb' \in [Builders -> Dt]
    BY <2>2, StockDtTyped DEF TypeOK
  <2>4. \/ pc' = [pc EXCEPT ![b] = "menu"] /\ UNCHANGED outcome
        \/ Exit(b, "error")
    BY <1>3 DEF ReadInput
  <2>5. pc' \in [Builders -> Labels]
    BY <2>4 DEF Exit, TypeOK
  <2>6. outcome' \in [Builders -> {"none", "success", "cancelled", "error"}]
    BY <2>4 DEF Exit, TypeOK
  <2> QED
    BY <2>1, <2>3, <2>5, <2>6 DEF TypeOK
<1>4. CASE Settle(b)
  <2>1. CASE Exit(b, "cancelled") /\ UNCHANGED <<choice, todo>>
    BY <1>4, <2>1 DEF Settle, Exit, TypeOK
  <2>2. ASSUME NEW cfg \in Choices[b],
               choice' = [choice EXCEPT ![b] = cfg],
               todo' = [todo EXCEPT ![b] = Apply(cfg) \o Apply(cfg)],
               pc' = [pc EXCEPT ![b] = "apply"], UNCHANGED outcome
        PROVE  TypeOK'
    <3>1. Apply(cfg) \o Apply(cfg) \in Seq(Fields)
      BY ApplyTyped
    <3>2. cfg \in Configs
      BY DEF Configs
    <3> QED
      BY <1>4, <2>2, <3>1, <3>2 DEF Settle, TypeOK
  <2> QED
    BY <1>4, <2>1, <2>2 DEF Settle
<1>5. CASE ApplyCall(b)
  <2>1. Head(todo[b]) \in Fields /\ Tail(todo[b]) \in Seq(Fields)
    BY <1>5 DEF ApplyCall, TypeOK
  <2>2. CellFor(b, Head(todo[b])) \in Cell \cup {Unreadable}
    BY <2>1, CellForAsked
  <2>3. dtb' \in [Builders -> Dt]
    <3>1. CASE UNCHANGED dtb
      BY <3>1 DEF TypeOK
    <3>2. CASE /\ CellFor(b, Head(todo[b])) # Unreadable
               /\ dtb' = [dtb EXCEPT ![b][Head(todo[b])]
                                       = CellFor(b, Head(todo[b]))]
      <4>1. [dtb[b] EXCEPT ![Head(todo[b])] = CellFor(b, Head(todo[b]))] \in Dt
        BY <2>1, <2>2, <3>2 DEF TypeOK, Dt
      <4> QED
        BY <3>2, <4>1 DEF TypeOK
    <3> QED
      BY <1>5, <3>1, <3>2 DEF ApplyCall
  <2>4. UNCHANGED <<runs, work, choice, payload, avb, shown, out>>
    BY <1>5 DEF ApplyCall
  <2>5. todo' \in {todo, [todo EXCEPT ![b] = Tail(todo[b])]}
    BY <1>5 DEF ApplyCall
  <2>6. todo' \in [Builders -> Seq(Fields)]
    BY <2>1, <2>5 DEF TypeOK
  <2>7. UNCHANGED <<pc, outcome>> \/ Exit(b, "error")
    BY <1>5 DEF ApplyCall
  <2>8. pc' \in [Builders -> Labels]
    BY <2>7 DEF Exit, TypeOK
  <2>9. outcome' \in [Builders -> {"none", "success", "cancelled", "error"}]
    BY <2>7 DEF Exit, TypeOK
  <2> QED
    BY <2>3, <2>4, <2>6, <2>8, <2>9 DEF TypeOK
<1>6. CASE Repack(b)
  <2>1. PICK resized \in BOOLEAN :
           payload' = [payload EXCEPT ![b] = [dt |-> dtb[b], resized |-> resized]]
    BY <1>6 DEF Repack, Resizes
  <2>2. payload' \in [Builders -> [dt : Dt, resized : BOOLEAN]]
    BY <2>1 DEF TypeOK
  <2>3. \/ pc' = [pc EXCEPT ![b] = "copy"] /\ UNCHANGED outcome
        \/ Exit(b, "error")
    BY <1>6 DEF Repack
  <2>4. UNCHANGED <<runs, work, choice, todo, dtb, avb, shown, out>>
    BY <1>6 DEF Repack
  <2>5. pc' \in [Builders -> Labels]
    BY <2>3 DEF Exit, TypeOK
  <2>6. outcome' \in [Builders -> {"none", "success", "cancelled", "error"}]
    BY <2>3 DEF Exit, TypeOK
  <2> QED
    BY <2>2, <2>4, <2>5, <2>6 DEF TypeOK
<1>7. CASE CopyOpen(b)
  BY <1>7 DEF CopyOpen, SetOut, TypeOK, private
<1>8. CASE CopyBlock(b)
  BY <1>8 DEF CopyBlock, SetOut, TypeOK, private
<1>9. CASE AvbOpen(b)
  BY <1>9 DEF AvbOpen, SetOut, Exit, TypeOK
<1>10. CASE AvbHash(b)
  BY <1>10 DEF AvbHash, AvbFails, SetOut, Exit, TypeOK, private
<1>11. CASE AvbVbmeta(b)
  BY <1>11 DEF AvbVbmeta, SetOut, TypeOK, private
<1>12. CASE AvbHole(b)
  BY <1>12 DEF AvbHole, SetOut, TypeOK, private
<1>13. CASE AvbFooter(b)
  BY <1>13 DEF AvbFooter, SetOut, TypeOK, private
<1>14. CASE Verify(b)
  BY <1>14 DEF Verify, Exit, TypeOK
<1>15. CASE Cleanup(b)
  BY <1>15 DEF Cleanup, TypeOK, private
<1>16. CASE AvbError(b)
  BY <1>16 DEF AvbError, AvbFails, SetOut, Exit, TypeOK, private
<1>17. CASE Stop(b)
  BY <1>17 DEF Stop, Exit, TypeOK, private
<1>18. CASE Kill(b)
  BY <1>18 DEF Kill, TypeOK, private
<1> QED
  BY <1>1, <1>2, <1>3, <1>4, <1>5, <1>6, <1>7, <1>8, <1>9, <1>10, <1>11, <1>12,
     <1>13, <1>14, <1>15, <1>16, <1>17, <1>18 DEF Step, Fault

-----------------------------------------------------------------------------
(* The inductive invariant. *)

(* A terminal changes nothing of another but the files they share. *)
LEMMA OthersUntouched ==
    ASSUME TypeOK, NEW b \in Builders, NEW other \in Builders \ {b},
           Start(b) \/ Step(b) \/ Fault(b)
    PROVE  /\ pc'[other] = pc[other]
           /\ choice'[other] = choice[other]
           /\ todo'[other] = todo[other]
           /\ dtb'[other] = dtb[other]
           /\ payload'[other] = payload[other]
<1> USE DEF TypeOK, Goto, Exit, private
<1>1. CASE Start(b) \/ Preflight(b) \/ ReadInput(b) \/ Settle(b)
  BY <1>1 DEF Start, Preflight, ReadInput, Settle
<1>2. CASE ApplyCall(b)
  BY <1>2 DEF ApplyCall
<1>3. CASE Repack(b)
  BY <1>3 DEF Repack
<1>4. CASE CopyOpen(b) \/ CopyBlock(b) \/ AvbOpen(b) \/ AvbHash(b)
  BY <1>4 DEF CopyOpen, CopyBlock, AvbOpen, AvbHash, AvbFails
<1>5. CASE AvbVbmeta(b) \/ AvbHole(b) \/ AvbFooter(b) \/ AvbError(b)
  BY <1>5 DEF AvbVbmeta, AvbHole, AvbFooter, AvbError, AvbFails
<1>6. CASE Verify(b) \/ Cleanup(b) \/ Stop(b) \/ Kill(b)
  BY <1>6 DEF Verify, Cleanup, Stop, Kill
<1> QED
  BY <1>1, <1>2, <1>3, <1>4, <1>5, <1>6 DEF Step, Fault

(* Of the pipeline's steps, only the size check leads to OUTPUT, and no    *)
(* step on OUTPUT changes what is built.                                   *)
LEMMA OnOutputOnlyFromRepack ==
    ASSUME TypeOK, NEW b \in Builders, Start(b) \/ Step(b) \/ Fault(b),
           pc'[b] \in OnOutput, ~Repack(b)
    PROVE  pc[b] \in OnOutput /\ UNCHANGED <<choice, payload>>
<1> USE DEF TypeOK, Goto, Exit, private, OnOutput
<1>1. CASE Start(b) \/ Preflight(b) \/ ReadInput(b) \/ Settle(b)
  BY <1>1 DEF Start, Preflight, ReadInput, Settle
<1>2. CASE ApplyCall(b)
  BY <1>2 DEF ApplyCall
<1>3. CASE CopyOpen(b) \/ CopyBlock(b) \/ AvbOpen(b) \/ AvbHash(b)
  BY <1>3 DEF CopyOpen, CopyBlock, AvbOpen, AvbHash, AvbFails
<1>4. CASE AvbVbmeta(b) \/ AvbHole(b) \/ AvbFooter(b) \/ AvbError(b)
  BY <1>4 DEF AvbVbmeta, AvbHole, AvbFooter, AvbError, AvbFails
<1>5. CASE Verify(b) \/ Cleanup(b) \/ Stop(b) \/ Kill(b)
  BY <1>5 DEF Verify, Cleanup, Stop, Kill
<1> QED
  BY <1>1, <1>2, <1>3, <1>4, <1>5 DEF Step, Fault

(* The steps that lead into the menus and into the calls of fdtput. *)
LEMMA MenuAndApplyEntered ==
    ASSUME TypeOK, NEW b \in Builders, Start(b) \/ Step(b) \/ Fault(b)
    PROVE  /\ pc'[b] = "menu" => ReadInput(b)
           /\ pc'[b] = "apply" => Settle(b) \/ ApplyCall(b)
<1> USE DEF TypeOK, Goto, Exit, private
<1>1. CASE Start(b) \/ Preflight(b) \/ Repack(b)
  BY <1>1 DEF Start, Preflight, Repack
<1>2. CASE ReadInput(b) \/ Settle(b) \/ ApplyCall(b)
  <2>1. ReadInput(b) => pc'[b] # "apply"
    BY DEF ReadInput
  <2>2. Settle(b) \/ ApplyCall(b) => pc'[b] # "menu"
    BY DEF Settle, ApplyCall
  <2> QED
    BY <1>2, <2>1, <2>2
<1>3. CASE CopyOpen(b) \/ CopyBlock(b) \/ AvbOpen(b) \/ AvbHash(b)
  BY <1>3 DEF CopyOpen, CopyBlock, AvbOpen, AvbHash, AvbFails
<1>4. CASE AvbVbmeta(b) \/ AvbHole(b) \/ AvbFooter(b) \/ AvbError(b)
  BY <1>4 DEF AvbVbmeta, AvbHole, AvbFooter, AvbError, AvbFails
<1>5. CASE Verify(b) \/ Cleanup(b) \/ Stop(b) \/ Kill(b)
  BY <1>5 DEF Verify, Cleanup, Stop, Kill
<1> QED
  BY <1>1, <1>2, <1>3, <1>4, <1>5 DEF Step, Fault

(* A call that succeeds applies the first field of the list and leaves the *)
(* rest of the list pending.                                               *)
LEMMA CallAppliesHead ==
    ASSUME BuildInv, NEW b \in Builders, ApplyCall(b), pc'[b] = "apply"
    PROVE  AskedOrPending(b)'
<1>1. TypeOK /\ AskedOrPending(b)
  BY DEF BuildInv
<1> DEFINE p == Head(todo[b])
<1>2. /\ pc[b] = "apply" /\ todo[b] # <<>> /\ UNCHANGED choice
      /\ CellFor(b, p) # Unreadable
      /\ dtb' = [dtb EXCEPT ![b][p] = CellFor(b, p)]
      /\ todo' = [todo EXCEPT ![b] = Tail(@)]
  BY <1>1 DEF ApplyCall, Exit, Goto, TypeOK
<1>3. todo[b] \in Seq(Fields) /\ dtb[b] \in [Fields -> Cell] /\ p \in Fields
  BY <1>1, <1>2 DEF TypeOK, Dt
<1>4. todo'[b] = Tail(todo[b])
  BY <1>1, <1>2 DEF TypeOK
<1>5. dtb'[b] = [dtb[b] EXCEPT ![p] = Asked(choice[b])[p]]
  BY <1>1, <1>2, <1>3, CellForAsked DEF TypeOK
<1>6. ASSUME NEW q \in Fields
      PROVE  dtb'[b][q] = Asked(choice[b])[q] \/ Pending(b, q)'
  <2>1. CASE q = p
    BY <1>3, <1>5, <2>1
  <2>2. CASE q # p /\ dtb[b][q] = Asked(choice[b])[q]
    BY <1>3, <1>5, <2>2
  <2>3. CASE q # p /\ Pending(b, q)
    <3>1. PICK i \in 1 .. Len(todo[b]) : todo[b][i] = q
      BY <2>3 DEF Pending
    <3>2. i # 1
      BY <1>2, <1>3, <2>3, <3>1
    <3>3. i - 1 \in 1 .. Len(Tail(todo[b])) /\ Tail(todo[b])[i - 1] = q
      BY <1>2, <1>3, <3>1, <3>2
    <3> QED
      BY <1>4, <3>3 DEF Pending
  <2> QED
    BY <1>1, <1>2, <2>1, <2>2, <2>3 DEF AskedOrPending
<1> QED
  BY <1>2, <1>6 DEF AskedOrPending

(* Init establishes the invariant. *)
LEMMA InitEstablishesInv == Init => BuildInv
<1> SUFFICES ASSUME Init PROVE BuildInv
  OBVIOUS
<1>1. \A b \in Builders : pc[b] = "idle"
  BY DEF Init
<1> QED
  BY <1>1, InitTyped DEF BuildInv, StockAtMenu, AskedOrPending, WholePayload, OnOutput

(* Every step keeps it. *)
LEMMA StepKeepsInv ==
    ASSUME BuildInv, NEW b \in Builders, Start(b) \/ Step(b) \/ Fault(b)
    PROVE  BuildInv'
<1>1. TypeOK /\ TypeOK'
  BY StepKeepsTypes DEF BuildInv
<1>2. StockAtMenu(b)'
  <2> SUFFICES ASSUME pc'[b] = "menu" PROVE dtb'[b] = StockDt
    BY DEF StockAtMenu
  <2>1. ReadInput(b)
    BY <1>1, MenuAndApplyEntered
  <2> QED
    BY <1>1, <2>1 DEF ReadInput, Exit, Goto, TypeOK
<1>3. AskedOrPending(b)'
  <2>1. CASE pc'[b] # "apply"
    BY <2>1 DEF AskedOrPending
  <2>2. CASE pc'[b] = "apply" /\ ApplyCall(b)
    BY <2>2, CallAppliesHead
  <2>3. CASE pc'[b] = "apply" /\ Settle(b)
    <3>1. PICK cfg \in Choices[b] :
             /\ choice'[b] = cfg
             /\ todo'[b] = Apply(cfg) \o Apply(cfg)
      BY <1>1, <2>3 DEF Settle, Exit, Goto, TypeOK
    <3>2. dtb'[b] = StockDt
      BY <1>1, <2>3 DEF Settle, BuildInv, StockAtMenu
    <3>3. ASSUME NEW p \in Fields
          PROVE  dtb'[b][p] = Asked(choice'[b])[p] \/ Pending(b, p)'
      <4>1. \/ StockDt[p] = Asked(cfg)[p]
            \/ \E i \in 1 .. Len(Apply(cfg) \o Apply(cfg)) :
                  (Apply(cfg) \o Apply(cfg))[i] = p
        BY <1>1, ApplyCovers
      <4>2. Pending(b, p)' = \E i \in 1 .. Len(todo'[b]) : todo'[b][i] = p
        BY DEF Pending
      <4> QED
        BY <3>1, <3>2, <4>1, <4>2
    <3> QED
      BY <3>3 DEF AskedOrPending
  <2> QED
    BY <1>1, <2>1, <2>2, <2>3, MenuAndApplyEntered
<1>4. WholePayload(b)'
  <2> SUFFICES ASSUME pc'[b] \in OnOutput
               PROVE  payload'[b] = [dt |-> Asked(choice'[b]), resized |-> FALSE]
    BY DEF WholePayload
  <2>1. CASE ~Repack(b)
    BY <1>1, <2>1, OnOutputOnlyFromRepack DEF BuildInv, WholePayload
  <2>2. CASE Repack(b)
    <3>1. payload'[b] = [dt |-> dtb[b], resized |-> FALSE] /\ choice' = choice
      <4>1. PICK resized \in Resizes :
               /\ payload' = [payload EXCEPT
                                 ![b] = [dt |-> dtb[b], resized |-> resized]]
               /\ ~resized \/ pc' = [pc EXCEPT ![b] = "trap"]
        BY <2>2 DEF Repack, Exit, Goto
      <4>2. resized = FALSE
        BY <1>1, <4>1 DEF TypeOK, OnOutput, Resizes
      <4> QED
        BY <1>1, <2>2, <4>1, <4>2 DEF Repack, TypeOK
    <3>2. \A p \in Fields : dtb[b][p] = Asked(choice[b])[p]
      BY <2>2 DEF Repack, BuildInv, AskedOrPending, Pending
    <3>3. dtb[b] = Asked(choice[b])
      BY <1>1, <3>2 DEF TypeOK, Dt, Asked
    <3> QED
      BY <3>1, <3>3
  <2> QED
    BY <2>1, <2>2
<1>5. ASSUME NEW other \in Builders \ {b}
      PROVE  (StockAtMenu(other) /\ AskedOrPending(other) /\ WholePayload(other))'
  BY <1>1, OthersUntouched
     DEF BuildInv, StockAtMenu, AskedOrPending, WholePayload, Pending
<1> QED
  BY <1>1, <1>2, <1>3, <1>4, <1>5 DEF BuildInv

(* A step changes no file but OUTPUT of its own terminal, and that one     *)
(* only between the size check and the verification.                       *)
LEMMA OnlyOutputIsWritten ==
    ASSUME TypeOK, NEW b \in Builders, Start(b) \/ Step(b) \/ Fault(b),
           NEW name \in Names, out'[name] # out[name]
    PROVE  OUTPUT(b) = name /\ pc[b] \in OnOutput
<1> USE DEF TypeOK, SetOut, OnOutput
<1>1. CASE Start(b) \/ Preflight(b) \/ ReadInput(b) \/ Settle(b)
  BY <1>1 DEF Start, Preflight, ReadInput, Settle
<1>2. CASE ApplyCall(b) \/ Repack(b)
  BY <1>2 DEF ApplyCall, Repack
<1>3. CASE CopyOpen(b) \/ CopyBlock(b) \/ AvbOpen(b)
  BY <1>3 DEF CopyOpen, CopyBlock, AvbOpen
<1>4. CASE AvbHash(b) \/ AvbError(b)
  BY <1>4 DEF AvbHash, AvbError, AvbFails
<1>5. CASE AvbVbmeta(b) \/ AvbHole(b) \/ AvbFooter(b)
  BY <1>5 DEF AvbVbmeta, AvbHole, AvbFooter
<1>6. CASE Verify(b) \/ Cleanup(b) \/ Stop(b) \/ Kill(b)
  BY <1>6 DEF Verify, Cleanup, Stop, Kill
<1> QED
  BY <1>1, <1>2, <1>3, <1>4, <1>5, <1>6 DEF Step, Fault

-----------------------------------------------------------------------------
(* The theorems. *)

(* The invariant holds in every state of every number of runs. *)
THEOREM BuildInvariant == Spec => []BuildInv
<1>1. Init => BuildInv
  BY InitEstablishesInv
<1>2. BuildInv /\ [Next]_vars => BuildInv'
  <2> SUFFICES ASSUME BuildInv, [Next]_vars PROVE BuildInv'
    OBVIOUS
  <2>1. CASE UNCHANGED vars
    BY <2>1 DEF BuildInv, TypeOK, StockAtMenu, AskedOrPending, WholePayload,
                Pending, vars
  <2>2. CASE Next
    BY <2>2, StepKeepsInv DEF Next
  <2> QED
    BY <2>1, <2>2
<1> QED
  BY <1>1, <1>2, PTL DEF Spec

(* Device trees hold cells, whatever was typed at the menus. *)
THEOREM BuildTypeCorrect == Spec => []TypeOK
<1>1. BuildInv => TypeOK
  BY DEF BuildInv
<1> QED
  BY <1>1, BuildInvariant, PTL

(* The output directory is written only by a run whose payload has its old *)
(* size and carries, in both clusters, the cells of the configuration that *)
(* was accepted: no failed call of fdtput, no missing call and no payload  *)
(* of another size gets there, and no other name is touched.               *)
THEOREM WholeTreesOnly == Spec => OnlyWholeTreesReachOutput
<1>1. BuildInv /\ [Next]_vars =>
        [\A name \in Names : out'[name] # out[name] =>
            \E b \in Builders :
               /\ OUTPUT(b) = name
               /\ payload[b] = [dt |-> Asked(choice[b]), resized |-> FALSE]]_vars
  <2> SUFFICES ASSUME BuildInv, Next, NEW name \in Names, out'[name] # out[name]
               PROVE  \E b \in Builders :
                        /\ OUTPUT(b) = name
                        /\ payload[b] = [dt |-> Asked(choice[b]), resized |-> FALSE]
    OBVIOUS
  <2>1. PICK b \in Builders : Start(b) \/ Step(b) \/ Fault(b)
    BY DEF Next
  <2>2. OUTPUT(b) = name /\ pc[b] \in OnOutput
    BY <2>1, OnlyOutputIsWritten DEF BuildInv
  <2> QED
    BY <2>2 DEF BuildInv, WholePayload
<1> QED
  BY <1>1, BuildInvariant, PTL DEF Spec, OnlyWholeTreesReachOutput

-----------------------------------------------------------------------------
(***************************************************************************)
(* The image files: a footer is only ever found on a complete image, a     *)
(* build that reports success has left one, and the directory behaves as   *)
(* OcImages says.                                                          *)
(***************************************************************************)

(* No two terminals ever settle on one name: the script has no lock, and   *)
(* two cp or avbtool on one file write over each other.                    *)
NamesApart ==
    \A b \in Builders : \A other \in Builders \ {b} :
        \A mine \in Choices[b], theirs \in Choices[other] : mine.mhz # theirs.mhz

(* A buffer dropped by avbtool is written: its failure is not reported.    *)
BuffersReachTheFile == "flushLost" \notin Faults

-----------------------------------------------------------------------------
(* The file of a run, as each of its steps leaves it. *)

Bare(b) == Payload(Asked(choice[b]))
Digested(b) == Append(Bare(b), Vbmeta(Bare(b)))
Padded(b) == Truncate(Digested(b), PartitionSize - 1)
Whole(b) == Append(Padded(b), Footer(2, 2))

Opened == [original |-> 2, size |-> 2, offset |-> 0, vbmeta |-> Hole]
Hashed(b) == [original |-> 2, size |-> 2, offset |-> 2, vbmeta |-> Vbmeta(Bare(b))]

Fits == PartitionSize - MetadataSize >= 2

(* A run that is at its image has a configuration of its own terminal, and *)
(* so does one that has succeeded.                                         *)
Chosen(b) ==
    pc[b] \in OnOutput \cup {"apply"} \/ outcome[b] = "success" =>
        choice[b] \in Choices[b]

(* What OUTPUT holds before each step on it. *)
Contents(b) ==
    /\ pc[b] = "copyHeader" => out[OUTPUT(b)] = <<>>
    /\ pc[b] = "copyDtb" => out[OUTPUT(b)] = <<Header>>
    /\ pc[b] \in {"avbOpen", "avbHash", "avbVbmeta"} => out[OUTPUT(b)] = Bare(b)
    /\ pc[b] = "avbHole" => out[OUTPUT(b)] = Digested(b)
    /\ pc[b] = "avbFooter" => out[OUTPUT(b)] = Padded(b)
    /\ pc[b] = "verify" => out[OUTPUT(b)] = Whole(b)

(* What avbtool has computed by then. *)
Computed(b) ==
    /\ pc[b] = "avbHash" => avb[b] = Opened
    /\ pc[b] \in {"avbVbmeta", "avbHole", "avbFooter"} => avb[b] = Hashed(b) /\ Fits
    /\ pc[b] = "verify" => Fits

(* A success lasts until the terminal starts another run. *)
Succeeded(b) ==
    outcome[b] = "success" =>
        /\ pc[b] \in {"trap", "ended", "killed"}
        /\ out[OUTPUT(b)] = Whole(b) /\ Fits
        /\ shown[b] = Asked(choice[b])

ImageInv ==
    /\ BuildInv
    /\ DOMAIN avb = Builders /\ DOMAIN shown = Builders
    /\ \A b \in Builders : Chosen(b) /\ Contents(b) /\ Computed(b) /\ Succeeded(b)
    /\ FooterSealsPayload

-----------------------------------------------------------------------------
(* Files as sequences. *)

(* truncate(2) leaves a file of the size asked for, with the blocks that   *)
(* were there and a hole behind them.                                      *)
LEMMA TruncateIs ==
    ASSUME NEW file, NEW size \in Nat
    PROVE  /\ Len(Truncate(file, size)) = size
           /\ DOMAIN Truncate(file, size) = 1 .. size
           /\ \A i \in 1 .. size : Truncate(file, size)[i] =
                 IF i <= Len(file) THEN file[i] ELSE Hole
           /\ \E S : Truncate(file, size) \in Seq(S)
<1> DEFINE t == Truncate(file, size)
           S == {t[i] : i \in 1 .. size}
<1>1. /\ DOMAIN t = 1 .. size
      /\ t = [i \in 1 .. size |-> t[i]]
      /\ \A i \in 1 .. size : t[i] = IF i <= Len(file) THEN file[i] ELSE Hole
  BY DEF Truncate
<1> HIDE DEF t
<1>2. t \in [1 .. size -> S]
  BY <1>1
<1>3. t \in Seq(S)
  BY <1>2
<1>4. Len(t) = size
  BY <1>2, <1>3
<1> QED
  BY <1>1, <1>3, <1>4 DEF t

(* A block appended is the last one. *)
LEMMA AppendIs ==
    ASSUME NEW S, NEW file \in Seq(S), NEW block
    PROVE  /\ Len(Append(file, block)) = Len(file) + 1
           /\ Append(file, block)[Len(file) + 1] = block
           /\ \A i \in 1 .. Len(file) : Append(file, block)[i] = file[i]
           /\ Append(file, block) \in Seq(S \cup {block})
           /\ DOMAIN Append(file, block) = 1 .. Len(file) + 1
<1>1. file \in Seq(S \cup {block}) /\ block \in S \cup {block}
  OBVIOUS
<1> QED
  BY <1>1

(* Two files with the same blocks are one. *)
LEMMA SameBlocks ==
    ASSUME NEW S, NEW f \in Seq(S), NEW T, NEW g \in Seq(T), Len(f) = Len(g),
           \A i \in 1 .. Len(f) : f[i] = g[i]
    PROVE  f = g
<1>1. f \in Seq(S \cup T) /\ g \in Seq(S \cup T)
  OBVIOUS
<1> QED
  BY <1>1

(* The payload is two blocks and no footer. *)
LEMMA PayloadIs ==
    ASSUME NEW dt
    PROVE  /\ Payload(dt) \in Seq({Header, Dtb(dt)})
           /\ Len(Payload(dt)) = 2 /\ Payload(dt) # <<>>
           /\ Payload(dt)[1] = Header /\ Payload(dt)[2] = Dtb(dt)
           /\ Truncate(Payload(dt), 2) = Payload(dt)
           /\ ~HasFooter(Payload(dt))
<1>1. /\ Payload(dt) \in Seq({Header, Dtb(dt)})
      /\ Len(Payload(dt)) = 2 /\ Payload(dt) # <<>>
      /\ Payload(dt)[1] = Header /\ Payload(dt)[2] = Dtb(dt)
  BY DEF Payload
<1>2. ~HasFooter(Payload(dt))
  BY <1>1 DEF HasFooter, Dtb
<1>3. PICK T : Truncate(Payload(dt), 2) \in Seq(T)
  BY TruncateIs
<1>4. /\ Len(Truncate(Payload(dt), 2)) = 2
      /\ \A i \in 1 .. 2 : Truncate(Payload(dt), 2)[i] = Payload(dt)[i]
  BY <1>1, TruncateIs
<1>5. Truncate(Payload(dt), 2) = Payload(dt)
  BY <1>1, <1>3, <1>4, SameBlocks
<1> QED
  BY <1>1, <1>2, <1>5

(* cp writes the two blocks of the payload one after the other. *)
LEMMA CopyIs ==
    ASSUME NEW dt
    PROVE  /\ WriteAt(<<>>, 1, Header) = <<Header>>
           /\ WriteAt(<<Header>>, 2, Dtb(dt)) = Payload(dt)
<1>1. Truncate(<<>>, 1) = [i \in 1 .. 1 |-> Hole]
  BY DEF Truncate
<1>2. Truncate(<<Header>>, 2) = [i \in 1 .. 2 |-> IF i <= 1 THEN Header ELSE Hole]
  BY DEF Truncate
<1>3. WriteAt(<<>>, 1, Header) = [i \in 1 .. 1 |-> Header]
  <2>1. WriteAt(<<>>, 1, Header) = [Truncate(<<>>, 1) EXCEPT ![1] = Header]
    BY DEF WriteAt
  <2> QED
    BY <1>1, <2>1
<1>4. WriteAt(<<Header>>, 2, Dtb(dt)) =
        [i \in 1 .. 2 |-> IF i = 1 THEN Header ELSE Dtb(dt)]
  <2>1. WriteAt(<<Header>>, 2, Dtb(dt)) =
          [Truncate(<<Header>>, 2) EXCEPT ![2] = Dtb(dt)]
    BY DEF WriteAt
  <2> QED
    BY <1>2, <2>1
<1>5. <<Header>> = [i \in 1 .. 1 |-> Header]
  OBVIOUS
<1>6. Payload(dt) = [i \in 1 .. 2 |-> IF i = 1 THEN Header ELSE Dtb(dt)]
  BY DEF Payload
<1> QED
  BY <1>3, <1>4, <1>5, <1>6

(* The digest goes behind the payload, the hole behind the digest. *)
LEMMA DigestedIs ==
    ASSUME NEW b \in Builders
    PROVE  /\ \E S : Digested(b) \in Seq(S)
           /\ Len(Digested(b)) = 3
           /\ Digested(b)[1] = Header /\ Digested(b)[2] = Dtb(Asked(choice[b]))
           /\ Digested(b)[3] = Vbmeta(Bare(b))
<1> DEFINE S == {Header, Dtb(Asked(choice[b]))}
           block == Vbmeta(Bare(b))
<1>1. /\ Bare(b) \in Seq(S) /\ Len(Bare(b)) = 2
      /\ Bare(b)[1] = Header /\ Bare(b)[2] = Dtb(Asked(choice[b]))
  BY PayloadIs DEF Bare
<1>2. Digested(b) = Append(Bare(b), block)
  BY DEF Digested
<1> HIDE DEF S, block
<1>3. /\ Len(Digested(b)) = 3 /\ Digested(b)[3] = block
      /\ \A i \in 1 .. 2 : Digested(b)[i] = Bare(b)[i]
      /\ Digested(b) \in Seq(S \cup {block})
  <2>1. /\ Len(Append(Bare(b), block)) = Len(Bare(b)) + 1
        /\ Append(Bare(b), block)[Len(Bare(b)) + 1] = block
        /\ \A i \in 1 .. Len(Bare(b)) : Append(Bare(b), block)[i] = Bare(b)[i]
        /\ Append(Bare(b), block) \in Seq(S \cup {block})
    <3>1. Bare(b) \in Seq(S)
      BY <1>1
    <3> QED
      BY <3>1, AppendIs
  <2>2. Len(Bare(b)) + 1 = 3
    BY <1>1
  <2> QED
    BY <1>1, <1>2, <2>1, <2>2
<1> QED
  BY <1>1, <1>3 DEF block

LEMMA PaddedIs ==
    ASSUME NEW b \in Builders, Fits
    PROVE  /\ \E S : Padded(b) \in Seq(S)
           /\ Len(Padded(b)) = PartitionSize - 1
           /\ Padded(b)[1] = Header /\ Padded(b)[2] = Dtb(Asked(choice[b]))
           /\ Padded(b)[3] = Vbmeta(Bare(b))
           /\ Padded(b)[PartitionSize - 1] \in {Vbmeta(Bare(b)), Hole}
           /\ PartitionSize - 1 \in Nat /\ PartitionSize - 1 >= 3
<1>1. PartitionSize - 1 \in Nat /\ PartitionSize - 1 >= 3
  BY SizesAssumption DEF Fits
<1>2. /\ \E S : Padded(b) \in Seq(S)
      /\ Len(Padded(b)) = PartitionSize - 1
      /\ \A i \in 1 .. PartitionSize - 1 :
            Padded(b)[i] = IF i <= 3 THEN Digested(b)[i] ELSE Hole
  BY <1>1, TruncateIs, DigestedIs DEF Padded
<1> QED
  BY <1>1, <1>2, DigestedIs

(* The footer of the finished file leads to the digest of its payload. *)
LEMMA WholeIs ==
    ASSUME NEW b \in Builders, Fits
    PROVE  /\ Len(Whole(b)) = PartitionSize
           /\ Whole(b)[1] = Header /\ Whole(b)[2] = Dtb(Asked(choice[b]))
           /\ Truncate(Whole(b), 2) = Bare(b)
           /\ Sealed(Whole(b)) /\ Whole(b) # Absent
<1> DEFINE w == Whole(b)
<1>1. PICK S : Padded(b) \in Seq(S)
  BY PaddedIs
<1>2. /\ Len(w) = PartitionSize /\ DOMAIN w = 1 .. PartitionSize
      /\ w[PartitionSize] = Footer(2, 2)
      /\ w[1] = Header /\ w[2] = Dtb(Asked(choice[b])) /\ w[3] = Vbmeta(Bare(b))
      /\ PartitionSize \in Nat /\ PartitionSize >= 4
  BY <1>1, PaddedIs, AppendIs, SizesAssumption DEF Whole
<1>3. Truncate(w, 2) = Bare(b)
  <2> HIDE DEF w
  <2>1. /\ Len(Truncate(w, 2)) = 2
        /\ \A i \in 1 .. 2 : Truncate(w, 2)[i] = w[i]
    <3>1. 2 \in Nat
      OBVIOUS
    <3>2. /\ Len(Truncate(w, 2)) = 2
          /\ \A i \in 1 .. 2 : Truncate(w, 2)[i] =
                IF i <= Len(w) THEN w[i] ELSE Hole
      BY <3>1, TruncateIs
    <3> QED
      BY <1>2, <3>2
  <2>2. PICK T : Truncate(w, 2) \in Seq(T)
    BY TruncateIs
  <2>3. /\ Bare(b) \in Seq({Header, Dtb(Asked(choice[b]))}) /\ Len(Bare(b)) = 2
        /\ Bare(b)[1] = Header /\ Bare(b)[2] = Dtb(Asked(choice[b]))
    BY PayloadIs DEF Bare
  <2>4. \A i \in 1 .. 2 : Truncate(w, 2)[i] = Bare(b)[i]
    BY <1>2, <2>1, <2>3
  <2> QED
    BY <2>1, <2>2, <2>3, <2>4, SameBlocks
<1>4. w # Absent
  BY <1>2 DEF Absent
<1>5. FooterOf(w) = Footer(2, 2)
  BY <1>2 DEF FooterOf
<1>6. HasFooter(w)
  <2>1. w # <<>>
    BY <1>2
  <2> QED
    BY <1>2, <2>1 DEF HasFooter, Footer
<1>7. Sealed(w)
  <2>1. FooterOf(w).vbmeta_offset + 1 = 3 /\ FooterOf(w).original_image_size = 2
    BY <1>5 DEF Footer
  <2> QED
    BY <1>2, <1>3, <1>4, <1>6, <2>1 DEF Sealed
<1> QED
  BY <1>2, <1>3, <1>4, <1>7

(* None of the files of a run in progress looks finished. *)
LEMMA NoFooterBefore ==
    ASSUME NEW b \in Builders
    PROVE  /\ ~HasFooter(<<>>) /\ ~HasFooter(<<Header>>) /\ ~HasFooter(Absent)
           /\ ~HasFooter(Bare(b)) /\ ~HasFooter(Digested(b))
           /\ Fits => ~HasFooter(Padded(b))
           /\ <<>> # Absent /\ <<Header>> # Absent
           /\ Bare(b) # Absent /\ Digested(b) # Absent
           /\ Fits => Padded(b) # Absent
<1>1. /\ <<>> # Absent /\ <<Header>> # Absent
      /\ ~HasFooter(<<>>) /\ ~HasFooter(<<Header>>) /\ ~HasFooter(Absent)
  BY DEF HasFooter, Absent, Header
<1>2. Len(Absent) = 1
  BY DEF Absent
<1>3. ~HasFooter(Bare(b)) /\ Bare(b) # Absent
  <2>1. Len(Bare(b)) = 2 /\ ~HasFooter(Bare(b))
    BY PayloadIs DEF Bare
  <2> QED
    BY <1>2, <2>1
<1>4. ~HasFooter(Digested(b)) /\ Digested(b) # Absent
  <2>1. Len(Digested(b)) = 3 /\ Digested(b)[3] = Vbmeta(Bare(b))
    BY DigestedIs
  <2> QED
    BY <1>2, <2>1 DEF HasFooter, Vbmeta
<1>5. ASSUME Fits PROVE ~HasFooter(Padded(b)) /\ Padded(b) # Absent
  <2>1. /\ Len(Padded(b)) = PartitionSize - 1 /\ PartitionSize - 1 >= 3
        /\ Padded(b)[PartitionSize - 1] \in {Vbmeta(Bare(b)), Hole}
    BY <1>5, PaddedIs
  <2>2. Padded(b)[Len(Padded(b))].kind # "footer"
    BY <2>1 DEF Vbmeta, Hole
  <2>3. Len(Padded(b)) # 1
    BY <2>1, SizesAssumption
  <2> QED
    BY <1>2, <2>2, <2>3 DEF HasFooter
<1> QED
  BY <1>1, <1>2, <1>3, <1>4, <1>5

-----------------------------------------------------------------------------
(* What each step on OUTPUT does to it. *)

(* A run at its image works on a file of the directory, and its payload is *)
(* the tree of its configuration.                                          *)
LEMMA AtOutput ==
    ASSUME ImageInv, NEW b \in Builders, pc[b] \in OnOutput
    PROVE  /\ choice[b] \in Choices[b] /\ OUTPUT(b) \in Names
           /\ payload[b].dt = Asked(choice[b])
           /\ outcome[b] # "success"
<1>1. choice[b] \in Choices[b]
  BY DEF ImageInv, Chosen
<1>2. OUTPUT(b) \in Names
  BY <1>1 DEF OUTPUT, Names, Configs
<1>3. payload[b].dt = Asked(choice[b])
  <2>1. payload[b] = [dt |-> Asked(choice[b]), resized |-> FALSE]
    BY DEF ImageInv, BuildInv, WholePayload
  <2> QED
    BY <2>1
<1>4. outcome[b] # "success"
  BY DEF ImageInv, Succeeded, OnOutput
<1> QED
  BY <1>1, <1>2, <1>3, <1>4

(* The step that leads to a label and leaves a file under OUTPUT. *)
Moves(b, label, file) ==
    /\ pc' = [pc EXCEPT ![b] = label]
    /\ out' = [out EXCEPT ![OUTPUT(b)] = file]
    /\ UNCHANGED <<choice, shown>>

LEMMA CopyOpenDoes ==
    ASSUME NEW b \in Builders, CopyOpen(b)
    PROVE  Moves(b, "copyHeader", <<>>) /\ UNCHANGED <<avb, outcome>>
BY DEF CopyOpen, SetOut, Moves, Goto, private

LEMMA CopyBlockDoes ==
    ASSUME ImageInv, NEW b \in Builders, CopyBlock(b)
    PROVE  /\ Moves(b, "copyDtb", <<Header>>) \/ Moves(b, "avbOpen", Bare(b))
           /\ UNCHANGED <<avb, outcome>>
<1>1. UNCHANGED <<avb, outcome, choice, shown>>
  BY DEF CopyBlock, private
<1>2. CASE pc[b] = "copyHeader"
  <2>1. out[OUTPUT(b)] = <<>>
    BY <1>2 DEF ImageInv, Contents
  <2>2. /\ pc' = [pc EXCEPT ![b] = "copyDtb"]
        /\ out' = [out EXCEPT ![OUTPUT(b)] = WriteAt(out[OUTPUT(b)], 1, Header)]
    BY <1>2 DEF CopyBlock, SetOut, Goto
  <2>3. WriteAt(<<>>, 1, Header) = <<Header>>
    BY CopyIs
  <2> QED
    BY <1>1, <2>1, <2>2, <2>3 DEF Moves
<1>3. CASE pc[b] = "copyDtb"
  <2>1. out[OUTPUT(b)] = <<Header>>
    BY <1>3 DEF ImageInv, Contents
  <2>2. payload[b].dt = Asked(choice[b])
    BY <1>3, AtOutput DEF OnOutput
  <2>3. /\ pc' = [pc EXCEPT ![b] = "avbOpen"]
        /\ out' = [out EXCEPT ![OUTPUT(b)] =
                      WriteAt(out[OUTPUT(b)], 2, Dtb(payload[b].dt))]
    BY <1>3 DEF CopyBlock, SetOut, Goto
  <2>4. WriteAt(<<Header>>, 2, Dtb(Asked(choice[b]))) = Bare(b)
    BY CopyIs DEF Bare
  <2> QED
    BY <1>1, <2>1, <2>2, <2>3, <2>4 DEF Moves
<1> QED
  BY <1>2, <1>3 DEF CopyBlock

(* There is no footer to cut off: cp has emptied the file. *)
LEMMA AvbOpenDoes ==
    ASSUME ImageInv, NEW b \in Builders, AvbOpen(b)
    PROVE  /\ Moves(b, "avbHash", Bare(b)) /\ UNCHANGED outcome
           /\ avb' = [avb EXCEPT ![b] = Opened]
<1>1. pc[b] = "avbOpen"
  BY DEF AvbOpen
<1>2. out[OUTPUT(b)] = Bare(b)
  BY <1>1 DEF ImageInv, Contents
<1>3. /\ Bare(b) # <<>> /\ ~HasFooter(Bare(b)) /\ Len(Bare(b)) = 2
      /\ Truncate(Bare(b), 2) = Bare(b)
  BY PayloadIs DEF Bare
<1>4. /\ avb' = [avb EXCEPT ![b] = [NoAvb EXCEPT !.original = 2, !.size = 2]]
      /\ SetOut(b, Truncate(Bare(b), 2))
      /\ Goto(b, "avbHash")
      /\ UNCHANGED <<outcome, choice, shown>>
  BY <1>2, <1>3 DEF AvbOpen
<1>5. [NoAvb EXCEPT !.original = 2, !.size = 2] = Opened
  <2> DEFINE r == [NoAvb EXCEPT !.original = 2]
  <2>1. r = [original |-> 2, size |-> 0, offset |-> 0, vbmeta |-> Hole]
    BY DEF NoAvb
  <2>2. [NoAvb EXCEPT !.original = 2, !.size = 2] = [r EXCEPT !.size = 2]
    OBVIOUS
  <2> HIDE DEF r
  <2>3. [r EXCEPT !.size = 2] = Opened
    BY <2>1 DEF Opened
  <2> QED
    BY <2>2, <2>3
<1> QED
  BY <1>3, <1>4, <1>5 DEF Moves, SetOut, Goto

(* What avbtool restores when it fails is the payload. *)
LEMMA CutBack ==
    ASSUME NEW b \in Builders
    PROVE  /\ Truncate(Bare(b), 2) = Bare(b)
           /\ Truncate(Digested(b), 2) = Bare(b)
           /\ Fits => Truncate(Padded(b), 2) = Bare(b)
<1>1. Truncate(Bare(b), 2) = Bare(b)
  BY PayloadIs DEF Bare
<1>2. ASSUME NEW file, Len(file) \in Nat, Len(file) >= 2,
             file[1] = Header, file[2] = Dtb(Asked(choice[b]))
      PROVE  Truncate(file, 2) = Bare(b)
  <2>1. /\ Len(Truncate(file, 2)) = 2
        /\ \A i \in 1 .. 2 : Truncate(file, 2)[i] =
              IF i <= Len(file) THEN file[i] ELSE Hole
    <3>1. 2 \in Nat
      OBVIOUS
    <3> QED
      BY <3>1, TruncateIs
  <2>2. PICK T : Truncate(file, 2) \in Seq(T)
    BY TruncateIs
  <2>3. /\ Bare(b) \in Seq({Header, Dtb(Asked(choice[b]))}) /\ Len(Bare(b)) = 2
        /\ Bare(b)[1] = Header /\ Bare(b)[2] = Dtb(Asked(choice[b]))
    BY PayloadIs DEF Bare
  <2>4. \A i \in 1 .. 2 : Truncate(file, 2)[i] = Bare(b)[i]
    BY <1>2, <2>1, <2>3
  <2> QED
    BY <2>1, <2>2, <2>3, <2>4, SameBlocks
<1>3. Truncate(Digested(b), 2) = Bare(b)
  BY <1>2, DigestedIs
<1>4. ASSUME Fits PROVE Truncate(Padded(b), 2) = Bare(b)
  <2>1. Len(Padded(b)) \in Nat /\ Len(Padded(b)) >= 3
    BY <1>4, PaddedIs
  <2> QED
    BY <1>2, <1>4, <2>1, PaddedIs
<1> QED
  BY <1>1, <1>3, <1>4

LEMMA AvbErrorDoes ==
    ASSUME ImageInv, NEW b \in Builders,
           pc[b] \in {"avbHash", "avbVbmeta", "avbHole", "avbFooter"}, AvbFails(b)
    PROVE  /\ Moves(b, "trap", Bare(b)) /\ UNCHANGED avb
           /\ outcome' = [outcome EXCEPT ![b] = "error"]
<1>1. avb[b].original = 2 /\ (pc[b] = "avbFooter" => Fits)
  BY DEF ImageInv, Computed, Opened, Hashed
<1>2. Truncate(out[OUTPUT(b)], 2) = Bare(b)
  BY <1>1, CutBack DEF ImageInv, Contents
<1> QED
  BY <1>1, <1>2 DEF AvbFails, SetOut, Exit, Goto, Moves, private

LEMMA AvbHashDoes ==
    ASSUME ImageInv, NEW b \in Builders, AvbHash(b)
    PROVE  \/ AvbFails(b)
           \/ /\ Fits /\ pc' = [pc EXCEPT ![b] = "avbVbmeta"]
              /\ avb' = [avb EXCEPT ![b] = Hashed(b)]
              /\ UNCHANGED <<out, choice, shown, outcome>>
<1>1. pc[b] = "avbHash"
  BY DEF AvbHash
<1>2. avb[b] = Opened /\ out[OUTPUT(b)] = Bare(b)
  BY <1>1 DEF ImageInv, Computed, Contents
<1>3. avb[b].size = 2
  BY <1>2 DEF Opened
<1>4. ASSUME ~(2 > PartitionSize - MetadataSize)
      PROVE  /\ Fits /\ pc' = [pc EXCEPT ![b] = "avbVbmeta"]
             /\ avb' = [avb EXCEPT ![b] = Hashed(b)]
             /\ UNCHANGED <<out, choice, shown, outcome>>
  <2>1. /\ avb' = [avb EXCEPT
              ![b].vbmeta = Vbmeta(Truncate(out[OUTPUT(b)], avb[b].size)),
              ![b].offset = avb[b].size]
        /\ Goto(b, "avbVbmeta")
        /\ UNCHANGED <<out, choice, shown, outcome>>
    BY <1>3, <1>4 DEF AvbHash
  <2>2. Fits
    BY <1>4, SizesAssumption DEF Fits
  <2>3. Truncate(out[OUTPUT(b)], avb[b].size) = Bare(b)
    BY <1>2, <1>3, CutBack
  <2>4. b \in DOMAIN avb
    BY DEF ImageInv
  <2>5. avb' = [avb EXCEPT ![b].vbmeta = Vbmeta(Bare(b)), ![b].offset = 2]
    BY <1>3, <2>1, <2>3
  <2>6. avb' = [avb EXCEPT ![b] = [avb[b] EXCEPT !.vbmeta = Vbmeta(Bare(b)),
                                                 !.offset = 2]]
    BY <2>4, <2>5
  <2>7. [avb[b] EXCEPT !.vbmeta = Vbmeta(Bare(b)), !.offset = 2] = Hashed(b)
    <3> DEFINE digest == Vbmeta(Bare(b))
               r == [avb[b] EXCEPT !.vbmeta = digest]
    <3>1. r = [original |-> 2, size |-> 2, offset |-> 0, vbmeta |-> digest]
      BY <1>2 DEF Opened
    <3>2. [avb[b] EXCEPT !.vbmeta = digest, !.offset = 2] = [r EXCEPT !.offset = 2]
      OBVIOUS
    <3>3. Hashed(b) = [original |-> 2, size |-> 2, offset |-> 2, vbmeta |-> digest]
      BY DEF Hashed
    <3> HIDE DEF r, digest
    <3>4. [r EXCEPT !.offset = 2] = Hashed(b)
      BY <3>1, <3>3
    <3> QED
      BY <3>2, <3>4 DEF digest
  <2> QED
    BY <2>1, <2>2, <2>6, <2>7 DEF Goto
<1> QED
  BY <1>3, <1>4 DEF AvbHash

LEMMA AvbVbmetaDoes ==
    ASSUME ImageInv, BuffersReachTheFile, NEW b \in Builders, AvbVbmeta(b)
    PROVE  Fits /\ Moves(b, "avbHole", Digested(b)) /\ UNCHANGED <<avb, outcome>>
<1>1. pc[b] = "avbVbmeta"
  BY DEF AvbVbmeta
<1>2. avb[b] = Hashed(b) /\ Fits /\ out[OUTPUT(b)] = Bare(b)
  BY <1>1 DEF ImageInv, Computed, Contents
<1>3. Appended(b, avb[b].vbmeta) = {Digested(b)}
  BY <1>2 DEF Appended, BuffersReachTheFile, Digested, Hashed
<1>4. SetOut(b, Digested(b))
  BY <1>3 DEF AvbVbmeta
<1> QED
  BY <1>2, <1>4 DEF AvbVbmeta, SetOut, Goto, Moves, private

LEMMA AvbHoleDoes ==
    ASSUME ImageInv, NEW b \in Builders, AvbHole(b)
    PROVE  Fits /\ Moves(b, "avbFooter", Padded(b)) /\ UNCHANGED <<avb, outcome>>
<1>1. pc[b] = "avbHole"
  BY DEF AvbHole
<1>2. avb[b].offset = 2 /\ Fits /\ out[OUTPUT(b)] = Digested(b)
  BY <1>1 DEF ImageInv, Computed, Contents, Hashed
<1>3. Len(out[OUTPUT(b)]) + (PartitionSize - (avb[b].offset + 1) - 1)
        = PartitionSize - 1
  <2>1. Len(out[OUTPUT(b)]) = 3
    BY <1>2, DigestedIs
  <2> QED
    BY <1>2, <2>1, SizesAssumption
<1>4. SetOut(b, Padded(b))
  BY <1>2, <1>3 DEF AvbHole, Padded
<1> QED
  BY <1>2, <1>4 DEF AvbHole, SetOut, Goto, Moves, private

LEMMA AvbFooterDoes ==
    ASSUME ImageInv, BuffersReachTheFile, NEW b \in Builders, AvbFooter(b)
    PROVE  /\ Fits /\ out[OUTPUT(b)] = Padded(b)
           /\ Moves(b, "verify", Whole(b)) /\ UNCHANGED <<avb, outcome>>
<1>1. pc[b] = "avbFooter"
  BY DEF AvbFooter
<1>2. avb[b] = Hashed(b) /\ Fits /\ out[OUTPUT(b)] = Padded(b)
  BY <1>1 DEF ImageInv, Computed, Contents
<1>3. Appended(b, Footer(avb[b].original, avb[b].offset)) = {Whole(b)}
  BY <1>2 DEF Appended, BuffersReachTheFile, Whole, Hashed
<1>4. SetOut(b, Whole(b))
  BY <1>3 DEF AvbFooter
<1> QED
  BY <1>2, <1>4 DEF AvbFooter, SetOut, Goto, Moves, private

(* What is printed is the tree that was asked for. *)
LEMMA VerifyDoes ==
    ASSUME ImageInv, NEW b \in Builders, Verify(b)
    PROVE  /\ Fits /\ out[OUTPUT(b)] = Whole(b)
           /\ pc' = [pc EXCEPT ![b] = "trap"]
           /\ outcome' = [outcome EXCEPT ![b] = "success"]
           /\ shown' = [shown EXCEPT ![b] = Asked(choice[b])]
           /\ UNCHANGED <<avb, out, choice>>
<1>1. pc[b] = "verify"
  BY DEF Verify
<1>2. Fits /\ out[OUTPUT(b)] = Whole(b)
  BY <1>1 DEF ImageInv, Computed, Contents
<1>3. /\ Len(Whole(b)) >= 2 /\ Whole(b)[1] = Header
      /\ Whole(b)[2].kind = "dtb" /\ Whole(b)[2].dt = Asked(choice[b])
  <2>1. /\ Len(Whole(b)) = PartitionSize /\ Whole(b)[1] = Header
        /\ Whole(b)[2] = Dtb(Asked(choice[b]))
    BY <1>2, WholeIs
  <2>2. PartitionSize >= 2
    BY <1>2, SizesAssumption DEF Fits
  <2>3. Dtb(Asked(choice[b])).kind = "dtb"
        /\ Dtb(Asked(choice[b])).dt = Asked(choice[b])
    BY DEF Dtb
  <2> QED
    BY <2>1, <2>2, <2>3
<1> QED
  BY <1>2, <1>3 DEF Verify, Exit, Goto

-----------------------------------------------------------------------------
(* The invariant is inductive. *)

ImageOf(b) == Chosen(b) /\ Contents(b) /\ Computed(b) /\ Succeeded(b)

(* Where a footer may come to be, or what a run has copied so far. *)
AfterCopyOpen == OnOutput \ {"copy"}

Quiet(b) ==
    \/ Start(b) \/ Preflight(b) \/ ReadInput(b) \/ Settle(b) \/ ApplyCall(b)
    \/ Repack(b) \/ Cleanup(b) \/ Stop(b) \/ Kill(b)

Domains == DOMAIN avb = Builders /\ DOMAIN shown = Builders

(* These steps do not touch a file of the directory; those that lead into  *)
(* the calls of fdtput or to the copy have a choice; and none makes a      *)
(* success, or changes what a success rests on without ending it.          *)
LEMMA QuietDoes ==
    ASSUME ImageInv, NEW b \in Builders, Quiet(b)
    PROVE  /\ UNCHANGED out /\ Domains'
           /\ pc'[b] \notin AfterCopyOpen
           /\ pc'[b] \in {"copy", "apply"} => choice'[b] \in Choices[b]
           /\ outcome'[b] = "success" =>
                 /\ outcome[b] = "success" /\ pc'[b] \in {"trap", "ended", "killed"}
                 /\ UNCHANGED <<choice, shown>>
<1>1. TypeOK /\ Chosen(b) /\ Succeeded(b) /\ Domains
  BY DEF ImageInv, BuildInv, Domains
<1> USE DEF TypeOK, Goto, Exit, private, AfterCopyOpen, OnOutput, Domains
<1>2. CASE Start(b)
  BY <1>1, <1>2 DEF Start
<1>3. CASE Preflight(b)
  BY <1>1, <1>3 DEF Preflight, Succeeded
<1>4. CASE ReadInput(b)
  BY <1>1, <1>4 DEF ReadInput, Succeeded
<1>5. CASE Settle(b)
  BY <1>1, <1>5 DEF Settle, Succeeded
<1>6. CASE ApplyCall(b)
  BY <1>1, <1>6 DEF ApplyCall, Succeeded, Chosen
<1>7. CASE Repack(b)
  BY <1>1, <1>7 DEF Repack, Succeeded, Chosen
<1>8. CASE Cleanup(b)
  BY <1>1, <1>8 DEF Cleanup
<1>9. CASE Stop(b)
  BY <1>1, <1>9 DEF Stop
<1>10. CASE Kill(b)
  BY <1>1, <1>10 DEF Kill
<1> QED
  BY <1>2, <1>3, <1>4, <1>5, <1>6, <1>7, <1>8, <1>9, <1>10 DEF Quiet

LEMMA QuietKeepsImage ==
    ASSUME ImageInv, NEW b \in Builders, Quiet(b)
    PROVE  ImageOf(b)' /\ Domains' /\ UNCHANGED out
<1>1. /\ UNCHANGED out /\ Domains'
      /\ pc'[b] \notin AfterCopyOpen
      /\ pc'[b] \in {"copy", "apply"} => choice'[b] \in Choices[b]
      /\ outcome'[b] = "success" =>
            /\ outcome[b] = "success" /\ pc'[b] \in {"trap", "ended", "killed"}
            /\ UNCHANGED <<choice, shown>>
  BY QuietDoes
<1>2. Chosen(b) /\ Succeeded(b)
  BY DEF ImageInv
<1>3. Contents(b)' /\ Computed(b)'
  BY <1>1 DEF Contents, Computed, AfterCopyOpen, OnOutput
<1>4. Chosen(b)'
  BY <1>1, <1>2 DEF Chosen, AfterCopyOpen
<1>5. Succeeded(b)'
  BY <1>1, <1>2 DEF Succeeded, OUTPUT, Whole, Padded, Digested, Bare
<1> QED
  BY <1>1, <1>3, <1>4, <1>5 DEF ImageOf

(* A step that moves to a label, with the file and the variables of        *)
(* avbtool that go with it.                                                *)
LEMMA MovedIsImage ==
    ASSUME ImageInv, NEW b \in Builders, pc[b] \in OnOutput,
           NEW label \in AfterCopyOpen \cup {"trap"}, NEW file,
           Moves(b, label, file), outcome'[b] # "success", DOMAIN avb' = Builders,
           label = "copyHeader" => file = <<>>,
           label = "copyDtb" => file = <<Header>>,
           label \in {"avbOpen", "avbHash", "avbVbmeta"} => file = Bare(b),
           label = "avbHole" => file = Digested(b),
           label = "avbFooter" => file = Padded(b),
           label = "verify" => file = Whole(b) /\ Fits,
           label = "avbHash" => avb'[b] = Opened,
           label \in {"avbVbmeta", "avbHole", "avbFooter"} =>
              avb'[b] = Hashed(b) /\ Fits
    PROVE  ImageOf(b)' /\ Domains'
<1>1. /\ pc'[b] = label /\ out'[OUTPUT(b)] = file /\ choice'[b] = choice[b]
      /\ UNCHANGED <<choice, shown>>
  BY AtOutput DEF Moves, ImageInv, BuildInv, TypeOK
<1>2. choice[b] \in Choices[b]
  BY AtOutput
<1>3. /\ OUTPUT(b)' = OUTPUT(b) /\ Bare(b)' = Bare(b) /\ Digested(b)' = Digested(b)
      /\ Padded(b)' = Padded(b) /\ Whole(b)' = Whole(b) /\ Hashed(b)' = Hashed(b)
  BY <1>1 DEF OUTPUT, Bare, Digested, Padded, Whole, Hashed
<1>4. Chosen(b)'
  BY <1>1, <1>2 DEF Chosen
<1>5. Contents(b)'
  BY <1>1, <1>3 DEF Contents, AfterCopyOpen, OnOutput
<1>6. Computed(b)'
  BY <1>1, <1>3 DEF Computed, AfterCopyOpen, OnOutput
<1>7. Succeeded(b)'
  BY DEF Succeeded
<1>8. Domains'
  BY <1>1 DEF Domains, ImageInv
<1> QED
  BY <1>4, <1>5, <1>6, <1>7, <1>8 DEF ImageOf

(* Files that do not look finished. *)
Unfinished(b) ==
    {<<>>, <<Header>>, Bare(b), Digested(b)} \cup IF Fits THEN {Padded(b)} ELSE {}

(* A step changes OUTPUT in one of three ways: cp empties it, an           *)
(* unfinished file becomes another, or the footer is put on a complete one.*)
Changes(b) ==
    \/ UNCHANGED out
    \/ /\ choice[b] \in Choices[b]
       /\ \/ out' = [out EXCEPT ![OUTPUT(b)] = <<>>]
          \/ /\ out[OUTPUT(b)] \in Unfinished(b)
             /\ \E file \in Unfinished(b) : out' = [out EXCEPT ![OUTPUT(b)] = file]
          \/ /\ Fits /\ out[OUTPUT(b)] = Padded(b)
             /\ out' = [out EXCEPT ![OUTPUT(b)] = Whole(b)]

(* The whole of a terminal's step, for its own image. *)
LEMMA OwnStep ==
    ASSUME ImageInv, BuffersReachTheFile, NEW b \in Builders,
           Start(b) \/ Step(b) \/ Fault(b)
    PROVE  ImageOf(b)' /\ Domains' /\ Changes(b)
<1>1. /\ TypeOK /\ Contents(b) /\ Computed(b) /\ Succeeded(b)
      /\ DOMAIN avb = Builders /\ DOMAIN shown = Builders
  BY DEF ImageInv, BuildInv
<1>2. CASE Quiet(b)
  BY <1>2, QuietKeepsImage DEF Changes
<1>3. CASE CopyOpen(b)
  <2>1. pc[b] = "copy"
    BY <1>3 DEF CopyOpen
  <2>2. Moves(b, "copyHeader", <<>>) /\ UNCHANGED <<avb, outcome>>
    BY <1>3, CopyOpenDoes
  <2>3. choice[b] \in Choices[b] /\ outcome[b] # "success" /\ pc[b] \in OnOutput
    BY <2>1, AtOutput DEF OnOutput
  <2>4. ImageOf(b)' /\ Domains'
    BY <1>1, <2>2, <2>3, MovedIsImage DEF AfterCopyOpen, OnOutput
  <2> QED
    BY <2>2, <2>3, <2>4 DEF Changes, Moves
<1>4. CASE CopyBlock(b)
  <2>1. pc[b] \in {"copyHeader", "copyDtb"}
    BY <1>4 DEF CopyBlock
  <2>2. /\ Moves(b, "copyDtb", <<Header>>) \/ Moves(b, "avbOpen", Bare(b))
        /\ UNCHANGED <<avb, outcome>>
    BY <1>4, CopyBlockDoes
  <2>3. choice[b] \in Choices[b] /\ outcome[b] # "success" /\ pc[b] \in OnOutput
    BY <2>1, AtOutput DEF OnOutput
  <2>4. ImageOf(b)' /\ Domains'
    BY <1>1, <2>2, <2>3, MovedIsImage DEF AfterCopyOpen, OnOutput
  <2>5. out[OUTPUT(b)] \in Unfinished(b)
    BY <1>1, <2>1 DEF Contents, Unfinished
  <2> QED
    BY <2>2, <2>3, <2>4, <2>5 DEF Changes, Moves, Unfinished
<1>5. CASE AvbOpen(b)
  <2>1. pc[b] = "avbOpen"
    BY <1>5 DEF AvbOpen
  <2>2. /\ Moves(b, "avbHash", Bare(b)) /\ UNCHANGED outcome
        /\ avb' = [avb EXCEPT ![b] = Opened]
    BY <1>5, AvbOpenDoes
  <2>3. choice[b] \in Choices[b] /\ outcome[b] # "success" /\ pc[b] \in OnOutput
    BY <2>1, AtOutput DEF OnOutput
  <2>4. DOMAIN avb' = Builders /\ avb'[b] = Opened
    BY <1>1, <2>2
  <2>5. ImageOf(b)' /\ Domains'
    BY <2>2, <2>3, <2>4, MovedIsImage DEF AfterCopyOpen, OnOutput
  <2>6. out[OUTPUT(b)] \in Unfinished(b)
    BY <1>1, <2>1 DEF Contents, Unfinished
  <2> QED
    BY <2>2, <2>3, <2>5, <2>6 DEF Changes, Moves, Unfinished
<1>6. ASSUME pc[b] \in {"avbHash", "avbVbmeta", "avbHole", "avbFooter"}, AvbFails(b)
      PROVE  ImageOf(b)' /\ Domains' /\ Changes(b)
  <2>1. /\ Moves(b, "trap", Bare(b)) /\ UNCHANGED avb
        /\ outcome' = [outcome EXCEPT ![b] = "error"]
    BY <1>6, AvbErrorDoes
  <2>2. choice[b] \in Choices[b] /\ pc[b] \in OnOutput
    BY <1>6, AtOutput DEF OnOutput
  <2>3. outcome'[b] # "success"
    BY <1>1, <2>1 DEF TypeOK
  <2>4. ImageOf(b)' /\ Domains'
    BY <1>1, <2>1, <2>2, <2>3, MovedIsImage
  <2>5. out[OUTPUT(b)] \in Unfinished(b)
    BY <1>1, <1>6 DEF Contents, Computed, Unfinished
  <2> QED
    BY <2>1, <2>2, <2>4, <2>5 DEF Changes, Moves, Unfinished
<1>7. CASE AvbHash(b)
  <2>1. pc[b] = "avbHash"
    BY <1>7 DEF AvbHash
  <2>2. CASE AvbFails(b)
    BY <1>6, <2>1, <2>2
  <2>3. CASE /\ Fits /\ pc' = [pc EXCEPT ![b] = "avbVbmeta"]
             /\ avb' = [avb EXCEPT ![b] = Hashed(b)]
             /\ UNCHANGED <<out, choice, shown, outcome>>
    <3>1. /\ pc'[b] = "avbVbmeta" /\ avb'[b] = Hashed(b) /\ DOMAIN avb' = Builders
          /\ out[OUTPUT(b)] = Bare(b) /\ choice[b] \in Choices[b]
          /\ outcome[b] # "success"
      BY <1>1, <2>1, <2>3, AtOutput DEF TypeOK, Contents, OnOutput
    <3>2. /\ OUTPUT(b)' = OUTPUT(b) /\ Bare(b)' = Bare(b) /\ Hashed(b)' = Hashed(b)
          /\ out' = out
      BY <2>3 DEF OUTPUT, Bare, Hashed
    <3>3. Contents(b)' /\ Computed(b)'
      BY <2>3, <3>1, <3>2 DEF Contents, Computed
    <3>4. Chosen(b)' /\ Succeeded(b)'
      BY <2>3, <3>1 DEF Chosen, Succeeded
    <3> QED
      BY <1>1, <2>3, <3>1, <3>3, <3>4 DEF ImageOf, Domains, Changes
  <2> QED
    BY <1>7, <2>2, <2>3, AvbHashDoes
<1>8. CASE AvbVbmeta(b)
  <2>1. pc[b] = "avbVbmeta"
    BY <1>8 DEF AvbVbmeta
  <2>2. Fits /\ Moves(b, "avbHole", Digested(b)) /\ UNCHANGED <<avb, outcome>>
    BY <1>8, AvbVbmetaDoes
  <2>3. choice[b] \in Choices[b] /\ outcome[b] # "success" /\ pc[b] \in OnOutput
    BY <2>1, AtOutput DEF OnOutput
  <2>4. ImageOf(b)' /\ Domains'
    BY <1>1, <2>1, <2>2, <2>3, MovedIsImage DEF AfterCopyOpen, OnOutput, Computed
  <2>5. out[OUTPUT(b)] \in Unfinished(b)
    BY <1>1, <2>1 DEF Contents, Unfinished
  <2> QED
    BY <2>2, <2>3, <2>4, <2>5 DEF Changes, Moves, Unfinished
<1>9. CASE AvbHole(b)
  <2>1. pc[b] = "avbHole"
    BY <1>9 DEF AvbHole
  <2>2. Fits /\ Moves(b, "avbFooter", Padded(b)) /\ UNCHANGED <<avb, outcome>>
    BY <1>9, AvbHoleDoes
  <2>3. choice[b] \in Choices[b] /\ outcome[b] # "success" /\ pc[b] \in OnOutput
    BY <2>1, AtOutput DEF OnOutput
  <2>4. ImageOf(b)' /\ Domains'
    BY <1>1, <2>1, <2>2, <2>3, MovedIsImage DEF AfterCopyOpen, OnOutput, Computed
  <2>5. out[OUTPUT(b)] \in Unfinished(b)
    BY <1>1, <2>1 DEF Contents, Unfinished
  <2> QED
    BY <2>2, <2>3, <2>4, <2>5 DEF Changes, Moves, Unfinished
<1>10. CASE AvbFooter(b)
  <2>1. pc[b] = "avbFooter"
    BY <1>10 DEF AvbFooter
  <2>2. /\ Fits /\ out[OUTPUT(b)] = Padded(b)
        /\ Moves(b, "verify", Whole(b)) /\ UNCHANGED <<avb, outcome>>
    BY <1>10, AvbFooterDoes
  <2>3. choice[b] \in Choices[b] /\ outcome[b] # "success" /\ pc[b] \in OnOutput
    BY <2>1, AtOutput DEF OnOutput
  <2>4. ImageOf(b)' /\ Domains'
    BY <1>1, <2>2, <2>3, MovedIsImage DEF AfterCopyOpen, OnOutput
  <2> QED
    BY <2>2, <2>3, <2>4 DEF Changes, Moves
<1>11. CASE AvbError(b)
  BY <1>6, <1>11 DEF AvbError
<1>12. CASE Verify(b)
  <2>1. /\ Fits /\ out[OUTPUT(b)] = Whole(b)
        /\ pc' = [pc EXCEPT ![b] = "trap"]
        /\ outcome' = [outcome EXCEPT ![b] = "success"]
        /\ shown' = [shown EXCEPT ![b] = Asked(choice[b])]
        /\ UNCHANGED <<avb, out, choice>>
    BY <1>12, VerifyDoes
  <2>2. pc[b] \in OnOutput
    BY <1>12 DEF Verify, OnOutput
  <2>3. /\ pc'[b] = "trap" /\ shown'[b] = Asked(choice[b]) /\ DOMAIN shown' = Builders
        /\ choice[b] \in Choices[b]
    BY <1>1, <2>1, <2>2, AtOutput DEF TypeOK
  <2>4. Contents(b)' /\ Computed(b)' /\ Chosen(b)'
    BY <2>1, <2>3 DEF Contents, Computed, Chosen
  <2>5. OUTPUT(b)' = OUTPUT(b) /\ Whole(b)' = Whole(b) /\ out' = out
    BY <2>1 DEF OUTPUT, Whole, Padded, Digested, Bare
  <2>6. Succeeded(b)'
    BY <2>1, <2>3, <2>5 DEF Succeeded
  <2> QED
    BY <1>1, <2>1, <2>3, <2>4, <2>6 DEF ImageOf, Domains, Changes
<1> QED
  BY <1>2, <1>3, <1>4, <1>5, <1>7, <1>8, <1>9, <1>10, <1>11, <1>12
     DEF Step, Fault, Quiet

(* Nor does it change the variables of another terminal's avbtool, what it *)
(* printed, or how its run ended.                                          *)
LEMMA OthersKeepTheirs ==
    ASSUME ImageInv, NEW b \in Builders, NEW other \in Builders \ {b},
           Start(b) \/ Step(b) \/ Fault(b)
    PROVE  /\ avb'[other] = avb[other]
           /\ shown'[other] = shown[other]
           /\ outcome'[other] = outcome[other]
<1>1. TypeOK /\ DOMAIN avb = Builders /\ DOMAIN shown = Builders
  BY DEF ImageInv, BuildInv
<1> USE <1>1 DEF TypeOK, Goto, Exit, private
<1>2. CASE Start(b) \/ Preflight(b) \/ ReadInput(b) \/ Settle(b)
  BY <1>2 DEF Start, Preflight, ReadInput, Settle
<1>3. CASE ApplyCall(b)
  BY <1>3 DEF ApplyCall
<1>4. CASE Repack(b)
  BY <1>4 DEF Repack
<1>5. CASE CopyOpen(b) \/ CopyBlock(b)
  BY <1>5 DEF CopyOpen, CopyBlock
<1>6. CASE AvbOpen(b)
  BY <1>6 DEF AvbOpen
<1>7. CASE AvbHash(b)
  BY <1>7 DEF AvbHash, AvbFails
<1>8. CASE AvbVbmeta(b) \/ AvbHole(b) \/ AvbFooter(b) \/ AvbError(b)
  BY <1>8 DEF AvbVbmeta, AvbHole, AvbFooter, AvbError, AvbFails
<1>9. CASE Verify(b)
  BY <1>9 DEF Verify
<1>10. CASE Cleanup(b) \/ Stop(b) \/ Kill(b)
  BY <1>10 DEF Cleanup, Stop, Kill
<1> QED
  BY <1>2, <1>3, <1>4, <1>5, <1>6, <1>7, <1>8, <1>9, <1>10 DEF Step, Fault

(* While names are apart, one terminal's steps leave the image of another. *)
LEMMA OthersImages ==
    ASSUME NamesApart, ImageInv, BuffersReachTheFile, NEW b \in Builders,
           NEW other \in Builders \ {b}, Start(b) \/ Step(b) \/ Fault(b)
    PROVE  ImageOf(other)'
<1>1. /\ pc'[other] = pc[other] /\ choice'[other] = choice[other]
      /\ avb'[other] = avb[other] /\ shown'[other] = shown[other]
      /\ outcome'[other] = outcome[other]
  BY OthersUntouched, OthersKeepTheirs DEF ImageInv, BuildInv
<1>2. Chosen(other) /\ Contents(other) /\ Computed(other) /\ Succeeded(other)
  BY DEF ImageInv
<1>3. Changes(b)
  BY OwnStep
<1>4. DOMAIN out = Names
  BY DEF ImageInv, BuildInv, TypeOK
<1>5. ASSUME choice[other] \in Choices[other]
      PROVE  out'[OUTPUT(other)] = out[OUTPUT(other)]
  <2>1. OUTPUT(other) \in Names
    BY <1>5 DEF OUTPUT, Names, Configs
  <2>2. choice[b] \in Choices[b] => OUTPUT(b) # OUTPUT(other)
    BY <1>5 DEF NamesApart, OUTPUT
  <2> QED
    BY <1>3, <1>4, <2>1, <2>2 DEF Changes
<1>6. /\ OUTPUT(other)' = OUTPUT(other) /\ Bare(other)' = Bare(other)
      /\ Digested(other)' = Digested(other) /\ Padded(other)' = Padded(other)
      /\ Whole(other)' = Whole(other) /\ Hashed(other)' = Hashed(other)
  BY <1>1 DEF OUTPUT, Bare, Digested, Padded, Whole, Hashed
<1>7. Chosen(other)'
  BY <1>1, <1>2 DEF Chosen
<1>8. Computed(other)'
  BY <1>1, <1>2, <1>6 DEF Computed
<1>9. Contents(other)'
  <2>1. CASE pc[other] \in OnOutput
    BY <1>1, <1>2, <1>5, <1>6, <2>1 DEF Contents, Chosen
  <2>2. CASE pc[other] \notin OnOutput
    BY <1>1, <2>2 DEF Contents, OnOutput
  <2> QED
    BY <2>1, <2>2
<1>10. Succeeded(other)'
  BY <1>1, <1>2, <1>5, <1>6 DEF Succeeded, Chosen
<1> QED
  BY <1>7, <1>8, <1>9, <1>10 DEF ImageOf

(* No unfinished file has a footer, and none is the sign of an absent one. *)
LEMMA UnfinishedIs ==
    ASSUME NEW b \in Builders, NEW file \in Unfinished(b)
    PROVE  ~HasFooter(file) /\ file # Absent /\ ~Sealed(file)
<1>1. ~HasFooter(file) /\ file # Absent
  BY NoFooterBefore DEF Unfinished
<1> QED
  BY <1>1 DEF Sealed

(* A step leaves no file with a footer that is not sealed. *)
LEMMA StepSeals ==
    ASSUME ImageInv, BuffersReachTheFile, NEW b \in Builders,
           Start(b) \/ Step(b) \/ Fault(b)
    PROVE  FooterSealsPayload'
<1>1. Changes(b) /\ FooterSealsPayload /\ DOMAIN out = Names
  BY OwnStep DEF ImageInv, BuildInv, TypeOK
<1>2. ASSUME NEW name \in Names, HasFooter(out'[name])
      PROVE  Sealed(out'[name])
  <2>1. CASE out'[name] = out[name]
    BY <1>1, <1>2, <2>1 DEF FooterSealsPayload
  <2>2. CASE out'[name] = <<>>
    BY <1>2, <2>2, NoFooterBefore
  <2>3. CASE out'[name] \in Unfinished(b)
    BY <1>2, <2>3, UnfinishedIs
  <2>4. CASE Fits /\ out'[name] = Whole(b)
    BY <2>4, WholeIs
  <2> QED
    BY <1>1, <2>1, <2>2, <2>3, <2>4 DEF Changes
<1> QED
  BY <1>2 DEF FooterSealsPayload

LEMMA InitImages == Init => ImageInv
<1> SUFFICES ASSUME Init PROVE ImageInv
  OBVIOUS
<1>1. BuildInv
  BY InitEstablishesInv
<1>2. \A b \in Builders : pc[b] = "idle" /\ outcome[b] = "none"
  BY DEF Init
<1>3. \A b \in Builders : Chosen(b) /\ Contents(b) /\ Computed(b) /\ Succeeded(b)
  BY <1>2 DEF Chosen, Contents, Computed, Succeeded, OnOutput
<1>4. DOMAIN avb = Builders /\ DOMAIN shown = Builders
  BY DEF Init
<1>5. FooterSealsPayload
  <2> SUFFICES ASSUME NEW name \in Names PROVE ~HasFooter(out[name])
    BY DEF FooterSealsPayload
  <2>1. out[name] = Absent
    BY DEF Init
  <2>2. ~HasFooter(Absent)
    BY DEF HasFooter, Absent
  <2> QED
    BY <2>1, <2>2
<1> QED
  BY <1>1, <1>3, <1>4, <1>5 DEF ImageInv

LEMMA StepKeepsImages ==
    ASSUME NamesApart, BuffersReachTheFile, ImageInv, [Next]_vars
    PROVE  ImageInv'
<1>1. CASE UNCHANGED vars
  <2>1. BuildInv'
    BY <1>1 DEF ImageInv, BuildInv, TypeOK, StockAtMenu, AskedOrPending,
                WholePayload, Pending, vars
  <2>2. UNCHANGED <<pc, outcome, choice, avb, shown, out>>
    BY <1>1 DEF vars
  <2>3. \A b \in Builders :
           (Chosen(b) /\ Contents(b) /\ Computed(b) /\ Succeeded(b))'
    BY <2>2 DEF ImageInv, Chosen, Contents, Computed, Succeeded, OUTPUT, Bare,
                Digested, Padded, Whole, Hashed
  <2>4. FooterSealsPayload'
    BY <2>2 DEF ImageInv, FooterSealsPayload
  <2> QED
    BY <2>1, <2>2, <2>3, <2>4 DEF ImageInv
<1>2. CASE Next
  <2>1. PICK b \in Builders : Start(b) \/ Step(b) \/ Fault(b)
    BY <1>2 DEF Next
  <2>2. BuildInv'
    BY <2>1, StepKeepsInv DEF ImageInv
  <2>3. ImageOf(b)' /\ Domains'
    BY <2>1, OwnStep
  <2>4. \A other \in Builders \ {b} : ImageOf(other)'
    BY <2>1, OthersImages
  <2>5. FooterSealsPayload'
    BY <2>1, StepSeals
  <2>6. \A c \in Builders : (Chosen(c) /\ Contents(c) /\ Computed(c) /\ Succeeded(c))'
    BY <2>3, <2>4 DEF ImageOf
  <2> QED
    BY <2>2, <2>3, <2>5, <2>6 DEF ImageInv, Domains
<1> QED
  BY <1>1, <1>2

-----------------------------------------------------------------------------
(* The theorems. *)

(* What a run has written is known at every step of it. *)
THEOREM ImageInvariant ==
    ASSUME NamesApart, BuffersReachTheFile
    PROVE  Spec => []ImageInv
<1>1. Init => ImageInv
  BY InitImages
<1>2. ImageInv /\ [Next]_vars => ImageInv'
  BY StepKeepsImages
<1> QED
  BY <1>1, <1>2, PTL DEF Spec

(* A file of the output directory that has a footer holds the payload the  *)
(* footer's digest was computed from: not while cp and avbtool write it,   *)
(* and not after a run that failed, was stopped or was killed between any  *)
(* two of their writes, does a half-written image look finished.           *)
THEOREM HalfWrittenNeverLooksFinished ==
    ASSUME NamesApart, BuffersReachTheFile
    PROVE  Spec => []FooterSealsPayload
<1>1. ImageInv => FooterSealsPayload
  BY DEF ImageInv
<1> QED
  BY <1>1, ImageInvariant, PTL

(* After BUILD BERHASIL the file named by OUTPUT fills the partition,      *)
(* carries in both clusters the tree the user accepted, is sealed around   *)
(* it, and what was printed is what is in it, until the terminal starts    *)
(* its next run: whatever it found there, and whatever the other terminals *)
(* do meanwhile.                                                           *)
THEOREM SuccessIsAnImage ==
    ASSUME NamesApart, BuffersReachTheFile
    PROVE  Spec => []SuccessMeansImage
<1>1. ImageInv => SuccessMeansImage
  <2> SUFFICES ASSUME ImageInv, NEW b \in Builders, outcome[b] = "success"
               PROVE  /\ Len(out[OUTPUT(b)]) = PartitionSize
                      /\ Truncate(out[OUTPUT(b)], 2) = Payload(Asked(choice[b]))
                      /\ Sealed(out[OUTPUT(b)])
                      /\ shown[b] = Asked(choice[b])
    BY DEF SuccessMeansImage
  <2>1. out[OUTPUT(b)] = Whole(b) /\ Fits /\ shown[b] = Asked(choice[b])
    BY DEF ImageInv, Succeeded
  <2> QED
    BY <2>1, WholeIs DEF Bare
<1> QED
  BY <1>1, ImageInvariant, PTL

(* The directory implements OcImages: a name goes from one finished image  *)
(* to another only by way of an unfinished file, and the trees images are  *)
(* sealed around are trees somebody asked for.                             *)
THEOREM DirectoryImplementsImages ==
    ASSUME NamesApart, BuffersReachTheFile
    PROVE  Spec => KeepsImages
<1>1. Init => Images!Init
  <2> SUFFICES ASSUME Init PROVE finished = [name \in Names |-> NoImage]
    BY DEF Images!Init
  <2>1. \A name \in Names : out[name] = Absent
    BY DEF Init
  <2> QED
    BY <2>1 DEF finished
<1>2. ImageInv /\ [Next]_vars => [Images!Next]_finished
  <2> SUFFICES ASSUME ImageInv, [Next]_vars PROVE [Images!Next]_finished
    OBVIOUS
  <2>1. CASE UNCHANGED vars
    BY <2>1 DEF vars, finished
  <2>2. CASE Next
    <3>1. PICK b \in Builders : Start(b) \/ Step(b) \/ Fault(b)
      BY <2>2 DEF Next
    <3> DEFINE name == OUTPUT(b)
    <3>2. Changes(b)
      BY <3>1, OwnStep
    <3>3. DOMAIN out = Names
      BY DEF ImageInv, BuildInv, TypeOK
    <3>4. CASE UNCHANGED out
      BY <3>4 DEF finished
    <3>5. ASSUME choice[b] \in Choices[b], NEW file,
                 out' = [out EXCEPT ![name] = file]
          PROVE  /\ name \in Names /\ out'[name] = file
                 /\ finished' = [finished EXCEPT ![name] =
                                   IF file = Absent THEN NoImage
                                   ELSE IF Sealed(file) THEN file[2].dt ELSE Unsealed]
      <4>1. name \in Names
        BY <3>5 DEF OUTPUT, Names, Configs
      <4>2. \A n \in Names : out'[n] = IF n = name THEN file ELSE out[n]
        BY <3>3, <3>5, <4>1
      <4> QED
        BY <4>1, <4>2 DEF finished
    <3>6. CASE choice[b] \in Choices[b] /\ out' = [out EXCEPT ![name] = <<>>]
      <4>1. <<>> # Absent /\ ~Sealed(<<>>)
        BY NoFooterBefore DEF Sealed
      <4>2. name \in Names /\ finished' = [finished EXCEPT ![name] = Unsealed]
        BY <3>5, <3>6, <4>1
      <4> QED
        BY <4>2 DEF Images!Next, Images!Unseal
    <3>7. CASE /\ choice[b] \in Choices[b] /\ out[name] \in Unfinished(b)
               /\ \E file \in Unfinished(b) : out' = [out EXCEPT ![name] = file]
      <4>1. PICK file \in Unfinished(b) : out' = [out EXCEPT ![name] = file]
        BY <3>7
      <4>2. file # Absent /\ ~Sealed(file)
        BY UnfinishedIs
      <4>3. out[name] # Absent /\ ~Sealed(out[name])
        BY <3>7, UnfinishedIs
      <4>4. name \in Names /\ finished' = [finished EXCEPT ![name] = Unsealed]
        BY <3>5, <3>7, <4>1, <4>2
      <4>5. finished[name] = Unsealed
        BY <4>3, <4>4 DEF finished
      <4> QED
        BY <4>4 DEF Images!Next, Images!Unseal
    <3>8. CASE /\ choice[b] \in Choices[b] /\ Fits /\ out[name] = Padded(b)
               /\ out' = [out EXCEPT ![name] = Whole(b)]
      <4>1. Whole(b) # Absent /\ Sealed(Whole(b))
            /\ Whole(b)[2] = Dtb(Asked(choice[b]))
        BY <3>8, WholeIs
      <4>2. Whole(b)[2].dt = Asked(choice[b])
        BY <4>1 DEF Dtb
      <4>3. name \in Names
            /\ finished' = [finished EXCEPT ![name] = Asked(choice[b])]
        BY <3>5, <3>8, <4>1, <4>2
      <4>4. out[name] # Absent /\ ~Sealed(out[name])
        BY <3>8, NoFooterBefore DEF Sealed
      <4>5. finished[name] = Unsealed
        BY <4>3, <4>4 DEF finished
      <4>6. Asked(choice[b]) \in {Asked(cfg) : cfg \in Configs}
        BY <3>8 DEF Configs
      <4> QED
        BY <4>3, <4>5, <4>6 DEF Images!Next, Images!Seal
    <3> QED
      BY <3>2, <3>4, <3>6, <3>7, <3>8 DEF Changes
  <2> QED
    BY <2>1, <2>2
<1> QED
  BY <1>1, <1>2, ImageInvariant, PTL DEF Spec, KeepsImages, Images!Spec

=============================================================================

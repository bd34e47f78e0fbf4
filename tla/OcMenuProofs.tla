---------------------------- MODULE OcMenuProofs ----------------------------
(***************************************************************************)
(* Proofs about the menus, for every set of texts, every width of a word   *)
(* and every stock device tree.                                            *)
(***************************************************************************)
EXTENDS OcMenu, TLAPS

USE DEF Prompts, FreqPrompts, VoltPrompts, SummaryPrompts, EntryPrompts, Ended

(* A computed value fits a word: $(( )) never leaves the range it prints.  *)
LEMMA WrapInWord ==
    ASSUME NEW n \in Int
    PROVE  Wrap(n) \in Word
<1>1. HalfWord \in Int /\ HalfWord > 0
  BY HalfWordAssumption
<1>2. (n + HalfWord) % (2 * HalfWord) \in 0 .. 2 * HalfWord - 1
  BY <1>1
<1> QED
  BY <1>1, <1>2 DEF Wrap, Word

(* The targets and the offset of a text $(( )) can read are words. *)
LEMMA ComputedInWord ==
    ASSUME NEW t \in Numerals, Computable(t)
    PROVE  /\ LittleTarget(t) \in Word
           /\ BigTarget(t) \in Word
           /\ Offset(t) \in Word
<1>1. ArithValue[t] \in Int
  BY ReadersAssumption DEF Computable
<1>2. LITTLE_STOCK_MHZ \in Int /\ BIG_STOCK_MHZ \in Int /\ HzPerMHz \in Int
  BY StockAssumption DEF LITTLE_STOCK_MHZ, BIG_STOCK_MHZ
<1>3. ArithValue[t] * HzPerMHz \in Int
  BY <1>1, <1>2
<1> QED
  BY <1>1, <1>2, <1>3, WrapInWord DEF LittleTarget, BigTarget, Offset

(* No key of a menu is a text of digits, and no text is empty. *)
LEMMA NeverANumeral ==
    /\ \A key \in ChoiceLines : key \notin Numerals
    /\ Empty \notin Lines \cup Int
    /\ FreqNumerals \subseteq Numerals /\ VoltNumerals \subseteq Numerals
BY NumeralsAssumption

-----------------------------------------------------------------------------
(* The inductive invariant.  Beside the properties it keeps what the       *)
(* script knows at a prompt because of the way it got there.               *)

(* At the confirmation the text has passed the checks and the targets that *)
(* are shown are its own.                                                  *)
ConfirmingOwnTargets ==
    pc = "freqConfirm" =>
        /\ MHZ \in FreqNumerals
        /\ ~FrequencyRejected(MHZ)
        /\ Computable(MHZ)
        /\ LITTLE_TARGET_MHZ = LittleTarget(MHZ)
        /\ BIG_TARGET_MHZ = BigTarget(MHZ)

(* CHOICE is still the y that opened the entry of the voltages. *)
EntryOpen == pc \in EntryPrompts => CHOICE = "y"

(* The Big voltage is asked for once there is a Little one. *)
LittleFirst ==
    /\ pc = "big" => LITTLE_INPUT \in VoltNumerals /\ ~VoltageRejected(LITTLE_INPUT)
    /\ pc = "sumBig" => LITTLE_INPUT \in EntryLines(VoltNumerals)

(* No way out of a frequency prompt leaves a rejected text in MHZ. *)
FrequencyAccepted ==
    pc \in Configured => MHZ \in FreqNumerals /\ ~FrequencyRejected(MHZ)

(* Nothing is settled before the first y. *)
NothingSettled == pc \in FreqPrompts => ADD_HZ = Empty

MenuInv ==
    /\ TypeOK
    /\ NothingSettled
    /\ ConfirmingOwnTargets
    /\ EntryOpen
    /\ LittleFirst
    /\ FrequencyAccepted
    /\ Coherent
    /\ VoltagesPaired

(* The two forms of the check of a text: what the stricter one lets in, the *)
(* other lets in too.                                                       *)
LEMMA NewValuesAccepted ==
    ASSUME NEW line
    PROVE  /\ NewFrequencyValid(line) => ~FrequencyRejected(line)
           /\ NewVoltageValid(line) => ~VoltageRejected(line)
BY ReadersAssumption, StockAssumption
   DEF NewFrequencyValid, FrequencyRejected, NewVoltageValid, VoltageRejected,
       Testable

(* Only a text of digits gets past the check of a voltage. *)
LEMMA AcceptedVoltageIsNumeral ==
    ASSUME NEW line \in EntryLines(VoltNumerals), ~VoltageRejected(line)
    PROVE  line \in VoltNumerals
BY NeverANumeral DEF VoltageRejected, EntryLines, ChoiceLines

LEMMA InitEstablishesInv == Init => MenuInv
BY DEF Init, MenuInv, TypeOK, NothingSettled, ConfirmingOwnTargets, EntryOpen, LittleFirst,
       FrequencyAccepted, Coherent, VoltagesPaired, Configured, voltages,
       StockVoltages

LEMMA StepKeepsInv == MenuInv /\ [Next]_vars => MenuInv'
<1> SUFFICES ASSUME MenuInv, [Next]_vars
             PROVE  MenuInv'
  OBVIOUS
<1> USE NeverANumeral, NewValuesAccepted, ComputedInWord
<1> USE DEF MenuInv, TypeOK, NothingSettled, ConfirmingOwnTargets, EntryOpen, LittleFirst,
            FrequencyAccepted, Coherent, VoltagesPaired, Configured,
            EntryLines, ChoiceLines, targets, voltages, inputs, StockVoltages
<1>1. CASE UNCHANGED vars
  BY <1>1 DEF vars
<1>2. CASE EndOfInput
  BY <1>2 DEF EndOfInput
<1>3. CASE Finished
  BY <1>3 DEF Finished, vars
<1>4. ASSUME NEW line \in Lines, Answer(line)
      PROVE  MenuInv'
  <2>1. CASE FrequencyRetry(line)
    BY <2>1 DEF FrequencyRetry
  <2>2. CASE FrequencyEntered(line)
    BY <2>2 DEF FrequencyEntered
  <2>3. CASE FrequencyDiscarded(line)
    BY <2>3 DEF FrequencyDiscarded
  <2>4. CASE FrequencyConfirm(line)
    BY <2>4 DEF FrequencyConfirm
  <2>5. CASE VoltageChoice(line)
    BY <2>5 DEF VoltageChoice
  <2>6. CASE LittleEntry(line)
    BY <2>6, AcceptedVoltageIsNumeral DEF LittleEntry, AfterEntry
  <2>7. CASE BigEntry(line)
    BY <2>7 DEF BigEntry, AfterEntry
  <2>8. CASE VoltageReview(line)
    <3>1. CASE ReviewChoice(line, "voltFreq", "voltMhz", "volt")
      BY <3>1 DEF ReviewChoice
    <3>2. CASE ReviewEntry(line, "voltFreq", "voltMhz", "volt")
      <4>1. CASE NewFrequencyValid(line)
        <5>1. line \in FreqNumerals /\ ~FrequencyRejected(line)
          BY <3>2, <4>1 DEF ReviewEntry, NewFrequencyValid
        <5> QED
          BY <3>2, <4>1, <5>1 DEF ReviewEntry
      <4>2. CASE ~NewFrequencyValid(line)
        BY <3>2, <4>2 DEF ReviewEntry
      <4> QED
        BY <4>1, <4>2
    <3>3. CASE ReviewDiscarded(line, "voltMhz", "summary")
      BY <3>3 DEF ReviewDiscarded
    <3> QED
      BY <2>8, <3>1, <3>2, <3>3 DEF VoltageReview
  <2>9. CASE SummaryReview(line)
    <3>1. CASE ReviewChoice(line, "sumFreq", "sumMhz", "summary")
      BY <3>1 DEF ReviewChoice
    <3>2. CASE ReviewEntry(line, "sumFreq", "sumMhz", "summary")
      <4>1. CASE NewFrequencyValid(line)
        <5>1. line \in FreqNumerals /\ ~FrequencyRejected(line)
          BY <3>2, <4>1 DEF ReviewEntry, NewFrequencyValid
        <5> QED
          BY <3>2, <4>1, <5>1 DEF ReviewEntry
      <4>2. CASE ~NewFrequencyValid(line)
        BY <3>2, <4>2 DEF ReviewEntry
      <4> QED
        BY <4>1, <4>2
    <3>3. CASE ReviewDiscarded(line, "sumMhz", "build")
      BY <3>3 DEF ReviewDiscarded
    <3> QED
      BY <2>9, <3>1, <3>2, <3>3 DEF SummaryReview
  <2>10. CASE SummaryChoice(line)
    BY <2>10 DEF SummaryChoice
  <2>11. CASE SummaryVoltageChoice(line)
    BY <2>11 DEF SummaryVoltageChoice
  <2>12. CASE SummaryLittleEntry(line)
    BY <2>12 DEF SummaryLittleEntry
  <2>13. CASE SummaryBigEntry(line)
    BY <2>13 DEF SummaryBigEntry
  <2>14. CASE Resume(line)
    BY <2>14 DEF Resume
  <2> QED
    BY <1>4, <2>1, <2>2, <2>3, <2>4, <2>5, <2>6, <2>7, <2>8, <2>9, <2>10,
       <2>11, <2>12, <2>13, <2>14 DEF Answer
<1> QED
  BY <1>1, <1>2, <1>3, <1>4 DEF Next

THEOREM MenuInvariant == Spec => []MenuInv
<1> QED
  BY InitEstablishesInv, StepKeepsInv, PTL DEF Spec

(* Every variable of the menus has its type; what was computed is a word. *)
THEOREM TypeCorrect == Spec => []TypeOK
<1>1. MenuInv => TypeOK
  BY DEF MenuInv
<1> QED
  BY <1>1, MenuInvariant, PTL

(* The name of the output, the targets on the screen and the offset that   *)
(* is written describe one frequency, whatever the user did before.        *)
THEOREM CoherentFrequency == Spec => []Coherent
<1>1. MenuInv => Coherent
  BY DEF MenuInv
<1> QED
  BY <1>1, MenuInvariant, PTL

(* A text both readers can read adds 1 to RangeMax MHz, octal or not. *)
THEOREM AddedFrequencyInRange == Spec => []OffsetInRange
<1>1. MenuInv => OffsetInRange
  <2> SUFFICES ASSUME MenuInv, pc \in Configured
               PROVE  /\ MHZ \in FreqNumerals
                      /\ Testable(MHZ) /\ Computable(MHZ)
                            => ArithValue[MHZ] \in 1 .. RangeMax
    BY DEF OffsetInRange
  <2>1. MHZ \in FreqNumerals /\ MHZ \in Numerals /\ ~FrequencyRejected(MHZ)
    BY NeverANumeral DEF MenuInv, FrequencyAccepted
  <2>2. ASSUME Testable(MHZ), Computable(MHZ)
        PROVE  ArithValue[MHZ] \in 1 .. RangeMax
    <3>1. TestValue[MHZ] \in Nat /\ ArithValue[MHZ] \in Int
      BY <2>1, <2>2, ReadersAssumption DEF Testable, Computable
    <3>2. TestValue[MHZ] # 0 /\ ~(TestValue[MHZ] > RangeMax)
      BY <2>1, <2>2 DEF FrequencyRejected
    <3>3. /\ TestValue[MHZ] > 0 => ArithValue[MHZ] > 0
          /\ ArithValue[MHZ] <= TestValue[MHZ]
      BY <2>1, <2>2, ReadersAssumption DEF Testable, Computable
    <3> QED
      BY <3>1, <3>2, <3>3, StockAssumption
  <2> QED
    BY <2>1, <2>2
<1> QED
  BY <1>1, MenuInvariant, PTL

(* No path leaves one cluster at stock and the other at an entered value.  *)
THEOREM PairedVoltages == Spec => []VoltagesPaired
<1>1. MenuInv => VoltagesPaired
  BY DEF MenuInv
<1> QED
  BY <1>1, MenuInvariant, PTL

-----------------------------------------------------------------------------
(* Steps.                                                                  *)

(* Only the Summary's y, or a menu thrown away, starts the build. *)
THEOREM BuildThroughSummary == Spec => SummaryGate
<1>1. [Next]_vars => [pc # "build" /\ pc' = "build" =>
                        \/ pc = "summary" /\ UNCHANGED config
                        \/ ~Computable(MHZ')]_vars
  <2> SUFFICES ASSUME Next, pc # "build", pc' = "build"
               PROVE  \/ pc = "summary" /\ UNCHANGED config
                      \/ ~Computable(MHZ')
    OBVIOUS
  <2> USE DEF targets, voltages, inputs, config
  <2>1. PICK line \in Lines : Answer(line)
    BY DEF Next, EndOfInput, Finished, vars
  <2>2. CASE SummaryChoice(line)
    BY <2>2 DEF SummaryChoice
  <2>3. CASE SummaryReview(line)
    BY <2>3 DEF SummaryReview, ReviewChoice, ReviewEntry, ReviewDiscarded
  <2>4. CASE VoltageReview(line)
    BY <2>4 DEF VoltageReview, ReviewChoice, ReviewEntry, ReviewDiscarded
  <2> QED
    BY <2>1, <2>2, <2>3, <2>4
       DEF Answer, FrequencyRetry, FrequencyEntered, FrequencyDiscarded,
           FrequencyConfirm, VoltageChoice, LittleEntry, BigEntry, AfterEntry,
           SummaryVoltageChoice, SummaryLittleEntry, SummaryBigEntry, Resume
<1> QED
  BY <1>1, PTL DEF Spec, SummaryGate

(* A voltage only ever changes with the other one, on the way to the       *)
(* Summary, to the stock pair or to the pair just entered.                 *)
THEOREM VoltagesAllOrNothing == Spec => EntryAllOrNothing
<1>1. MenuInv /\ [Next]_vars => [voltages' # voltages =>
                                   /\ pc' = "summary"
                                   /\ voltages' \in {StockVoltages, inputs'}]_vars
  <2> SUFFICES ASSUME MenuInv, Next, voltages' # voltages
               PROVE  /\ pc' = "summary"
                      /\ voltages' \in {StockVoltages, inputs'}
    OBVIOUS
  <2> USE DEF targets, voltages, inputs, StockVoltages
  <2>1. PICK line \in Lines : Answer(line)
    BY DEF Next, EndOfInput, Finished, vars
  <2>2. CASE VoltageChoice(line)
    BY <2>2 DEF VoltageChoice
  <2>3. CASE BigEntry(line)
    BY <2>3 DEF BigEntry, AfterEntry, MenuInv, EntryOpen
  <2>4. CASE SummaryVoltageChoice(line)
    BY <2>4 DEF SummaryVoltageChoice
  <2>5. CASE SummaryBigEntry(line)
    BY <2>5 DEF SummaryBigEntry
  <2>6. CASE VoltageReview(line) \/ SummaryReview(line)
    BY <2>6 DEF VoltageReview, SummaryReview, ReviewChoice, ReviewEntry,
                ReviewDiscarded
  <2> QED
    BY <2>1, <2>2, <2>3, <2>4, <2>5, <2>6
       DEF Answer, FrequencyRetry, FrequencyEntered, FrequencyDiscarded,
           FrequencyConfirm, LittleEntry, SummaryChoice, SummaryLittleEntry,
           Resume
<1> QED
  BY <1>1, MenuInvariant, PTL DEF Spec, EntryAllOrNothing
-----------------------------------------------------------------------------
(* The refinement.  Every answer of the menus is a step of OcDecision or   *)
(* changes nothing that OcDecision sees, as long as $(( )) can read every  *)
(* text typed for a frequency.                                             *)

AllComputable == \A t \in FreqNumerals : Computable(t)

LEMMA InitDecides == Init => Decision!Init
BY DEF Init, Decision!Init, decisionPhase, settledOffer, voltages,
       StockVoltages

(* Past the first menu an offer is settled, and it is the one of MHZ.      *)
LEMMA SettledOnceConfigured ==
    ASSUME AllComputable, MenuInv, pc \in Configured
    PROVE  /\ settledOffer # <<>>
           /\ MHZ \in AcceptedFrequencies
           /\ settledOffer = Offer(MHZ)
<1>1. MHZ \in FreqNumerals /\ ~FrequencyRejected(MHZ) /\ Computable(MHZ)
  BY DEF AllComputable, MenuInv, FrequencyAccepted
<1>2. /\ ADD_HZ = Offset(MHZ)
      /\ LITTLE_TARGET_MHZ = LittleTarget(MHZ)
      /\ BIG_TARGET_MHZ = BigTarget(MHZ)
  BY <1>1, NeverANumeral DEF MenuInv, Coherent
<1>3. ADD_HZ # Empty
  BY <1>1, <1>2, ComputedInWord, NeverANumeral DEF Word
<1> QED
  BY <1>1, <1>2, <1>3 DEF settledOffer, AcceptedFrequencies, Offer

(* A step that changes the voltages only, to a pair OcDecision allows. *)
LEMMA SettlingVoltages ==
    ASSUME AllComputable, MenuInv, pc \in Configured \ {"build"},
           pc' \in Prompts,
           UNCHANGED <<MHZ, ADD_HZ, targets>>,
           \/ voltages' \in {voltages, StockVoltages}
           \/ voltages' \in AcceptedVoltages \X AcceptedVoltages
    PROVE  [Decision!Next]_(Decision!vars)
<1>1. settledOffer # <<>> /\ settledOffer' = settledOffer
  BY SettledOnceConfigured DEF settledOffer, targets
<1>2. decisionPhase = "open" /\ decisionPhase' = "open"
  BY DEF decisionPhase, Configured
<1>3. CASE voltages' = voltages
  BY <1>1, <1>2, <1>3 DEF Decision!vars
<1>4. CASE voltages' # voltages
  <2>1. Decision!SettleVoltages
    BY <1>1, <1>2, <1>4 DEF Decision!SettleVoltages
  <2> QED
    BY <2>1 DEF Decision!Next
<1> QED
  BY <1>3, <1>4

(* A new frequency is settled, or nothing is. *)
LEMMA ReviewDecides ==
    ASSUME AllComputable, MenuInv,
           NEW line, NEW ask \in Prompts, NEW enter \in Prompts,
           NEW back \in Prompts,
           \/ ReviewChoice(line, ask, enter, back)
           \/ ReviewEntry(line, ask, enter, back)
    PROVE  [Decision!Next]_(Decision!vars)
<1> USE DEF decisionPhase, settledOffer, targets, voltages, Decision!vars
<1>1. CASE ReviewChoice(line, ask, enter, back)
  BY <1>1 DEF ReviewChoice
<1>2. CASE ReviewEntry(line, ask, enter, back) /\ ~NewFrequencyValid(line)
  BY <1>2 DEF ReviewEntry
<1>3. CASE ReviewEntry(line, ask, enter, back) /\ NewFrequencyValid(line)
  <2>1. line \in AcceptedFrequencies /\ Computable(line) /\ line \in Numerals
    BY <1>3, NewValuesAccepted, NeverANumeral
       DEF ReviewEntry, NewFrequencyValid, AcceptedFrequencies, EntryLines,
           ChoiceLines
  <2>2. Offset(line) # Empty
    BY <2>1, ComputedInWord, NeverANumeral DEF Word
  <2>3. settledOffer' = Offer(line)
    BY <1>3, <2>2 DEF ReviewEntry, Offer
  <2>4. Decision!SettleFrequency
    BY <1>3, <2>1, <2>3 DEF ReviewEntry, Decision!SettleFrequency
  <2> QED
    BY <2>4 DEF Decision!Next
<1> QED
  BY <1>1, <1>2, <1>3

LEMMA StepDecides ==
    ASSUME AllComputable, MenuInv, [Next]_vars
    PROVE  [Decision!Next]_(Decision!vars)
<1> USE NeverANumeral
<1> USE DEF targets, voltages, inputs, decisionPhase, settledOffer,
            Decision!vars
<1>1. CASE UNCHANGED vars \/ Finished
  BY <1>1 DEF vars, Finished
<1>2. CASE EndOfInput
  BY <1>2 DEF EndOfInput, Decision!Next, Decision!Fail
<1>3. ASSUME NEW line \in Lines, Answer(line)
      PROVE  [Decision!Next]_(Decision!vars)
  <2>1. CASE \/ FrequencyRetry(line)
             \/ FrequencyEntered(line)
    BY <2>1 DEF FrequencyRetry, FrequencyEntered, MenuInv, NothingSettled
  <2>2. CASE FrequencyDiscarded(line)
    BY <2>2 DEF FrequencyDiscarded, AllComputable
  <2>3. CASE FrequencyConfirm(line)
    <3>1. CASE line = "y"
      <4>1. settledOffer' = Offer(MHZ) /\ MHZ \in AcceptedFrequencies
        BY <2>3, <3>1, ComputedInWord
           DEF FrequencyConfirm, MenuInv, ConfirmingOwnTargets, Offer,
               AcceptedFrequencies, Word
      <4>2. Decision!SettleFrequency
        BY <2>3, <3>1, <4>1 DEF FrequencyConfirm, Decision!SettleFrequency
      <4> QED
        BY <4>2 DEF Decision!Next
    <3>2. CASE line = "k"
      BY <2>3, <3>2 DEF FrequencyConfirm, MenuInv, NothingSettled,
                        Decision!Next, Decision!Cancel
    <3>3. CASE line \notin {"y", "k"}
      BY <2>3, <3>3 DEF FrequencyConfirm
    <3> QED
      BY <3>1, <3>2, <3>3
  <2>4. CASE VoltageChoice(line)
    <3>1. CASE line = "n"
      <4>1. /\ pc \in Configured \ {"build"} /\ pc' \in Prompts
            /\ voltages' \in {voltages, StockVoltages}
            /\ UNCHANGED <<MHZ, ADD_HZ, targets>>
        BY <2>4, <3>1 DEF VoltageChoice, Configured, StockVoltages
      <4> QED
        BY <4>1, SettlingVoltages
    <3>2. CASE line # "n"
      BY <2>4, <3>2 DEF VoltageChoice
    <3> QED
      BY <3>1, <3>2
  <2>5. CASE LittleEntry(line)
    BY <2>5 DEF LittleEntry, AfterEntry
  <2>6. CASE BigEntry(line)
    <3>1. CASE VoltageRejected(line)
      BY <2>6, <3>1 DEF BigEntry
    <3>2. CASE ~VoltageRejected(line)
      <4>1. voltages' = voltages
            \/ voltages' \in AcceptedVoltages \X AcceptedVoltages
        BY <2>6, <3>2, AcceptedVoltageIsNumeral
           DEF BigEntry, MenuInv, LittleFirst, AcceptedVoltages
      <4>2. pc = "big" /\ pc' \in {"little", "voltPause", "summary", "volt"}
        BY <2>6 DEF BigEntry, AfterEntry
      <4>3. pc \in Configured \ {"build"} /\ pc' \in Prompts
        BY <4>2 DEF Configured, Prompts
      <4>4. UNCHANGED <<MHZ, ADD_HZ, targets>>
        BY <2>6 DEF BigEntry
      <4> QED
        BY <4>1, <4>3, <4>4, SettlingVoltages
    <3> QED
      BY <3>1, <3>2
  <2>7. CASE VoltageReview(line)
    <3>1. ~ReviewDiscarded(line, "voltMhz", "summary")
      BY DEF ReviewDiscarded, AllComputable
    <3>2. \/ ReviewChoice(line, "voltFreq", "voltMhz", "volt")
          \/ ReviewEntry(line, "voltFreq", "voltMhz", "volt")
      BY <2>7, <3>1 DEF VoltageReview
    <3>3. "voltFreq" \in Prompts /\ "voltMhz" \in Prompts /\ "volt" \in Prompts
      BY DEF Prompts
    <3> HIDE DEF decisionPhase, settledOffer, targets, voltages, Decision!vars
    <3> QED
      BY <3>2, <3>3, ReviewDecides
  <2>8. CASE SummaryReview(line)
    <3>1. ~ReviewDiscarded(line, "sumMhz", "build")
      BY DEF ReviewDiscarded, AllComputable
    <3>2. \/ ReviewChoice(line, "sumFreq", "sumMhz", "summary")
          \/ ReviewEntry(line, "sumFreq", "sumMhz", "summary")
      BY <2>8, <3>1 DEF SummaryReview
    <3>3. "sumFreq" \in Prompts /\ "sumMhz" \in Prompts /\ "summary" \in Prompts
      BY DEF Prompts
    <3> HIDE DEF decisionPhase, settledOffer, targets, voltages, Decision!vars
    <3> QED
      BY <3>2, <3>3, ReviewDecides
  <2>9. CASE SummaryChoice(line)
    <3>1. CASE line = "y"
      <4>1. Decision!Build
        BY <2>9, <3>1, SettledOnceConfigured
           DEF SummaryChoice, Configured, Decision!Build
      <4> QED
        BY <4>1 DEF Decision!Next
    <3>2. CASE line # "y"
      BY <2>9, <3>2 DEF SummaryChoice
    <3> QED
      BY <3>1, <3>2
  <2>10. CASE SummaryVoltageChoice(line)
    <3>1. /\ pc \in Configured \ {"build"} /\ pc' \in Prompts
          /\ voltages' \in {voltages, StockVoltages}
          /\ UNCHANGED <<MHZ, ADD_HZ, targets>>
      BY <2>10 DEF SummaryVoltageChoice, Configured, StockVoltages, ChoiceLines
    <3> QED
      BY <3>1, SettlingVoltages
  <2>11. CASE SummaryLittleEntry(line)
    BY <2>11 DEF SummaryLittleEntry
  <2>12. CASE SummaryBigEntry(line)
    <3>1. \/ voltages' = voltages
          \/ voltages' \in AcceptedVoltages \X AcceptedVoltages
      BY <2>12, NewValuesAccepted, AcceptedVoltageIsNumeral
         DEF SummaryBigEntry, MenuInv, LittleFirst, AcceptedVoltages
    <3>2. /\ pc \in Configured \ {"build"} /\ pc' \in Prompts
          /\ UNCHANGED <<MHZ, ADD_HZ, targets>>
      BY <2>12 DEF SummaryBigEntry, Configured
    <3> QED
      BY <3>1, <3>2, SettlingVoltages
  <2>13. CASE Resume(line)
    BY <2>13 DEF Resume
  <2> QED
    BY <1>3, <2>1, <2>2, <2>3, <2>4, <2>5, <2>6, <2>7, <2>8, <2>9, <2>10,
       <2>11, <2>12, <2>13 DEF Answer
<1> QED
  BY <1>1, <1>2, <1>3 DEF Next

(* The menus implement OcDecision: frequency and voltages are each settled *)
(* as a whole, and the build takes what was settled last.                  *)
THEOREM MenuImplementsDecision ==
    ASSUME AllComputable
    PROVE  Spec => Decides
<1>1. Init => Decision!Init
  BY InitDecides
<1>2. MenuInv /\ [Next]_vars => [Decision!Next]_(Decision!vars)
  BY StepDecides
<1> QED
  BY <1>1, <1>2, MenuInvariant, PTL DEF Spec, Decides, Decision!Spec

=============================================================================

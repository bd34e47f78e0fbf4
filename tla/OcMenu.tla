------------------------------- MODULE OcMenu -------------------------------
(***************************************************************************)
(* The three menus of the builder (frequency, voltage, summary) and their  *)
(* sub-menus, one action per line the user types.  pc names the prompt the *)
(* script waits at; "build", "cancelled" and "failed" are where the menus  *)
(* end.  The nested loops of the script are flat here: break and continue  *)
(* are moves of pc.                                                        *)
(*                                                                         *)
(* An arithmetic error inside $(( )) does not end the script: bash throws  *)
(* away the whole top-level command it is running, here the while loop of  *)
(* one of the three menus, and goes on with the command after that loop.   *)
(* The actions named ...Discarded are those jumps.                         *)
(***************************************************************************)
EXTENDS Words

CONSTANTS
    Numerals,       \* the texts of digits that are typed (^[0-9]+$)
    FreqNumerals,   \* those typed at the prompts for a frequency
    VoltNumerals,   \* those typed at the prompts for a voltage
    TestValue,      \* what [ ] reads in a text, or Unreadable
    ArithValue,     \* what $(( )) reads in a text, or Unreadable
    Unreadable,
    Empty,          \* the value of a variable the script set to ""
    RangeMax,       \* 500
    HzPerMHz,       \* 1000000
    LITTLE_HZ,      \* opp-hz of the last operating point, from the stock DTB
    BIG_HZ,
    LITTLE_VOLTAGE_STOCK,   \* the text fdtget prints for opp-microvolt
    BIG_VOLTAGE_STOCK

ChoiceLines == {"y", "n", "k", "other"}
EntryLines(numerals) == numerals \cup {"k", "other"}
Lines == Numerals \cup ChoiceLines

ASSUME NumeralsAssumption ==
    /\ FreqNumerals \subseteq Numerals
    /\ VoltNumerals \subseteq Numerals
    /\ ChoiceLines \cap Numerals = {}
    /\ Empty \notin Lines \cup Int

ASSUME ReadersAssumption ==
    /\ Unreadable \notin Int
    /\ TestValue \in [Numerals -> Nat \cup {Unreadable}]
    /\ ArithValue \in [Numerals -> Int \cup {Unreadable}]
    \* reading a text as octal makes it smaller, and never 0: NumeralsProofs
    \* proves it of the readings in Numerals
    /\ \A t \in Numerals :
          (TestValue[t] # Unreadable /\ ArithValue[t] # Unreadable)
             => /\ TestValue[t] > 0 => ArithValue[t] > 0
                /\ ArithValue[t] <= TestValue[t]

ASSUME StockAssumption ==
    /\ RangeMax \in Nat
    /\ HzPerMHz \in Nat \ {0}
    /\ LITTLE_HZ \in Nat
    /\ BIG_HZ \in Nat

LITTLE_STOCK_MHZ == LITTLE_HZ \div HzPerMHz
BIG_STOCK_MHZ == BIG_HZ \div HzPerMHz

VARIABLES
    pc,
    CHOICE,                 \* the last answer to a menu of the top level
    MHZ, ADD_HZ,
    LITTLE_TARGET_MHZ, BIG_TARGET_MHZ,
    LITTLE_VOLTAGE, BIG_VOLTAGE,
    LITTLE_INPUT, BIG_INPUT

targets == <<LITTLE_TARGET_MHZ, BIG_TARGET_MHZ>>
voltages == <<LITTLE_VOLTAGE, BIG_VOLTAGE>>
inputs == <<LITTLE_INPUT, BIG_INPUT>>
config == <<MHZ, ADD_HZ, targets, voltages>>
vars == <<pc, CHOICE, MHZ, ADD_HZ, LITTLE_TARGET_MHZ, BIG_TARGET_MHZ,
          LITTLE_VOLTAGE, BIG_VOLTAGE, LITTLE_INPUT, BIG_INPUT>>

FreqPrompts == {"freq", "freqPause", "freqConfirm"}
EntryPrompts == {"little", "big", "voltPause"}
VoltPrompts == {"volt", "voltFreq", "voltMhz"} \cup EntryPrompts
SummaryPrompts == {"summary", "sumVolt", "sumLittle", "sumBig", "sumPause",
                   "sumFreq", "sumMhz"}
Prompts == FreqPrompts \cup VoltPrompts \cup SummaryPrompts
Ended == {"build", "cancelled", "failed"}

StockVoltages == <<LITTLE_VOLTAGE_STOCK, BIG_VOLTAGE_STOCK>>

Init ==
    /\ pc = "freq"
    /\ CHOICE = Empty
    /\ MHZ = Empty
    /\ ADD_HZ = Empty
    /\ LITTLE_TARGET_MHZ = Empty
    /\ BIG_TARGET_MHZ = Empty
    /\ LITTLE_VOLTAGE = LITTLE_VOLTAGE_STOCK
    /\ BIG_VOLTAGE = BIG_VOLTAGE_STOCK
    /\ LITTLE_INPUT = Empty
    /\ BIG_INPUT = Empty

-----------------------------------------------------------------------------
(* The three ways the script judges a text.  A test that cannot read its   *)
(* operand is neither true nor false: it fails, and counts as false.       *)

Testable(t) == TestValue[t] # Unreadable
Computable(t) == ArithValue[t] # Unreadable

(* if ! regex || -eq 0 || -gt 500: a test that fails lets the text in. *)
FrequencyRejected(line) ==
    line \in Numerals => /\ Testable(line)
                         /\ TestValue[line] = 0 \/ TestValue[line] > RangeMax

(* Mutant of NewFrequencyValid: the lower bound is not checked. *)
NewFrequencyNotAbove(line) ==
    line \in Numerals /\ Testable(line) /\ TestValue[line] <= RangeMax

(* if regex && -gt 0 && -le 500: a test that fails keeps the text out. *)
NewFrequencyValid(line) ==
    /\ line \in Numerals
    /\ Testable(line)
    /\ TestValue[line] > 0
    /\ TestValue[line] <= RangeMax

VoltageRejected(line) ==
    line \in Numerals => Testable(line) /\ TestValue[line] = 0

NewVoltageValid(line) ==
    /\ line \in Numerals
    /\ Testable(line)
    /\ TestValue[line] > 0

LittleTarget(t) == Wrap(LITTLE_STOCK_MHZ + ArithValue[t])
BigTarget(t) == Wrap(BIG_STOCK_MHZ + ArithValue[t])
OffsetUnwrapped(t) == ArithValue[t] * HzPerMHz    \* mutant of Offset
Offset(t) == Wrap(ArithValue[t] * HzPerMHz)

-----------------------------------------------------------------------------
(* MENU FREQUENCY *)

FrequencyRetry(line) ==
    /\ pc = "freq"
    /\ line \in EntryLines(FreqNumerals)
    /\ FrequencyRejected(line)
    /\ MHZ' = line
    /\ pc' = "freqPause"
    /\ UNCHANGED <<CHOICE, ADD_HZ, targets, voltages, inputs>>

FrequencyEntered(line) ==
    /\ pc = "freq"
    /\ line \in FreqNumerals
    /\ ~FrequencyRejected(line)
    /\ Computable(line)
    /\ MHZ' = line
    /\ LITTLE_TARGET_MHZ' = LittleTarget(line)
    /\ BIG_TARGET_MHZ' = BigTarget(line)
    /\ pc' = "freqConfirm"
    /\ UNCHANGED <<CHOICE, ADD_HZ, voltages, inputs>>

(* LITTLE_TARGET_MHZ=$((...)) fails: the frequency menu is thrown away. *)
FrequencyDiscarded(line) ==
    /\ pc = "freq"
    /\ line \in FreqNumerals
    /\ ~FrequencyRejected(line)
    /\ ~Computable(line)
    /\ MHZ' = line
    /\ pc' = "volt"
    /\ UNCHANGED <<CHOICE, ADD_HZ, targets, voltages, inputs>>

FrequencyConfirm(line) ==
    /\ pc = "freqConfirm"
    /\ line \in ChoiceLines
    /\ CHOICE' = line
    /\ \/ line = "y" /\ ADD_HZ' = Offset(MHZ) /\ pc' = "volt"
       \/ line = "k" /\ pc' = "cancelled" /\ UNCHANGED ADD_HZ
       \/ line \notin {"y", "k"} /\ UNCHANGED <<pc, ADD_HZ>>
    /\ UNCHANGED <<MHZ, targets, voltages, inputs>>

-----------------------------------------------------------------------------
(* MENU VOLTAGE *)

VoltageChoice(line) ==
    /\ pc = "volt"
    /\ line \in ChoiceLines
    /\ CHOICE' = line
    /\ \/ line = "y" /\ pc' = "little" /\ UNCHANGED voltages
       \/ /\ line = "n"
          /\ LITTLE_VOLTAGE' = LITTLE_VOLTAGE_STOCK
          /\ BIG_VOLTAGE' = BIG_VOLTAGE_STOCK
          /\ pc' = "summary"
       \/ line = "k" /\ pc' = "voltFreq" /\ UNCHANGED voltages
       \/ line = "other" /\ UNCHANGED <<pc, voltages>>
    /\ UNCHANGED <<MHZ, ADD_HZ, targets, inputs>>

(* Mutant of AfterEntry: every break of the entry reopens the menu. *)
AfterEntryReopens == IF CHOICE = "n" THEN "summary" ELSE "volt"

(* Where the inner loop's break leads: the menu is left as soon as CHOICE  *)
(* is y or n, and CHOICE is still the y that opened the entry.             *)
AfterEntry == IF CHOICE \in {"y", "n"} THEN "summary" ELSE "volt"

(* Mutant of LittleEntry: a valid Little voltage is stored at once. *)
LittleEntryStores(line) ==
    /\ pc = "little"
    /\ line \in EntryLines(VoltNumerals)
    /\ LITTLE_INPUT' = line
    /\ \/ line = "k" /\ pc' = AfterEntry /\ UNCHANGED LITTLE_VOLTAGE
       \/ /\ line # "k" /\ VoltageRejected(line)
          /\ pc' = "voltPause"
          /\ UNCHANGED LITTLE_VOLTAGE
       \/ ~VoltageRejected(line) /\ pc' = "big" /\ LITTLE_VOLTAGE' = line
    /\ UNCHANGED <<CHOICE, MHZ, ADD_HZ, targets, BIG_VOLTAGE, BIG_INPUT>>

LittleEntry(line) ==
    /\ pc = "little"
    /\ line \in EntryLines(VoltNumerals)
    /\ LITTLE_INPUT' = line
    /\ \/ line = "k" /\ pc' = AfterEntry
       \/ line # "k" /\ VoltageRejected(line) /\ pc' = "voltPause"
       \/ ~VoltageRejected(line) /\ pc' = "big"
    /\ UNCHANGED <<CHOICE, MHZ, ADD_HZ, targets, voltages, BIG_INPUT>>

BigEntry(line) ==
    /\ pc = "big"
    /\ line \in EntryLines(VoltNumerals)
    /\ BIG_INPUT' = line
    /\ \/ line = "k" /\ pc' = "little" /\ UNCHANGED voltages
       \/ /\ line # "k" /\ VoltageRejected(line)
          /\ pc' = "voltPause"
          /\ UNCHANGED voltages
       \/ /\ ~VoltageRejected(line)
          /\ LITTLE_VOLTAGE' = LITTLE_INPUT
          /\ BIG_VOLTAGE' = line
          /\ pc' = AfterEntry
    /\ UNCHANGED <<CHOICE, MHZ, ADD_HZ, targets, LITTLE_INPUT>>

-----------------------------------------------------------------------------
(* The review of the frequency, written out once in the voltage menu and   *)
(* once in the summary menu: "ask" and "enter" are its two prompts, "back" *)
(* is where it returns to, "after" the command after the menu it is in.    *)

ReviewChoice(line, ask, enter, back) ==
    /\ pc = ask
    /\ line \in ChoiceLines
    /\ \/ line = "y" /\ pc' = back
       \/ line = "k" /\ pc' = enter
       \/ line \notin {"y", "k"} /\ pc' = ask
    /\ UNCHANGED <<CHOICE, MHZ, ADD_HZ, targets, voltages, inputs>>

(* Mutant of ReviewEntry: ADD_HZ is not computed again. *)
ReviewEntryKeepsOffset(line, ask, enter, back) ==
    /\ pc = enter
    /\ line \in EntryLines(FreqNumerals)
    /\ \/ /\ NewFrequencyValid(line)
          /\ Computable(line)
          /\ MHZ' = line
          /\ LITTLE_TARGET_MHZ' = LittleTarget(line)
          /\ BIG_TARGET_MHZ' = BigTarget(line)
          /\ pc' = back
       \/ /\ ~NewFrequencyValid(line)
          /\ pc' = ask
          /\ UNCHANGED <<MHZ, targets>>
    /\ UNCHANGED <<CHOICE, ADD_HZ, voltages, inputs>>

ReviewEntry(line, ask, enter, back) ==
    /\ pc = enter
    /\ line \in EntryLines(FreqNumerals)
    /\ \/ /\ NewFrequencyValid(line)
          /\ Computable(line)
          /\ MHZ' = line
          /\ ADD_HZ' = Offset(line)
          /\ LITTLE_TARGET_MHZ' = LittleTarget(line)
          /\ BIG_TARGET_MHZ' = BigTarget(line)
          /\ pc' = back
       \/ /\ ~NewFrequencyValid(line)
          /\ pc' = ask
          /\ UNCHANGED <<MHZ, ADD_HZ, targets>>
    /\ UNCHANGED <<CHOICE, voltages, inputs>>

(* MHZ is already set when ADD_HZ=$((...)) fails. *)
ReviewDiscarded(line, enter, after) ==
    /\ pc = enter
    /\ line \in FreqNumerals
    /\ NewFrequencyValid(line)
    /\ ~Computable(line)
    /\ MHZ' = line
    /\ pc' = after
    /\ UNCHANGED <<CHOICE, ADD_HZ, targets, voltages, inputs>>

VoltageReview(line) ==
    \/ ReviewChoice(line, "voltFreq", "voltMhz", "volt")
    \/ ReviewEntry(line, "voltFreq", "voltMhz", "volt")
    \/ ReviewDiscarded(line, "voltMhz", "summary")

(* Mutant of SummaryReview: the review goes on to the build. *)
SummaryReviewBuilds(line) ==
    \/ ReviewChoice(line, "sumFreq", "sumMhz", "build")
    \/ ReviewEntry(line, "sumFreq", "sumMhz", "build")
    \/ ReviewDiscarded(line, "sumMhz", "build")

SummaryReview(line) ==
    \/ ReviewChoice(line, "sumFreq", "sumMhz", "summary")
    \/ ReviewEntry(line, "sumFreq", "sumMhz", "summary")
    \/ ReviewDiscarded(line, "sumMhz", "build")

-----------------------------------------------------------------------------
(* MENU SUMMARY *)

SummaryChoice(line) ==
    /\ pc = "summary"
    /\ line \in ChoiceLines
    /\ CHOICE' = line
    /\ \/ line = "y" /\ pc' = "build"
       \/ line = "k" /\ pc' = "sumVolt"
       \/ line \notin {"y", "k"} /\ pc' = "summary"
    /\ UNCHANGED <<MHZ, ADD_HZ, targets, voltages, inputs>>

SummaryVoltageChoice(line) ==
    /\ pc = "sumVolt"
    /\ line \in ChoiceLines
    /\ \/ line = "y" /\ pc' = "sumLittle" /\ UNCHANGED voltages
       \/ /\ line = "n"
          /\ LITTLE_VOLTAGE' = LITTLE_VOLTAGE_STOCK
          /\ BIG_VOLTAGE' = BIG_VOLTAGE_STOCK
          /\ pc' = "summary"
       \/ line = "k" /\ pc' = "sumFreq" /\ UNCHANGED voltages
       \/ line = "other" /\ UNCHANGED <<pc, voltages>>
    /\ UNCHANGED <<CHOICE, MHZ, ADD_HZ, targets, inputs>>

SummaryLittleEntry(line) ==
    /\ pc = "sumLittle"
    /\ line \in EntryLines(VoltNumerals)
    /\ LITTLE_INPUT' = line
    /\ pc' = "sumBig"
    /\ UNCHANGED <<CHOICE, MHZ, ADD_HZ, targets, voltages, BIG_INPUT>>

(* Mutant of SummaryBigEntry: the texts are stored before they are judged. *)
SummaryBigEntryStores(line) ==
    /\ pc = "sumBig"
    /\ line \in EntryLines(VoltNumerals)
    /\ BIG_INPUT' = line
    /\ LITTLE_VOLTAGE' = LITTLE_INPUT
    /\ BIG_VOLTAGE' = line
    /\ pc' = IF NewVoltageValid(LITTLE_INPUT) /\ NewVoltageValid(line)
             THEN "summary" ELSE "sumPause"
    /\ UNCHANGED <<CHOICE, MHZ, ADD_HZ, targets, LITTLE_INPUT>>

SummaryBigEntry(line) ==
    /\ pc = "sumBig"
    /\ line \in EntryLines(VoltNumerals)
    /\ BIG_INPUT' = line
    /\ \/ /\ NewVoltageValid(LITTLE_INPUT)
          /\ NewVoltageValid(line)
          /\ LITTLE_VOLTAGE' = LITTLE_INPUT
          /\ BIG_VOLTAGE' = line
          /\ pc' = "summary"
       \/ /\ ~(NewVoltageValid(LITTLE_INPUT) /\ NewVoltageValid(line))
          /\ pc' = "sumPause"
          /\ UNCHANGED voltages
    /\ UNCHANGED <<CHOICE, MHZ, ADD_HZ, targets, LITTLE_INPUT>>

-----------------------------------------------------------------------------
(* "Tekan Enter untuk mencoba lagi": any line brings the prompt back. *)
Resume(line) ==
    /\ \/ pc = "freqPause" /\ pc' = "freq"
       \/ pc = "voltPause" /\ pc' = "little"
       \/ pc = "sumPause" /\ pc' = "sumVolt"
    /\ UNCHANGED <<CHOICE, MHZ, ADD_HZ, targets, voltages, inputs>>

(* read meets the end of its input and set -e ends the script. *)
EndOfInput ==
    /\ pc \in Prompts
    /\ pc' = "failed"
    /\ UNCHANGED <<CHOICE, MHZ, ADD_HZ, targets, voltages, inputs>>

Answer(line) ==
    \/ FrequencyRetry(line) \/ FrequencyEntered(line)
    \/ FrequencyDiscarded(line) \/ FrequencyConfirm(line)
    \/ VoltageChoice(line) \/ LittleEntry(line) \/ BigEntry(line)
    \/ VoltageReview(line)
    \/ SummaryChoice(line) \/ SummaryVoltageChoice(line)
    \/ SummaryLittleEntry(line) \/ SummaryBigEntry(line)
    \/ SummaryReview(line)
    \/ Resume(line)

Finished == pc \in Ended /\ UNCHANGED vars

Next == (\E line \in Lines : Answer(line)) \/ EndOfInput \/ Finished

Spec == Init /\ [][Next]_vars

(* The script does not stop by itself between two prompts. *)
FairSpec == Spec /\ WF_vars(Next)

-----------------------------------------------------------------------------
(* Properties.                                                             *)

Configured == VoltPrompts \cup SummaryPrompts \cup {"build"}

(* The values the menus may hold; what $(( )) computed fits a word. *)
TypeOK ==
    /\ pc \in Prompts \cup Ended
    /\ CHOICE \in ChoiceLines \cup {Empty}
    /\ MHZ \in EntryLines(FreqNumerals) \cup {Empty}
    /\ ADD_HZ \in Word \cup {Empty}
    /\ LITTLE_TARGET_MHZ \in Word \cup {Empty}
    /\ BIG_TARGET_MHZ \in Word \cup {Empty}
    /\ LITTLE_VOLTAGE \in EntryLines(VoltNumerals) \cup {LITTLE_VOLTAGE_STOCK}
    /\ BIG_VOLTAGE \in EntryLines(VoltNumerals) \cup {BIG_VOLTAGE_STOCK}
    /\ LITTLE_INPUT \in EntryLines(VoltNumerals) \cup {Empty}
    /\ BIG_INPUT \in EntryLines(VoltNumerals) \cup {Empty}

(* Three variables describe one frequency: MHZ names the output file, the  *)
(* targets are shown on the Summary, ADD_HZ is written to the device tree. *)
(* Through every path of reviews and retries they describe the same one,   *)
(* for as long as MHZ is a text $(( )) can read.                           *)
Coherent ==
    pc \in Configured /\ MHZ \in Numerals /\ Computable(MHZ) =>
        /\ ADD_HZ = Offset(MHZ)
        /\ LITTLE_TARGET_MHZ = LittleTarget(MHZ)
        /\ BIG_TARGET_MHZ = BigTarget(MHZ)

(* What the three ways of entering a frequency let through is 1-500 MHz,   *)
(* also when the text is octal to $(( )), provided both readers can read   *)
(* the text.                                                               *)
OffsetInRange ==
    /\ pc \in Configured => MHZ \in FreqNumerals
    /\ pc \in Configured /\ Testable(MHZ) /\ Computable(MHZ) =>
          ArithValue[MHZ] \in 1 .. RangeMax

(* The two clusters never mix a stock voltage with an entered one, and an  *)
(* entered one passed the check for 0.                                     *)
VoltagesPaired ==
    \/ voltages = StockVoltages
    \/ /\ ~VoltageRejected(LITTLE_VOLTAGE)
       /\ ~VoltageRejected(BIG_VOLTAGE)

(* The voltages change together and only on the way to the Summary, which  *)
(* shows them; an entry that is rejected, abandoned with K or cut short    *)
(* leaves the pair of the last decision.                                   *)
EntryAllOrNothing ==
    [][voltages' # voltages =>
           /\ pc' = "summary"
           /\ voltages' \in {StockVoltages, inputs'}]_vars

(* The build starts from the Summary, with what the Summary shows, unless  *)
(* the menu was thrown away over a text $(( )) cannot read.                *)
SummaryGate ==
    [][pc # "build" /\ pc' = "build" =>
           \/ pc = "summary" /\ UNCHANGED config
           \/ ~Computable(MHZ')]_vars

(* Answers that only go forward: y at a choice, a text every reader reads  *)
(* and every check accepts at an entry.                                    *)
Forward == \E line \in {"y"} \cup Numerals :
    /\ line \in Numerals => NewFrequencyValid(line) /\ Computable(line)
    /\ pc # "freq" \/ line \in Numerals
    /\ Answer(line)

(* Whatever detours the user has made, answers that go forward from some   *)
(* moment on leave every menu and every retry loop, and reach the build.   *)
ForwardReachesBuild == <>[][Forward]_vars => <>(pc \in Ended)

(* The menus keep the promise of OcDecision when every text typed for a    *)
(* frequency can be read by $(( )).                                        *)
Offer(t) == <<t, Offset(t), LittleTarget(t), BigTarget(t)>>
AcceptedFrequencies == {t \in FreqNumerals : ~FrequencyRejected(t)}
AcceptedVoltages == {t \in VoltNumerals : ~VoltageRejected(t)}

decisionPhase == IF pc = "build" THEN "built"
                 ELSE IF pc \in Ended THEN pc ELSE "open"
settledOffer == IF ADD_HZ = Empty THEN <<>>
                ELSE <<MHZ, ADD_HZ, LITTLE_TARGET_MHZ, BIG_TARGET_MHZ>>

Decision == INSTANCE OcDecision WITH
    Offers <- {Offer(t) : t \in AcceptedFrequencies},
    NoOffer <- <<>>,
    VoltagePairs <- {StockVoltages} \cup (AcceptedVoltages \X AcceptedVoltages),
    StockPair <- StockVoltages,
    phase <- decisionPhase,
    offer <- settledOffer,
    voltages <- voltages

Decides == Decision!Spec

-----------------------------------------------------------------------------
(* The script, of the build: "Setelah pengguna menekan Y pada Summary,     *)
(* baru tentukan output."  The code does not keep to it.                   *)
OutputAfterSummaryY == [][pc # "build" /\ pc' = "build" => pc = "summary"]_vars

(* The prompt for the frequency: "Rentang: 1-500 MHz".  What the build     *)
(* adds is not always within it.                                           *)
AddedInRange == pc = "build" => ADD_HZ \in {m * HzPerMHz : m \in 1 .. RangeMax}

=============================================================================

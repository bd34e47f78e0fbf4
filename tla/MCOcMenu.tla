------------------------------ MODULE MCOcMenu ------------------------------
(***************************************************************************)
(* The menus with a word of 16 bits instead of 64 (HalfWord 32768) and the *)
(* texts that tell the readers apart.  2 Hz stand for a MHz, so that an    *)
(* offset of 500 MHz stays inside the word.                                *)
(***************************************************************************)
EXTENDS OcMenu, TLC

N == INSTANCE Numerals WITH CellSize <- 8192

Digits ==
    "0"     :> <<0>> @@
    "7"     :> <<7>> @@
    "500"   :> <<5, 0, 0>> @@
    "501"   :> <<5, 0, 1>> @@
    "010"   :> <<0, 1, 0>> @@
    "08"    :> <<0, 8>> @@
    "65539" :> <<6, 5, 5, 3, 9>> @@
    "40000" :> <<4, 0, 0, 0, 0>> @@
    "66536" :> <<6, 6, 5, 3, 6>>

MCNumerals == DOMAIN Digits
MCTestValue == [t \in MCNumerals |-> N!TestReading(Digits[t])]
MCArithValue == [t \in MCNumerals |-> N!ArithReading(Digits[t])]

AllFreq == {"0", "7", "500", "501", "010", "08", "65539", "40000"}
ReadableFreq == AllFreq \ {"08"}
OversizedFreq == {"500", "65539", "40000"}
OctalFreq == {"7", "010"}
FewFreq == {"7", "08", "501"}
LargeFreq == {"7", "501", "66536"}
MCVolt == {"0", "7", "08"}

=============================================================================

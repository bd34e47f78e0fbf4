----------------------------- MODULE MCNumerals -----------------------------
(***************************************************************************)
(* Every text of up to MaxLength digits, typed one digit at a time, with a *)
(* word of 8 bits (HalfWord 128) and a cell of 6.                          *)
(***************************************************************************)
EXTENDS Numerals

CONSTANT MaxLength

VARIABLE text

Init == text = <<>>

TypeDigit ==
    /\ Len(text) < MaxLength
    /\ \E d \in Digit : text' = Append(text, d)

Next == TypeDigit

Spec == Init /\ [][Next]_text

-----------------------------------------------------------------------------
(* A text that [ ] and $(( )) both read is never larger to $(( )), and 0   *)
(* only where it is 0 to [ ]: the bound 500 and the test for 0 of the      *)
(* menus hold for the value that is added, octal or not.                   *)
OctalNotAboveDecimal ==
    text # <<>> /\ TestReading(text) # Unreadable
                /\ ArithReading(text) # Unreadable =>
        /\ ArithReading(text) <= TestReading(text)
        /\ TestReading(text) > 0 => ArithReading(text) > 0

(* Without a leading zero and within the range of [ ], the value checked,  *)
(* the value added and, up to the width of a cell, the value stored in the *)
(* device tree are the same.                                               *)
PlainTextsAgree ==
    text # <<>> /\ ~HasLeadingZero(text) /\ TestReading(text) # Unreadable =>
        /\ ArithReading(text) = TestReading(text)
        /\ CellReading(text) = TestReading(text) % CellSize

(* Where $(( )) refuses a text, fdtput refuses it too, and where both read *)
(* it they store the same low bits.                                        *)
ShellAndCellAgree ==
    text # <<>> =>
        /\ ArithReading(text) = Unreadable => CellReading(text) = Unreadable
        /\ ArithReading(text) # Unreadable /\ CellReading(text) # Unreadable =>
              ArithReading(text) % CellSize = CellReading(text)

=============================================================================

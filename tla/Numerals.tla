------------------------------ MODULE Numerals ------------------------------
(***************************************************************************)
(* A text of digits typed at a prompt of the builder is read three times,  *)
(* by three readers that do not agree:                                     *)
(*   - the checks of the menus use [ text -gt n ], which reads decimal and *)
(*     fails, without a verdict, on a value that does not fit a word;      *)
(*   - the targets and the offset use $(( )), which reads a leading 0 as   *)
(*     octal, fails on a digit 8 or 9 after it, and wraps on overflow;     *)
(*   - the voltages are given to fdtput -t u, whose strtoul(text, 0) also  *)
(*     reads a leading 0 as octal, fails on such a digit and on overflow,  *)
(*     and whose result is cut to the 32 bits of a device-tree cell.       *)
(* A text is the sequence of its digits.  The widths are constants.        *)
(***************************************************************************)
EXTENDS Words, Sequences

CONSTANTS
    CellSize,     \* 2^32: the values of a device-tree cell
    Unreadable    \* what a reader returns for a text it cannot read

ASSUME CellAssumption ==
    /\ CellSize \in Nat \ {0}
    /\ (2 * HalfWord) % CellSize = 0     \* a word is some number of cells
    /\ Unreadable \notin Int

Digit == 0 .. 9

(* Horner's rule: the value of the digits ds in a base; value[n] is that   *)
(* of the first n of them.                                                 *)
ValueIn(base, ds) ==
    LET value[n \in 0 .. Len(ds)] ==
            IF n = 0 THEN 0 ELSE base * value[n - 1] + ds[n]
    IN  value[Len(ds)]

HasLeadingZero(ds) == Len(ds) > 1 /\ ds[1] = 0

BaseOfPrefix(ds) == IF HasLeadingZero(ds) THEN 16 ELSE 10   \* mutant of Base

Base(ds) == IF HasLeadingZero(ds) THEN 8 ELSE 10

FitsBase(ds) == \A i \in DOMAIN ds : ds[i] < Base(ds)

(* Mutant of TestReading: the limit is off by one. *)
TestReadingAtLimit(ds) ==
    IF ValueIn(10, ds) <= HalfWord THEN ValueIn(10, ds) ELSE Unreadable

(* [ text -eq n ] and its like: decimal, a word or nothing. *)
TestReading(ds) ==
    IF ValueIn(10, ds) < HalfWord THEN ValueIn(10, ds) ELSE Unreadable

(* $(( text )): the base depends on the leading zero, the result wraps. *)
ArithReading(ds) ==
    IF FitsBase(ds) THEN Wrap(ValueIn(Base(ds), ds)) ELSE Unreadable

(* Mutant of CellReading: a digit that does not fit the base is no error. *)
CellReadingUnchecked(ds) ==
    IF ValueIn(Base(ds), ds) < 2 * HalfWord
    THEN ValueIn(Base(ds), ds) % CellSize
    ELSE Unreadable

(* strtoul(text, 0) stored in a cell by encode_value of fdtput. *)
CellReading(ds) ==
    IF FitsBase(ds) /\ ValueIn(Base(ds), ds) < 2 * HalfWord
    THEN ValueIn(Base(ds), ds) % CellSize
    ELSE Unreadable

=============================================================================

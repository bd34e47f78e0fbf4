--------------------------- MODULE NumeralsProofs ---------------------------
(***************************************************************************)
(* For texts of any length, words and cells of any width: what the three   *)
(* readers of a text of digits make of it.  The value of a text is a       *)
(* recursive function of the number of digits read, and every fact about   *)
(* it is an induction over that number; the induction is stated for a set  *)
(* (PrefixInduction), and rests on the least number that is not in it.     *)
(***************************************************************************)
EXTENDS MCNumerals, WellFoundedInduction, TLAPS

(* What holds of no digit and, with n digits, of n + 1, holds of them all. *)
LEMMA PrefixInduction ==
    ASSUME NEW last \in Nat, NEW Q,
           0 \in Q,
           \A n \in 0 .. last - 1 : n \in Q => n + 1 \in Q
    PROVE  0 .. last \subseteq Q
<1> DEFINE Less == OpToRel(<, Nat)
<1> DEFINE missing == (0 .. last) \ Q
<1>1. SUFFICES ASSUME missing # {} PROVE FALSE
    OBVIOUS
<1>2. missing \subseteq Nat
    OBVIOUS
<1>3. IsWellFoundedOn(Less, Nat)
    BY NatLessThanWellFounded, Zenon
<1>4. \A x, y \in Nat : y < x => <<y, x>> \in Less
    BY DEF OpToRel
<1> HIDE DEF Less
<1>5. \E x \in missing : \A y \in missing : ~(<<y, x>> \in Less)
    <2> HIDE DEF missing
    <2> QED BY <1>1, <1>2, <1>3, WFMin
<1>6. PICK x \in missing : \A y \in missing : ~(y < x)
    BY <1>2, <1>4, <1>5
<1>7. x # 0 /\ x - 1 \in 0 .. last - 1
    BY <1>6
<1>8. x - 1 \in Q
    BY <1>6, <1>7
<1> QED BY <1>6, <1>7, <1>8

-----------------------------------------------------------------------------
(* A function in which each value is a multiple of the one before it, and  *)
(* something more: the recursion of ValueIn.                               *)
Recursion(f, first, factor, more, last) ==
    f = [n \in 0 .. last |-> IF n = 0 THEN first ELSE factor[n] * f[n - 1] + more[n]]

LEMMA NaturalCombination ==
    ASSUME NEW a \in Nat, NEW b \in Nat, NEW c \in Nat
    PROVE  a * b + c \in Nat
<1>1. a * b \in Nat
    OBVIOUS
<1> QED BY <1>1

(* There is one: a value more for every step of the induction.             *)
LEMMA RecursionExists ==
    ASSUME NEW last \in Nat, NEW first \in Nat,
           NEW factor \in [1 .. last -> Nat], NEW more \in [1 .. last -> Nat]
    PROVE  \E f \in [0 .. last -> Nat] : Recursion(f, first, factor, more, last)
<1> DEFINE Q == {n \in 0 .. last : \E f \in [0 .. n -> Nat] : Recursion(f, first, factor, more, n)}
<1>1. 0 \in Q
    <2> DEFINE f == [n \in 0 .. 0 |-> first]
    <2>1. Recursion(f, first, factor, more, 0) /\ f \in [0 .. 0 -> Nat]
        BY DEF Recursion
    <2>2. 0 \in 0 .. last
        OBVIOUS
    <2> HIDE DEF f
    <2> QED BY <2>1, <2>2
<1>2. ASSUME NEW n \in 0 .. last - 1, n \in Q PROVE n + 1 \in Q
    <2>1. PICK f \in [0 .. n -> Nat] : Recursion(f, first, factor, more, n)
        BY <1>2
    <2> DEFINE new == factor[n + 1] * f[n] + more[n + 1]
               g == [k \in 0 .. n + 1 |-> IF k = n + 1 THEN new ELSE f[k]]
               body == [k \in 0 .. n + 1 |->
                           IF k = 0 THEN first ELSE factor[k] * g[k - 1] + more[k]]
    <2>2. \A k \in 0 .. n : f[k] = IF k = 0 THEN first ELSE factor[k] * f[k - 1] + more[k]
        BY <2>1 DEF Recursion
    <2>3. \A k \in 0 .. n : g[k] = f[k]
        BY <1>2
    <2>4. ASSUME NEW k \in 0 .. n + 1 PROVE g[k] = body[k]
        <3>1. CASE k = n + 1
            BY <3>1, <2>3, <1>2
        <3>2. CASE k \in 0 .. n /\ k # 0
            <4>1. k - 1 \in 0 .. n
                BY <3>2, <1>2
            <4> QED BY <3>2, <4>1, <2>2, <2>3
        <3>3. CASE k = 0
            BY <3>3, <2>2, <2>3, <1>2
        <3> QED BY <3>1, <3>2, <3>3, <1>2
    <2>5. Recursion(g, first, factor, more, n + 1)
        BY <2>4 DEF Recursion
    <2>6. new \in Nat
        <3>1. n + 1 \in 1 .. last /\ n \in 0 .. n
            BY <1>2
        <3>2. factor[n + 1] \in Nat /\ f[n] \in Nat /\ more[n + 1] \in Nat
            BY <2>1, <3>1
        <3> QED BY <3>2, NaturalCombination
    <2>7. g \in [0 .. n + 1 -> Nat]
        <3> HIDE DEF new
        <3> QED BY <1>2, <2>1, <2>6
    <2>8. n + 1 \in 0 .. last
        BY <1>2
    <2> HIDE DEF g
    <2> QED BY <2>5, <2>7, <2>8
<1>3. last \in Q
    <2> HIDE DEF Q
    <2>1. 0 .. last \subseteq Q
        BY <1>1, <1>2, PrefixInduction
    <2> QED BY <2>1
<1> QED BY <1>3

-----------------------------------------------------------------------------
(* The values of the prefixes of a text, as Horner's rule computes them.   *)
Horner(base, ds) ==
    CHOOSE v : v = [n \in 0 .. Len(ds) |-> IF n = 0 THEN 0 ELSE base * v[n - 1] + ds[n]]

LEMMA DigitsAreNaturals ==
    ASSUME NEW ds \in Seq(Digit)
    PROVE  Len(ds) \in Nat /\ ds \in [1 .. Len(ds) -> Nat]
BY DEF Digit

(* One digit at a time; every value is a natural number.                   *)
LEMMA HornerStep ==
    ASSUME NEW base \in Nat, NEW ds \in Seq(Digit)
    PROVE  LET v == Horner(base, ds)
           IN  /\ v[0] = 0
               /\ \A n \in 0 .. Len(ds) :
                      /\ v[n] \in Nat
                      /\ n # 0 => v[n] = base * v[n - 1] + ds[n]
<1> DEFINE L == Len(ds)
           factor == [n \in 1 .. L |-> base]
           Body(f) == [n \in 0 .. L |-> IF n = 0 THEN 0 ELSE base * f[n - 1] + ds[n]]
<1>1. L \in Nat /\ ds \in [1 .. L -> Nat] /\ factor \in [1 .. L -> Nat]
    BY DigitsAreNaturals
<1>2. PICK f \in [0 .. L -> Nat] : Recursion(f, 0, factor, ds, L)
    <2> HIDE DEF factor, L
    <2> QED BY <1>1, RecursionExists
<1>3. f = Body(f)
    <2> DEFINE g == [n \in 0 .. L |-> IF n = 0 THEN 0 ELSE factor[n] * f[n - 1] + ds[n]]
    <2>1. f = g
        BY <1>2 DEF Recursion
    <2>2. \A n \in 0 .. L : g[n] = Body(f)[n]
        BY <1>1
    <2>3. g = Body(f)
        BY <2>2
    <2> QED BY <2>1, <2>3
<1> DEFINE v == Horner(base, ds)
<1>4. v = Body(v)
    BY <1>3 DEF Horner
<1>5. v[0] = 0 /\ \A n \in 1 .. L : v[n] = base * v[n - 1] + ds[n]
    <2> HIDE DEF v, L
    <2>1. 0 \in 0 .. L /\ \A n \in 1 .. L : n \in 0 .. L /\ n # 0
        BY <1>1
    <2>2. \A n \in 0 .. L : v[n] = IF n = 0 THEN 0 ELSE base * v[n - 1] + ds[n]
        BY <1>4
    <2> QED BY <2>1, <2>2
<1> DEFINE Q == {n \in 0 .. L : v[n] \in Nat}
<1>6. ASSUME NEW n \in 0 .. L - 1, n \in Q PROVE n + 1 \in Q
    <2> HIDE DEF v, L
    <2>1. n + 1 \in 1 .. L /\ v[n + 1] = base * v[n] + ds[n + 1] /\ ds[n + 1] \in Nat
        BY <1>1, <1>5, <1>6
    <2>2. base * v[n] \in Nat
        BY <1>6
    <2> QED BY <1>1, <2>1, <2>2
<1>7. 0 .. L \subseteq Q
    <2>1. 0 \in Q
        BY <1>1, <1>5
    <2> HIDE DEF Q, L
    <2> QED BY <1>1, <1>6, <2>1, PrefixInduction
<1> HIDE DEF v
<1> QED BY <1>1, <1>5, <1>7 DEF v

LEMMA ValueIsHorner ==
    ASSUME NEW base \in Nat, NEW ds \in Seq(Digit)
    PROVE  ValueIn(base, ds) = Horner(base, ds)[Len(ds)] /\ ValueIn(base, ds) \in Nat
<1>1. Len(ds) \in 0 .. Len(ds)
    OBVIOUS
<1>2. ValueIn(base, ds) = Horner(base, ds)[Len(ds)]
    BY DEF ValueIn, Horner
<1> QED BY <1>1, <1>2, HornerStep

LEMMA EightBelowTen ==
    ASSUME NEW a \in Nat, NEW b \in Nat, NEW c \in Nat, a <= b, b > 0 => a > 0
    PROVE  8 * a + c <= 10 * b + c /\ (10 * b + c > 0 => 8 * a + c > 0)
OBVIOUS

(* Octal is never above decimal, and 0 only where decimal is: of every     *)
(* prefix, and so of the text.                                             *)
LEMMA OctalBelowDecimal ==
    ASSUME NEW ds \in Seq(Digit)
    PROVE  /\ ValueIn(8, ds) <= ValueIn(10, ds)
           /\ ValueIn(10, ds) > 0 => ValueIn(8, ds) > 0
<1> DEFINE v == Horner(8, ds)
           w == Horner(10, ds)
           Q == {n \in 0 .. Len(ds) : v[n] <= w[n] /\ (w[n] > 0 => v[n] > 0)}
<1>1. /\ v[0] = 0 /\ w[0] = 0
      /\ \A n \in 0 .. Len(ds) :
             /\ v[n] \in Nat /\ w[n] \in Nat
             /\ n # 0 => v[n] = 8 * v[n - 1] + ds[n] /\ w[n] = 10 * w[n - 1] + ds[n]
    BY HornerStep
<1> HIDE DEF v, w
<1>2. Len(ds) \in Nat /\ \A n \in 1 .. Len(ds) : ds[n] \in Nat
    BY DEF Digit
<1>3. 0 \in Q
    BY <1>1, <1>2
<1>4. ASSUME NEW n \in 0 .. Len(ds) - 1, n \in Q PROVE n + 1 \in Q
    <2>1. n + 1 \in 1 .. Len(ds) /\ n + 1 \in 0 .. Len(ds) /\ n \in 0 .. Len(ds)
        BY <1>2
    <2>2. v[n + 1] = 8 * v[n] + ds[n + 1] /\ w[n + 1] = 10 * w[n] + ds[n + 1]
        BY <1>1, <1>2, <2>1
    <2>3. v[n] \in Nat /\ w[n] \in Nat /\ ds[n + 1] \in Nat
        BY <1>1, <1>2, <2>1
    <2>4. v[n] <= w[n] /\ (w[n] > 0 => v[n] > 0)
        BY <1>4
    <2>5. v[n + 1] <= w[n + 1] /\ (w[n + 1] > 0 => v[n + 1] > 0)
        BY <2>2, <2>3, <2>4, EightBelowTen
    <2> QED BY <2>1, <2>5
<1>5. Len(ds) \in Q
    <2> HIDE DEF Q
    <2>1. 0 .. Len(ds) \subseteq Q
        BY <1>2, <1>3, <1>4, PrefixInduction
    <2> QED BY <1>2, <2>1
<1> QED BY <1>5, ValueIsHorner DEF v, w

-----------------------------------------------------------------------------
(* A value that fits the word is kept; another that fits two is moved down *)
(* by one.                                                                 *)
LEMMA WrapOfNatural ==
    ASSUME NEW v \in Nat, v < 2 * HalfWord
    PROVE  Wrap(v) = IF v < HalfWord THEN v ELSE v - 2 * HalfWord
BY HalfWordAssumption, SMTT(60) DEF HalfWordAssumption, Wrap

(* Taking away a multiple of the width of a cell does not change the cell. *)
LEMMA SameCell ==
    ASSUME NEW v \in Nat, NEW w \in Nat, NEW c \in Nat \ {0}, w % c = 0
    PROVE  (v - w) % c = v % c
<1> DEFINE q == v \div c
           r == v % c
           k == w \div c
<1>1. q \in Int /\ r \in 0 .. c - 1 /\ v = c * q + r
    OBVIOUS
<1>2. k \in Int /\ w = c * k
    OBVIOUS
<1>3. v - w = c * (q - k) + r /\ q - k \in Int
    <2> HIDE DEF q, r, k
    <2> QED BY <1>1, <1>2
<1>4. (c * (q - k) + r) % c = r
    <2> HIDE DEF q, r, k
    <2> QED BY <1>1, <1>2, <1>3
<1> QED BY <1>3, <1>4

LEMMA BaseIsEightOrTen ==
    ASSUME NEW ds \in Seq(Digit)
    PROVE  /\ Base(ds) \in {8, 10}
           /\ ValueIn(Base(ds), ds) \in Nat
           /\ ValueIn(10, ds) \in Nat
           /\ ValueIn(Base(ds), ds) <= ValueIn(10, ds)
           /\ ValueIn(10, ds) > 0 => ValueIn(Base(ds), ds) > 0
<1>1. ValueIn(8, ds) \in Nat /\ ValueIn(10, ds) \in Nat
    BY ValueIsHorner
<1>2. Base(ds) = 8 \/ Base(ds) = 10
    BY DEF Base
<1>3. CASE Base(ds) = 8
    BY <1>1, <1>3, OctalBelowDecimal
<1>4. CASE Base(ds) = 10
    BY <1>1, <1>4
<1> QED BY <1>2, <1>3, <1>4

(* What [ ] reads, it reads below the limit of the word.                   *)
LEMMA TestReads ==
    ASSUME NEW ds \in Seq(Digit)
    PROVE  /\ TestReading(ds) \in Nat \cup {Unreadable}
           /\ TestReading(ds) # Unreadable =>
                 TestReading(ds) = ValueIn(10, ds) /\ ValueIn(10, ds) < HalfWord
BY ValueIsHorner DEF TestReading

(* $(( )) does not wrap what [ ] can read.                                 *)
LEMMA ArithReads ==
    ASSUME NEW ds \in Seq(Digit)
    PROVE  /\ ArithReading(ds) \in Int \cup {Unreadable}
           /\ ArithReading(ds) = Unreadable <=> ~FitsBase(ds)
           /\ FitsBase(ds) /\ ValueIn(10, ds) < HalfWord =>
                 ArithReading(ds) = ValueIn(Base(ds), ds)
<1> DEFINE v == ValueIn(Base(ds), ds)
<1>1. v \in Nat /\ v <= ValueIn(10, ds) /\ ValueIn(10, ds) \in Nat
    BY BaseIsEightOrTen
<1> HIDE DEF v
<1>2. HalfWord \in Nat \ {0} /\ Unreadable \notin Int
    BY HalfWordAssumption, CellAssumption DEF HalfWordAssumption, CellAssumption
<1>3. Wrap(v) \in Int
    BY <1>1, <1>2 DEF Wrap
<1>4. ValueIn(10, ds) < HalfWord => Wrap(v) = v
    <2>1. HAVE ValueIn(10, ds) < HalfWord
    <2>2. v < HalfWord /\ v < 2 * HalfWord
        BY <1>1, <1>2, <2>1
    <2> QED BY <1>1, <2>2, WrapOfNatural
<1>5. ArithReading(ds) = IF FitsBase(ds) THEN Wrap(v) ELSE Unreadable
    BY DEF ArithReading, v
<1> QED BY <1>2, <1>3, <1>4, <1>5 DEF v

-----------------------------------------------------------------------------
(* Only digits are typed.                                                  *)
LEMMA TextsAreDigits == Spec => [](text \in Seq(Digit))
<1>1. Init => text \in Seq(Digit)
    BY DEF Init
<1>2. text \in Seq(Digit) /\ [Next]_text => (text \in Seq(Digit))'
    BY DEF Next, TypeDigit
<1> QED BY <1>1, <1>2, PTL DEF Spec

LEMMA OctalOfDigits == text \in Seq(Digit) => OctalNotAboveDecimal
<1> SUFFICES ASSUME text \in Seq(Digit), TestReading(text) # Unreadable,
                    ArithReading(text) # Unreadable
             PROVE  /\ ArithReading(text) <= TestReading(text)
                    /\ TestReading(text) > 0 => ArithReading(text) > 0
    BY DEF OctalNotAboveDecimal
<1>1. TestReading(text) = ValueIn(10, text) /\ ValueIn(10, text) < HalfWord
    BY TestReads
<1>2. ArithReading(text) = ValueIn(Base(text), text)
    BY <1>1, ArithReads
<1> QED BY <1>1, <1>2, BaseIsEightOrTen

LEMMA PlainOfDigits == text \in Seq(Digit) => PlainTextsAgree
<1> SUFFICES ASSUME text \in Seq(Digit), ~HasLeadingZero(text),
                    TestReading(text) # Unreadable
             PROVE  /\ ArithReading(text) = TestReading(text)
                    /\ CellReading(text) = TestReading(text) % CellSize
    BY DEF PlainTextsAgree
<1>1. Base(text) = 10 /\ FitsBase(text)
    BY DEF Base, FitsBase, Digit
<1>2. /\ TestReading(text) = ValueIn(10, text) /\ ValueIn(10, text) < HalfWord
      /\ ValueIn(10, text) \in Nat
    BY TestReads, ValueIsHorner
<1>3. ValueIn(10, text) < 2 * HalfWord
    BY <1>2, HalfWordAssumption DEF HalfWordAssumption
<1> QED BY <1>1, <1>2, <1>3, ArithReads DEF CellReading

LEMMA CellOfDigits == text \in Seq(Digit) => ShellAndCellAgree
<1> SUFFICES ASSUME text \in Seq(Digit)
             PROVE  /\ ArithReading(text) = Unreadable => CellReading(text) = Unreadable
                    /\ ArithReading(text) # Unreadable /\ CellReading(text) # Unreadable =>
                          ArithReading(text) % CellSize = CellReading(text)
    BY DEF ShellAndCellAgree
<1> DEFINE v == ValueIn(Base(text), text)
<1>1. v \in Nat
    BY BaseIsEightOrTen
<1>2. ArithReading(text) = Unreadable => CellReading(text) = Unreadable
    BY ArithReads DEF CellReading
<1>3. ASSUME ArithReading(text) # Unreadable, CellReading(text) # Unreadable
      PROVE  ArithReading(text) % CellSize = CellReading(text)
    <2>1. FitsBase(text) /\ v < 2 * HalfWord /\ CellReading(text) = v % CellSize
        BY <1>3 DEF CellReading
    <2>2. ArithReading(text) = Wrap(v)
        BY <2>1 DEF ArithReading
    <2> HIDE DEF v
    <2>3. Wrap(v) = IF v < HalfWord THEN v ELSE v - 2 * HalfWord
        BY <1>1, <2>1, WrapOfNatural
    <2>4. (v - 2 * HalfWord) % CellSize = v % CellSize
        <3>1. /\ 2 * HalfWord \in Nat /\ CellSize \in Nat \ {0}
              /\ (2 * HalfWord) % CellSize = 0
            BY HalfWordAssumption, CellAssumption DEF HalfWordAssumption, CellAssumption
        <3> QED BY <1>1, <3>1, SameCell
    <2> QED BY <2>1, <2>2, <2>3, <2>4
<1> QED BY <1>2, <1>3

-----------------------------------------------------------------------------
(* For every text, however long, and every width of the word: what passes  *)
(* the bound of the menus in [ ] is not larger in $(( )), and not 0.       *)
THEOREM OctalNeverAboveDecimal == Spec => []OctalNotAboveDecimal
<1>1. text \in Seq(Digit) => OctalNotAboveDecimal
    BY OctalOfDigits
<1> QED BY <1>1, TextsAreDigits, PTL

(* Without a leading zero the value checked, the value added and the cell  *)
(* written are one.                                                        *)
THEOREM PlainTextsMeanOneValue == Spec => []PlainTextsAgree
<1>1. text \in Seq(Digit) => PlainTextsAgree
    BY PlainOfDigits
<1> QED BY <1>1, TextsAreDigits, PTL

(* fdtput refuses what $(( )) refuses, and otherwise stores its low bits.  *)
THEOREM ShellAndCellsAgree == Spec => []ShellAndCellAgree
<1>1. text \in Seq(Digit) => ShellAndCellAgree
    BY CellOfDigits
<1> QED BY <1>1, TextsAreDigits, PTL

(* What OcMenu assumes of the two readings (ReadersAssumption) is true of  *)
(* the readings of the shell, for every set of texts.                      *)
THEOREM ReadersAreAsAssumed ==
    ASSUME NEW texts, NEW digits \in [texts -> Seq(Digit)]
    PROVE  LET TestValue == [t \in texts |-> TestReading(digits[t])]
               ArithValue == [t \in texts |-> ArithReading(digits[t])]
           IN  /\ Unreadable \notin Int
               /\ TestValue \in [texts -> Nat \cup {Unreadable}]
               /\ ArithValue \in [texts -> Int \cup {Unreadable}]
               /\ \A t \in texts :
                     (TestValue[t] # Unreadable /\ ArithValue[t] # Unreadable)
                        => /\ TestValue[t] > 0 => ArithValue[t] > 0
                           /\ ArithValue[t] <= TestValue[t]
<1>1. \A t \in texts : digits[t] \in Seq(Digit)
    OBVIOUS
<1>2. ASSUME NEW ds \in Seq(Digit)
      PROVE  /\ TestReading(ds) \in Nat \cup {Unreadable}
             /\ ArithReading(ds) \in Int \cup {Unreadable}
             /\ TestReading(ds) # Unreadable /\ ArithReading(ds) # Unreadable
                   => /\ TestReading(ds) > 0 => ArithReading(ds) > 0
                      /\ ArithReading(ds) <= TestReading(ds)
    <2>1. TestReading(ds) \in Nat \cup {Unreadable} /\ ArithReading(ds) \in Int \cup {Unreadable}
        BY TestReads, ArithReads
    <2>2. ASSUME TestReading(ds) # Unreadable, ArithReading(ds) # Unreadable
          PROVE  TestReading(ds) = ValueIn(10, ds) /\ ArithReading(ds) = ValueIn(Base(ds), ds)
        BY <2>2, TestReads, ArithReads
    <2> QED BY <2>1, <2>2, BaseIsEightOrTen
<1> QED BY <1>1, <1>2, CellAssumption DEF CellAssumption

=============================================================================

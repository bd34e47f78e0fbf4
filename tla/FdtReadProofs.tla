--------------------------- MODULE FdtReadProofs ----------------------------
(***************************************************************************)
(* What is read of a blob: memory after a copy, a move and a splice, the   *)
(* marks that cover the structure, and the tags, paths, names and values   *)
(* that the readers of fdt_ro.c find at them, before and after an edit.    *)
(***************************************************************************)
EXTENDS FdtMarks, SequenceTheorems, FiniteSetTheorems, WellFoundedInduction, TLAPS

(* The assumption on the constants, without what it says of the blobs.     *)
LEMMA Constants ==
    /\ TAGSIZE \in Nat /\ TAGSIZE >= 1
    /\ Names \subseteq Seq(Nat \ {0}) /\ Values \subseteq Seq(Nat)
    /\ Sizes \subseteq Nat /\ Growths \subseteq Nat
BY FdtAssumption DEF FdtAssumption

-----------------------------------------------------------------------------
(* Multiples of the size of a tag.                                         *)
LEMMA Multiples ==
    \A q, n \in Nat : /\ q * TAGSIZE \in Nat
                      /\ (q + n) * TAGSIZE = q * TAGSIZE + n * TAGSIZE
                      /\ q <= n => q * TAGSIZE <= n * TAGSIZE
                      /\ q < n => q * TAGSIZE + TAGSIZE <= n * TAGSIZE
                      /\ q <= q * TAGSIZE
<1> SUFFICES ASSUME NEW q \in Nat, NEW n \in Nat
             PROVE  /\ q * TAGSIZE \in Nat
                    /\ (q + n) * TAGSIZE = q * TAGSIZE + n * TAGSIZE
                    /\ q <= n => q * TAGSIZE <= n * TAGSIZE
                    /\ q < n => q * TAGSIZE + TAGSIZE <= n * TAGSIZE
                    /\ q <= q * TAGSIZE
    OBVIOUS
<1> DEFINE t == TAGSIZE
<1>1. t \in Nat /\ t >= 1 BY Constants
<1> HIDE DEF t
<1>2. q * t \in Nat BY <1>1
<1>3. (q + n) * t = q * t + n * t BY <1>1
<1>4. ASSUME NEW d \in Nat PROVE d * t >= 0 /\ (d >= 1 => d * t >= t) /\ d * t >= d
    BY <1>1
<1>5. q <= n => q * t <= n * t
  <2>1. q <= n => n * t = q * t + (n - q) * t /\ n - q \in Nat BY <1>1
  <2> QED BY <1>1, <1>2, <1>4, <2>1
<1>6. q < n => q * t + t <= n * t
  <2>1. q < n => n * t = q * t + (n - q) * t /\ n - q \in Nat /\ n - q >= 1 BY <1>1
  <2> QED BY <1>1, <1>2, <1>4, <2>1
<1> QED BY <1>2, <1>3, <1>4, <1>5, <1>6 DEF t

(* FDT_TAGALIGN rounds up, to a multiple.                                  *)
LEMMA AlignIs ==
    ASSUME NEW x \in Nat
    PROVE  /\ FDT_TAGALIGN(x) \in Nat /\ FDT_TAGALIGN(x) >= x
           /\ \E q \in Nat : FDT_TAGALIGN(x) = q * TAGSIZE
           /\ x > 0 => FDT_TAGALIGN(x) >= TAGSIZE
<1> DEFINE t == TAGSIZE
           y == x + t - 1
           q == y \div t
<1>1. t \in Nat /\ t >= 1 BY Constants
<1> HIDE DEF t
<1>2. y \in Nat BY <1>1
<1> HIDE DEF y
<1>3. q \in Nat /\ y % t \in 0 .. t - 1 /\ y = t * q + (y % t)
    BY <1>1, <1>2
<1>4. FDT_TAGALIGN(x) = q * t BY DEF FDT_TAGALIGN, t, y
<1>5. t * q = q * t BY <1>1, <1>3
<1> HIDE DEF q
<1>6. q * t \in Nat BY <1>1, <1>3
<1>7. q * t >= x BY <1>1, <1>3, <1>5, <1>6 DEF y
<1>8. x > 0 => q >= 1
  <2> SUFFICES ASSUME x > 0, q = 0 PROVE FALSE
      BY <1>3
  <2>1. q * t = 0 BY <1>1
  <2> QED BY <1>7, <2>1
<1>9. q >= 1 => q * t >= t
  <2>1. q >= 1 => 1 * t <= q * t BY <1>3, Multiples DEF t
  <2> QED BY <1>1, <2>1
<1> QED BY <1>3, <1>4, <1>6, <1>7, <1>8, <1>9 DEF t

(* More bytes never take less room.                                        *)
LEMMA AlignMonotonic ==
    ASSUME NEW x \in Nat, NEW y \in Nat, x <= y
    PROVE  FDT_TAGALIGN(x) <= FDT_TAGALIGN(y)
<1> DEFINE t == TAGSIZE
<1>1. t \in Nat /\ t >= 1 BY Constants
<1> HIDE DEF t
<1>2. (x + t - 1) \div t \in Nat /\ (y + t - 1) \div t \in Nat
      /\ (x + t - 1) \div t <= (y + t - 1) \div t
  <2>1. x + t - 1 \in Nat /\ y + t - 1 \in Nat /\ x + t - 1 <= y + t - 1 BY <1>1
  <2>2. \A m, n \in Nat : m <= n => m \div t \in Nat /\ n \div t \in Nat /\ m \div t <= n \div t
      BY <1>1
  <2> QED BY <2>1, <2>2
<1>3. \A m, n \in Nat : m <= n => m * t <= n * t BY Multiples DEF t
<1> QED BY <1>2, <1>3 DEF FDT_TAGALIGN, t

(* A multiple goes through FDT_TAGALIGN unchanged.                         *)
LEMMA AlignShift ==
    ASSUME NEW x \in Int, NEW q \in Int
    PROVE  FDT_TAGALIGN(x + q * TAGSIZE) = FDT_TAGALIGN(x) + q * TAGSIZE
<1> DEFINE t == TAGSIZE
<1>1. t \in Nat /\ t >= 1 BY Constants
<1> HIDE DEF t
<1>2. (x + q * t + t - 1) \div t = ((x + t - 1) \div t) + q
    BY <1>1
<1>3. (x + t - 1) \div t \in Int BY <1>1
<1>4. \A m \in Int : (m + q) * t = m * t + q * t BY <1>1
<1> QED BY <1>2, <1>3, <1>4 DEF FDT_TAGALIGN, t

-----------------------------------------------------------------------------
(* Memory: what a write and a splice leave where.                          *)
LEMMA MemcpyIs ==
    ASSUME NEW mem \in Seq(Byte), NEW bytes \in Seq(Byte), NEW to \in Nat,
           to + Len(bytes) <= Len(mem)
    PROVE  /\ memcpy(mem, to, bytes) \in Seq(Byte)
           /\ Len(memcpy(mem, to, bytes)) = Len(mem)
           /\ \A x \in 1 .. Len(mem) :
                 memcpy(mem, to, bytes)[x] =
                     IF x <= to THEN mem[x]
                     ELSE IF x <= to + Len(bytes) THEN bytes[x - to] ELSE mem[x]
<1> DEFINE n == Len(bytes)
           l == Len(mem)
           left == SubSeq(mem, 1, to)
           right == SubSeq(mem, to + n + 1, l)
<1>1. n \in Nat /\ l \in Nat /\ to + n <= l
    BY LenProperties
<1>2. left \in Seq(Byte) /\ Len(left) = to /\ \A i \in 1 .. to : left[i] = mem[i]
  <2>1. \A i \in 1 .. to : mem[i] \in Byte
      BY <1>1, ElementOfSeq
  <2> QED BY <1>1, <2>1, SubSeqProperties
<1>3. right \in Seq(Byte) /\ Len(right) = l - (to + n)
      /\ \A i \in 1 .. l - (to + n) : right[i] = mem[to + n + i]
  <2>1. \A i \in to + n + 1 .. l : mem[i] \in Byte
    <3>1. \A i \in to + n + 1 .. l : i \in 1 .. Len(mem) BY <1>1
    <3> QED BY <3>1, ElementOfSeq
  <2>2. /\ right \in Seq(Byte)
        /\ Len(right) = (IF to + n + 1 <= l THEN l - (to + n + 1) + 1 ELSE 0)
        /\ \A i \in 1 .. l - (to + n + 1) + 1 : right[i] = mem[(to + n + 1) + i - 1]
      BY <1>1, <2>1, SubSeqProperties
  <2>3. Len(right) = l - (to + n) BY <1>1, <2>2
  <2>4. ASSUME NEW i \in 1 .. l - (to + n) PROVE right[i] = mem[to + n + i]
    <3>1. i \in 1 .. l - (to + n + 1) + 1 /\ (to + n + 1) + i - 1 = to + n + i BY <1>1
    <3> QED BY <2>2, <3>1
  <2> QED BY <2>2, <2>3, <2>4
<1>4. memcpy(mem, to, bytes) = (left \o bytes) \o right
    BY DEF memcpy
<1> HIDE DEF left, right
<1>5. left \o bytes \in Seq(Byte) /\ Len(left \o bytes) = to + n
      /\ \A i \in 1 .. to + n : (left \o bytes)[i] = IF i <= to THEN left[i] ELSE bytes[i - to]
    BY <1>2, ConcatProperties
<1> DEFINE both == left \o bytes
<1> HIDE DEF both
<1>6. both \o right \in Seq(Byte) /\ Len(both \o right) = Len(both) + Len(right)
      /\ \A i \in 1 .. Len(both) + Len(right) :
            (both \o right)[i] = IF i <= Len(both) THEN both[i] ELSE right[i - Len(both)]
  <2>1. both \in Seq(Byte) /\ right \in Seq(Byte) BY <1>3, <1>5 DEF both
  <2> QED BY <2>1, ConcatProperties
<1>7. Len(both) = to + n /\ Len(both) + Len(right) = l
    BY <1>1, <1>3, <1>5 DEF both
<1>8. ASSUME NEW x \in 1 .. l
      PROVE (both \o right)[x] =
                IF x <= to THEN mem[x] ELSE IF x <= to + n THEN bytes[x - to] ELSE mem[x]
  <2>1. CASE x <= to
    <3>1. x \in 1 .. to /\ x \in 1 .. to + n /\ x <= to + n BY <1>1, <2>1
    <3> QED BY <1>2, <1>5, <1>6, <1>7, <3>1 DEF both
  <2>2. CASE ~(x <= to) /\ x <= to + n
    <3>1. x \in 1 .. to + n BY <1>1, <2>2
    <3> QED BY <1>5, <1>6, <1>7, <2>2, <3>1 DEF both
  <2>3. CASE ~(x <= to + n)
    <3>1. x - (to + n) \in 1 .. l - (to + n) /\ to + n + (x - (to + n)) = x /\ ~(x <= to) BY <1>1, <2>3
    <3>2. right[x - (to + n)] = mem[x] BY <1>3, <3>1
    <3> QED BY <1>6, <1>7, <2>3, <3>1, <3>2
  <2> QED BY <1>1, <2>1, <2>2, <2>3
<1> QED BY <1>4, <1>6, <1>7, <1>8 DEF both

(* memmove, likewise, also when what is moved overlaps.                    *)
LEMMA MemmoveIs ==
    ASSUME NEW mem \in Seq(Byte), NEW to \in Nat, NEW from \in Nat, NEW n \in Nat,
           to + n <= Len(mem), from + n <= Len(mem)
    PROVE  /\ memmove(mem, to, from, n) \in Seq(Byte)
           /\ Len(memmove(mem, to, from, n)) = Len(mem)
           /\ \A x \in 1 .. Len(mem) :
                 memmove(mem, to, from, n)[x] =
                     IF x <= to THEN mem[x]
                     ELSE IF x <= to + n THEN mem[from + (x - to)] ELSE mem[x]
<1> DEFINE part == SubSeq(mem, from + 1, from + n)
<1>0. Len(mem) \in Nat BY LenProperties
<1>1. \A i \in from + 1 .. from + n : mem[i] \in Byte
  <2>1. \A i \in from + 1 .. from + n : i \in 1 .. Len(mem) BY <1>0
  <2> QED BY <2>1, ElementOfSeq
<1>2. part \in Seq(Byte)
      /\ Len(part) = (IF from + 1 <= from + n THEN (from + n) - (from + 1) + 1 ELSE 0)
      /\ \A i \in 1 .. (from + n) - (from + 1) + 1 : part[i] = mem[(from + 1) + i - 1]
    BY <1>1, SubSeqProperties
<1>3. Len(part) = n BY <1>2
<1>4. ASSUME NEW i \in 1 .. n PROVE part[i] = mem[from + i]
  <2>1. i \in 1 .. (from + n) - (from + 1) + 1 /\ (from + 1) + i - 1 = from + i OBVIOUS
  <2> QED BY <1>2, <2>1
<1> HIDE DEF part
<1>5. /\ memcpy(mem, to, part) \in Seq(Byte)
      /\ Len(memcpy(mem, to, part)) = Len(mem)
      /\ \A x \in 1 .. Len(mem) :
            memcpy(mem, to, part)[x] =
                IF x <= to THEN mem[x] ELSE IF x <= to + n THEN part[x - to] ELSE mem[x]
    BY <1>2, <1>3, MemcpyIs
<1>6. ASSUME NEW x \in 1 .. Len(mem), ~(x <= to), x <= to + n
      PROVE  part[x - to] = mem[from + (x - to)]
  <2>1. x - to \in 1 .. n BY <1>0, <1>6
  <2> QED BY <1>4, <2>1
<1>7. memmove(mem, to, from, n) = memcpy(mem, to, part) BY DEF memmove, part
<1> QED BY <1>5, <1>6, <1>7

(* The type of a blob, and the length of its memory.                       *)
Whole(b) == b \in BlobType /\ Len(b.mem) = b.total

(* The fields of such a blob, and its memory, have their types.            *)
LEMMA Fields ==
    ASSUME NEW b, Whole(b)
    PROVE  /\ b.mem \in Seq(Byte) /\ Len(b.mem) = b.total
           /\ b.rsv \in Nat /\ b.struct \in Nat /\ b.nstruct \in Nat
           /\ b.strings \in Nat /\ b.nstrings \in Nat /\ b.total \in Nat
           /\ DataSize(b) = b.strings + b.nstrings /\ DataSize(b) \in Nat
           /\ \A x \in 0 .. b.total - 1 : At(b, x) \in Byte
<1>1. /\ b.mem \in Seq(Byte) /\ Len(b.mem) = b.total
      /\ b.rsv \in Nat /\ b.struct \in Nat /\ b.nstruct \in Nat
      /\ b.strings \in Nat /\ b.nstrings \in Nat /\ b.total \in Nat
    BY DEF Whole, BlobType
<1>2. DataSize(b) = b.strings + b.nstrings /\ DataSize(b) \in Nat
    BY <1>1 DEF DataSize
<1>3. ASSUME NEW x \in 0 .. b.total - 1 PROVE At(b, x) \in Byte
  <2>1. x + 1 \in 1 .. Len(b.mem) BY <1>1
  <2> QED BY <1>1, <2>1, ElementOfSeq DEF At
<1> QED BY <1>1, <1>2, <1>3

(* The blocks are in order and apart, as inequalities.                     *)
LEMMA LayoutIs ==
    ASSUME NEW b, Layout(b)
    PROVE  /\ Whole(b) /\ b.rsv <= b.struct /\ b.struct + b.nstruct <= b.strings
           /\ b.strings + b.nstrings <= b.total /\ DataSize(b) = b.strings + b.nstrings
BY Fields DEF Layout, Whole, DataSize

(* A function on 1 .. n is a sequence of length n.                         *)
LEMMA LengthIs ==
    ASSUME NEW S, NEW n \in Nat, NEW s \in [1 .. n -> S]
    PROVE  s \in Seq(S) /\ Len(s) = n
<1>1. s \in Seq(S) BY SeqDef
<1> QED BY <1>1, LenProperties

(* A write changes the bytes it is given and no field.                     *)
LEMMA WriteIs ==
    ASSUME NEW b, Whole(b), NEW n \in Nat, NEW at \in Nat, at + n <= b.total,
           NEW bytes \in [1 .. n -> Byte]
    PROVE  LET c == Write(b, at, bytes)
           IN  /\ Whole(c)
               /\ c.rsv = b.rsv /\ c.struct = b.struct /\ c.nstruct = b.nstruct
               /\ c.strings = b.strings /\ c.nstrings = b.nstrings /\ c.total = b.total
               /\ \A x \in 0 .. b.total - 1 :
                     At(c, x) = IF at <= x /\ x < at + n THEN bytes[x - at + 1] ELSE At(b, x)
<1> DEFINE m == memcpy(b.mem, at, bytes)
           c == Write(b, at, bytes)
<1>1. b.mem \in Seq(Byte) /\ Len(b.mem) = b.total /\ b.total \in Nat
      /\ bytes \in Seq(Byte) /\ Len(bytes) = n
    BY Fields, LengthIs
<1>2. /\ m \in Seq(Byte) /\ Len(m) = Len(b.mem)
      /\ \A x \in 1 .. Len(b.mem) :
            m[x] = IF x <= at THEN b.mem[x]
                   ELSE IF x <= at + n THEN bytes[x - at] ELSE b.mem[x]
    BY <1>1, MemcpyIs
<1> HIDE DEF m
<1>3. c = [b EXCEPT !.mem = m]
    BY DEF Write, m
<1> HIDE DEF c
<1>4. /\ c \in BlobType /\ c.mem = m
      /\ c.rsv = b.rsv /\ c.struct = b.struct /\ c.nstruct = b.nstruct
      /\ c.strings = b.strings /\ c.nstrings = b.nstrings /\ c.total = b.total
    BY <1>2, <1>3 DEF Whole, BlobType
<1>5. Whole(c) BY <1>1, <1>2, <1>4 DEF Whole
<1>6. ASSUME NEW x \in 0 .. b.total - 1
      PROVE  At(c, x) = IF at <= x /\ x < at + n THEN bytes[x - at + 1] ELSE At(b, x)
  <2>1. x + 1 \in 1 .. Len(b.mem) /\ (x + 1) - at = x - at + 1
        /\ (x + 1 <= at <=> ~(at <= x)) /\ (x + 1 <= at + n <=> x < at + n)
      BY <1>1
  <2>2. At(c, x) = m[x + 1] /\ At(b, x) = b.mem[x + 1] BY <1>4 DEF At
  <2> QED BY <1>2, <2>1, <2>2
<1> QED BY <1>4, <1>5, <1>6 DEF c

(* What is at p + old moves to p + new, with all that is behind it; what   *)
(* is before p + new stays, whether it is free now or not.                 *)
LEMMA SpliceIs ==
    ASSUME NEW b, Layout(b), NEW p \in Nat, NEW old \in Nat, NEW new \in Nat,
           p + old <= DataSize(b), DataSize(b) + new - old <= b.total
    PROVE  /\ Splice(b, p, old, new) \in Seq(Byte) /\ Len(Splice(b, p, old, new)) = b.total
           /\ \A x \in 0 .. p + new - 1 : Splice(b, p, old, new)[x + 1] = At(b, x)
           /\ \A x \in p + old .. DataSize(b) - 1 :
                 Splice(b, p, old, new)[(x + new - old) + 1] = At(b, x)
<1> DEFINE n == DataSize(b) - (p + old)
           m == memmove(b.mem, p + new, p + old, n)
<1>1. /\ b.mem \in Seq(Byte) /\ Len(b.mem) = b.total /\ b.total \in Nat /\ DataSize(b) \in Nat
      /\ DataSize(b) <= b.total
    BY LayoutIs, Fields
<1>2. p + new \in Nat /\ p + old \in Nat /\ n \in Nat /\ (p + new) + n <= Len(b.mem)
      /\ (p + old) + n <= Len(b.mem)
    BY <1>1
<1>3. /\ m \in Seq(Byte) /\ Len(m) = Len(b.mem)
      /\ \A x \in 1 .. Len(b.mem) :
            m[x] = IF x <= p + new THEN b.mem[x]
                   ELSE IF x <= (p + new) + n THEN b.mem[(p + old) + (x - (p + new))] ELSE b.mem[x]
    <2> HIDE DEF n
    <2> QED BY <1>1, <1>2, MemmoveIs
<1>4. Splice(b, p, old, new) = m BY DEF Splice
<1> HIDE DEF m
<1>5. ASSUME NEW x \in 0 .. p + new - 1 PROVE m[x + 1] = At(b, x)
  <2>1. x + 1 \in 1 .. Len(b.mem) /\ x + 1 <= p + new BY <1>1, <1>2
  <2> QED BY <1>3, <2>1 DEF At
<1>6. ASSUME NEW x \in p + old .. DataSize(b) - 1 PROVE m[(x + new - old) + 1] = At(b, x)
  <2> DEFINE y == (x + new - old) + 1
  <2>1. y \in 1 .. Len(b.mem) /\ ~(y <= p + new) /\ y <= (p + new) + n
        /\ (p + old) + (y - (p + new)) = x + 1
      BY <1>1, <1>2
  <2> HIDE DEF y, n
  <2>2. m[y] = b.mem[x + 1] BY <1>3, <2>1
  <2> QED BY <2>2 DEF y, At
<1> QED BY <1>1, <1>3, <1>4, <1>5, <1>6

(* The same, of a memory m.                                                *)
MemSpliced(b, p, old, new, m) ==
    /\ m \in Seq(Byte) /\ Len(m) = b.total
    /\ \A x \in 0 .. p + new - 1 : m[x + 1] = At(b, x)
    /\ \A x \in p + old .. DataSize(b) - 1 : m[(x + new - old) + 1] = At(b, x)

(* fdt_splice_, of the memory that it leaves.                              *)
LEMMA MemSplicedIs ==
    ASSUME NEW b, Layout(b), NEW p \in Nat, NEW old \in Nat, NEW new \in Nat,
           p + old <= DataSize(b), DataSize(b) + new - old <= b.total,
           NEW m, m = Splice(b, p, old, new)
    PROVE  MemSpliced(b, p, old, new, m)
BY SpliceIs DEF MemSpliced

-----------------------------------------------------------------------------
(* The blocks, byte by byte, wherever they are.                            *)
StructAt(b, x) == At(b, b.struct + x)
StringsAt(b, x) == At(b, b.strings + x)

(* The reserved regions stay where they are.                               *)
SameFront(b, c) ==
    /\ c.rsv = b.rsv /\ c.struct = b.struct
    /\ \A x \in 0 .. b.struct - 1 : At(c, x) = At(b, x)

(* The strings stay, or there are more of them.                            *)
MoreStrings(b, c) ==
    /\ c.nstrings >= b.nstrings
    /\ \A x \in 0 .. b.nstrings - 1 : StringsAt(c, x) = StringsAt(b, x)

(* The structure before the offset x stays, and from y on it moves by d.   *)
Edited(b, c, x, y, d) ==
    /\ c.nstruct = b.nstruct + d
    /\ \A z \in 0 .. x - 1 : StructAt(c, z) = StructAt(b, z)
    /\ \A z \in y .. b.nstruct - 1 : StructAt(c, z + d) = StructAt(b, z)

SameStruct(b, c) ==
    c.nstruct = b.nstruct /\ \A z \in 0 .. b.nstruct - 1 : StructAt(c, z) = StructAt(b, z)

(* Room for d more bytes, as fdt_splice_ asks for it.                      *)
LEMMA FitsIs ==
    ASSUME NEW b, Whole(b), NEW d \in Int
    PROVE  Fits(b, d) <=> b.strings + b.nstrings + d <= b.total
BY Fields DEF Fits

(* fdt_splice_struct_ with room: the structure edited, and no block lost.  *)
LEMMA SpliceStructIs ==
    ASSUME NEW b, Layout(b), NEW x \in Nat, NEW old \in Nat, NEW new \in Nat,
           x + old <= b.nstruct, Fits(b, new - old),
           NEW c, c = SpliceStruct(b, b.struct + x, old, new).blob
    PROVE  /\ SpliceStruct(b, b.struct + x, old, new) = Ok(c)
           /\ Layout(c) /\ SameFront(b, c) /\ c.total = b.total
           /\ c.nstrings = b.nstrings /\ MoreStrings(b, c)
           /\ Edited(b, c, x, x + old, new - old)
<1> DEFINE d == new - old
           m == Splice(b, b.struct + x, old, new)
<1>1. /\ Whole(b) /\ b.rsv \in Nat /\ b.struct \in Nat /\ b.nstruct \in Nat
      /\ b.strings \in Nat /\ b.nstrings \in Nat /\ b.total \in Nat
      /\ b.rsv <= b.struct /\ b.struct + b.nstruct <= b.strings
      /\ DataSize(b) = b.strings + b.nstrings /\ b.strings + b.nstrings <= b.total
    BY LayoutIs, Fields
<1>2. b.strings + b.nstrings + d <= b.total
    BY <1>1, FitsIs
<1>3. /\ m \in Seq(Byte) /\ Len(m) = b.total
      /\ \A y \in 0 .. (b.struct + x) + new - 1 : m[y + 1] = At(b, y)
      /\ \A y \in (b.struct + x) + old .. DataSize(b) - 1 : m[(y + new - old) + 1] = At(b, y)
  <2>1. b.struct + x \in Nat /\ (b.struct + x) + old <= DataSize(b)
        /\ DataSize(b) + new - old <= b.total
      BY <1>1, <1>2
  <2>2. PICK p : p = b.struct + x OBVIOUS
  <2>3. m = Splice(b, p, old, new) BY <2>2
  <2> HIDE DEF m
  <2>4. p \in Nat /\ p + old <= DataSize(b) /\ DataSize(b) + new - old <= b.total
      BY <2>1, <2>2
  <2>5. MemSpliced(b, p, old, new, m) BY <2>3, <2>4, MemSplicedIs
  <2> QED BY <2>2, <2>5 DEF MemSpliced
<1> HIDE DEF m
<1>4. c = [b EXCEPT !.mem = m, !.nstruct = @ + new - old, !.strings = @ + new - old]
      /\ SpliceStruct(b, b.struct + x, old, new) = Ok(c)
    BY DEF SpliceStruct, Ok, m
<1>5. b.nstruct + new - old = b.nstruct + d /\ b.strings + new - old = b.strings + d
      /\ b.nstruct + d \in Nat /\ b.strings + d \in Nat
    BY <1>1
<1> HIDE DEF d
<1>6. /\ c \in BlobType /\ c.mem = m
      /\ c.rsv = b.rsv /\ c.struct = b.struct /\ c.nstruct = b.nstruct + d
      /\ c.strings = b.strings + d /\ c.nstrings = b.nstrings /\ c.total = b.total
    BY <1>1, <1>3, <1>4, <1>5 DEF Whole, BlobType
<1>7. Layout(c)
  <2>1. b.struct + (b.nstruct + d) <= b.strings + d /\ (b.strings + d) + b.nstrings <= b.total
      BY <1>1, <1>2 DEF d
  <2>2. c.struct + c.nstruct <= c.strings /\ DataSize(c) <= c.total /\ c.rsv <= c.struct
      BY <1>1, <1>6, <2>1 DEF DataSize
  <2> QED BY <1>3, <1>6, <2>2 DEF Layout
<1>8. \A y \in 0 .. b.struct + x - 1 : At(c, y) = At(b, y)
  <2> SUFFICES ASSUME NEW y \in 0 .. b.struct + x - 1 PROVE At(c, y) = At(b, y)
      OBVIOUS
  <2>1. y \in 0 .. (b.struct + x) + new - 1 BY <1>1
  <2> QED BY <1>3, <1>6, <2>1 DEF At
<1>9. \A y \in b.struct + x + old .. b.strings + b.nstrings - 1 : At(c, y + d) = At(b, y)
  <2> SUFFICES ASSUME NEW y \in b.struct + x + old .. b.strings + b.nstrings - 1
               PROVE At(c, y + d) = At(b, y)
      OBVIOUS
  <2>1. y \in (b.struct + x) + old .. DataSize(b) - 1 /\ y + new - old = y + d BY <1>1 DEF d
  <2> QED BY <1>3, <1>6, <2>1 DEF At
<1>10. SameFront(b, c)
  <2>1. \A y \in 0 .. b.struct - 1 : y \in 0 .. b.struct + x - 1 BY <1>1
  <2> QED BY <1>6, <1>8, <2>1 DEF SameFront
<1>11. MoreStrings(b, c)
  <2> SUFFICES ASSUME NEW y \in 0 .. b.nstrings - 1 PROVE StringsAt(c, y) = StringsAt(b, y)
      BY <1>1, <1>6 DEF MoreStrings
  <2>1. b.strings + y \in b.struct + x + old .. b.strings + b.nstrings - 1
        /\ (b.strings + y) + d = (b.strings + d) + y
      BY <1>1 DEF d
  <2> QED BY <1>6, <1>9, <2>1 DEF StringsAt
<1>12. ASSUME NEW z \in 0 .. x - 1 PROVE StructAt(c, z) = StructAt(b, z)
  <2>1. b.struct + z \in 0 .. b.struct + x - 1 BY <1>1
  <2> QED BY <1>6, <1>8, <2>1 DEF StructAt
<1>13. ASSUME NEW z \in x + old .. b.nstruct - 1 PROVE StructAt(c, z + d) = StructAt(b, z)
  <2>1. b.struct + z \in b.struct + x + old .. b.strings + b.nstrings - 1
        /\ (b.struct + z) + d = b.struct + (z + d)
      BY <1>1 DEF d
  <2> QED BY <1>6, <1>9, <2>1 DEF StructAt
<1>14. Edited(b, c, x, x + old, d)
    BY <1>6, <1>12, <1>13 DEF Edited
<1> QED BY <1>4, <1>6, <1>7, <1>10, <1>11, <1>14 DEF d

(* n bytes are written into the structure, at an offset of it.             *)
Written(b, x, n, bytes, c) ==
    bytes \in [1 .. n -> Byte] /\ c = Write(b, b.struct + x, bytes)

(* A write into the structure, between the offsets x and y.                *)
LEMMA WriteStructIs ==
    ASSUME NEW b, Layout(b), NEW x \in Nat, NEW y \in Nat, y <= b.nstruct,
           NEW n \in Nat, x + n <= y,
           NEW bytes, NEW c, Written(b, x, n, bytes, c)
    PROVE  /\ Layout(c) /\ SameFront(b, c) /\ c.total = b.total
           /\ c.nstrings = b.nstrings /\ MoreStrings(b, c)
           /\ Edited(b, c, x, y, 0)
           /\ \A z \in 0 .. n - 1 : StructAt(c, x + z) = bytes[z + 1]
           /\ \A z \in x + n .. b.nstruct - 1 : StructAt(c, z) = StructAt(b, z)
<1>1. /\ Whole(b) /\ b.rsv \in Nat /\ b.struct \in Nat /\ b.nstruct \in Nat
      /\ b.strings \in Nat /\ b.nstrings \in Nat /\ b.total \in Nat
      /\ b.rsv <= b.struct /\ b.struct + b.nstruct <= b.strings
      /\ DataSize(b) = b.strings + b.nstrings /\ b.strings + b.nstrings <= b.total
    BY LayoutIs, Fields
<1>2. b.struct + x \in Nat /\ (b.struct + x) + n <= b.total
    BY <1>1
<1>3. /\ Whole(c)
      /\ c.rsv = b.rsv /\ c.struct = b.struct /\ c.nstruct = b.nstruct
      /\ c.strings = b.strings /\ c.nstrings = b.nstrings /\ c.total = b.total
      /\ \A z \in 0 .. b.total - 1 :
            At(c, z) = IF b.struct + x <= z /\ z < (b.struct + x) + n
                       THEN bytes[z - (b.struct + x) + 1] ELSE At(b, z)
  <2>1. bytes \in [1 .. n -> Byte] /\ c = Write(b, b.struct + x, bytes) BY DEF Written
  <2> DEFINE at == b.struct + x
  <2>2. at \in Nat /\ at + n <= b.total BY <1>1, <1>2
  <2> DEFINE d == Write(b, at, bytes)
  <2>3. c = d BY <2>1
  <2> HIDE DEF at
  <2>4. /\ Whole(d)
        /\ d.rsv = b.rsv /\ d.struct = b.struct /\ d.nstruct = b.nstruct
        /\ d.strings = b.strings /\ d.nstrings = b.nstrings /\ d.total = b.total
        /\ \A z \in 0 .. b.total - 1 :
              At(d, z) = IF at <= z /\ z < at + n THEN bytes[z - at + 1] ELSE At(b, z)
    <3>1. Whole(b) BY <1>1
    <3>2. bytes \in [1 .. n -> Byte] BY <2>1
    <3> QED BY <2>2, <3>1, <3>2, WriteIs
  <2> HIDE DEF d
  <2> QED BY <2>3, <2>4 DEF at
<1>4. Layout(c) BY <1>1, <1>3 DEF Layout, Whole, DataSize
<1>5. \A z \in 0 .. b.total - 1 :
          z < b.struct + x \/ z >= b.struct + x + n => At(c, z) = At(b, z)
    BY <1>1, <1>3
<1>6. SameFront(b, c)
  <2>1. \A z \in 0 .. b.struct - 1 : z \in 0 .. b.total - 1 /\ z < b.struct + x BY <1>1
  <2> QED BY <1>3, <1>5, <2>1 DEF SameFront
<1>7. MoreStrings(b, c)
  <2>1. \A z \in 0 .. b.nstrings - 1 : b.strings + z \in 0 .. b.total - 1
                                       /\ b.strings + z >= b.struct + x + n
      BY <1>1
  <2> QED BY <1>1, <1>3, <1>5, <2>1 DEF MoreStrings, StringsAt
<1>8. \A z \in 0 .. b.nstruct - 1 : z < x \/ z >= x + n => StructAt(c, z) = StructAt(b, z)
  <2>1. \A z \in 0 .. b.nstruct - 1 :
            /\ b.struct + z \in 0 .. b.total - 1
            /\ z < x => b.struct + z < b.struct + x
            /\ z >= x + n => b.struct + z >= b.struct + x + n
      BY <1>1
  <2> QED BY <1>3, <1>5, <2>1 DEF StructAt
<1>9. \A z \in x + n .. b.nstruct - 1 : StructAt(c, z) = StructAt(b, z)
  <2>1. \A z \in x + n .. b.nstruct - 1 : z \in 0 .. b.nstruct - 1 /\ z >= x + n
      BY <1>1
  <2> QED BY <1>8, <2>1
<1>10. Edited(b, c, x, y, 0)
  <2>1. \A z \in 0 .. x - 1 : z \in 0 .. b.nstruct - 1 /\ z < x BY <1>1
  <2>2. \A z \in y .. b.nstruct - 1 : z \in x + n .. b.nstruct - 1 /\ z + 0 = z BY <1>1
  <2>3. c.nstruct = b.nstruct + 0 BY <1>1, <1>3
  <2> QED BY <1>8, <1>9, <2>1, <2>2, <2>3 DEF Edited
<1>11. ASSUME NEW z \in 0 .. n - 1 PROVE StructAt(c, x + z) = bytes[z + 1]
  <2> DEFINE w == b.struct + (x + z)
  <2>1. w \in 0 .. b.total - 1 /\ b.struct + x <= w /\ w < (b.struct + x) + n
        /\ w - (b.struct + x) + 1 = z + 1
      BY <1>1
  <2> HIDE DEF w
  <2>2. At(c, w) = bytes[z + 1] BY <1>3, <2>1
  <2> QED BY <1>3, <2>2 DEF StructAt, w
<1> QED BY <1>3, <1>4, <1>6, <1>7, <1>9, <1>10, <1>11

(* What a test for some bytes, and a reader of a word, find.               *)
LEMMA HasIs ==
    ASSUME NEW b, Whole(b), NEW at \in Nat, NEW n \in Nat, at + n <= b.total,
           NEW bytes \in [1 .. n -> Byte]
    PROVE  Has(b, at, bytes) <=> \A k \in 1 .. n : At(b, at + k - 1) = bytes[k]
<1> DEFINE part == SubSeq(b.mem, at + 1, at + n)
<1>1. b.mem \in Seq(Byte) /\ Len(b.mem) = b.total /\ b.total \in Nat BY Fields
<1>2. bytes \in Seq(Byte) /\ Len(bytes) = n BY LengthIs
<1>3. \A i \in at + 1 .. at + n : b.mem[i] \in Byte
  <2>1. \A i \in at + 1 .. at + n : i \in 1 .. Len(b.mem) BY <1>1
  <2> QED BY <1>1, <2>1, ElementOfSeq
<1>4. /\ part \in Seq(Byte)
      /\ Len(part) = (IF at + 1 <= at + n THEN (at + n) - (at + 1) + 1 ELSE 0)
      /\ \A i \in 1 .. (at + n) - (at + 1) + 1 : part[i] = b.mem[(at + 1) + i - 1]
    BY <1>3, SubSeqProperties
<1>5. Len(part) = n BY <1>4
<1>6. ASSUME NEW k \in 1 .. n PROVE part[k] = At(b, at + k - 1)
  <2>1. k \in 1 .. (at + n) - (at + 1) + 1 /\ (at + 1) + k - 1 = (at + k - 1) + 1 OBVIOUS
  <2> QED BY <1>4, <2>1 DEF At
<1>7. Has(b, at, bytes) <=> part = bytes BY <1>2 DEF Has
<1> HIDE DEF part
<1>8. part = bytes <=> \A k \in 1 .. n : part[k] = bytes[k]
  <2>1. ASSUME \A k \in 1 .. n : part[k] = bytes[k] PROVE part = bytes
      BY <1>2, <1>4, <1>5, <2>1, SeqEqual
  <2> QED BY <2>1
<1> QED BY <1>6, <1>7, <1>8

(* A word is read where the bytes of one are.                              *)
LEMMA WordIs ==
    ASSUME NEW w \in Int
    PROVE  Word(w) \in [1 .. TAGSIZE -> Byte] /\ \A k \in 1 .. TAGSIZE : Word(w)[k] = <<w, k>>
BY Constants DEF Word, Byte

(* What fdt32_ld of an offset inside the blob returns.                     *)
LEMMA WordAtIs ==
    ASSUME NEW b, Whole(b), NEW at \in Nat, at + TAGSIZE <= b.total
    PROVE  /\ \A w \in Int : IsWord(b, at, w) => WordAt(b, at) = w
           /\ WordAt(b, at) \in Int
           /\ WordAt(b, at) # -1 => IsWord(b, at, WordAt(b, at))
<1> DEFINE v == At(b, at)[1]
<1>1. TAGSIZE \in Nat /\ TAGSIZE >= 1 /\ b.total \in Nat BY Constants, Fields
<1>2. at \in 0 .. b.total - 1 BY <1>1
<1>3. v \in Int
  <2>1. At(b, at) \in Byte BY <1>2, Fields
  <2> QED BY <2>1 DEF Byte
<1>4. Has(b, at, Word(v)) <=> IsWord(b, at, v)
  <2> HIDE DEF v
  <2>1. Word(v) \in [1 .. TAGSIZE -> Byte] /\ \A k \in 1 .. TAGSIZE : Word(v)[k] = <<v, k>>
      BY <1>3, WordIs
  <2>2. Has(b, at, Word(v)) <=> \A k \in 1 .. TAGSIZE : At(b, at + k - 1) = Word(v)[k]
      BY <1>1, <2>1, HasIs
  <2> QED BY <2>1, <2>2 DEF IsWord
<1>5. WordAt(b, at) = IF IsWord(b, at, v) THEN v ELSE -1
    BY <1>1, <1>4 DEF WordAt
<1>6. ASSUME NEW w \in Int, IsWord(b, at, w) PROVE v = w
  <2>1. 1 \in 1 .. TAGSIZE /\ at + 1 - 1 = at BY <1>1
  <2>2. At(b, at) = <<w, 1>> BY <1>6, <2>1 DEF IsWord
  <2> QED BY <2>2
<1> HIDE DEF v
<1> QED BY <1>3, <1>5, <1>6

(* The same bytes elsewhere.                                               *)
SameBytes(b, at, c, to, n) == \A k \in 0 .. n - 1 : At(c, to + k) = At(b, at + k)

(* Equal bytes are the same word.                                          *)
LEMMA SameIsWord ==
    ASSUME NEW b, NEW c, NEW at \in Int, NEW to \in Int, SameBytes(b, at, c, to, TAGSIZE), NEW w
    PROVE  IsWord(c, to, w) <=> IsWord(b, at, w)
<1>1. ASSUME NEW k \in 1 .. TAGSIZE PROVE At(c, to + k - 1) = At(b, at + k - 1)
  <2>1. k - 1 \in 0 .. TAGSIZE - 1 /\ to + (k - 1) = to + k - 1 /\ at + (k - 1) = at + k - 1
      BY Constants
  <2> QED BY <2>1 DEF SameBytes
<1> QED BY <1>1 DEF IsWord

(* Equal bytes are read as the same word.                                  *)
LEMMA SameWordAt ==
    ASSUME NEW b, Whole(b), NEW c, Whole(c), NEW at \in Nat, NEW to \in Nat,
           at + TAGSIZE <= b.total, to + TAGSIZE <= c.total,
           SameBytes(b, at, c, to, TAGSIZE)
    PROVE  WordAt(c, to) = WordAt(b, at)
<1> DEFINE v == WordAt(b, at)
           u == WordAt(c, to)
<1>1. /\ \A w \in Int : IsWord(b, at, w) => v = w
      /\ v \in Int /\ (v # -1 => IsWord(b, at, v))
    BY WordAtIs
<1>2. /\ \A w \in Int : IsWord(c, to, w) => u = w
      /\ u \in Int /\ (u # -1 => IsWord(c, to, u))
    BY WordAtIs
<1>3. \A w : IsWord(c, to, w) <=> IsWord(b, at, w) BY SameIsWord
<1> HIDE DEF v, u
<1>4. u = v BY <1>1, <1>2, <1>3
<1> QED BY <1>4 DEF u, v

-----------------------------------------------------------------------------
(* A text, as far as its NUL.                                              *)
TextOf(b, at, n) == [i \in 1 .. n |-> At(b, at + i - 1)[1]]

(* A text is read up to its NUL.                                           *)
LEMMA TextIs ==
    ASSUME NEW b, Whole(b), NEW at \in Nat, NEW n \in Nat, at + n < b.total, IsText(b, at, n)
    PROVE  /\ NulFrom(b, at) = at + n
           /\ StringAt(b, at) = TextOf(b, at, n)
<1> DEFINE P(i) == /\ i = b.total \/ At(b, i) = NUL
                   /\ \A k \in at .. i - 1 : At(b, k) # NUL
<1>1. b.total \in Nat BY Fields
<1>2. NulFrom(b, at) = CHOOSE i \in at .. b.total : P(i) BY DEF NulFrom
<1>3. at + n \in at .. b.total BY <1>1
<1>4. ASSUME NEW k \in at .. (at + n) - 1 PROVE At(b, k) # NUL
  <2>1. k - at \in 0 .. n - 1 /\ at + (k - at) = k OBVIOUS
  <2> QED BY <2>1 DEF IsText
<1>5. P(at + n) BY <1>4 DEF IsText
<1>6. ASSUME NEW i \in at .. b.total, P(i) PROVE i = at + n
  <2>1. CASE i < at + n
    <3>1. i \in at .. (at + n) - 1 /\ i # b.total BY <1>1, <2>1
    <3> QED BY <1>4, <1>6, <3>1
  <2>2. CASE i > at + n
    <3>1. at + n \in at .. i - 1 BY <2>2
    <3> QED BY <1>6, <3>1 DEF IsText
  <2> QED BY <1>1, <2>1, <2>2
<1> HIDE DEF P
<1>7. NulFrom(b, at) = at + n BY <1>2, <1>3, <1>5, <1>6
<1>8. NulFrom(b, at) - at = n BY <1>7
<1> QED BY <1>7, <1>8 DEF StringAt, TextOf

(* Equal bytes are the same text.                                          *)
LEMMA SameText ==
    ASSUME NEW b, NEW c, NEW at \in Int, NEW to \in Int, NEW n \in Nat, SameBytes(b, at, c, to, n + 1)
    PROVE  /\ IsText(c, to, n) <=> IsText(b, at, n)
           /\ TextOf(c, to, n) = TextOf(b, at, n)
<1>1. \A k \in 0 .. n : At(c, to + k) = At(b, at + k)
  <2>1. 0 .. n = 0 .. (n + 1) - 1 OBVIOUS
  <2> QED BY <2>1 DEF SameBytes
<1>2. n \in 0 .. n /\ \A k \in 0 .. n - 1 : k \in 0 .. n OBVIOUS
<1>3. IsText(c, to, n) <=> IsText(b, at, n) BY <1>1, <1>2 DEF IsText
<1>4. ASSUME NEW i \in 1 .. n PROVE At(c, to + i - 1) = At(b, at + i - 1)
  <2>1. i - 1 \in 0 .. n /\ to + (i - 1) = to + i - 1 /\ at + (i - 1) = at + i - 1 OBVIOUS
  <2> QED BY <1>1, <2>1
<1> QED BY <1>3, <1>4 DEF TextOf

(* A name, which has no NUL in it.                                         *)
LEMMA NameIs ==
    ASSUME NEW b, Whole(b), NEW at \in Nat, NEW name \in Names, at + Len(name) < b.total,
           Spells(b, at, name)
    PROVE  /\ Len(name) \in Nat /\ IsText(b, at, Len(name))
           /\ NulFrom(b, at) = at + Len(name) /\ StringAt(b, at) = name
<1> DEFINE n == Len(name)
<1>1. name \in Seq(Nat \ {0}) /\ n \in Nat /\ DOMAIN name = 1 .. n BY Constants, LenProperties
<1>2. \A k \in 1 .. n : name[k] # 0 /\ At(b, at + k - 1) = <<name[k], 0>>
    BY <1>1, ElementOfSeq DEF Spells
<1>3. At(b, at + n) = NUL BY DEF Spells
<1> HIDE DEF n
<1>4. ASSUME NEW k \in 0 .. n - 1 PROVE At(b, at + k) # NUL
  <2>1. k + 1 \in 1 .. n /\ at + (k + 1) - 1 = at + k BY <1>1
  <2>2. At(b, at + k) = <<name[k + 1], 0>> /\ name[k + 1] # 0 BY <1>2, <2>1
  <2> QED BY <2>2 DEF NUL
<1>5. IsText(b, at, n) BY <1>3, <1>4 DEF IsText
<1>6. at + n < b.total BY DEF n
<1>7. /\ NulFrom(b, at) = at + n
      /\ StringAt(b, at) = TextOf(b, at, n)
    BY <1>1, <1>5, <1>6, TextIs
<1>8. name = [i \in 1 .. n |-> name[i]] BY <1>1
<1>9. TextOf(b, at, n) = [i \in 1 .. n |-> name[i]] BY <1>2 DEF TextOf
<1> QED BY <1>1, <1>5, <1>7, <1>8, <1>9 DEF n

Multiple(d) == \E e \in Int : d = e * TAGSIZE

(* What moves by a multiple stays aligned.                                 *)
LEMMA AlignedShift ==
    ASSUME NEW x \in Nat, Aligned(x), NEW d \in Int, Multiple(d), x + d >= 0
    PROVE  Aligned(x + d)
<1> DEFINE t == TAGSIZE
<1>1. t \in Nat /\ t >= 1 BY Constants
<1>2. PICK q \in 0 .. x : x = q * t BY DEF Aligned
<1>3. PICK e \in Int : d = e * t BY DEF Multiple
<1> HIDE DEF t
<1>4. x + d = (q + e) * t BY <1>1, <1>2, <1>3
<1> DEFINE s == q + e
<1>5. s \in Int BY <1>3
<1>6. x + d = s * t BY <1>4
<1> HIDE DEF s
<1>7. s >= 0
  <2> SUFFICES ASSUME s <= -1 PROVE FALSE BY <1>5
  <2>1. s * t <= -1 BY <1>1, <1>5
  <2> QED BY <1>6, <2>1
<1>8. s <= s * t BY <1>1, <1>5, <1>7
<1>9. s \in 0 .. x + d BY <1>5, <1>6, <1>7, <1>8
<1> QED BY <1>6, <1>9 DEF Aligned, t

(* The bytes that the tag, and what follows it, take up.                   *)
LEMMA MarkIs ==
    ASSUME NEW m \in Mark
    PROVE  /\ m.off \in Nat /\ m.size \in Nat /\ m.len \in Nat /\ m.name \in Nat /\ m.depth \in Nat
           /\ m.tag \in Tags /\ End(m) = m.off + m.size /\ End(m) \in Nat
<1>1. /\ m.off \in Nat /\ m.size \in Nat /\ m.len \in Nat /\ m.name \in Nat /\ m.depth \in Nat
      /\ m.tag \in Tags
    BY DEF Mark
<1> QED BY <1>1 DEF End

(* The bytes of a tag hold its word, and its name or value.                *)
LEMMA StandsSize ==
    ASSUME NEW b, NEW m \in Mark, Stands(b, m)
    PROVE  /\ m.size >= TAGSIZE /\ m.size >= 1
           /\ m.tag = FDT_BEGIN_NODE => m.size >= TAGSIZE + m.len + 1
           /\ m.tag = FDT_PROP => m.size >= PropSize + m.len
           /\ m.tag = FDT_PROP => m.size >= 3 * TAGSIZE
<1>1. m.len \in Nat /\ m.tag \in Tags /\ TAGSIZE \in Nat /\ TAGSIZE >= 1 BY Constants, MarkIs
<1>2. m.tag = FDT_BEGIN_NODE => m.size >= TAGSIZE + m.len + 1
  <2> SUFFICES ASSUME m.tag = FDT_BEGIN_NODE PROVE m.size >= TAGSIZE + m.len + 1
      OBVIOUS
  <2>1. m.size = TAGSIZE + FDT_TAGALIGN(m.len + 1) BY DEF Stands
  <2>2. FDT_TAGALIGN(m.len + 1) \in Nat /\ FDT_TAGALIGN(m.len + 1) >= m.len + 1
      BY <1>1, AlignIs
  <2> QED BY <1>1, <2>1, <2>2
<1>3. m.tag = FDT_PROP => m.size >= 3 * TAGSIZE + m.len
  <2> SUFFICES ASSUME m.tag = FDT_PROP PROVE m.size >= 3 * TAGSIZE + m.len
      OBVIOUS
  <2>1. m.size = 3 * TAGSIZE + FDT_TAGALIGN(m.len) BY DEF Stands, PropSize
  <2>2. FDT_TAGALIGN(m.len) \in Nat /\ FDT_TAGALIGN(m.len) >= m.len
      BY <1>1, AlignIs
  <2> QED BY <1>1, <2>1, <2>2
<1>4. m.tag \in {FDT_END_NODE, FDT_NOP, FDT_END} => m.size = TAGSIZE BY DEF Stands
<1>5. m.tag \in {FDT_END_NODE, FDT_NOP, FDT_END, FDT_PROP, FDT_BEGIN_NODE} BY <1>1 DEF Tags
<1>6. m.size \in Nat BY MarkIs
<1> QED BY <1>1, <1>2, <1>3, <1>4, <1>5, <1>6 DEF PropSize

Shift(m, d) == [m EXCEPT !.off = @ + d]

(* A mark that moves keeps all but its offset.                             *)
LEMMA ShiftIs ==
    ASSUME NEW m \in Mark, NEW d \in Int, m.off + d >= 0
    PROVE  /\ Shift(m, d) \in Mark
           /\ Shift(m, d).off = m.off + d /\ Shift(m, d).size = m.size /\ Shift(m, d).tag = m.tag
           /\ Shift(m, d).len = m.len /\ Shift(m, d).name = m.name
           /\ Shift(m, d).depth = m.depth /\ Shift(m, d).open = m.open
           /\ End(Shift(m, d)) = End(m) + d
<1>1. m.off + d \in Nat BY MarkIs
<1>2. /\ Shift(m, d) \in Mark
      /\ Shift(m, d).off = m.off + d /\ Shift(m, d).size = m.size /\ Shift(m, d).tag = m.tag
      /\ Shift(m, d).len = m.len /\ Shift(m, d).name = m.name
      /\ Shift(m, d).depth = m.depth /\ Shift(m, d).open = m.open
    BY <1>1 DEF Shift, Mark
<1>3. End(Shift(m, d)) = End(m) + d BY <1>2, MarkIs DEF End
<1> QED BY <1>2, <1>3

(* A mark whose bytes have moved stands where they are now.                *)
LEMMA SameStands ==
    ASSUME NEW b, NEW c, b.struct \in Nat, c.struct \in Nat,
           NEW m \in Mark, Stands(b, m), NEW d \in Int, m.off + d >= 0,
           \A z \in m.off .. End(m) - 1 : StructAt(c, z + d) = StructAt(b, z)
    PROVE  Stands(c, Shift(m, d))
<1> DEFINE s == Shift(m, d)
           p == b.struct + m.off
           q == c.struct + (m.off + d)
<1>1. /\ s.off = m.off + d /\ s.size = m.size /\ s.tag = m.tag /\ s.len = m.len /\ s.name = m.name
    BY ShiftIs
<1> HIDE DEF s
<1>2. /\ m.off \in Nat /\ m.size \in Nat /\ m.len \in Nat /\ m.tag \in Tags
      /\ End(m) = m.off + m.size /\ TAGSIZE \in Nat /\ TAGSIZE >= 1
    BY Constants, MarkIs
<1>3. SameBytes(b, p, c, q, m.size)
  <2> SUFFICES ASSUME NEW k \in 0 .. m.size - 1 PROVE At(c, q + k) = At(b, p + k)
      BY DEF SameBytes
  <2>1. m.off + k \in m.off .. End(m) - 1 /\ q + k = c.struct + ((m.off + k) + d)
        /\ p + k = b.struct + (m.off + k)
      BY <1>2
  <2>2. StructAt(c, (m.off + k) + d) = StructAt(b, m.off + k) BY <2>1
  <2> QED BY <2>1, <2>2 DEF StructAt
<1>4. p \in Int /\ q \in Int BY <1>2
<1> HIDE DEF p, q
<1>5. ASSUME NEW i \in Nat, NEW n \in Nat, i + n <= m.size
      PROVE  SameBytes(b, p + i, c, q + i, n)
  <2> SUFFICES ASSUME NEW k \in 0 .. n - 1 PROVE At(c, (q + i) + k) = At(b, (p + i) + k)
      BY DEF SameBytes
  <2>1. i + k \in 0 .. m.size - 1 /\ q + (i + k) = (q + i) + k /\ p + (i + k) = (p + i) + k
      BY <1>2, <1>4, <1>5
  <2> QED BY <1>3, <2>1 DEF SameBytes
<1>6. /\ m.size >= TAGSIZE
      /\ m.tag = FDT_BEGIN_NODE => m.size >= TAGSIZE + m.len + 1
      /\ m.tag = FDT_PROP => m.size >= 3 * TAGSIZE
    BY StandsSize
<1>7. \A w : IsWord(c, q, w) <=> IsWord(b, p, w)
  <2>1. SameBytes(b, p + 0, c, q + 0, TAGSIZE) BY <1>2, <1>5, <1>6
  <2>2. p + 0 = p /\ q + 0 = q BY <1>4
  <2> QED BY <1>4, <2>1, <2>2, SameIsWord
<1>8. IsWord(c, q, s.tag) BY <1>1, <1>7 DEF Stands, p
<1>9. ASSUME m.tag = FDT_BEGIN_NODE PROVE IsText(c, q + TAGSIZE, m.len)
  <2>1. SameBytes(b, p + TAGSIZE, c, q + TAGSIZE, m.len + 1) BY <1>2, <1>5, <1>6, <1>9
  <2>2. IsText(b, p + TAGSIZE, m.len) BY <1>9 DEF Stands, p
  <2>3. p + TAGSIZE \in Int /\ q + TAGSIZE \in Int BY <1>2, <1>4
  <2> QED BY <1>2, <2>1, <2>2, <2>3, SameText
<1>10. ASSUME m.tag = FDT_PROP
       PROVE IsWord(c, q + TAGSIZE, m.len) /\ IsWord(c, q + 2 * TAGSIZE, m.name)
  <2>1. SameBytes(b, p + TAGSIZE, c, q + TAGSIZE, TAGSIZE) BY <1>2, <1>5, <1>6, <1>10
  <2>2. SameBytes(b, p + 2 * TAGSIZE, c, q + 2 * TAGSIZE, TAGSIZE)
    <3>1. 2 * TAGSIZE \in Nat /\ 2 * TAGSIZE + TAGSIZE <= m.size BY <1>2, <1>6, <1>10
    <3> QED BY <1>2, <1>5, <3>1
  <2>3. IsWord(b, p + TAGSIZE, m.len) /\ IsWord(b, p + 2 * TAGSIZE, m.name)
      BY <1>10 DEF Stands, p
  <2>4. p + TAGSIZE \in Int /\ q + TAGSIZE \in Int /\ p + 2 * TAGSIZE \in Int /\ q + 2 * TAGSIZE \in Int
      BY <1>2, <1>4
  <2> QED BY <2>1, <2>2, <2>3, <2>4, SameIsWord
<1>11. /\ s.tag = FDT_BEGIN_NODE => s.size = TAGSIZE + FDT_TAGALIGN(s.len + 1)
       /\ s.tag = FDT_PROP => s.size = PropSize + FDT_TAGALIGN(s.len)
       /\ s.tag \in {FDT_END_NODE, FDT_NOP, FDT_END} => s.size = TAGSIZE
    BY <1>1 DEF Stands
<1>12. c.struct + s.off = q BY <1>1 DEF q
<1>13. Stands(c, s) BY <1>1, <1>8, <1>9, <1>10, <1>11, <1>12 DEF Stands
<1> QED BY <1>13 DEF s

(* A property keeps its name when strings are added.                       *)
LEMMA SameName ==
    ASSUME NEW b, NEW c, b.nstrings \in Nat, c.nstrings \in Nat, MoreStrings(b, c),
           b.strings \in Nat, c.strings \in Nat,
           NEW m \in Mark, HasName(b, m)
    PROVE  HasName(c, m)
<1> SUFFICES ASSUME m.tag = FDT_PROP
             PROVE  \E name \in Names : /\ m.name + Len(name) + 1 <= c.nstrings
                                        /\ Spells(c, c.strings + m.name, name)
    BY DEF HasName
<1>1. PICK name \in Names : /\ m.name + Len(name) + 1 <= b.nstrings
                            /\ Spells(b, b.strings + m.name, name)
    BY DEF HasName
<1> DEFINE n == Len(name)
<1>2. n \in Nat /\ m.name \in Nat BY Constants, LenProperties, MarkIs
<1>3. m.name + n + 1 <= b.nstrings BY <1>1
<1> HIDE DEF n
<1>4. c.nstrings >= b.nstrings /\ \A x \in 0 .. b.nstrings - 1 : StringsAt(c, x) = StringsAt(b, x)
    BY DEF MoreStrings
<1>5. m.name + n + 1 <= c.nstrings BY <1>2, <1>3, <1>4
<1>6. \A k \in 0 .. n : StringsAt(c, m.name + k) = StringsAt(b, m.name + k)
  <2>1. \A k \in 0 .. n : m.name + k \in 0 .. b.nstrings - 1 BY <1>2, <1>3
  <2> QED BY <1>4, <2>1
<1>7. \A k \in 0 .. n : At(c, (c.strings + m.name) + k) = At(b, (b.strings + m.name) + k)
  <2>1. \A k \in 0 .. n : c.strings + (m.name + k) = (c.strings + m.name) + k
                           /\ b.strings + (m.name + k) = (b.strings + m.name) + k
      BY <1>2
  <2> QED BY <1>6, <2>1 DEF StringsAt
<1>8. ASSUME NEW k \in 1 .. n
      PROVE At(c, (c.strings + m.name) + k - 1) = At(b, (b.strings + m.name) + k - 1)
  <2>1. k - 1 \in 0 .. n /\ (c.strings + m.name) + (k - 1) = (c.strings + m.name) + k - 1
        /\ (b.strings + m.name) + (k - 1) = (b.strings + m.name) + k - 1
      BY <1>2
  <2> QED BY <1>7, <2>1
<1>9. n \in 0 .. n BY <1>2
<1>10. Spells(c, c.strings + m.name, name)
    BY <1>1, <1>7, <1>8, <1>9 DEF Spells, n
<1> QED BY <1>5, <1>10 DEF n

-----------------------------------------------------------------------------
(* The marks after an edit: those before it, new ones, those behind it.    *)
Site(M, before, after, x, y) ==
    /\ before \in M /\ before.depth >= 1 /\ End(before) = x
    /\ after \in M /\ after.off = y
NewMarks(c, Q, x, end) ==
    /\ Q \subseteq Mark /\ Apart(Q)
    /\ \A q \in Q : /\ Stands(c, q) /\ HasName(c, q) /\ Opens(q) /\ Aligned(q.off)
                    /\ x <= q.off /\ End(q) <= end /\ q.depth >= 1 /\ q.tag # FDT_END
Chain(before, Q, after, end) ==
    \A q \in {before} \cup Q : \/ \E n \in Q : n.off = End(q) /\ Follows(q, n)
                               \/ End(q) = end /\ Follows(q, after)
Spliced(M, Q, x, y, d) ==
    {m \in M : m.off < x} \cup Q \cup {Shift(m, d) : m \in {n \in M : n.off >= y}}

(* What the marks of a blob say of one of them.                            *)
LEMMA MarkOf ==
    ASSUME NEW b, NEW M, Marks(b, M), NEW m \in M
    PROVE  m \in Mark /\ Stands(b, m) /\ HasName(b, m) /\ Opens(m) /\ Within(b, m)
           /\ m.size >= TAGSIZE /\ m.size >= 1
<1>1. m \in Mark /\ Stands(b, m) /\ HasName(b, m) /\ Opens(m) /\ Within(b, m) BY DEF Marks
<1> QED BY <1>1, StandsSize

(* Every mark but the last is followed by one.                             *)
LEMMA NextMark ==
    ASSUME NEW b, NEW M, Marks(b, M), NEW m \in M, m.tag # FDT_END
    PROVE  \E n \in M : n.off = End(m) /\ Follows(m, n)
BY DEF Marks

(* Two marks share no byte.                                                *)
LEMMA MarksApart ==
    ASSUME NEW b, NEW M, Marks(b, M), NEW m \in M, NEW n \in M
    PROVE  /\ m.off < n.off => End(m) <= n.off
           /\ m.off = n.off => m = n
BY DEF Marks, Apart

(* Two marks that follow each other may move.                              *)
LEMMA FollowsShifted ==
    ASSUME NEW m \in Mark, NEW n \in Mark, NEW d \in Int, n.off + d >= 0,
           Follows(m, n)
    PROVE  Follows(m, Shift(n, d)) /\ (m.off + d >= 0 => Follows(Shift(m, d), Shift(n, d)))
<1>1. /\ Shift(n, d).tag = n.tag /\ Shift(n, d).depth = n.depth /\ Shift(n, d).open = n.open
    BY ShiftIs
<1>2. m.off + d >= 0 =>
        /\ Shift(m, d).tag = m.tag /\ Shift(m, d).depth = m.depth /\ Shift(m, d).open = m.open
    BY ShiftIs
<1> QED BY <1>1, <1>2 DEF Follows

(* Marks before and behind an edit, with new ones between, are marks.      *)
LEMMA MarksEdited ==
    ASSUME NEW b, NEW c, Layout(b), Layout(c), NEW M, Marks(b, M), MoreStrings(b, c),
           NEW x \in Nat, NEW y \in Nat, NEW d \in Int, Multiple(d), x <= y, x <= y + d,
           Edited(b, c, x, y, d),
           NEW before, NEW after, Site(M, before, after, x, y),
           NEW Q, NewMarks(c, Q, x, y + d), Chain(before, Q, after, y + d)
    PROVE  Marks(c, Spliced(M, Q, x, y, d))
<1> DEFINE Left == {m \in M : m.off < x}
           Behind == {m \in M : m.off >= y}
           Right == {Shift(m, d) : m \in Behind}
<1>1. /\ b.struct \in Nat /\ b.nstruct \in Nat /\ b.strings \in Nat /\ b.nstrings \in Nat
      /\ c.struct \in Nat /\ c.nstruct \in Nat /\ c.strings \in Nat /\ c.nstrings \in Nat
    BY LayoutIs, Fields
<1>2. c.nstruct = b.nstruct + d BY DEF Edited
<1>3. /\ before \in M /\ before.depth >= 1 /\ End(before) = x /\ after \in M /\ after.off = y
    BY DEF Site
<1>4. TAGSIZE \in Nat /\ TAGSIZE >= 1 BY Constants
<1>5. \A m \in M : /\ m \in Mark /\ Stands(b, m) /\ HasName(b, m) /\ Opens(m) /\ Within(b, m)
                   /\ m.size >= TAGSIZE
    BY MarkOf
<1>6. \A m \in M : /\ m.off \in Nat /\ m.size \in Nat /\ End(m) = m.off + m.size
                   /\ End(m) > m.off /\ End(m) >= m.off + TAGSIZE /\ End(m) <= b.nstruct
  <2> SUFFICES ASSUME NEW m \in M
               PROVE  /\ m.off \in Nat /\ m.size \in Nat /\ End(m) = m.off + m.size
                      /\ End(m) > m.off /\ End(m) >= m.off + TAGSIZE /\ End(m) <= b.nstruct
      OBVIOUS
  <2>1. m \in Mark /\ m.size >= TAGSIZE /\ End(m) <= b.nstruct BY <1>5 DEF Within
  <2>2. m.off \in Nat /\ m.size \in Nat /\ End(m) = m.off + m.size BY <2>1, MarkIs
  <2> QED BY <1>4, <2>1, <2>2
<1>7. y + TAGSIZE <= b.nstruct
  <2>1. End(after) \in Nat /\ End(after) >= y + TAGSIZE /\ End(after) <= b.nstruct
    <3>1. End(after) \in Nat BY <1>3, <1>5, MarkIs
    <3> QED BY <1>3, <1>6, <3>1
  <2> QED BY <1>1, <1>4, <2>1
<1>8. ASSUME NEW m \in Left
      PROVE  /\ m \in M /\ End(m) <= x
             /\ m # before => End(m) <= before.off /\ End(m) < x
  <2>1. m \in M /\ m.off < x OBVIOUS
  <2>2. m # before => m.off < before.off
    <3>1. before.off < m.off => x <= m.off BY <1>3, <2>1, MarksApart
    <3>2. before.off = m.off => m = before BY <1>3, <2>1, MarksApart
    <3> QED BY <1>3, <1>6, <2>1, <3>1, <3>2
  <2>3. m # before => End(m) <= before.off BY <1>3, <2>1, <2>2, MarksApart
  <2>4. before.off < x BY <1>3, <1>6
  <2>5. m \in M /\ End(m) \in Int /\ before.off \in Nat BY <1>3, <1>6, <2>1
  <2> QED BY <1>3, <2>1, <2>3, <2>4, <2>5
<1>9. before \in Left BY <1>3, <1>6
<1>10. ASSUME NEW m \in Behind
       PROVE  /\ m \in M /\ m.off + d >= 0 /\ m.off + d >= x
              /\ Shift(m, d) \in Mark
              /\ Shift(m, d).off = m.off + d /\ Shift(m, d).size = m.size /\ Shift(m, d).tag = m.tag
              /\ Shift(m, d).len = m.len /\ Shift(m, d).name = m.name
              /\ Shift(m, d).depth = m.depth /\ Shift(m, d).open = m.open
              /\ End(Shift(m, d)) = End(m) + d
  <2>1. m \in M /\ m.off >= y OBVIOUS
  <2>2. m \in Mark /\ m.off \in Nat BY <1>5, <1>6, <2>1
  <2>3. m.off + d >= 0 /\ m.off + d >= x BY <2>1, <2>2
  <2> QED BY <2>1, <2>2, <2>3, ShiftIs
<1>11. /\ Q \subseteq Mark /\ Apart(Q)
       /\ \A q \in Q : /\ Stands(c, q) /\ HasName(c, q) /\ Opens(q) /\ Aligned(q.off)
                       /\ x <= q.off /\ End(q) <= y + d /\ q.depth >= 1 /\ q.tag # FDT_END
    BY DEF NewMarks
<1>12. \A q \in Q : q.off \in Nat /\ End(q) \in Nat /\ End(q) > q.off
  <2> SUFFICES ASSUME NEW q \in Q PROVE q.off \in Nat /\ End(q) \in Nat /\ End(q) > q.off
      OBVIOUS
  <2>1. q \in Mark /\ Stands(c, q) BY <1>11
  <2>2. q.off \in Nat /\ q.size \in Nat /\ End(q) = q.off + q.size BY <2>1, MarkIs
  <2>3. q.size >= TAGSIZE BY <2>1, StandsSize
  <2> QED BY <1>4, <2>2, <2>3
<1> DEFINE N == Left \cup Q \cup Right
<1>13. N = Spliced(M, Q, x, y, d) BY DEF Spliced
<1>14. N \subseteq Mark BY <1>5, <1>10, <1>11
<1>15. ASSUME NEW m \in Left
       PROVE  Stands(c, m) /\ HasName(c, m) /\ Opens(m) /\ Within(c, m)
  <2>1. m \in M /\ End(m) <= x BY <1>8
  <2>2. m \in Mark /\ Stands(b, m) /\ HasName(b, m) /\ Opens(m) /\ Within(b, m)
        /\ m.off \in Nat /\ End(m) \in Nat
      BY <1>5, <1>6, <2>1
  <2>3. ASSUME NEW z \in m.off .. End(m) - 1 PROVE StructAt(c, z + 0) = StructAt(b, z)
    <3>1. z \in 0 .. x - 1 /\ z + 0 = z BY <2>1, <2>2
    <3> QED BY <3>1 DEF Edited
  <2>4. Stands(c, Shift(m, 0)) BY <1>1, <2>2, <2>3, SameStands
  <2>5. Shift(m, 0) = m BY <2>2 DEF Shift, Mark
  <2>6. HasName(c, m) BY <1>1, <2>2, SameName
  <2>7. Within(c, m)
    <3>1. Aligned(m.off) /\ End(m) <= c.nstruct
      <4>1. x <= c.nstruct BY <1>1, <1>2, <1>4, <1>7
      <4> QED BY <1>1, <2>1, <2>2, <4>1 DEF Within
    <3>2. m.tag # FDT_END
      <4>1. m.tag = FDT_END => End(m) = b.nstruct BY <2>2 DEF Within
      <4>2. End(m) <= y BY <2>1, <2>2
      <4> QED BY <1>1, <1>4, <1>7, <2>2, <4>1, <4>2
    <3>3. m.depth # 0
      <4>1. CASE m = before
        <5>1. m.depth >= 1 BY <1>3, <4>1
        <5> QED BY <5>1
      <4>2. CASE m # before
        <5>1. m.depth = 0 => End(m) + TAGSIZE = b.nstruct BY <2>2, <3>2 DEF Within
        <5>2. End(m) <= before.off /\ before.off + TAGSIZE <= x /\ before.off \in Nat
            BY <1>3, <1>6, <1>8, <4>2
        <5> QED BY <1>1, <1>4, <1>7, <2>2, <5>1, <5>2
      <4> QED BY <4>1, <4>2
    <3> QED BY <3>1, <3>2, <3>3 DEF Within
  <2> QED BY <2>2, <2>4, <2>5, <2>6, <2>7
<1>16. ASSUME NEW q \in Q PROVE Stands(c, q) /\ HasName(c, q) /\ Opens(q) /\ Within(c, q)
  <2>1. End(q) <= c.nstruct
    <3>1. End(q) <= y + d /\ End(q) \in Nat BY <1>11, <1>12
    <3> QED BY <1>1, <1>2, <1>4, <1>7, <3>1
  <2>2. q.depth # 0 /\ q.tag # FDT_END
    <3>1. q.depth >= 1 /\ q.tag # FDT_END BY <1>11
    <3> QED BY <3>1
  <2> QED BY <1>11, <2>1, <2>2 DEF Within
<1>17. ASSUME NEW m \in Behind
       PROVE  Stands(c, Shift(m, d)) /\ HasName(c, Shift(m, d)) /\ Opens(Shift(m, d))
              /\ Within(c, Shift(m, d))
  <2> DEFINE s == Shift(m, d)
  <2>1. /\ m \in M /\ m.off + d >= 0 /\ s \in Mark
        /\ s.off = m.off + d /\ s.size = m.size /\ s.tag = m.tag
        /\ s.len = m.len /\ s.name = m.name
        /\ s.depth = m.depth /\ s.open = m.open /\ End(s) = End(m) + d
      BY <1>10
  <2>2. m \in Mark /\ Stands(b, m) /\ HasName(b, m) /\ Opens(m) /\ Within(b, m)
        /\ m.off \in Nat /\ End(m) \in Nat /\ m.off >= y /\ End(m) <= b.nstruct
      BY <1>5, <1>6, <2>1
  <2>3. ASSUME NEW z \in m.off .. End(m) - 1 PROVE StructAt(c, z + d) = StructAt(b, z)
    <3>1. z \in y .. b.nstruct - 1 BY <1>1, <2>2
    <3> QED BY <3>1 DEF Edited
  <2>4. Stands(c, s) BY <1>1, <2>1, <2>2, <2>3, SameStands
  <2> HIDE DEF s
  <2>5. HasName(c, s)
    <3>1. HasName(c, m) BY <1>1, <2>2, SameName
    <3> QED BY <2>1, <3>1 DEF HasName
  <2>6. Opens(s) BY <2>1, <2>2 DEF Opens
  <2>7. Aligned(s.off)
    <3>1. Aligned(m.off) BY <2>2 DEF Within
    <3> QED BY <2>1, <2>2, <3>1, AlignedShift
  <2>8. Within(c, s)
    <3>1. /\ m.tag = FDT_END => End(m) = b.nstruct /\ m.depth = 0
          /\ m.depth = 0 => \/ m.tag = FDT_END
                            \/ m.tag = FDT_END_NODE /\ End(m) + TAGSIZE = b.nstruct
        BY <2>2 DEF Within
    <3>2. /\ End(s) <= c.nstruct
          /\ End(m) = b.nstruct => End(s) = c.nstruct
          /\ End(m) + TAGSIZE = b.nstruct => End(s) + TAGSIZE = c.nstruct
        BY <1>1, <1>2, <1>4, <2>1, <2>2
    <3> QED BY <2>1, <2>7, <3>1, <3>2 DEF Within
  <2> QED BY <2>4, <2>5, <2>6, <2>8 DEF s
<1>18. \A m \in N : Stands(c, m) /\ HasName(c, m) /\ Opens(m) /\ Within(c, m)
    BY <1>15, <1>16, <1>17
<1>19. Apart(N)
  <2>1. ASSUME NEW m \in Left, NEW n \in Left
        PROVE (m.off < n.off => End(m) <= n.off) /\ (m.off = n.off => m = n)
      BY MarksApart
  <2>2. ASSUME NEW m \in Left, NEW n \in Q \cup Right
        PROVE m.off < n.off /\ End(m) <= n.off /\ n.off \in Int
    <3>1. m.off < x /\ End(m) <= x /\ m.off \in Nat /\ End(m) \in Nat BY <1>6, <1>8
    <3>2. x <= n.off /\ n.off \in Int
      <4>1. CASE n \in Q BY <1>11, <1>12, <4>1
      <4>2. CASE n \in Right
        <5>1. PICK k \in Behind : n = Shift(k, d) BY <4>2
        <5>2. k \in M /\ k.off + d >= x /\ n.off = k.off + d /\ k.off \in Nat BY <1>6, <1>10, <5>1
        <5> QED BY <5>2
      <4> QED BY <4>1, <4>2
    <3> QED BY <3>1, <3>2
  <2>3. ASSUME NEW m \in Q, NEW n \in Q
        PROVE (m.off < n.off => End(m) <= n.off) /\ (m.off = n.off => m = n)
      BY <1>11 DEF Apart
  <2>4. ASSUME NEW m \in Q, NEW n \in Right
        PROVE m.off < n.off /\ End(m) <= n.off /\ n.off \in Int
    <3>1. PICK k \in Behind : n = Shift(k, d) OBVIOUS
    <3>2. n.off = k.off + d /\ k.off \in Nat /\ k.off >= y BY <1>6, <1>10, <3>1
    <3>3. m.off \in Nat /\ End(m) \in Nat /\ End(m) > m.off /\ End(m) <= y + d BY <1>11, <1>12
    <3> QED BY <3>2, <3>3
  <2>5. ASSUME NEW m \in Right, NEW n \in Right
        PROVE (m.off < n.off => End(m) <= n.off) /\ (m.off = n.off => m = n)
    <3>1. PICK k \in Behind : m = Shift(k, d) OBVIOUS
    <3>2. PICK l \in Behind : n = Shift(l, d) OBVIOUS
    <3>3. m.off = k.off + d /\ End(m) = End(k) + d /\ n.off = l.off + d
          /\ k \in M /\ l \in M /\ k.off \in Nat /\ End(k) \in Nat /\ l.off \in Nat
        BY <1>6, <1>10, <3>1, <3>2
    <3>4. (k.off < l.off => End(k) <= l.off) /\ (k.off = l.off => k = l) BY <3>3, MarksApart
    <3>5. m.off < n.off => End(m) <= n.off BY <3>3, <3>4
    <3>6. m.off = n.off => k.off = l.off BY <3>3
    <3> QED BY <3>1, <3>2, <3>4, <3>5, <3>6
  <2> SUFFICES ASSUME NEW m \in N, NEW n \in N
               PROVE  (m.off < n.off => End(m) <= n.off) /\ (m.off = n.off => m = n)
      BY DEF Apart
  <2>6. \A k \in N : k.off \in Int BY <1>14, MarkIs
  <2>7. CASE m \in Left /\ n \in Left BY <2>1, <2>7
  <2>8. CASE m \in Left /\ n \in Q \cup Right
    <3>1. m.off < n.off /\ End(m) <= n.off BY <2>2, <2>8
    <3> QED BY <2>6, <3>1
  <2>9. CASE n \in Left /\ m \in Q \cup Right
    <3>1. n.off < m.off BY <2>2, <2>9
    <3> QED BY <2>6, <3>1
  <2>10. CASE m \in Q /\ n \in Q BY <2>3, <2>10
  <2>11. CASE m \in Q /\ n \in Right
    <3>1. m.off < n.off /\ End(m) <= n.off BY <2>4, <2>11
    <3> QED BY <2>6, <3>1
  <2>12. CASE n \in Q /\ m \in Right
    <3>1. n.off < m.off BY <2>4, <2>12
    <3> QED BY <2>6, <3>1
  <2>13. CASE m \in Right /\ n \in Right BY <2>5, <2>13
  <2> QED BY <2>7, <2>8, <2>9, <2>10, <2>11, <2>12, <2>13
<1>20. \E m \in N : IsRoot(m)
  <2>1. PICK m \in M : IsRoot(m) BY DEF Marks
  <2>2. m.off < x
    <3>1. m.off = 0 BY <2>1 DEF IsRoot
    <3>2. before.off \in Nat /\ before.off < x BY <1>3, <1>6
    <3> QED BY <3>1, <3>2
  <2> QED BY <2>1, <2>2
<1>21. ASSUME NEW m \in Left PROVE \E n \in N : n.off = End(m) /\ Follows(m, n)
  <2>1. CASE m = before
    <3>1. \/ \E n \in Q : n.off = End(m) /\ Follows(m, n)
          \/ End(m) = y + d /\ Follows(m, after)
        BY <2>1 DEF Chain
    <3>2. CASE End(m) = y + d /\ Follows(m, after)
      <4>1. after \in Behind /\ m \in Mark /\ after \in Mark /\ after.off \in Nat
          BY <1>3, <1>5, <1>6, <1>8
      <4>2. Shift(after, d).off = y + d /\ after.off + d >= 0 BY <1>3, <1>10, <4>1
      <4>3. Follows(m, Shift(after, d)) BY <3>2, <4>1, <4>2, FollowsShifted
      <4> QED BY <3>2, <4>1, <4>2, <4>3
    <3> QED BY <3>1, <3>2
  <2>2. CASE m # before
    <3>1. m \in M /\ m.tag # FDT_END
      <4>1. Within(c, m) /\ m \in M /\ End(m) <= before.off /\ End(m) < x BY <1>8, <1>15, <2>2
      <4>2. m.tag = FDT_END => End(m) = c.nstruct BY <4>1 DEF Within
      <4>3. x < c.nstruct BY <1>1, <1>2, <1>4, <1>7
      <4> QED BY <1>1, <1>6, <4>1, <4>2, <4>3
    <3>2. PICK n \in M : n.off = End(m) /\ Follows(m, n) BY <3>1, NextMark
    <3>3. n \in Left BY <1>8, <2>2, <3>2
    <3> QED BY <3>2, <3>3
  <2> QED BY <2>1, <2>2
<1>22. ASSUME NEW q \in Q PROVE \E n \in N : n.off = End(q) /\ Follows(q, n)
  <2>1. \/ \E n \in Q : n.off = End(q) /\ Follows(q, n)
        \/ End(q) = y + d /\ Follows(q, after)
      BY DEF Chain
  <2>2. CASE End(q) = y + d /\ Follows(q, after)
    <3>1. after \in Behind /\ q \in Mark /\ after \in Mark /\ after.off \in Nat
        BY <1>3, <1>5, <1>6, <1>11
    <3>2. Shift(after, d).off = y + d /\ after.off + d >= 0 BY <1>3, <1>10, <3>1
    <3>3. Follows(q, Shift(after, d)) BY <2>2, <3>1, <3>2, FollowsShifted
    <3> QED BY <2>2, <3>1, <3>2, <3>3
  <2> QED BY <2>1, <2>2
<1>23. ASSUME NEW m \in Right, m.tag # FDT_END PROVE \E n \in N : n.off = End(m) /\ Follows(m, n)
  <2>1. PICK k \in Behind : m = Shift(k, d) OBVIOUS
  <2>2. k \in M /\ k.off + d >= 0 /\ m.tag = k.tag /\ End(m) = End(k) + d BY <1>10, <2>1
  <2>3. PICK n \in M : n.off = End(k) /\ Follows(k, n) BY <1>23, <2>2, NextMark
  <2>4. n \in Behind
    <3>1. k.off >= y /\ k.off \in Nat /\ End(k) > k.off /\ End(k) \in Nat BY <1>6, <2>2
    <3> QED BY <2>3, <3>1
  <2>5. n \in Mark /\ k \in Mark BY <1>5, <2>2
  <2>6. Shift(n, d).off = n.off + d /\ n.off + d >= 0 BY <1>10, <2>4
  <2>7. Follows(m, Shift(n, d)) BY <2>1, <2>2, <2>3, <2>5, <2>6, FollowsShifted
  <2>8. Shift(n, d) \in N BY <2>4
  <2> QED BY <2>2, <2>3, <2>6, <2>7, <2>8
<1>24. \A m \in N : m.tag # FDT_END => \E n \in N : n.off = End(m) /\ Follows(m, n)
  <2> SUFFICES ASSUME NEW m \in N, m.tag # FDT_END
               PROVE  \E n \in N : n.off = End(m) /\ Follows(m, n)
      OBVIOUS
  <2> QED BY <1>21, <1>22, <1>23
<1> HIDE DEF N
<1>25. Marks(c, N) BY <1>14, <1>18, <1>19, <1>20, <1>24 DEF Marks
<1> QED BY <1>13, <1>25

(* Nothing of the structure has changed.                                   *)
LEMMA MarksMoved ==
    ASSUME NEW b, NEW c, Layout(b), Layout(c), NEW M, Marks(b, M), MoreStrings(b, c), SameStruct(b, c)
    PROVE  Marks(c, M)
<1>1. /\ b.struct \in Nat /\ b.nstruct \in Nat /\ b.strings \in Nat /\ b.nstrings \in Nat
      /\ c.struct \in Nat /\ c.nstruct \in Nat /\ c.strings \in Nat /\ c.nstrings \in Nat
    BY LayoutIs, Fields
<1>2. c.nstruct = b.nstruct BY DEF SameStruct
<1>3. ASSUME NEW m \in M PROVE Stands(c, m) /\ HasName(c, m) /\ Opens(m) /\ Within(c, m)
  <2>1. m \in Mark /\ Stands(b, m) /\ HasName(b, m) /\ Opens(m) /\ Within(b, m) BY MarkOf
  <2>2. m.off \in Nat /\ End(m) \in Nat /\ End(m) <= b.nstruct BY <2>1, MarkIs DEF Within
  <2>3. ASSUME NEW z \in m.off .. End(m) - 1 PROVE StructAt(c, z + 0) = StructAt(b, z)
    <3>1. z \in 0 .. b.nstruct - 1 /\ z + 0 = z BY <1>1, <2>2
    <3> QED BY <3>1 DEF SameStruct
  <2>4. Stands(c, Shift(m, 0)) BY <1>1, <2>1, <2>2, <2>3, SameStands
  <2>5. Shift(m, 0) = m BY <2>1, <2>2 DEF Shift, Mark
  <2>6. HasName(c, m) BY <1>1, <2>1, SameName
  <2>7. Within(c, m) BY <1>2, <2>1 DEF Within
  <2> QED BY <2>1, <2>4, <2>5, <2>6, <2>7
<1> QED BY <1>3 DEF Marks

(* What the reader makes of the tag behind one, the n-th being the one     *)
(* before it.                                                              *)
TagAfter(b, before, n) ==
    LET off == before.next
        tag == WordAt(b, b.struct + off)
    IN  [off |-> off, tag |-> tag, next |-> NextTag(b, tag, off),
         path |-> CASE tag = FDT_BEGIN_NODE ->
                         Append(before.path, StringAt(b, b.struct + off + TAGSIZE))
                    [] tag = FDT_END_NODE /\ before.path # <<>> -> Front(before.path)
                    [] OTHER -> before.path,
         node |-> CASE tag = FDT_BEGIN_NODE -> n + 1
                    [] tag \in {FDT_PROP, FDT_NOP} -> before.node
                    [] OTHER -> 0]

(* The reader looks at the place the tag before it says.                   *)
LEMMA ReadTagIs ==
    ASSUME NEW b, NEW read
    PROVE  ReadTag(b, read) = TagAfter(b, IF read = <<>> THEN NoTag ELSE Last(read), Len(read))
BY Zenon DEF ReadTag, TagAfter

(* A mark is inside the blob, and what its words and its text are.         *)
NameText(b, m) == StringAt(b, b.struct + m.off + TAGSIZE)

(* The words and the text of a tag are read where its mark stands.         *)
LEMMA MarkWords ==
    ASSUME NEW b, Layout(b), NEW m \in Mark, Stands(b, m), End(m) <= b.nstruct
    PROVE  /\ WordAt(b, b.struct + m.off) = m.tag
           /\ m.tag = FDT_PROP =>
                 /\ WordAt(b, b.struct + m.off + TAGSIZE) = m.len
                 /\ WordAt(b, b.struct + m.off + 2 * TAGSIZE) = m.name
           /\ m.tag = FDT_BEGIN_NODE =>
                 /\ NulFrom(b, b.struct + m.off + TAGSIZE) = b.struct + m.off + TAGSIZE + m.len
                 /\ NameText(b, m) = TextOf(b, b.struct + m.off + TAGSIZE, m.len)
                 /\ NameText(b, m) \in Seq(Int) /\ Len(NameText(b, m)) = m.len
<1> DEFINE p == b.struct + m.off
<1>1. /\ Whole(b) /\ b.struct \in Nat /\ b.nstruct \in Nat
      /\ b.strings \in Nat /\ b.nstrings \in Nat /\ b.total \in Nat
      /\ b.struct + b.nstruct <= b.strings /\ b.strings + b.nstrings <= b.total
    BY LayoutIs, Fields
<1>2. /\ m.off \in Nat /\ m.size \in Nat /\ m.len \in Nat /\ m.name \in Nat /\ m.tag \in Tags
      /\ End(m) = m.off + m.size /\ TAGSIZE \in Nat /\ TAGSIZE >= 1
    BY Constants, MarkIs
<1>3. /\ m.size >= TAGSIZE
      /\ m.tag = FDT_BEGIN_NODE => m.size >= TAGSIZE + m.len + 1
      /\ m.tag = FDT_PROP => m.size >= 3 * TAGSIZE
    BY StandsSize
<1>4. p \in Nat /\ p + m.size <= b.total BY <1>1, <1>2
<1>5. m.tag \in Int BY <1>2 DEF Tags, FDT_BEGIN_NODE, FDT_END_NODE, FDT_PROP, FDT_NOP, FDT_END
<1> HIDE DEF p
<1>6. WordAt(b, p) = m.tag
  <2>1. p + TAGSIZE <= b.total BY <1>1, <1>2, <1>3, <1>4
  <2>2. IsWord(b, p, m.tag) BY DEF Stands, p
  <2> QED BY <1>1, <1>4, <1>5, <2>1, <2>2, WordAtIs
<1>7. ASSUME m.tag = FDT_PROP
      PROVE  WordAt(b, p + TAGSIZE) = m.len /\ WordAt(b, p + 2 * TAGSIZE) = m.name
  <2>1. /\ p + TAGSIZE \in Nat /\ (p + TAGSIZE) + TAGSIZE <= b.total
        /\ p + 2 * TAGSIZE \in Nat /\ (p + 2 * TAGSIZE) + TAGSIZE <= b.total
      BY <1>1, <1>2, <1>3, <1>4, <1>7
  <2>2. IsWord(b, p + TAGSIZE, m.len) /\ IsWord(b, p + 2 * TAGSIZE, m.name)
      BY <1>7 DEF Stands, p
  <2>3. m.len \in Int /\ m.name \in Int BY <1>2
  <2>4. WordAt(b, p + TAGSIZE) = m.len BY <1>1, <2>1, <2>2, <2>3, WordAtIs
  <2>5. WordAt(b, p + 2 * TAGSIZE) = m.name BY <1>1, <2>1, <2>2, <2>3, WordAtIs
  <2> QED BY <2>4, <2>5
<1>8. ASSUME m.tag = FDT_BEGIN_NODE
      PROVE  /\ NulFrom(b, p + TAGSIZE) = p + TAGSIZE + m.len
             /\ StringAt(b, p + TAGSIZE) = TextOf(b, p + TAGSIZE, m.len)
             /\ StringAt(b, p + TAGSIZE) \in Seq(Int) /\ Len(StringAt(b, p + TAGSIZE)) = m.len
  <2> DEFINE q == p + TAGSIZE
             s == TextOf(b, q, m.len)
  <2>1. q \in Nat /\ q + m.len < b.total BY <1>1, <1>2, <1>3, <1>4, <1>8
  <2>2. IsText(b, q, m.len) BY <1>8 DEF Stands, p
  <2> HIDE DEF q
  <2>3. /\ NulFrom(b, q) = q + m.len
        /\ StringAt(b, q) = s
      BY <1>1, <1>2, <2>1, <2>2, TextIs
  <2>4. s \in [1 .. m.len -> Int]
    <3> SUFFICES ASSUME NEW i \in 1 .. m.len PROVE At(b, q + i - 1)[1] \in Int
        BY DEF TextOf
    <3>1. q + i - 1 \in 0 .. b.total - 1 BY <1>1, <1>2, <2>1
    <3>2. At(b, q + i - 1) \in Byte BY <1>1, <3>1, Fields
    <3> QED BY <3>2 DEF Byte
  <2> HIDE DEF s
  <2>5. s \in Seq(Int) /\ Len(s) = m.len BY <1>2, <2>4, LengthIs
  <2> QED BY <2>3, <2>5 DEF q, s
<1> QED BY <1>6, <1>7, <1>8 DEF p, NameText

NextOf(m) == IF m.tag = FDT_END THEN -1 ELSE End(m)

(* fdt_next_tag goes to the end of the mark.                               *)
LEMMA NextTagIs ==
    ASSUME NEW b, Layout(b), NEW m \in Mark, Stands(b, m), End(m) <= b.nstruct, Aligned(m.off)
    PROVE  NextTag(b, m.tag, m.off) = NextOf(m)
<1>1. /\ m.off \in Nat /\ m.size \in Nat /\ m.len \in Nat /\ m.tag \in Tags
      /\ End(m) = m.off + m.size /\ TAGSIZE \in Nat /\ TAGSIZE >= 1 /\ b.struct \in Nat
    BY Constants, MarkIs, LayoutIs, Fields
<1>2. CASE m.tag = FDT_BEGIN_NODE
  <2>1. NextTag(b, m.tag, m.off) = FDT_TAGALIGN(NulFrom(b, b.struct + m.off + TAGSIZE) + 1 - b.struct)
    <3>1. m.tag # FDT_PROP /\ ~(m.tag \in {FDT_END_NODE, FDT_NOP})
        BY <1>2 DEF FDT_PROP, FDT_BEGIN_NODE, FDT_END_NODE, FDT_NOP
    <3> QED BY <1>2, <3>1, Zenon DEF NextTag
  <2>2. NulFrom(b, b.struct + m.off + TAGSIZE) = b.struct + m.off + TAGSIZE + m.len
      BY <1>2, MarkWords
  <2>3. PICK q \in 0 .. m.off : m.off = q * TAGSIZE BY DEF Aligned
  <2>4. NulFrom(b, b.struct + m.off + TAGSIZE) + 1 - b.struct = (m.len + 1) + (q + 1) * TAGSIZE
    <3> DEFINE t == TAGSIZE
    <3>1. t \in Nat BY <1>1
    <3> HIDE DEF t
    <3>2. (q + 1) * t = q * t + t BY <2>3, <3>1
    <3>3. q * t \in Int BY <2>3, <3>1
    <3>4. b.struct + m.off + t + m.len + 1 - b.struct = (m.len + 1) + (m.off + t)
        BY <1>1, <3>1
    <3>5. m.off = q * t BY <2>3 DEF t
    <3> QED BY <2>2, <3>2, <3>4, <3>5 DEF t
  <2>5. FDT_TAGALIGN((m.len + 1) + (q + 1) * TAGSIZE) = FDT_TAGALIGN(m.len + 1) + (q + 1) * TAGSIZE
    <3>1. m.len + 1 \in Int /\ q + 1 \in Int BY <1>1, <2>3
    <3> QED BY <3>1, AlignShift
  <2>6. (q + 1) * TAGSIZE = m.off + TAGSIZE
    <3> DEFINE t == TAGSIZE
    <3>1. t \in Nat BY <1>1
    <3> HIDE DEF t
    <3>2. (q + 1) * t = q * t + t BY <2>3, <3>1
    <3> QED BY <2>3, <3>2 DEF t
  <2>7. m.size = TAGSIZE + FDT_TAGALIGN(m.len + 1) /\ FDT_TAGALIGN(m.len + 1) \in Nat
    <3>1. m.len + 1 \in Nat BY <1>1
    <3> QED BY <1>2, <3>1, AlignIs DEF Stands
  <2>8. NextOf(m) = End(m) BY <1>2 DEF NextOf, FDT_BEGIN_NODE, FDT_END
  <2> HIDE DEF FDT_TAGALIGN
  <2> QED BY <1>1, <2>1, <2>4, <2>5, <2>6, <2>7, <2>8
<1>3. CASE m.tag = FDT_PROP
  <2>1. NextTag(b, m.tag, m.off) = m.off + PropSize + FDT_TAGALIGN(WordAt(b, b.struct + m.off + TAGSIZE))
    <3>1. m.tag # FDT_BEGIN_NODE /\ ~(m.tag \in {FDT_END_NODE, FDT_NOP})
        BY <1>3 DEF FDT_PROP, FDT_BEGIN_NODE, FDT_END_NODE, FDT_NOP
    <3> QED BY <1>3, <3>1, Zenon DEF NextTag
  <2>2. WordAt(b, b.struct + m.off + TAGSIZE) = m.len BY <1>3, MarkWords
  <2>3. m.size = PropSize + FDT_TAGALIGN(m.len) BY <1>3 DEF Stands
  <2>4. NextOf(m) = End(m) BY <1>3 DEF NextOf, FDT_PROP, FDT_END
  <2>5. FDT_TAGALIGN(m.len) \in Nat /\ PropSize \in Nat BY <1>1, AlignIs DEF PropSize
  <2> QED BY <1>1, <2>1, <2>2, <2>3, <2>4, <2>5
<1>4. CASE m.tag \in {FDT_END_NODE, FDT_NOP}
  <2>1. NextTag(b, m.tag, m.off) = m.off + TAGSIZE
      BY <1>4 DEF NextTag, FDT_PROP, FDT_BEGIN_NODE, FDT_END_NODE, FDT_NOP
  <2>2. m.size = TAGSIZE BY <1>4 DEF Stands
  <2>3. NextOf(m) = End(m) BY <1>4 DEF NextOf, FDT_END, FDT_END_NODE, FDT_NOP
  <2> QED BY <1>1, <2>1, <2>2, <2>3
<1>5. CASE m.tag = FDT_END
  <2>1. NextTag(b, m.tag, m.off) = -1
      BY <1>5 DEF NextTag, FDT_PROP, FDT_BEGIN_NODE, FDT_END_NODE, FDT_NOP, FDT_END
  <2> QED BY <1>5, <2>1 DEF NextOf
<1> QED BY <1>1, <1>2, <1>3, <1>4, <1>5 DEF Tags

(* The tag that the reader comes to is that of the mark there.             *)
SeenAs(b, m, before, n) ==
    [off |-> m.off, tag |-> m.tag, next |-> NextOf(m),
     path |-> CASE m.tag = FDT_BEGIN_NODE -> Append(before.path, NameText(b, m))
                [] m.tag = FDT_END_NODE /\ before.path # <<>> -> Front(before.path)
                [] OTHER -> before.path,
     node |-> CASE m.tag = FDT_BEGIN_NODE -> n + 1
                [] m.tag \in {FDT_PROP, FDT_NOP} -> before.node
                [] OTHER -> 0]

(* The reader at a mark sees the tag of it.                                *)
LEMMA TagAfterIs ==
    ASSUME NEW b, Layout(b), NEW m \in Mark, Stands(b, m), End(m) <= b.nstruct, Aligned(m.off),
           NEW before, before.next = m.off, NEW n
    PROVE  TagAfter(b, before, n) = SeenAs(b, m, before, n)
<1>1. WordAt(b, b.struct + m.off) = m.tag BY MarkWords
<1>2. NextTag(b, m.tag, m.off) = NextOf(m) BY NextTagIs
<1> QED BY <1>1, <1>2, Zenon DEF TagAfter, SeenAs, NameText

(* Two blobs with the same bytes at a mark show the same tag.              *)
LEMMA SameSeenAs ==
    ASSUME NEW b, NEW c, Layout(b), Layout(c), NEW m \in Mark, Stands(b, m),
           End(m) <= b.nstruct, End(m) <= c.nstruct,
           \A z \in m.off .. End(m) - 1 : StructAt(c, z) = StructAt(b, z),
           NEW before, NEW n
    PROVE  Stands(c, m) /\ SeenAs(c, m, before, n) = SeenAs(b, m, before, n)
<1>1. /\ m.off \in Nat /\ m.size \in Nat /\ m.len \in Nat /\ End(m) = m.off + m.size
      /\ TAGSIZE \in Nat /\ b.struct \in Nat /\ c.struct \in Nat
    BY Constants, MarkIs, LayoutIs, Fields
<1>2. Stands(c, m)
  <2>1. \A z \in m.off .. End(m) - 1 : StructAt(c, z + 0) = StructAt(b, z)
    <3>1. \A z \in m.off .. End(m) - 1 : z + 0 = z BY <1>1
    <3> QED BY <3>1
  <2>2. Stands(c, Shift(m, 0)) BY <1>1, <2>1, SameStands
  <2>3. Shift(m, 0) = m BY <1>1 DEF Shift, Mark
  <2> QED BY <2>2, <2>3
<1>3. ASSUME m.tag = FDT_BEGIN_NODE PROVE NameText(c, m) = NameText(b, m)
  <2> DEFINE p == b.struct + m.off + TAGSIZE
             q == c.struct + m.off + TAGSIZE
  <2>1. SameBytes(b, p, c, q, m.len + 1)
    <3> SUFFICES ASSUME NEW k \in 0 .. m.len PROVE At(c, q + k) = At(b, p + k)
        BY <1>1 DEF SameBytes
    <3>1. m.size >= TAGSIZE + m.len + 1 BY <1>3, StandsSize
    <3> DEFINE z == m.off + TAGSIZE + k
    <3>2. z \in m.off .. End(m) - 1 /\ q + k = c.struct + z /\ p + k = b.struct + z
        BY <1>1, <3>1
    <3> HIDE DEF z
    <3>3. StructAt(c, z) = StructAt(b, z) BY <3>2
    <3> QED BY <3>2, <3>3 DEF StructAt
  <2>2. p \in Int /\ q \in Int BY <1>1
  <2>3. NameText(b, m) = TextOf(b, p, m.len) BY <1>3, MarkWords
  <2>4. NameText(c, m) = TextOf(c, q, m.len) BY <1>2, <1>3, MarkWords
  <2> HIDE DEF p, q
  <2>5. TextOf(c, q, m.len) = TextOf(b, p, m.len)
      BY <1>1, <2>1, <2>2, SameText
  <2> QED BY <2>3, <2>4, <2>5
<1>4. CASE m.tag = FDT_BEGIN_NODE BY <1>2, <1>3, <1>4, Zenon DEF SeenAs
<1>5. CASE m.tag # FDT_BEGIN_NODE
  <2>1. SeenAs(c, m, before, n) = SeenAs(b, m, before, n) BY <1>5 DEF SeenAs
  <2> QED BY <1>2, <2>1
<1> QED BY <1>4, <1>5

(* What holds of the first index and, with one, of the next, holds of all. *)
LEMMA PrefixInduction ==
    ASSUME NEW last \in Nat, NEW Q, 0 \in Q, \A n \in 0 .. last - 1 : n \in Q => n + 1 \in Q
    PROVE  0 .. last \subseteq Q
<1> DEFINE Less == OpToRel(<, Nat)
           missing == (0 .. last) \ Q
<1>1. SUFFICES ASSUME missing # {} PROVE FALSE
    OBVIOUS
<1>2. IsWellFoundedOn(Less, Nat)
    BY NatLessThanWellFounded, Zenon
<1>3. \A x, y \in Nat : y < x => <<y, x>> \in Less
    BY DEF OpToRel
<1> HIDE DEF Less
<1>4. \E x \in missing : \A y \in missing : ~(<<y, x>> \in Less)
  <2>1. missing \subseteq Nat OBVIOUS
  <2> HIDE DEF missing
  <2> QED BY <1>1, <1>2, <2>1, WFMin
<1>5. PICK x \in missing : \A y \in missing : ~(y < x)
  <2>1. PICK x \in missing : \A y \in missing : ~(<<y, x>> \in Less) BY <1>4
  <2>2. x \in Nat /\ \A y \in missing : y \in Nat OBVIOUS
  <2>3. \A y \in missing : ~(y < x) BY <1>3, <2>1, <2>2
  <2> QED BY <2>3
<1>6. x # 0 /\ x - 1 \in 0 .. last - 1
    BY <1>5
<1>7. x - 1 \in Q
    BY <1>5, <1>6
<1> QED BY <1>5, <1>6, <1>7

(* A set of numbers that is not empty has a least one.                     *)
LEMMA LeastIs ==
    ASSUME NEW S, S \subseteq Nat, S # {}
    PROVE  Least(S) \in S /\ \A k \in S : Least(S) <= k
<1> DEFINE Less == OpToRel(<, Nat)
<1>1. IsWellFoundedOn(Less, Nat)
    BY NatLessThanWellFounded, Zenon
<1>2. \A x, y \in Nat : y < x => <<y, x>> \in Less
    BY DEF OpToRel
<1> HIDE DEF Less
<1>3. \E x \in S : \A y \in S : ~(<<y, x>> \in Less)
    BY <1>1, WFMin
<1>4. \E x \in S : \A k \in S : x <= k
  <2>1. PICK x \in S : \A y \in S : ~(<<y, x>> \in Less) BY <1>3
  <2>2. x \in Nat /\ \A y \in S : y \in Nat OBVIOUS
  <2>3. \A y \in S : ~(y < x) BY <1>2, <2>1, <2>2
  <2>4. \A y \in S : x <= y BY <2>2, <2>3
  <2> QED BY <2>4
<1> QED BY <1>4 DEF Least

-----------------------------------------------------------------------------
(* The recursion of Read, and that there is such a function.               *)
More(b, read) == IF ReadsOn(b, read) THEN Append(read, ReadTag(b, read)) ELSE read
Tagging(b, f, last) == f = [n \in 0 .. last |-> IF n = 0 THEN <<>> ELSE More(b, f[n - 1])]

(* The tags read so far, for every number of steps.                        *)
LEMMA TaggingExists ==
    ASSUME NEW b, NEW last \in Nat
    PROVE  \E f : Tagging(b, f, last)
<1> DEFINE Q == {n \in 0 .. last : \E f : Tagging(b, f, n)}
<1>1. 0 \in Q
  <2> DEFINE f == [n \in 0 .. 0 |-> <<>>]
  <2>1. Tagging(b, f, 0) BY DEF Tagging
  <2> QED BY <2>1
<1>2. ASSUME NEW n \in 0 .. last - 1, n \in Q PROVE n + 1 \in Q
  <2>1. PICK f : Tagging(b, f, n) BY <1>2
  <2> DEFINE new == More(b, f[n])
             g == [k \in 0 .. n + 1 |-> IF k = n + 1 THEN new ELSE f[k]]
             body == [k \in 0 .. n + 1 |-> IF k = 0 THEN <<>> ELSE More(b, g[k - 1])]
  <2>2. \A k \in 0 .. n : f[k] = IF k = 0 THEN <<>> ELSE More(b, f[k - 1])
      BY <2>1 DEF Tagging
  <2>3. \A k \in 0 .. n : g[k] = f[k] OBVIOUS
  <2>4. ASSUME NEW k \in 0 .. n + 1 PROVE g[k] = body[k]
    <3>1. CASE k = n + 1
      <4>1. n \in 0 .. n /\ k - 1 = n /\ k # 0 BY <3>1
      <4> QED BY <2>3, <3>1, <4>1
    <3>2. CASE k \in 0 .. n /\ k # 0
      <4>1. k - 1 \in 0 .. n BY <3>2
      <4> QED BY <2>2, <2>3, <3>2, <4>1
    <3>3. CASE k = 0
      <4>1. 0 \in 0 .. n OBVIOUS
      <4> QED BY <2>2, <2>3, <3>3, <4>1
    <3> QED BY <3>1, <3>2, <3>3
  <2>5. g = body
    <3>1. DOMAIN g = 0 .. n + 1 /\ DOMAIN body = 0 .. n + 1 OBVIOUS
    <3> QED BY <2>4, <3>1
  <2>6. Tagging(b, g, n + 1) BY <2>5 DEF Tagging
  <2>7. n + 1 \in 0 .. last OBVIOUS
  <2> HIDE DEF g
  <2> QED BY <2>6, <2>7
<1>3. last \in Q
  <2> HIDE DEF Q
  <2>1. 0 .. last \subseteq Q BY <1>1, <1>2, PrefixInduction
  <2> QED BY <2>1
<1> QED BY <1>3

(* Read makes its steps one after the other.                               *)
LEMMA ReadIs ==
    ASSUME NEW b, b.nstruct \in Nat
    PROVE  \E v : /\ Read(b) = v[b.nstruct] /\ v[0] = <<>>
                  /\ \A n \in 0 .. b.nstruct - 1 : v[n + 1] = More(b, v[n])
<1> DEFINE v == CHOOSE f : Tagging(b, f, b.nstruct)
<1>1. Tagging(b, v, b.nstruct) BY TaggingExists
<1>2. Read(b) = v[b.nstruct] BY Zenon DEF Read, Tagging, More
<1> HIDE DEF v
<1>3. \A n \in 0 .. b.nstruct : v[n] = IF n = 0 THEN <<>> ELSE More(b, v[n - 1])
    BY <1>1 DEF Tagging
<1>4. v[0] = <<>>
  <2>1. 0 \in 0 .. b.nstruct OBVIOUS
  <2> QED BY <1>3, <2>1
<1>5. ASSUME NEW n \in 0 .. b.nstruct - 1 PROVE v[n + 1] = More(b, v[n])
  <2>1. n + 1 \in 0 .. b.nstruct /\ n + 1 # 0 /\ (n + 1) - 1 = n OBVIOUS
  <2> QED BY <1>3, <2>1
<1> QED BY <1>2, <1>4, <1>5

-----------------------------------------------------------------------------
(* A tag that was read is that of a mark.                                  *)
ReadType == [off : Int, tag : Int, next : Int, path : Seq(Seq(Int)), node : Nat]
Sees(t, m) ==
    /\ t \in ReadType /\ t.off = m.off /\ t.tag = m.tag /\ t.next = NextOf(m)
    /\ Len(t.path) = m.depth /\ (m.open => t.node # 0)

(* Where a mark is and what may be there.                                  *)
LEMMA MarkPlace ==
    ASSUME NEW b, NEW M, Marks(b, M), NEW m \in M
    PROVE  /\ m \in Mark /\ Stands(b, m) /\ HasName(b, m) /\ Opens(m)
           /\ Aligned(m.off) /\ End(m) <= b.nstruct
           /\ m.tag = FDT_END => End(m) = b.nstruct /\ m.depth = 0
           /\ m.depth = 0 => m.tag = FDT_END \/ (m.tag = FDT_END_NODE /\ End(m) + TAGSIZE = b.nstruct)
           /\ m.off \in Nat /\ m.size \in Nat /\ End(m) = m.off + m.size /\ End(m) \in Nat
           /\ m.depth \in Nat /\ m.len \in Nat /\ m.name \in Nat /\ m.tag \in Tags
           /\ m.size >= TAGSIZE /\ m.size >= 1
<1>1. m \in Mark /\ Stands(b, m) /\ HasName(b, m) /\ Opens(m) /\ Within(b, m)
      /\ m.size >= TAGSIZE /\ m.size >= 1
    BY MarkOf
<1>2. /\ m.off \in Nat /\ m.size \in Nat /\ m.len \in Nat /\ m.name \in Nat /\ m.depth \in Nat
      /\ m.tag \in Tags /\ End(m) = m.off + m.size /\ End(m) \in Nat
    BY <1>1, MarkIs
<1> QED BY <1>1, <1>2 DEF Within

(* The tags are different from each other.                                 *)
LEMMA TagsDiffer ==
    /\ FDT_BEGIN_NODE \in Int /\ FDT_END_NODE \in Int /\ FDT_PROP \in Int /\ FDT_NOP \in Int
    /\ FDT_END \in Int
    /\ FDT_BEGIN_NODE # FDT_END_NODE /\ FDT_BEGIN_NODE # FDT_PROP /\ FDT_BEGIN_NODE # FDT_NOP
    /\ FDT_BEGIN_NODE # FDT_END /\ FDT_END_NODE # FDT_PROP /\ FDT_END_NODE # FDT_NOP
    /\ FDT_END_NODE # FDT_END /\ FDT_PROP # FDT_NOP /\ FDT_PROP # FDT_END /\ FDT_NOP # FDT_END
BY DEF FDT_BEGIN_NODE, FDT_END_NODE, FDT_PROP, FDT_NOP, FDT_END

(* What the reader makes of a mark, tag by tag.                            *)
LEMMA SeenAsIs ==
    ASSUME NEW b, NEW m, NEW before, NEW n, NEW u, u = SeenAs(b, m, before, n)
    PROVE  /\ u.off = m.off /\ u.tag = m.tag /\ u.next = NextOf(m)
           /\ u = [off |-> u.off, tag |-> u.tag, next |-> u.next, path |-> u.path, node |-> u.node]
           /\ m.tag = FDT_BEGIN_NODE =>
                 u.path = Append(before.path, NameText(b, m)) /\ u.node = n + 1
           /\ m.tag = FDT_END_NODE =>
                 u.path = (IF before.path # <<>> THEN Front(before.path) ELSE before.path) /\ u.node = 0
           /\ m.tag \in {FDT_PROP, FDT_NOP} => u.path = before.path /\ u.node = before.node
           /\ m.tag = FDT_END => u.path = before.path /\ u.node = 0
<1> DEFINE p == CASE m.tag = FDT_BEGIN_NODE -> Append(before.path, NameText(b, m))
                  [] m.tag = FDT_END_NODE /\ before.path # <<>> -> Front(before.path)
                  [] OTHER -> before.path
           k == CASE m.tag = FDT_BEGIN_NODE -> n + 1
                  [] m.tag \in {FDT_PROP, FDT_NOP} -> before.node
                  [] OTHER -> 0
<1>1. u = [off |-> m.off, tag |-> m.tag, next |-> NextOf(m), path |-> p, node |-> k]
    BY Zenon DEF SeenAs
<1>2. m.tag = FDT_BEGIN_NODE => p = Append(before.path, NameText(b, m)) /\ k = n + 1
    BY TagsDiffer, Zenon
<1>3. m.tag = FDT_END_NODE => p = (IF before.path # <<>> THEN Front(before.path) ELSE before.path) /\ k = 0
    BY TagsDiffer, Zenon
<1>4. m.tag \in {FDT_PROP, FDT_NOP} => p = before.path /\ k = before.node
    BY TagsDiffer, Zenon
<1>5. m.tag = FDT_END => p = before.path /\ k = 0
    BY TagsDiffer, Zenon
<1> HIDE DEF p, k
<1>6. u.off = m.off /\ u.tag = m.tag /\ u.next = NextOf(m) /\ u.path = p /\ u.node = k
    BY <1>1
<1>7. u = [off |-> u.off, tag |-> u.tag, next |-> u.next, path |-> u.path, node |-> u.node]
    BY <1>1, <1>6, Zenon
<1> QED BY <1>2, <1>3, <1>4, <1>5, <1>6, <1>7

(* A tag that was read, field by field.                                    *)
LEMMA ReadTypeIs ==
    ASSUME NEW t
    PROVE  /\ t \in ReadType => /\ t.off \in Int /\ t.tag \in Int /\ t.next \in Int
                               /\ t.path \in Seq(Seq(Int)) /\ t.node \in Nat
           /\ /\ t = [off |-> t.off, tag |-> t.tag, next |-> t.next, path |-> t.path, node |-> t.node]
              /\ t.off \in Int /\ t.tag \in Int /\ t.next \in Int
              /\ t.path \in Seq(Seq(Int)) /\ t.node \in Nat
              => t \in ReadType
<1> DEFINE S == Seq(Seq(Int))
<1>1. ReadType = [off : Int, tag : Int, next : Int, path : S, node : Nat] BY DEF ReadType
<1> HIDE DEF S
<1>2. t \in ReadType => /\ t.off \in Int /\ t.tag \in Int /\ t.next \in Int /\ t.path \in S /\ t.node \in Nat
    BY <1>1
<1>3. /\ t = [off |-> t.off, tag |-> t.tag, next |-> t.next, path |-> t.path, node |-> t.node]
      /\ t.off \in Int /\ t.tag \in Int /\ t.next \in Int /\ t.path \in S /\ t.node \in Nat
      => t \in ReadType
    BY <1>1
<1> QED BY <1>2, <1>3 DEF S

(* The first tag is that of the root.                                      *)
LEMMA FirstSeen ==
    ASSUME NEW b, Layout(b), NEW M, Marks(b, M), NEW m \in M, IsRoot(m)
    PROVE  /\ Sees(TagAfter(b, NoTag, 0), m)
           /\ TagAfter(b, NoTag, 0).path = << <<>> >>
<1> DEFINE t == TagAfter(b, NoTag, 0)
<1>1. m \in Mark /\ Stands(b, m) /\ Aligned(m.off) /\ End(m) <= b.nstruct /\ End(m) \in Nat
    BY MarkPlace
<1>2. m.off = 0 /\ m.tag = FDT_BEGIN_NODE /\ m.len = 0 /\ m.depth = 1 BY DEF IsRoot
<1>3. t = SeenAs(b, m, NoTag, 0)
  <2>1. NoTag.next = m.off BY <1>2 DEF NoTag
  <2> QED BY <1>1, <2>1, TagAfterIs
<1>4. NameText(b, m) \in Seq(Int) /\ Len(NameText(b, m)) = 0 BY <1>1, <1>2, MarkWords
<1>5. NameText(b, m) = <<>> BY <1>4, EmptySeq
<1>6. /\ t.off = 0 /\ t.tag = FDT_BEGIN_NODE /\ t.next = NextOf(m)
      /\ t.path = Append(NoTag.path, NameText(b, m)) /\ t.node = 0 + 1
      /\ t = [off |-> t.off, tag |-> t.tag, next |-> t.next, path |-> t.path, node |-> t.node]
  <2> HIDE DEF t
  <2> QED BY <1>2, <1>3, SeenAsIs
<1> HIDE DEF t
<1>7. t.off = 0 /\ t.tag = FDT_BEGIN_NODE /\ t.next = NextOf(m) /\ t.path = Append(<<>>, <<>>) /\ t.node = 1
    BY <1>5, <1>6 DEF NoTag
<1>8. Append(<<>>, <<>>) = << <<>> >> OBVIOUS
<1>9. << <<>> >> \in Seq(Seq(Int)) /\ Len(<< <<>> >>) = 1 OBVIOUS
<1>10. NextOf(m) \in Int BY <1>1 DEF NextOf
<1>11. t \in ReadType
  <2>1. t.off \in Int /\ t.tag \in Int /\ t.next \in Int /\ t.path \in Seq(Seq(Int)) /\ t.node \in Nat
      BY <1>7, <1>8, <1>9, <1>10, TagsDiffer
  <2> QED BY <1>6, <2>1, ReadTypeIs
<1>12. Sees(t, m) BY <1>2, <1>7, <1>8, <1>9, <1>11 DEF Sees
<1> QED BY <1>7, <1>8, <1>12 DEF t

(* What the path is at a mark, from the path at the one before it.         *)
PathAfter(b, n, path) ==
    CASE n.tag = FDT_BEGIN_NODE -> Append(path, NameText(b, n))
      [] n.tag = FDT_END_NODE -> Front(path)
      [] OTHER -> path

(* The tag that is read after a mark is that of the next one.              *)
LEMMA NextSeen ==
    ASSUME NEW b, Layout(b), NEW M, Marks(b, M), NEW m \in M, NEW n \in M,
           n.off = End(m), Follows(m, n), m.tag # FDT_END,
           NEW t, Sees(t, m), NEW k \in Nat
    PROVE  /\ TagAfter(b, t, k) = SeenAs(b, n, t, k)
           /\ Sees(TagAfter(b, t, k), n)
           /\ TagAfter(b, t, k).path = PathAfter(b, n, t.path)
<1> DEFINE u == TagAfter(b, t, k)
<1>1. n \in Mark /\ Stands(b, n) /\ Opens(n) /\ Aligned(n.off) /\ End(n) <= b.nstruct /\ End(n) \in Nat
      /\ n.off \in Nat /\ n.len \in Nat /\ n.depth \in Nat /\ n.tag \in Tags
    BY MarkPlace
<1>2. /\ t \in ReadType /\ t.next = End(m) /\ Len(t.path) = m.depth /\ (m.open => t.node # 0)
    BY DEF Sees, NextOf
<1>3. t.path \in Seq(Seq(Int)) /\ t.node \in Nat /\ m.depth \in Nat
  <2>1. m.depth \in Nat BY MarkPlace
  <2>2. t \in ReadType BY <1>2
  <2> QED BY <2>1, <2>2, ReadTypeIs
<1>4. u = SeenAs(b, n, t, k)
  <2>1. t.next = n.off BY <1>2, Zenon
  <2> QED BY <1>1, <2>1, TagAfterIs
<1> HIDE DEF u
<1>5. /\ u.off = n.off /\ u.tag = n.tag /\ u.next = NextOf(n)
      /\ u = [off |-> u.off, tag |-> u.tag, next |-> u.next, path |-> u.path, node |-> u.node]
      /\ n.tag = FDT_BEGIN_NODE => u.path = Append(t.path, NameText(b, n)) /\ u.node = k + 1
      /\ n.tag = FDT_END_NODE =>
            u.path = (IF t.path # <<>> THEN Front(t.path) ELSE t.path) /\ u.node = 0
      /\ n.tag \in {FDT_PROP, FDT_NOP} => u.path = t.path /\ u.node = t.node
      /\ n.tag = FDT_END => u.path = t.path /\ u.node = 0
    BY <1>4, SeenAsIs
<1>6. NextOf(n) \in Int /\ n.tag \in Int /\ n.off \in Int
    BY <1>1 DEF NextOf, Tags, FDT_BEGIN_NODE, FDT_END_NODE, FDT_PROP, FDT_NOP, FDT_END
<1>7. u.path = PathAfter(b, n, t.path) /\ u.path \in Seq(Seq(Int)) /\ Len(u.path) = n.depth
  <2>1. CASE n.tag = FDT_BEGIN_NODE
    <3>1. u.path = Append(t.path, NameText(b, n)) BY <1>5, <2>1
    <3>2. NameText(b, n) \in Seq(Int) BY <1>1, <2>1, MarkWords
    <3>3. n.depth = m.depth + 1 BY <2>1, TagsDiffer DEF Follows
    <3>4. PathAfter(b, n, t.path) = Append(t.path, NameText(b, n)) BY <2>1, TagsDiffer, Zenon DEF PathAfter
    <3> HIDE DEF NameText
    <3>5. Append(t.path, NameText(b, n)) \in Seq(Seq(Int))
          /\ Len(Append(t.path, NameText(b, n))) = Len(t.path) + 1
        BY <1>3, <3>2, AppendProperties
    <3> QED BY <1>2, <3>1, <3>3, <3>4, <3>5
  <2>2. CASE n.tag = FDT_END_NODE
    <3>1. m.depth = n.depth + 1 BY <2>2, TagsDiffer DEF Follows
    <3>2. t.path # <<>> /\ Len(t.path) = n.depth + 1
      <4>1. Len(t.path) = n.depth + 1 BY <1>2, <3>1
      <4> QED BY <1>1, <4>1
    <3>3. u.path = Front(t.path) /\ PathAfter(b, n, t.path) = Front(t.path)
        BY <1>5, <2>2, <3>2, TagsDiffer DEF PathAfter
    <3>4. Front(t.path) = SubSeq(t.path, 1, Len(t.path) - 1) BY DEF Front
    <3>5. Front(t.path) \in Seq(Seq(Int)) /\ Len(Front(t.path)) = n.depth
      <4> DEFINE l == Len(t.path) - 1
      <4>1. l = n.depth /\ l \in Nat BY <1>1, <3>2
      <4>2. \A i \in 1 .. l : t.path[i] \in Seq(Int)
        <5>1. \A i \in 1 .. l : i \in 1 .. Len(t.path) BY <1>3, <3>2, <1>1
        <5> QED BY <1>3, <5>1, ElementOfSeq
      <4> HIDE DEF l
      <4>3. /\ SubSeq(t.path, 1, l) \in Seq(Seq(Int))
            /\ Len(SubSeq(t.path, 1, l)) = IF 1 <= l THEN l - 1 + 1 ELSE 0
          BY <4>1, <4>2, SubSeqProperties
      <4>4. Front(t.path) = SubSeq(t.path, 1, l) BY <3>4 DEF l
      <4> QED BY <4>1, <4>3, <4>4
    <3> QED BY <3>3, <3>5
  <2>3. CASE n.tag # FDT_BEGIN_NODE /\ n.tag # FDT_END_NODE
    <3>1. PathAfter(b, n, t.path) = t.path BY <2>3, Zenon DEF PathAfter
    <3>0. u.path = t.path BY <1>1, <1>5, <2>3 DEF Tags
    <3>2. n.depth = m.depth BY <2>3 DEF Follows
    <3> QED BY <1>2, <1>3, <3>0, <3>1, <3>2
  <2> QED BY <2>1, <2>2, <2>3
<1>8. u.node \in Nat /\ (n.open => u.node # 0)
  <2>1. CASE n.tag = FDT_BEGIN_NODE
    <3>1. u.node = k + 1 BY <1>5, <2>1
    <3> QED BY <3>1
  <2>2. CASE n.tag \in {FDT_PROP, FDT_NOP}
    <3>1. u.node = t.node /\ n.tag # FDT_BEGIN_NODE
        BY <1>5, <2>2 DEF FDT_PROP, FDT_NOP, FDT_BEGIN_NODE
    <3>2. n.open => m.open BY <3>1 DEF Follows
    <3> QED BY <1>2, <1>3, <3>1, <3>2
  <2>3. CASE n.tag \notin {FDT_BEGIN_NODE, FDT_PROP, FDT_NOP}
    <3>1. u.node = 0 BY <1>1, <1>5, <2>3 DEF Tags
    <3>2. ~n.open BY <1>1, <2>3 DEF Opens
    <3> QED BY <3>1, <3>2
  <2> QED BY <2>1, <2>2, <2>3
<1>9. u \in ReadType
  <2>2. u.off \in Int /\ u.tag \in Int /\ u.next \in Int BY <1>5, <1>6
  <2> QED BY <1>5, <1>7, <1>8, <2>2, ReadTypeIs
<1>10. Sees(u, n) BY <1>5, <1>7, <1>8, <1>9 DEF Sees
<1> QED BY <1>4, <1>7, <1>10 DEF u

(* What has been read so far: the first tags, each behind the one before.  *)
Follow(b, M, r) ==
    /\ r \in Seq(ReadType)
    /\ \A k \in 1 .. Len(r) : \E m \in M : Sees(r[k], m)
    /\ Len(r) >= 1 => r[1] = TagAfter(b, NoTag, 0)
    /\ \A k \in 1 .. Len(r) - 1 : r[k].tag # FDT_END /\ r[k + 1] = TagAfter(b, r[k], k)

(* One more tag that is read.                                              *)
LEMMA FollowsOn ==
    ASSUME NEW b, Layout(b), NEW M, Marks(b, M), NEW r, Follow(b, M, r), ReadsOn(b, r),
           NEW t, t = ReadTag(b, r)
    PROVE  /\ Follow(b, M, Append(r, t)) /\ Len(Append(r, t)) = Len(r) + 1
           /\ Last(Append(r, t)) = t
           /\ IF r = <<>> THEN t.off = 0 ELSE t.off >= Last(r).off + 1
<1>1. r \in Seq(ReadType) /\ Len(r) \in Nat
  <2>1. r \in Seq(ReadType) BY DEF Follow
  <2> QED BY <2>1, LenProperties
<1>2. TAGSIZE \in Nat /\ TAGSIZE >= 1 /\ b.nstruct \in Nat BY Constants, LayoutIs, Fields
<1>3. ASSUME r = <<>>
      PROVE  t = TagAfter(b, NoTag, 0) /\ t.off = 0 /\ \E m \in M : Sees(t, m)
  <2>1. Len(r) = 0 BY <1>3
  <2>2. t = TagAfter(b, NoTag, 0) BY <1>3, <2>1, ReadTagIs
  <2>3. PICK m \in M : IsRoot(m) BY DEF Marks
  <2>4. Sees(t, m) BY <2>2, <2>3, FirstSeen
  <2>5. t.off = 0 BY <2>3, <2>4 DEF Sees, IsRoot
  <2> QED BY <2>2, <2>4, <2>5
<1>4. ASSUME r # <<>>
      PROVE  /\ Len(r) >= 1 /\ t = TagAfter(b, r[Len(r)], Len(r)) /\ r[Len(r)].tag # FDT_END
             /\ \E m \in M : Sees(t, m)
             /\ t.off >= r[Len(r)].off + 1
  <2> DEFINE l == r[Len(r)]
  <2>1. Len(r) >= 1 /\ Len(r) \in 1 .. Len(r) BY <1>1, <1>4, EmptySeq
  <2>2. t = TagAfter(b, l, Len(r)) BY <1>4, ReadTagIs DEF Last
  <2>3. l.next \in 0 .. b.nstruct - TAGSIZE BY <1>4 DEF ReadsOn, Last
  <2>4. PICK m \in M : Sees(l, m) BY <2>1 DEF Follow
  <2> HIDE DEF l
  <2>5. m.tag # FDT_END
    <3>1. l.next = NextOf(m) BY <2>4 DEF Sees
    <3> QED BY <2>3, <3>1 DEF NextOf
  <2>6. PICK n \in M : n.off = End(m) /\ Follows(m, n) BY <2>5, NextMark
  <2>7. Sees(t, n) BY <1>1, <2>2, <2>4, <2>5, <2>6, NextSeen
  <2>8. t.off = n.off /\ l.off = m.off /\ l.tag = m.tag BY <2>4, <2>7 DEF Sees
  <2>9. m.off \in Nat /\ m.size \in Nat /\ End(m) = m.off + m.size /\ m.size >= 1 BY MarkPlace
  <2>10. t.off >= l.off + 1 BY <2>6, <2>8, <2>9
  <2> QED BY <2>1, <2>2, <2>5, <2>7, <2>8, <2>10 DEF l
<1>5. PICK m \in M : Sees(t, m) BY <1>3, <1>4
<1>6. t \in ReadType BY <1>5 DEF Sees
<1> DEFINE s == Append(r, t)
           n == Len(r)
<1>7. /\ s \in Seq(ReadType) /\ Len(s) = n + 1 /\ s[n + 1] = t
      /\ \A i \in 1 .. n : s[i] = r[i]
    BY <1>1, <1>6, AppendProperties
<1> HIDE DEF s
<1>8. ASSUME NEW k \in 1 .. n + 1 PROVE \E i \in M : Sees(s[k], i)
  <2>1. CASE k = n + 1 BY <1>5, <1>7, <2>1
  <2>2. CASE k # n + 1
    <3>1. k \in 1 .. n BY <1>1, <2>2
    <3> QED BY <1>7, <3>1 DEF Follow
  <2> QED BY <2>1, <2>2
<1>9. s[1] = TagAfter(b, NoTag, 0)
  <2>1. CASE r = <<>>
    <3>1. n = 0 /\ n + 1 = 1 BY <2>1
    <3> QED BY <1>3, <1>7, <2>1, <3>1
  <2>2. CASE r # <<>>
    <3>1. n >= 1 /\ 1 \in 1 .. n BY <1>1, <1>4, <2>2
    <3> QED BY <1>7, <3>1 DEF Follow
  <2> QED BY <2>1, <2>2
<1>10. ASSUME NEW k \in 1 .. n PROVE s[k].tag # FDT_END /\ s[k + 1] = TagAfter(b, s[k], k)
  <2>1. r # <<>>
    <3>1. n # 0 BY <1>1
    <3> QED BY <3>1
  <2>2. CASE k = n BY <1>4, <1>7, <2>1, <2>2
  <2>3. CASE k # n
    <3>1. k \in 1 .. n - 1 /\ k + 1 \in 1 .. n BY <1>1, <2>3
    <3> QED BY <1>7, <3>1 DEF Follow
  <2> QED BY <2>2, <2>3
<1>11. Follow(b, M, s)
  <2>1. Len(s) = n + 1 /\ Len(s) - 1 = n BY <1>1, <1>7
  <2> QED BY <1>7, <1>8, <1>9, <1>10, <2>1 DEF Follow
<1>12. Last(s) = t BY <1>7 DEF Last
<1>13. r # <<>> => t.off >= Last(r).off + 1 BY <1>4 DEF Last
<1> QED BY <1>3, <1>7, <1>11, <1>12, <1>13 DEF s, n

(* The reader sees marks only, and comes to FDT_END.                       *)
LEMMA ReadMarks ==
    ASSUME NEW b, Layout(b), NEW M, Marks(b, M), NEW r, r = Read(b)
    PROVE  /\ Follow(b, M, r) /\ Len(r) \in Nat /\ Len(r) >= 1
           /\ r[Len(r)].tag = FDT_END
<1>1. TAGSIZE \in Nat /\ TAGSIZE >= 1 /\ b.nstruct \in Nat BY Constants, LayoutIs, Fields
<1>2. PICK v : /\ r = v[b.nstruct] /\ v[0] = <<>>
               /\ \A n \in 0 .. b.nstruct - 1 : v[n + 1] = More(b, v[n])
    BY <1>1, ReadIs
<1> DEFINE P(n) == /\ Follow(b, M, v[n])
                   /\ \/ Len(v[n]) = n /\ (n > 0 => Last(v[n]).off >= n - 1)
                      \/ v[n] # <<>> /\ ~ReadsOn(b, v[n])
           Q == {n \in 0 .. b.nstruct : P(n)}
<1>3. 0 \in Q
  <2>1. Follow(b, M, <<>>)
    <3>1. <<>> \in Seq(ReadType) /\ Len(<<>>) = 0 BY EmptySeq
    <3>2. 1 .. 0 = {} /\ 1 .. 0 - 1 = {} OBVIOUS
    <3> QED BY <3>1, <3>2 DEF Follow
  <2>2. Len(<<>>) = 0 OBVIOUS
  <2> QED BY <1>1, <1>2, <2>1, <2>2
<1>4. ASSUME NEW n \in 0 .. b.nstruct - 1, n \in Q PROVE n + 1 \in Q
  <2>1. P(n) BY <1>4
  <2>2. v[n + 1] = More(b, v[n]) BY <1>2
  <2>3. n + 1 \in 0 .. b.nstruct BY <1>1
  <2>4. CASE ~ReadsOn(b, v[n])
    <3>1. v[n + 1] = v[n] BY <2>2, <2>4 DEF More
    <3>2. v[n] # <<>> BY <2>4 DEF ReadsOn
    <3> QED BY <2>1, <2>3, <2>4, <3>1, <3>2
  <2>5. CASE ReadsOn(b, v[n])
    <3> DEFINE t == ReadTag(b, v[n])
    <3>1. v[n + 1] = Append(v[n], t) BY <2>2, <2>5 DEF More
    <3>2. /\ Follow(b, M, Append(v[n], t)) /\ Len(Append(v[n], t)) = Len(v[n]) + 1
          /\ Last(Append(v[n], t)) = t
          /\ IF v[n] = <<>> THEN t.off = 0 ELSE t.off >= Last(v[n]).off + 1
      <4>1. Follow(b, M, v[n]) BY <2>1
      <4> HIDE DEF P, Q
      <4> QED BY <2>5, <4>1, FollowsOn
    <3>3. Len(v[n]) = n /\ (n > 0 => Last(v[n]).off >= n - 1) BY <2>1, <2>5
    <3> HIDE DEF t
    <3>4. t.off >= n
      <4>1. CASE n = 0
        <5>1. v[n] = <<>> BY <1>2, <4>1
        <5>2. t.off = 0 BY <3>2, <5>1
        <5> QED BY <4>1, <5>2
      <4>2. CASE n > 0
        <5>1. v[n] # <<>>
          <6>1. Len(v[n]) # 0 BY <3>3, <4>2
          <6> QED BY <6>1
        <5>2. t.off >= Last(v[n]).off + 1 BY <3>2, <5>1
        <5>3. Last(v[n]).off \in Int /\ t.off \in Int
          <6>1. v[n] \in Seq(ReadType) /\ Append(v[n], t) \in Seq(ReadType) BY <2>1, <3>2 DEF Follow
          <6>2. n \in 1 .. Len(v[n]) /\ n + 1 \in 1 .. Len(Append(v[n], t)) BY <3>2, <3>3, <4>2
          <6>3. v[n][n] \in ReadType /\ Append(v[n], t)[n + 1] \in ReadType
            <7> HIDE DEF P, Q
            <7> QED BY <6>1, <6>2, ElementOfSeq
          <6>4. Last(v[n]) = v[n][n] /\ t = Append(v[n], t)[n + 1] BY <3>2, <3>3 DEF Last
          <6> QED BY <6>3, <6>4, ReadTypeIs
        <5> QED BY <3>3, <4>2, <5>2, <5>3
      <4> QED BY <4>1, <4>2
    <3>5. Len(v[n + 1]) = n + 1 /\ Last(v[n + 1]).off >= (n + 1) - 1
      <4>1. Len(v[n + 1]) = n + 1 BY <3>1, <3>2, <3>3
      <4>2. Last(v[n + 1]) = t /\ (n + 1) - 1 = n BY <3>1, <3>2
      <4> QED BY <3>4, <4>1, <4>2
    <3>6. P(n + 1) BY <3>1, <3>2, <3>5
    <3> QED BY <2>3, <3>6
  <2> QED BY <2>4, <2>5
<1>5. P(b.nstruct)
  <2> HIDE DEF P
  <2>1. 0 .. b.nstruct \subseteq Q
    <3> HIDE DEF Q
    <3> QED BY <1>1, <1>3, <1>4, PrefixInduction
  <2> QED BY <1>1, <2>1
<1>6. Follow(b, M, r) /\ r \in Seq(ReadType) /\ Len(r) \in Nat
  <2>1. Follow(b, M, r) BY <1>2, <1>5
  <2>2. r \in Seq(ReadType) BY <2>1 DEF Follow
  <2> QED BY <2>1, <2>2, LenProperties
<1>7. \/ Len(r) = b.nstruct /\ (b.nstruct > 0 => Last(r).off >= b.nstruct - 1)
      \/ r # <<>> /\ ~ReadsOn(b, r)
    BY <1>2, <1>5
<1> HIDE DEF P, Q
<1>8. b.nstruct > 0
  <2>1. PICK m \in M : IsRoot(m) BY DEF Marks
  <2>2. m.off \in Nat /\ m.size \in Nat /\ End(m) = m.off + m.size /\ m.size >= 1 /\ End(m) <= b.nstruct
      BY MarkPlace
  <2> QED BY <1>1, <2>2
<1>9. Len(r) >= 1
  <2>1. r # <<>>
    <3>1. Len(r) = b.nstruct => Len(r) # 0 BY <1>8
    <3> QED BY <1>7, <3>1
  <2> QED BY <1>6, <2>1, EmptySeq
<1> DEFINE l == r[Len(r)]
<1>10. PICK m \in M : Sees(l, m)
  <2>1. Len(r) \in 1 .. Len(r) BY <1>6, <1>9
  <2> QED BY <1>6, <2>1 DEF Follow
<1>11. l.off = m.off /\ l.tag = m.tag /\ l.next = NextOf(m) BY <1>10 DEF Sees
<1>12. Last(r) = l BY DEF Last
<1> HIDE DEF l
<1>13. m.off \in Nat /\ m.size \in Nat /\ End(m) = m.off + m.size /\ m.size >= TAGSIZE /\ End(m) <= b.nstruct
    BY MarkPlace
<1>14. SUFFICES ASSUME m.tag # FDT_END PROVE FALSE
    BY <1>6, <1>9, <1>11 DEF l
<1>15. PICK n \in M : n.off = End(m) /\ Follows(m, n) BY <1>14, NextMark
<1>16. n.off \in Nat /\ n.size \in Nat /\ End(n) = n.off + n.size /\ n.size >= TAGSIZE /\ End(n) <= b.nstruct
    BY MarkPlace
<1>17. l.next = n.off BY <1>11, <1>14, <1>15 DEF NextOf
<1>18. l.next \in 0 .. b.nstruct - TAGSIZE BY <1>1, <1>16, <1>17
<1>19. ReadsOn(b, r) BY <1>12, <1>18 DEF ReadsOn
<1>20. Last(r).off >= b.nstruct - 1 BY <1>7, <1>8, <1>19
<1>21. m.off >= b.nstruct - 1 BY <1>11, <1>12, <1>20
<1> QED BY <1>1, <1>13, <1>15, <1>16, <1>21

(* A blob that can be read, its marks, and the tags that are read.         *)
Reading(b, M, r) == Layout(b) /\ Marks(b, M) /\ r = Read(b)
MarkFor(M, t) == CHOOSE m \in M : Sees(t, m)

(* What has been read is a sequence of tags that ends in FDT_END.          *)
LEMMA ReadingIs ==
    ASSUME NEW b, NEW M, NEW r, Reading(b, M, r)
    PROVE  /\ Layout(b) /\ Marks(b, M) /\ Follow(b, M, r)
           /\ r \in Seq(ReadType) /\ Len(r) \in Nat /\ Len(r) >= 1 /\ DOMAIN r = 1 .. Len(r)
           /\ r[Len(r)].tag = FDT_END
<1>1. Layout(b) /\ Marks(b, M) /\ r = Read(b) BY DEF Reading
<1>2. Follow(b, M, r) /\ Len(r) \in Nat /\ Len(r) >= 1 /\ r[Len(r)].tag = FDT_END BY <1>1, ReadMarks
<1>3. r \in Seq(ReadType) BY <1>2 DEF Follow
<1> QED BY <1>1, <1>2, <1>3, LenProperties

(* Every tag that was read has a mark.                                     *)
LEMMA WalkIs ==
    ASSUME NEW b, NEW M, NEW r, Reading(b, M, r), NEW k \in 1 .. Len(r), NEW m, m = MarkFor(M, r[k])
    PROVE  /\ m \in M /\ Sees(r[k], m)
           /\ r[k].off = m.off /\ r[k].tag = m.tag /\ r[k].next = NextOf(m)
           /\ Len(r[k].path) = m.depth /\ (m.open => r[k].node # 0)
           /\ r[k].path \in Seq(Seq(Int)) /\ r[k].node \in Nat
<1>1. Follow(b, M, r) BY ReadingIs
<1>2. \E i \in M : Sees(r[k], i) BY <1>1 DEF Follow
<1>3. m \in M /\ Sees(r[k], m) BY <1>2, Zenon DEF MarkFor
<1>4. r[k] \in ReadType BY <1>3 DEF Sees
<1>5. r[k].path \in Seq(Seq(Int)) /\ r[k].node \in Nat BY <1>4, ReadTypeIs
<1> QED BY <1>3, <1>5 DEF Sees

(* Tags one after the other have marks one after the other.                *)
LEMMA WalkNext ==
    ASSUME NEW b, NEW M, NEW r, Reading(b, M, r), NEW k \in 1 .. Len(r) - 1,
           NEW m, m = MarkFor(M, r[k]), NEW n, n = MarkFor(M, r[k + 1])
    PROVE  /\ m \in M /\ n \in M /\ m.tag # FDT_END /\ r[k].tag # FDT_END
           /\ n.off = End(m) /\ Follows(m, n)
           /\ r[k + 1] = SeenAs(b, n, r[k], k)
           /\ r[k + 1].path = PathAfter(b, n, r[k].path)
<1>1. Layout(b) /\ Marks(b, M) /\ Follow(b, M, r) /\ Len(r) \in Nat BY ReadingIs
<1>2. k \in 1 .. Len(r) /\ k + 1 \in 1 .. Len(r) /\ k \in Nat BY <1>1
<1>3. m \in M /\ Sees(r[k], m) /\ r[k].tag = m.tag BY <1>2, WalkIs
<1>4. n \in M /\ Sees(r[k + 1], n) BY <1>2, WalkIs
<1>5. r[k].tag # FDT_END /\ r[k + 1] = TagAfter(b, r[k], k) BY <1>1 DEF Follow
<1>6. m.tag # FDT_END BY <1>3, <1>5
<1>7. PICK i \in M : i.off = End(m) /\ Follows(m, i) BY <1>1, <1>3, <1>6, NextMark
<1>8. /\ TagAfter(b, r[k], k) = SeenAs(b, i, r[k], k)
      /\ Sees(TagAfter(b, r[k], k), i)
      /\ TagAfter(b, r[k], k).path = PathAfter(b, i, r[k].path)
    BY <1>1, <1>2, <1>3, <1>6, <1>7, NextSeen
<1>9. i = n
  <2>1. i.off = n.off BY <1>4, <1>5, <1>8 DEF Sees
  <2> QED BY <1>1, <1>4, <2>1, MarksApart
<1> QED BY <1>3, <1>4, <1>5, <1>6, <1>7, <1>8, <1>9

(* Only the last tag is FDT_END; the first is that of the root.            *)
LEMMA LastTag ==
    ASSUME NEW b, NEW M, NEW r, Reading(b, M, r), NEW k \in 1 .. Len(r)
    PROVE  r[k].tag = FDT_END <=> k = Len(r)
<1>1. Len(r) \in Nat /\ r[Len(r)].tag = FDT_END BY ReadingIs
<1>2. k # Len(r) => k \in 1 .. Len(r) - 1 BY <1>1
<1> QED BY <1>1, <1>2, WalkNext

(* The reader begins at the root.                                          *)
LEMMA FirstTag ==
    ASSUME NEW b, NEW M, NEW r, Reading(b, M, r)
    PROVE  r[1].tag = FDT_BEGIN_NODE /\ r[1].path = Root /\ r[1].off = 0
<1>1. Layout(b) /\ Marks(b, M) /\ Follow(b, M, r) /\ Len(r) >= 1 BY ReadingIs
<1>2. r[1] = TagAfter(b, NoTag, 0) BY <1>1 DEF Follow
<1>3. PICK m \in M : IsRoot(m) BY <1>1 DEF Marks
<1>4. Sees(r[1], m) /\ r[1].path = << <<>> >> BY <1>1, <1>2, <1>3, FirstSeen
<1> QED BY <1>3, <1>4 DEF Sees, IsRoot, Root

(* The reader never goes back.                                             *)
LEMMA OffsetsGrow ==
    ASSUME NEW b, NEW M, NEW r, Reading(b, M, r), NEW i \in 1 .. Len(r), NEW j \in i .. Len(r)
    PROVE  r[i].off <= r[j].off /\ r[i].off \in Nat /\ r[j].off \in Nat
<1>1. Len(r) \in Nat /\ Marks(b, M) BY ReadingIs
<1>2. \A k \in 1 .. Len(r) : r[k].off \in Nat
  <2> SUFFICES ASSUME NEW k \in 1 .. Len(r) PROVE r[k].off \in Nat
      OBVIOUS
  <2> DEFINE m == MarkFor(M, r[k])
  <2>1. m \in M /\ r[k].off = m.off BY WalkIs
  <2> HIDE DEF m
  <2> QED BY <1>1, <2>1, MarkPlace
<1>3. \A k \in 1 .. Len(r) - 1 : r[k].off <= r[k + 1].off
  <2> SUFFICES ASSUME NEW k \in 1 .. Len(r) - 1 PROVE r[k].off <= r[k + 1].off
      OBVIOUS
  <2> DEFINE m == MarkFor(M, r[k])
             n == MarkFor(M, r[k + 1])
  <2>1. k \in 1 .. Len(r) /\ k + 1 \in 1 .. Len(r) BY <1>1
  <2>2. r[k].off = m.off /\ r[k + 1].off = n.off BY <2>1, WalkIs
  <2>3. m \in M /\ n.off = End(m) BY WalkNext
  <2> HIDE DEF m, n
  <2>4. m.off \in Nat /\ m.size \in Nat /\ End(m) = m.off + m.size BY <1>1, <2>3, MarkPlace
  <2> QED BY <2>2, <2>3, <2>4
<1> DEFINE last == Len(r) - i
           Q == {n \in 0 .. last : r[i].off <= r[i + n].off}
<1>4. last \in Nat BY <1>1
<1>5. 0 \in Q
  <2>1. 0 \in 0 .. last /\ i + 0 = i /\ r[i].off \in Nat BY <1>2, <1>4
  <2> QED BY <2>1
<1>6. ASSUME NEW n \in 0 .. last - 1, n \in Q PROVE n + 1 \in Q
  <2>1. i + n \in 1 .. Len(r) - 1 /\ i + n \in 1 .. Len(r) /\ i \in 1 .. Len(r)
        /\ i + (n + 1) = (i + n) + 1 /\ (i + n) + 1 \in 1 .. Len(r) /\ n + 1 \in 0 .. last
      BY <1>1
  <2>2. r[i + n].off <= r[(i + n) + 1].off BY <1>3, <2>1
  <2>3. r[i].off <= r[i + n].off BY <1>6
  <2>4. r[i].off \in Nat /\ r[i + n].off \in Nat /\ r[(i + n) + 1].off \in Nat BY <1>2, <2>1
  <2>5. r[i].off <= r[i + (n + 1)].off BY <2>1, <2>2, <2>3, <2>4
  <2> QED BY <2>1, <2>5
<1>7. 0 .. last \subseteq Q
  <2> HIDE DEF Q, last
  <2> QED BY <1>4, <1>5, <1>6, PrefixInduction
<1>8. j - i \in 0 .. last /\ i + (j - i) = j /\ j \in 1 .. Len(r) BY <1>1
<1>9. r[i].off <= r[j].off BY <1>7, <1>8
<1> QED BY <1>2, <1>8, <1>9

-----------------------------------------------------------------------------
(* Every path begins with the name of the root, which is empty.            *)
LEMMA PathsFromRoot ==
    ASSUME NEW b, NEW M, NEW r, Reading(b, M, r), NEW k \in 1 .. Len(r), r[k].path # <<>>
    PROVE  r[k].path[1] = <<>>
<1>1. Len(r) \in Nat /\ Len(r) >= 1 /\ Layout(b) /\ Marks(b, M) BY ReadingIs
<1>0. b.nstruct \in Nat /\ TAGSIZE \in Nat /\ TAGSIZE >= 1 BY <1>1, Constants, LayoutIs, Fields
<1> DEFINE last == Len(r) - 1
           Q == {n \in 0 .. last : r[n + 1].path # <<>> => r[n + 1].path[1] = <<>>}
<1>2. 0 \in Q
  <2>1. r[0 + 1].path = << <<>> >>
    <3>1. r[1].path = Root BY FirstTag
    <3> QED BY <3>1 DEF Root
  <2> QED BY <1>1, <2>1
<1>3. ASSUME NEW n \in 0 .. last - 1, n \in Q PROVE n + 1 \in Q
  <2> DEFINE j == n + 1
             m == MarkFor(M, r[j])
             i == MarkFor(M, r[j + 1])
             p == r[j].path
             q == r[j + 1].path
  <2>1. j \in 1 .. Len(r) - 1 /\ j \in 1 .. Len(r) /\ j + 1 \in 1 .. Len(r) /\ j \in 0 .. last BY <1>1
  <2>2. p # <<>> => p[1] = <<>> BY <1>3
  <2> HIDE DEF j
  <2>3. m \in M /\ Len(p) = m.depth /\ p \in Seq(Seq(Int)) BY <2>1, WalkIs
  <2>4. i \in M /\ Len(q) = i.depth BY <2>1, WalkIs
  <2>5. m.tag # FDT_END /\ i.off = End(m) /\ Follows(m, i) /\ q = PathAfter(b, i, p) BY <2>1, WalkNext
  <2> HIDE DEF m, i, p, q
  <2>6. m.depth \in Nat /\ End(m) \in Nat
        /\ (m.depth = 0 => m.tag = FDT_END \/ (m.tag = FDT_END_NODE /\ End(m) + TAGSIZE = b.nstruct))
      BY <1>1, <2>3, MarkPlace
  <2>7. i \in Mark /\ Stands(b, i) /\ End(i) = i.off + i.size /\ End(i) <= b.nstruct
        /\ i.size \in Nat /\ i.off \in Nat /\ i.len \in Nat /\ i.depth \in Nat /\ End(i) \in Nat
      BY <1>1, <2>4, MarkPlace
  <2>8. q # <<>> => q[1] = <<>>
    <3>1. CASE i.tag = FDT_BEGIN_NODE
      <4>1. i.size >= TAGSIZE + i.len + 1 BY <2>7, <3>1, StandsSize
      <4>2. m.depth # 0
        <5> SUFFICES ASSUME m.depth = 0 PROVE FALSE OBVIOUS
        <5>1. End(m) + TAGSIZE = b.nstruct BY <2>5, <2>6
        <5> QED BY <1>0, <2>5, <2>6, <2>7, <4>1, <5>1
      <4>3. Len(p) >= 1 BY <2>3, <2>6, <4>2
      <4>4. q = Append(p, NameText(b, i)) BY <2>5, <3>1, TagsDiffer, Zenon DEF PathAfter
      <4>5. NameText(b, i) \in Seq(Int) BY <1>1, <2>7, <3>1, MarkWords
      <4>6. 1 \in 1 .. Len(p) /\ p # <<>> BY <2>3, <2>6, <4>3
      <4>7. q[1] = p[1] BY <2>3, <4>4, <4>5, <4>6, AppendProperties
      <4> QED BY <2>2, <4>6, <4>7
    <3>2. CASE i.tag = FDT_END_NODE
      <4>1. q = Front(p) BY <2>5, <3>2, TagsDiffer, Zenon DEF PathAfter
      <4>2. m.depth = i.depth + 1 BY <2>5, <3>2, TagsDiffer DEF Follows
      <4>3. CASE i.depth = 0
        <5>1. Len(q) = 0 /\ Len(p) - 1 = 0 BY <2>3, <2>4, <2>6, <2>7, <4>2, <4>3
        <5>2. q = SubSeq(p, 1, 0) BY <4>1, <5>1 DEF Front
        <5>3. SubSeq(p, 1, 0) = <<>> BY SubSeqEmpty
        <5> QED BY <5>2, <5>3
      <4>4. CASE i.depth # 0
        <5> DEFINE l == Len(p) - 1
        <5>1. l \in Nat /\ l >= 1 /\ l <= Len(p) /\ Len(p) \in Nat BY <2>3, <2>7, <4>2, <4>4
        <5>2. q = SubSeq(p, 1, l) BY <4>1 DEF Front
        <5>3. \A x \in 1 .. l : p[x] \in Seq(Int)
          <6>1. \A x \in 1 .. l : x \in 1 .. Len(p) BY <5>1
          <6> QED BY <2>3, <6>1, ElementOfSeq
        <5> HIDE DEF l
        <5>4. \A x \in 1 .. l - 1 + 1 : SubSeq(p, 1, l)[x] = p[1 + x - 1] BY <5>1, <5>3, SubSeqProperties
        <5>5. 1 \in 1 .. l - 1 + 1 /\ 1 + 1 - 1 = 1 BY <5>1
        <5>6. q[1] = p[1] BY <5>2, <5>4, <5>5
        <5>7. p # <<>>
          <6>1. Len(p) # 0 BY <5>1
          <6> QED BY <6>1
        <5> QED BY <2>2, <5>6, <5>7
      <4> QED BY <4>3, <4>4
    <3>3. CASE i.tag # FDT_BEGIN_NODE /\ i.tag # FDT_END_NODE
      <4>1. q = p BY <2>5, <3>3, Zenon DEF PathAfter
      <4> QED BY <2>2, <4>1
    <3> QED BY <3>1, <3>2, <3>3
  <2>9. n + 1 \in 0 .. last BY <1>1
  <2> QED BY <2>8, <2>9 DEF q, j
<1>4. 0 .. last \subseteq Q
  <2>1. last \in Nat BY <1>1
  <2> HIDE DEF Q, last
  <2> QED BY <1>2, <1>3, <2>1, PrefixInduction
<1>5. k - 1 \in 0 .. last /\ (k - 1) + 1 = k BY <1>1
<1>6. k - 1 \in Q BY <1>4, <1>5
<1> QED BY <1>5, <1>6

(* Where a path is read.                                                   *)
LEMMA PathIs ==
    ASSUME NEW b, NEW M, NEW r, Reading(b, M, r), NEW path \in PathsOf(r), NEW i, i = NodeAt(r, path),
           NEW m, m = MarkFor(M, r[i])
    PROVE  /\ i \in 1 .. Len(r) - 1 /\ r[i].path = path /\ r[i].tag = FDT_BEGIN_NODE
           /\ path \in Seq(Seq(Int)) /\ m \in M /\ m.tag = FDT_BEGIN_NODE
           /\ m.depth = Len(path) /\ m.depth >= 1 /\ m.depth \in Nat
           /\ path # Root => i >= 2
           /\ \A k \in Begins(r) : r[k].path = path => i <= k
<1>1. Len(r) \in Nat /\ DOMAIN r = 1 .. Len(r) /\ Marks(b, M) /\ r[Len(r)].tag = FDT_END BY ReadingIs
<1> DEFINE S == {k \in Begins(r) : r[k].path = path}
<1>2. S # {} BY DEF PathsOf
<1>3. S \subseteq Nat BY <1>1 DEF Begins
<1>4. i \in S /\ \A k \in S : i <= k
  <2>1. i = Least(S) BY DEF NodeAt
  <2> HIDE DEF S
  <2> QED BY <1>2, <1>3, <2>1, LeastIs
<1>5. i \in 1 .. Len(r) /\ r[i].tag = FDT_BEGIN_NODE /\ r[i].path = path BY <1>1, <1>4 DEF Begins
<1>6. i # Len(r) BY <1>1, <1>5, TagsDiffer
<1>7. m \in M /\ m.tag = FDT_BEGIN_NODE /\ Len(path) = m.depth /\ path \in Seq(Seq(Int))
    BY <1>5, WalkIs
<1>8. m.depth >= 1 /\ m.depth \in Nat
  <2>1. m.depth \in Nat /\ (m.depth = 0 => m.tag = FDT_END \/ m.tag = FDT_END_NODE)
      BY <1>1, <1>7, MarkPlace
  <2>2. m.depth # 0 BY <1>7, <2>1, TagsDiffer
  <2> QED BY <2>1, <2>2
<1>9. path # Root => i # 1 BY <1>5, FirstTag
<1> QED BY <1>1, <1>4, <1>5, <1>6, <1>7, <1>8, <1>9

(* A property, and its name among the strings.                             *)
LEMMA PropIs ==
    ASSUME NEW b, NEW M, NEW r, Reading(b, M, r), NEW j \in 1 .. Len(r), r[j].tag = FDT_PROP,
           NEW m, m = MarkFor(M, r[j])
    PROVE  /\ j \in 2 .. Len(r) - 1 /\ m \in M /\ m.tag = FDT_PROP /\ m.open /\ m.depth >= 1
           /\ r[j].node # 0
           /\ PropLen(b, r, j) = m.len
           /\ WordAt(b, b.struct + r[j].off + 2 * TAGSIZE) = m.name
           /\ NulFrom(b, b.strings + m.name) < DataSize(b)
           /\ PropName(b, r, j) \in Names
           /\ m.name + Len(PropName(b, r, j)) + 1 <= b.nstrings
           /\ Spells(b, b.strings + m.name, PropName(b, r, j))
<1>1. Len(r) \in Nat /\ Layout(b) /\ Marks(b, M) /\ r[Len(r)].tag = FDT_END BY ReadingIs
<1>2. m \in M /\ m.tag = FDT_PROP /\ r[j].off = m.off /\ (m.open => r[j].node # 0)
    BY WalkIs
<1>3. /\ m \in Mark /\ Stands(b, m) /\ HasName(b, m) /\ Opens(m) /\ End(m) <= b.nstruct
      /\ m.depth \in Nat /\ m.name \in Nat
      /\ (m.depth = 0 => m.tag = FDT_END \/ m.tag = FDT_END_NODE)
    BY <1>1, <1>2, MarkPlace
<1>4. m.open BY <1>2, <1>3 DEF Opens
<1>5. j # Len(r) /\ j # 1
  <2>1. r[1].tag = FDT_BEGIN_NODE BY FirstTag
  <2> QED BY <1>1, <2>1, TagsDiffer
<1>6. m.depth >= 1
  <2>1. m.depth # 0 BY <1>2, <1>3, TagsDiffer
  <2> QED BY <1>3, <2>1
<1>7. /\ WordAt(b, b.struct + m.off + TAGSIZE) = m.len
      /\ WordAt(b, b.struct + m.off + 2 * TAGSIZE) = m.name
    BY <1>1, <1>2, <1>3, MarkWords
<1>8. PICK name \in Names : /\ m.name + Len(name) + 1 <= b.nstrings
                            /\ Spells(b, b.strings + m.name, name)
    BY <1>2, <1>3 DEF HasName
<1> DEFINE n == Len(name)
           at == b.strings + m.name
<1>9. /\ Whole(b) /\ b.strings \in Nat /\ b.nstrings \in Nat /\ b.total \in Nat
      /\ DataSize(b) = b.strings + b.nstrings /\ b.strings + b.nstrings <= b.total
    BY <1>1, LayoutIs, Fields
<1>10. n \in Nat BY Constants, LenProperties
<1>11. m.name + n + 1 <= b.nstrings BY <1>8
<1>12. Spells(b, at, name) BY <1>8
<1> HIDE DEF n
<1>13. at \in Nat /\ at + n < b.total /\ at + n < DataSize(b)
  <2>1. PICK k : k = m.name OBVIOUS
  <2>2. PICK s : s = b.strings OBVIOUS
  <2>3. PICK g : g = b.nstrings OBVIOUS
  <2>4. k \in Nat /\ s \in Nat /\ g \in Nat /\ k + n + 1 <= g BY <1>3, <1>9, <1>11, <2>1, <2>2, <2>3
  <2>5. s + k \in Nat /\ (s + k) + n < s + g BY <1>10, <2>4
  <2>6. at = s + k /\ DataSize(b) = s + g BY <1>9, <2>1, <2>2, <2>3
  <2>7. s + g <= b.total /\ b.total \in Nat BY <1>9, <2>2, <2>3
  <2> HIDE DEF at
  <2>8. at \in Nat /\ at + n < s + g BY <2>5, <2>6
  <2>9. at + n < b.total BY <1>10, <2>4, <2>7, <2>8
  <2> QED BY <2>6, <2>8, <2>9
<1> HIDE DEF at
<1>14. NulFrom(b, at) = at + n /\ StringAt(b, at) = name
  <2>1. at + Len(name) < b.total BY <1>13 DEF n
  <2> QED BY <1>9, <1>12, <1>13, <2>1, NameIs DEF n
<1>15. PropName(b, r, j) = name BY <1>2, <1>7, <1>14 DEF PropName, at
<1>16. PropLen(b, r, j) = m.len BY <1>2, <1>7 DEF PropLen
<1> QED BY <1>1, <1>2, <1>4, <1>5, <1>6, <1>7, <1>8, <1>13, <1>14, <1>15, <1>16 DEF at

(* The end of a node that begins.                                          *)
LEMMA NodeEndIs ==
    ASSUME NEW b, NEW M, NEW r, Reading(b, M, r), NEW i \in 1 .. Len(r), r[i].tag = FDT_BEGIN_NODE,
           NEW m, m = MarkFor(M, r[i])
    PROVE  \E e \in i + 1 .. Len(r) - 1 :
              /\ MarkFor(M, r[e]) \in M
              /\ MarkFor(M, r[e]).tag = FDT_END_NODE /\ NodeEnd(r, i) = End(MarkFor(M, r[e]))
              /\ m.depth = MarkFor(M, r[e]).depth + 1
<1>1. Len(r) \in Nat /\ Marks(b, M) /\ r[Len(r)].tag = FDT_END BY ReadingIs
<1> DEFINE S == {j \in i .. Len(r) : Len(r[j].path) < Len(r[i].path)}
           e == Least(S)
<1>2. \A k \in 1 .. Len(r) : /\ MarkFor(M, r[k]) \in M /\ r[k].off = MarkFor(M, r[k]).off
                             /\ r[k].tag = MarkFor(M, r[k]).tag /\ Len(r[k].path) = MarkFor(M, r[k]).depth
    BY WalkIs
<1>3. \A k \in M : k.depth \in Nat /\ (k.tag = FDT_END => k.depth = 0)
                   /\ (k.depth = 0 => k.tag = FDT_END \/ k.tag = FDT_END_NODE)
    BY <1>1, MarkPlace
<1>4. Len(r) \in S
  <2>1. Len(r) \in 1 .. Len(r) /\ Len(r) \in i .. Len(r) BY <1>1
  <2>2. Len(r[Len(r)].path) = 0 BY <1>1, <1>2, <1>3, <2>1
  <2>3. Len(r[i].path) \in Nat /\ Len(r[i].path) # 0 BY <1>2, <1>3, TagsDiffer
  <2> QED BY <2>1, <2>2, <2>3
<1>5. e \in S /\ \A k \in S : e <= k
  <2>1. S \subseteq Nat /\ S # {} BY <1>1, <1>4
  <2> HIDE DEF S
  <2> QED BY <2>1, LeastIs
<1>6. NodeEnd(r, i) = r[e].off + TAGSIZE BY DEF NodeEnd
<1>7. e \in i .. Len(r) /\ Len(r[e].path) < Len(r[i].path) BY <1>5
<1>8. e # i
  <2>1. Len(r[i].path) \in Nat BY <1>2, <1>3
  <2> QED BY <1>7, <2>1
<1>9. e - 1 \notin S
  <2>1. ~(e <= e - 1) BY <1>1, <1>7
  <2> QED BY <1>5, <2>1
<1> HIDE DEF e, S
<1> DEFINE k == e - 1
           x == MarkFor(M, r[k])
           y == MarkFor(M, r[e])
<1>10. k \in i .. Len(r) - 1 /\ k \in 1 .. Len(r) - 1 /\ k + 1 = e /\ e \in i + 1 .. Len(r)
       /\ k \in 1 .. Len(r) /\ e \in 1 .. Len(r) /\ k \in i .. Len(r)
    BY <1>1, <1>7, <1>8
<1>11. Len(r[k].path) >= Len(r[i].path)
  <2>1. ~(Len(r[k].path) < Len(r[i].path)) BY <1>9, <1>10 DEF S
  <2>2. Len(r[k].path) \in Nat /\ Len(r[i].path) \in Nat BY <1>2, <1>3, <1>10
  <2> QED BY <2>1, <2>2
<1> HIDE DEF k
<1>12. x \in M /\ y \in M /\ Follows(x, y)
  <2>1. y = MarkFor(M, r[k + 1]) BY <1>10
  <2> QED BY <1>10, <2>1, WalkNext
<1>13. x.depth = Len(r[k].path) /\ y.depth = Len(r[e].path) /\ m.depth = Len(r[i].path)
       /\ y.tag = r[e].tag /\ r[e].off = y.off
    BY <1>2, <1>10
<1> HIDE DEF x, y
<1>14. m \in M BY WalkIs
<1>15. x.depth \in Nat /\ y.depth \in Nat /\ m.depth \in Nat BY <1>3, <1>12, <1>14
<1>16. y.depth < m.depth /\ m.depth <= x.depth BY <1>7, <1>11, <1>13
<1>17. y.tag = FDT_END_NODE /\ x.depth = y.depth + 1
  <2>1. y.tag = FDT_BEGIN_NODE => y.depth = x.depth + 1 BY <1>12, TagsDiffer DEF Follows
  <2>2. y.tag # FDT_BEGIN_NODE /\ y.tag # FDT_END_NODE => y.depth = x.depth BY <1>12, TagsDiffer DEF Follows
  <2>3. y.tag = FDT_END_NODE => x.depth = y.depth + 1 BY <1>12, TagsDiffer DEF Follows
  <2> QED BY <1>15, <1>16, <2>1, <2>2, <2>3
<1>18. m.depth = y.depth + 1 BY <1>15, <1>16, <1>17
<1>19. e # Len(r) BY <1>1, <1>13, <1>17, TagsDiffer
<1>20. End(y) = y.off + TAGSIZE
  <2>1. y \in Mark /\ Stands(b, y) BY <1>1, <1>12, MarkPlace
  <2>2. y.size = TAGSIZE BY <1>17, <2>1 DEF Stands
  <2> QED BY <2>2 DEF End
<1>21. NodeEnd(r, i) = End(y) BY <1>6, <1>13, <1>20
<1>22. e \in i + 1 .. Len(r) - 1 BY <1>1, <1>10, <1>19
<1> QED BY <1>12, <1>17, <1>18, <1>21, <1>22 DEF y

(* Behind the properties of a node.                                        *)
LEMMA PlaceIs ==
    ASSUME NEW b, NEW M, NEW r, Reading(b, M, r), NEW i \in 1 .. Len(r) - 1, r[i].tag = FDT_BEGIN_NODE,
           NEW e, e = Least({j \in i + 1 .. Len(r) : r[j].tag \notin {FDT_PROP, FDT_NOP}})
    PROVE  /\ e \in i + 1 .. Len(r) /\ r[e].tag \notin {FDT_PROP, FDT_NOP}
           /\ r[e - 1].path = r[i].path
<1>1. Len(r) \in Nat /\ Marks(b, M) /\ r[Len(r)].tag = FDT_END BY ReadingIs
<1> DEFINE S == {j \in i + 1 .. Len(r) : r[j].tag \notin {FDT_PROP, FDT_NOP}}
<1>2. Len(r) \in S BY <1>1, TagsDiffer
<1>3. e \in S /\ \A k \in S : e <= k
  <2>1. S \subseteq Nat /\ S # {} BY <1>1, <1>2
  <2>2. e = Least(S) OBVIOUS
  <2> HIDE DEF S
  <2> QED BY <2>1, <2>2, LeastIs
<1>4. e \in i + 1 .. Len(r) /\ r[e].tag \notin {FDT_PROP, FDT_NOP} BY <1>3
<1>5. ASSUME NEW k \in i + 1 .. e - 1 PROVE r[k].tag \in {FDT_PROP, FDT_NOP}
  <2>1. k \in i + 1 .. Len(r) /\ ~(e <= k) BY <1>1, <1>4
  <2> QED BY <1>3, <2>1
<1> HIDE DEF S
<1> DEFINE last == (e - 1) - i
           Q == {n \in 0 .. last : r[i + n].path = r[i].path}
<1>6. last \in Nat BY <1>1, <1>4
<1>7. 0 \in Q
  <2>1. i + 0 = i /\ 0 \in 0 .. last BY <1>6
  <2> QED BY <2>1
<1>8. ASSUME NEW n \in 0 .. last - 1, n \in Q PROVE n + 1 \in Q
  <2> DEFINE k == i + n
  <2>0. PICK w : w = Len(r) OBVIOUS
  <2>a. w \in Nat /\ i \in 1 .. w - 1 /\ e \in i + 1 .. w BY <1>1, <1>4, <2>0
  <2>b. n \in Nat /\ n + 1 <= (e - 1) - i BY <2>a
  <2>c. k \in 1 .. w - 1 /\ k + 1 \in 1 .. w BY <2>a, <2>b
  <2>d. k + 1 \in i + 1 .. e - 1 /\ i + (n + 1) = k + 1 BY <2>a, <2>b
  <2>e. n + 1 \in 0 .. last BY <2>a, <2>b
  <2>1. k \in 1 .. Len(r) - 1 /\ k + 1 \in i + 1 .. e - 1 /\ i + (n + 1) = k + 1 /\ n + 1 \in 0 .. last
        /\ k + 1 \in 1 .. Len(r)
      BY <2>0, <2>c, <2>d, <2>e
  <2>2. r[k].path = r[i].path BY <1>8
  <2> HIDE DEF k
  <2>3. r[k + 1].tag \in {FDT_PROP, FDT_NOP} BY <1>5, <2>1
  <2> DEFINE m == MarkFor(M, r[k + 1])
  <2>4. r[k + 1].tag = m.tag BY <2>1, WalkIs
  <2>5. r[k + 1].path = PathAfter(b, m, r[k].path) BY <2>1, WalkNext
  <2> HIDE DEF m
  <2>6. m.tag # FDT_BEGIN_NODE /\ m.tag # FDT_END_NODE BY <2>3, <2>4, TagsDiffer
  <2>7. PathAfter(b, m, r[k].path) = r[k].path BY <2>6, Zenon DEF PathAfter
  <2> QED BY <2>1, <2>2, <2>5, <2>7
<1>9. 0 .. last \subseteq Q
  <2> HIDE DEF Q, last
  <2> QED BY <1>6, <1>7, <1>8, PrefixInduction
<1>10. last \in 0 .. last /\ i + last = e - 1 BY <1>1, <1>4, <1>6
<1>11. last \in Q BY <1>9, <1>10
<1> QED BY <1>4, <1>10, <1>11

(* Two blobs with the same bytes before x are read in the same way there.  *)
LEMMA SamePrefixRead ==
    ASSUME NEW b, NEW M, NEW r, Reading(b, M, r), NEW c, NEW N, NEW s, Reading(c, N, s),
           NEW x \in Nat, x <= b.nstruct, x <= c.nstruct,
           \A z \in 0 .. x - 1 : StructAt(c, z) = StructAt(b, z),
           NEW k \in 1 .. Len(r), End(MarkFor(M, r[k])) <= x
    PROVE  k \in 1 .. Len(s) /\ s[k] = r[k]
<1>1. Len(r) \in Nat /\ Len(r) >= 1 /\ Layout(b) /\ Marks(b, M) /\ Follow(b, M, r) BY ReadingIs
<1>2. Len(s) \in Nat /\ Len(s) >= 1 /\ Layout(c) /\ Marks(c, N) /\ Follow(c, N, s)
      /\ s[Len(s)].tag = FDT_END
    BY ReadingIs
<1> DEFINE m(i) == MarkFor(M, r[i])
<1>3. ASSUME NEW i \in 1 .. Len(r), End(m(i)) <= x, NEW before, NEW n, before.next = m(i).off
      PROVE  TagAfter(c, before, n) = TagAfter(b, before, n)
  <2> DEFINE l == m(i)
  <2>1. l \in M BY WalkIs
  <2>2. End(l) <= x /\ before.next = l.off BY <1>3
  <2> HIDE DEF l, m
  <2>3. l \in Mark /\ Stands(b, l) /\ Aligned(l.off) /\ End(l) <= b.nstruct /\ End(l) \in Nat /\ l.off \in Nat
      BY <1>1, <2>1, MarkPlace
  <2>4. b.nstruct \in Nat /\ c.nstruct \in Nat BY <1>1, <1>2, LayoutIs, Fields
  <2>5. End(l) <= c.nstruct BY <2>2, <2>3, <2>4
  <2>6. \A z \in l.off .. End(l) - 1 : StructAt(c, z) = StructAt(b, z)
    <3>1. \A z \in l.off .. End(l) - 1 : z \in 0 .. x - 1 BY <2>2, <2>3
    <3> QED BY <3>1
  <2>7. Stands(c, l) /\ SeenAs(c, l, before, n) = SeenAs(b, l, before, n)
      BY <1>1, <1>2, <2>3, <2>5, <2>6, SameSeenAs
  <2>8. TagAfter(b, before, n) = SeenAs(b, l, before, n) BY <1>1, <2>2, <2>3, TagAfterIs
  <2>9. TagAfter(c, before, n) = SeenAs(c, l, before, n) BY <1>2, <2>2, <2>3, <2>5, <2>7, TagAfterIs
  <2> QED BY <2>7, <2>8, <2>9
<1> DEFINE last == k - 1
           Q == {n \in 0 .. last : n + 1 <= Len(s) /\ s[n + 1] = r[n + 1]}
<1>4. ASSUME NEW n \in 0 .. last PROVE n + 1 \in 1 .. Len(r) /\ End(m(n + 1)) <= x
  <2>1. n + 1 \in 1 .. Len(r) /\ k \in n + 1 .. Len(r) /\ (n + 1 # k => n + 2 \in 1 .. Len(r) /\ n + 1 \in 1 .. Len(r) - 1
           /\ (n + 1) + 1 = n + 2 /\ k \in n + 2 .. Len(r)) BY <1>1
  <2>2. CASE n + 1 = k BY <2>1, <2>2
  <2>3. CASE n + 1 # k
    <3> DEFINE l == n + 1
    <3>1. l \in 1 .. Len(r) - 1 /\ l + 1 \in 1 .. Len(r) /\ k \in l + 1 .. Len(r) BY <2>1, <2>3
    <3> HIDE DEF l
    <3>2. m(l + 1).off = End(m(l)) BY <3>1, WalkNext
    <3>3. r[l + 1].off <= r[k].off /\ r[l + 1].off \in Nat /\ r[k].off \in Nat BY <3>1, OffsetsGrow
    <3>4. r[l + 1].off = m(l + 1).off /\ r[k].off = m(k).off /\ m(k) \in M BY <3>1, WalkIs
    <3>5. m(k).off \in Nat /\ m(k).size \in Nat /\ End(m(k)) = m(k).off + m(k).size BY <1>1, <3>4, MarkPlace
    <3>6. End(m(k)) <= x OBVIOUS
    <3> HIDE DEF m
    <3>7. End(m(l)) <= x BY <3>2, <3>3, <3>4, <3>5, <3>6
    <3> QED BY <2>1, <3>7 DEF l
  <2> QED BY <2>2, <2>3
<1>5. 0 \in Q
  <2>1. 0 \in 0 .. last /\ 0 + 1 = 1 BY <1>1
  <2>2. 1 \in 1 .. Len(r) /\ End(m(1)) <= x BY <1>4, <2>1
  <2>3. r[1] = TagAfter(b, NoTag, 0) BY <1>1 DEF Follow
  <2>4. s[1] = TagAfter(c, NoTag, 0) BY <1>2 DEF Follow
  <2>5. NoTag.next = m(1).off
    <3>1. r[1].off = 0 BY FirstTag
    <3>2. r[1].off = m(1).off BY <2>2, WalkIs
    <3> QED BY <3>1, <3>2 DEF NoTag
  <2> HIDE DEF m
  <2>6. s[1] = r[1] BY <1>3, <2>2, <2>3, <2>4, <2>5
  <2> QED BY <1>2, <2>1, <2>6
<1>6. ASSUME NEW n \in 0 .. last - 1, n \in Q PROVE n + 1 \in Q
  <2> DEFINE l == n + 1
  <2>1. l \in 1 .. Len(r) - 1 /\ l + 1 \in 1 .. Len(r) /\ l \in 0 .. last /\ l \in 1 .. Len(r)
      BY <1>1
  <2>2. End(m(l + 1)) <= x BY <1>4, <2>1
  <2>3. l <= Len(s) /\ s[l] = r[l] /\ l \in Nat BY <1>6
  <2> HIDE DEF l
  <2>4. r[l].tag # FDT_END /\ r[l + 1] = TagAfter(b, r[l], l) BY <1>1, <2>1 DEF Follow
  <2>5. l # Len(s) BY <1>2, <2>3, <2>4
  <2>6. l \in 1 .. Len(s) - 1 BY <1>2, <2>1, <2>3, <2>5
  <2>7. s[l + 1] = TagAfter(c, r[l], l) BY <1>2, <2>3, <2>6 DEF Follow
  <2>8. r[l].next = m(l + 1).off
    <3>1. r[l].next = NextOf(m(l)) BY <2>1, WalkIs
    <3>2. m(l).tag # FDT_END /\ m(l + 1).off = End(m(l)) BY <2>1, WalkNext
    <3> QED BY <3>1, <3>2 DEF NextOf
  <2> HIDE DEF m
  <2>9. s[l + 1] = r[l + 1] BY <1>3, <2>1, <2>2, <2>4, <2>7, <2>8
  <2>10. l + 1 <= Len(s) BY <1>2, <2>6
  <2> QED BY <2>1, <2>9, <2>10 DEF l
<1>7. 0 .. last \subseteq Q
  <2>1. last \in Nat BY <1>1
  <2> HIDE DEF Q, last
  <2> QED BY <1>5, <1>6, <2>1, PrefixInduction
<1>8. last \in 0 .. last /\ last + 1 = k BY <1>1
<1>9. last \in Q BY <1>7, <1>8
<1> QED BY <1>1, <1>2, <1>8, <1>9

(* With the same structure and no fewer strings, everything is.            *)
LEMMA SameRead ==
    ASSUME NEW b, NEW M, NEW r, Reading(b, M, r), NEW c, Layout(c), SameStruct(b, c), MoreStrings(b, c)
    PROVE  Reading(c, M, Read(c)) /\ Read(c) = r
<1> DEFINE s == Read(c)
<1>1. Len(r) \in Nat /\ Len(r) >= 1 /\ Layout(b) /\ Marks(b, M) /\ r \in Seq(ReadType)
      /\ r[Len(r)].tag = FDT_END
    BY ReadingIs
<1>2. Marks(c, M) BY <1>1, MarksMoved
<1>3. Reading(c, M, s) BY <1>2 DEF Reading
<1> HIDE DEF s
<1>4. Len(s) \in Nat /\ Len(s) >= 1 /\ s \in Seq(ReadType) BY <1>3, ReadingIs
<1>5. b.nstruct \in Nat /\ c.nstruct = b.nstruct
      /\ \A z \in 0 .. b.nstruct - 1 : StructAt(c, z) = StructAt(b, z)
    BY <1>1, LayoutIs, Fields DEF SameStruct
<1>6. ASSUME NEW k \in 1 .. Len(r) PROVE k \in 1 .. Len(s) /\ s[k] = r[k]
  <2>1. MarkFor(M, r[k]) \in M BY WalkIs
  <2>2. End(MarkFor(M, r[k])) <= b.nstruct BY <1>1, <2>1, MarkPlace
  <2>3. b.nstruct <= c.nstruct /\ b.nstruct <= b.nstruct BY <1>5
  <2> QED BY <1>3, <1>5, <2>2, <2>3, SamePrefixRead
<1>7. Len(s) = Len(r)
  <2>1. Len(r) \in 1 .. Len(r) BY <1>1
  <2>2. Len(r) \in 1 .. Len(s) /\ s[Len(r)].tag = FDT_END BY <1>1, <1>6, <2>1
  <2> QED BY <1>3, <2>2, LastTag
<1>8. s = r BY <1>1, <1>4, <1>6, <1>7, SeqEqual
<1> QED BY <1>3, <1>8 DEF s

(* A property is found under the same name, with the same length.          *)
LEMMA SameNames ==
    ASSUME NEW b, NEW M, NEW r, Reading(b, M, r), NEW c, Layout(c), SameStruct(b, c), MoreStrings(b, c)
    PROVE  /\ \A i, name : Named(c, r, i, name) = Named(b, r, i, name)
           /\ \A j \in Props(r) : PropLen(c, r, j) = PropLen(b, r, j)
<1>1. Reading(c, M, r) BY SameRead
<1>2. Layout(b) /\ DOMAIN r = 1 .. Len(r) /\ Marks(b, M) BY ReadingIs
<1>3. ASSUME NEW j \in Props(r)
      PROVE  PropName(c, r, j) = PropName(b, r, j) /\ PropLen(c, r, j) = PropLen(b, r, j)
  <2>1. j \in 1 .. Len(r) /\ r[j].tag = FDT_PROP BY <1>2 DEF Props
  <2> DEFINE m == MarkFor(M, r[j])
             name == PropName(b, r, j)
  <2>2. /\ m \in M /\ PropLen(b, r, j) = m.len
        /\ name \in Names /\ m.name + Len(name) + 1 <= b.nstrings
        /\ Spells(b, b.strings + m.name, name)
      BY <2>1, PropIs
  <2>3. /\ PropLen(c, r, j) = m.len
        /\ WordAt(c, c.struct + r[j].off + 2 * TAGSIZE) = m.name
      BY <1>1, <2>1, PropIs
  <2> HIDE DEF m, name
  <2>4. /\ b.strings \in Nat /\ b.nstrings \in Nat /\ c.strings \in Nat /\ c.nstrings \in Nat
        /\ Whole(c) /\ c.total \in Nat /\ c.strings + c.nstrings <= c.total
      BY <1>2, LayoutIs, Fields
  <2>5. Len(name) \in Nat /\ m.name \in Nat BY <1>2, <2>2, Constants, LenProperties, MarkPlace
  <2>6. c.nstrings >= b.nstrings /\ \A x \in 0 .. b.nstrings - 1 : StringsAt(c, x) = StringsAt(b, x)
      BY DEF MoreStrings
  <2>7. Spells(c, c.strings + m.name, name)
    <3>1. \A x \in 0 .. Len(name) : At(c, (c.strings + m.name) + x) = At(b, (b.strings + m.name) + x)
      <4> SUFFICES ASSUME NEW x \in 0 .. Len(name)
                   PROVE At(c, (c.strings + m.name) + x) = At(b, (b.strings + m.name) + x)
          OBVIOUS
      <4>1. m.name + x \in 0 .. b.nstrings - 1 BY <2>2, <2>4, <2>5
      <4>2. c.strings + (m.name + x) = (c.strings + m.name) + x /\ b.strings + (m.name + x) = (b.strings + m.name) + x
          BY <2>4, <2>5
      <4> QED BY <2>6, <4>1, <4>2 DEF StringsAt
    <3>2. \A k \in 1 .. Len(name) :
              At(c, (c.strings + m.name) + k - 1) = At(b, (b.strings + m.name) + k - 1)
      <4> SUFFICES ASSUME NEW k \in 1 .. Len(name)
                   PROVE At(c, (c.strings + m.name) + k - 1) = At(b, (b.strings + m.name) + k - 1)
          OBVIOUS
      <4>1. k - 1 \in 0 .. Len(name) /\ (c.strings + m.name) + (k - 1) = (c.strings + m.name) + k - 1
            /\ (b.strings + m.name) + (k - 1) = (b.strings + m.name) + k - 1
          BY <2>4, <2>5
      <4> QED BY <3>1, <4>1
    <3>3. Len(name) \in 0 .. Len(name) BY <2>5
    <3> QED BY <2>2, <3>1, <3>2, <3>3 DEF Spells
  <2>8. StringAt(c, c.strings + m.name) = name
    <3>1. PICK l : l = Len(name) OBVIOUS
    <3>2. PICK s : s = c.strings OBVIOUS
    <3>3. PICK k : k = m.name OBVIOUS
    <3>4. PICK p : p = s + k OBVIOUS
    <3>5. l \in Nat /\ s \in Nat /\ k \in Nat BY <2>4, <2>5, <3>1, <3>2, <3>3
    <3>6. k + l + 1 <= c.nstrings
      <4>1. k + l + 1 <= b.nstrings BY <2>2, <3>1, <3>3
      <4> QED BY <2>4, <2>6, <3>5, <4>1
    <3>7. p \in Nat /\ p + l < s + c.nstrings BY <2>4, <3>4, <3>5, <3>6
    <3>8. s + c.nstrings <= c.total BY <2>4, <3>2
    <3>9. p + l < c.total BY <2>4, <3>5, <3>7, <3>8
    <3>10. c.strings + m.name = p /\ p \in Nat /\ p + Len(name) < c.total BY <3>1, <3>2, <3>3, <3>4, <3>7, <3>9
    <3> QED BY <2>2, <2>4, <2>7, <3>10, NameIs
  <2>9. PropName(c, r, j) = name BY <2>3, <2>8 DEF PropName
  <2> QED BY <2>2, <2>3, <2>9 DEF name
<1>4. ASSUME NEW i, NEW name PROVE Named(c, r, i, name) = Named(b, r, i, name)
    BY <1>3 DEF Named
<1> QED BY <1>3, <1>4

=============================================================================

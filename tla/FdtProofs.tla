----------------------------- MODULE FdtProofs ------------------------------
(***************************************************************************)
(* Proofs about Fdt, for every blob that libfdt may be given and every     *)
(* name and value.  Each call leaves a blob covered by marks, call by      *)
(* call: the reserved regions, packing, dropping, nopping, properties,     *)
(* nodes, renaming, the paths that fdtput creates.  From that, WellFormed  *)
(* and FdtputHasRoom.                                                      *)
(***************************************************************************)
EXTENDS FdtReadProofs

-----------------------------------------------------------------------------
(* The reserved regions.                                                   *)
LEMMA RsvMultiples ==
    /\ RsvSize \in Nat /\ RsvSize >= TAGSIZE /\ RsvSize >= 1
    /\ \A q, n \in Nat : /\ q * RsvSize \in Nat
                         /\ (q + 1) * RsvSize = q * RsvSize + RsvSize
                         /\ q <= n => q * RsvSize <= n * RsvSize
                         /\ q <= q * RsvSize
                         /\ q * RsvSize <= n => q <= n \div RsvSize
                         /\ n \div RsvSize \in Nat
<1> DEFINE t == RsvSize
<1>1. t \in Nat /\ t >= TAGSIZE /\ t >= 1 BY Constants DEF RsvSize
<1> HIDE DEF t
<1>2. ASSUME NEW q \in Nat, NEW n \in Nat
      PROVE  /\ q * t \in Nat /\ (q + 1) * t = q * t + t
             /\ q <= n => q * t <= n * t
             /\ q <= q * t
  <2>1. q * t \in Nat BY <1>1
  <2>2. (q + 1) * t = q * t + t BY <1>1
  <2>3. ASSUME NEW d \in Nat PROVE d * t >= 0 /\ d * t >= d
      BY <1>1
  <2>4. q <= n => q * t <= n * t
    <3>1. q <= n => n * t = q * t + (n - q) * t /\ n - q \in Nat BY <1>1
    <3> QED BY <1>1, <2>1, <2>3, <3>1
  <2> QED BY <2>1, <2>2, <2>3, <2>4
<1>3. ASSUME NEW q \in Nat, NEW n \in Nat, q * t <= n
      PROVE  q <= n \div t
  <2> DEFINE d == n \div t
  <2>1. d \in Nat /\ n % t \in 0 .. t - 1 /\ n = t * d + (n % t) BY <1>1
  <2>2. t * d = d * t BY <1>1, <2>1
  <2> HIDE DEF d
  <2>3. SUFFICES ASSUME d + 1 <= q PROVE FALSE BY <2>1 DEF d
  <2>4. (d + 1) * t <= q * t /\ (d + 1) * t = d * t + t BY <1>2, <2>1, <2>3
  <2>5. d * t \in Nat BY <1>2, <2>1
  <2>6. q * t \in Nat BY <1>2
  <2>7. n < d * t + t BY <1>1, <2>1, <2>2, <2>5
  <2> QED BY <1>1, <1>3, <2>4, <2>5, <2>6, <2>7
<1>4. \A n \in Nat : n \div t \in Nat BY <1>1
<1> QED BY <1>1, <1>2, <1>3, <1>4 DEF t

(* fdt_num_mem_rsv finds the entry that ends the list.                     *)
LEMMA NumMemRsvIs ==
    ASSUME NEW b, Layout(b), NEW n \in Nat, RsvEnds(b, n)
    PROVE  NumMemRsv(b) = n
<1> DEFINE S == {k \in 0 .. b.total \div RsvSize : RsvAt(b, k) = 0}
<1>1. /\ b.rsv \in Nat /\ b.struct \in Nat /\ b.nstruct \in Nat
      /\ b.strings \in Nat /\ b.nstrings \in Nat /\ b.total \in Nat
      /\ b.struct + b.nstruct <= b.strings /\ b.strings + b.nstrings <= b.total
    BY LayoutIs, Fields
<1>2. /\ b.rsv + (n + 1) * RsvSize <= b.struct /\ RsvAt(b, n) = 0
      /\ \A k \in 0 .. n - 1 : RsvAt(b, k) # 0
    BY DEF RsvEnds
<1>3. n * RsvSize \in Nat /\ (n + 1) * RsvSize = n * RsvSize + RsvSize /\ RsvSize \in Nat
    BY RsvMultiples
<1>4. n * RsvSize <= b.total BY <1>1, <1>2, <1>3
<1>5. n <= b.total \div RsvSize /\ b.total \div RsvSize \in Nat BY <1>1, <1>4, RsvMultiples
<1>6. n \in S BY <1>2, <1>5
<1>7. S \subseteq Nat BY <1>5
<1>8. Least(S) \in S /\ \A k \in S : Least(S) <= k
  <2> HIDE DEF S
  <2> QED BY <1>6, <1>7, LeastIs
<1>9. NumMemRsv(b) = Least(S) BY DEF NumMemRsv
<1> DEFINE l == Least(S)
<1>10. l \in Nat /\ l <= n /\ RsvAt(b, l) = 0 BY <1>6, <1>7, <1>8
<1> HIDE DEF l, S
<1>11. l \notin 0 .. n - 1 BY <1>2, <1>10
<1> QED BY <1>9, <1>10, <1>11 DEF l

(* The entries of the list, moved or not, end where they did.              *)
LEMMA RsvKept ==
    ASSUME NEW b, Layout(b), NEW n \in Nat, RsvEnds(b, n), NEW c, Layout(c),
           c.rsv + (n + 1) * RsvSize <= c.struct,
           \A x \in 0 .. (n + 1) * RsvSize - 1 : At(c, c.rsv + x) = At(b, b.rsv + x)
    PROVE  RsvEnds(c, n) /\ \A k \in 0 .. n : RsvAt(c, k) = RsvAt(b, k)
<1>1. /\ Whole(b) /\ b.rsv \in Nat /\ b.struct \in Nat /\ b.nstruct \in Nat
      /\ b.strings \in Nat /\ b.nstrings \in Nat /\ b.total \in Nat
      /\ b.struct + b.nstruct <= b.strings /\ b.strings + b.nstrings <= b.total
    BY LayoutIs, Fields
<1>2. /\ Whole(c) /\ c.rsv \in Nat /\ c.struct \in Nat /\ c.nstruct \in Nat
      /\ c.strings \in Nat /\ c.nstrings \in Nat /\ c.total \in Nat
      /\ c.struct + c.nstruct <= c.strings /\ c.strings + c.nstrings <= c.total
    BY LayoutIs, Fields
<1>3. /\ b.rsv + (n + 1) * RsvSize <= b.struct /\ RsvAt(b, n) = 0
      /\ \A k \in 0 .. n - 1 : RsvAt(b, k) # 0
    BY DEF RsvEnds
<1>4. ASSUME NEW k \in 0 .. n PROVE RsvAt(c, k) = RsvAt(b, k)
  <2> DEFINE x == k * RsvSize
             w == (n + 1) * RsvSize
  <2>1. x \in Nat /\ w \in Nat /\ x + TAGSIZE <= w /\ TAGSIZE \in Nat
    <3>1. k \in Nat /\ k + 1 <= n + 1 /\ k + 1 \in Nat /\ n + 1 \in Nat OBVIOUS
    <3>2. k * RsvSize \in Nat /\ (n + 1) * RsvSize \in Nat /\ (k + 1) * RsvSize \in Nat
          /\ (k + 1) * RsvSize = k * RsvSize + RsvSize /\ (k + 1) * RsvSize <= (n + 1) * RsvSize
          /\ RsvSize \in Nat /\ RsvSize >= TAGSIZE
        BY <3>1, RsvMultiples
    <3> QED BY <3>2, Constants
  <2>2. \A z \in 0 .. w - 1 : At(c, c.rsv + z) = At(b, b.rsv + z) OBVIOUS
  <2>3. c.rsv + w <= c.struct /\ b.rsv + w <= b.struct BY <1>3
  <2>4. RsvAt(b, k) = WordAt(b, b.rsv + x) /\ RsvAt(c, k) = WordAt(c, c.rsv + x) BY DEF RsvAt
  <2> HIDE DEF x, w
  <2>5. SameBytes(b, b.rsv + x, c, c.rsv + x, TAGSIZE)
    <3> SUFFICES ASSUME NEW z \in 0 .. TAGSIZE - 1
                 PROVE At(c, (c.rsv + x) + z) = At(b, (b.rsv + x) + z)
        BY DEF SameBytes
    <3>1. x + z \in 0 .. w - 1 /\ c.rsv + (x + z) = (c.rsv + x) + z /\ b.rsv + (x + z) = (b.rsv + x) + z
        BY <1>1, <1>2, <2>1
    <3> QED BY <2>2, <3>1
  <2>6. b.rsv + x \in Nat /\ c.rsv + x \in Nat
        /\ (b.rsv + x) + TAGSIZE <= b.total /\ (c.rsv + x) + TAGSIZE <= c.total
      BY <1>1, <1>2, <2>1, <2>3
  <2>7. WordAt(c, c.rsv + x) = WordAt(b, b.rsv + x) BY <1>1, <1>2, <2>5, <2>6, SameWordAt
  <2> QED BY <2>4, <2>7
<1>5. \A k \in 0 .. n - 1 : k \in 0 .. n OBVIOUS
<1>6. RsvEnds(c, n) BY <1>3, <1>4, <1>5 DEF RsvEnds
<1> QED BY <1>4, <1>6

(* The list of the reserved regions ends where it did.                     *)
LEMMA RsvSame ==
    ASSUME NEW b, Layout(b), NEW n \in Nat, RsvEnds(b, n), NEW c, Layout(c), SameFront(b, c)
    PROVE  RsvEnds(c, n)
<1> DEFINE w == (n + 1) * RsvSize
<1>1. b.rsv \in Nat /\ b.struct \in Nat BY LayoutIs, Fields
<1>2. b.rsv + w <= b.struct BY DEF RsvEnds
<1>3. w \in Nat BY RsvMultiples
<1>4. c.rsv = b.rsv /\ c.struct = b.struct /\ \A x \in 0 .. b.struct - 1 : At(c, x) = At(b, x)
    BY DEF SameFront
<1> HIDE DEF w
<1>5. ASSUME NEW x \in 0 .. w - 1 PROVE At(c, c.rsv + x) = At(b, b.rsv + x)
  <2>1. b.rsv + x \in 0 .. b.struct - 1 BY <1>1, <1>2, <1>3
  <2> QED BY <1>4, <2>1
<1>6. c.rsv + w <= c.struct BY <1>2, <1>4
<1> QED BY <1>5, <1>6, RsvKept DEF w

-----------------------------------------------------------------------------
(* The data of a blob, and nothing of its free space, stays where it is.   *)
SameData(b, c) ==
    /\ c.rsv = b.rsv /\ c.struct = b.struct /\ c.nstruct = b.nstruct
    /\ c.strings = b.strings /\ c.nstrings >= b.nstrings
    /\ \A x \in 0 .. DataSize(b) - 1 : At(c, x) = At(b, x)

(* A blob with the same data is read in the same way.                      *)
LEMMA SameDataIs ==
    ASSUME NEW b, Layout(b), NEW c, Whole(c), SameData(b, c), DataSize(c) <= c.total
    PROVE  Layout(c) /\ SameFront(b, c) /\ SameStruct(b, c) /\ MoreStrings(b, c)
<1>1. /\ Whole(b) /\ b.rsv \in Nat /\ b.struct \in Nat /\ b.nstruct \in Nat
      /\ b.strings \in Nat /\ b.nstrings \in Nat /\ b.total \in Nat
      /\ b.rsv <= b.struct /\ b.struct + b.nstruct <= b.strings
      /\ DataSize(b) = b.strings + b.nstrings /\ b.strings + b.nstrings <= b.total
    BY LayoutIs, Fields
<1>2. /\ c.rsv = b.rsv /\ c.struct = b.struct /\ c.nstruct = b.nstruct
      /\ c.strings = b.strings /\ c.nstrings >= b.nstrings
      /\ \A x \in 0 .. DataSize(b) - 1 : At(c, x) = At(b, x)
    BY DEF SameData
<1>3. Layout(c) BY <1>1, <1>2 DEF Layout, Whole
<1>4. SameFront(b, c)
  <2>1. \A x \in 0 .. b.struct - 1 : x \in 0 .. DataSize(b) - 1 BY <1>1
  <2> QED BY <1>2, <2>1 DEF SameFront
<1>5. SameStruct(b, c)
  <2>1. \A z \in 0 .. b.nstruct - 1 : b.struct + z \in 0 .. DataSize(b) - 1 BY <1>1
  <2> QED BY <1>2, <2>1 DEF SameStruct, StructAt
<1>6. MoreStrings(b, c)
  <2>1. \A z \in 0 .. b.nstrings - 1 : b.strings + z \in 0 .. DataSize(b) - 1 BY <1>1
  <2> QED BY <1>2, <2>1 DEF MoreStrings, StringsAt
<1> QED BY <1>3, <1>4, <1>5, <1>6

(* Two sequences put together.                                             *)
LEMMA JoinIs ==
    ASSUME NEW S, NEW s \in Seq(S), NEW u \in Seq(S)
    PROVE  /\ s \o u \in Seq(S) /\ Len(s \o u) = Len(s) + Len(u)
           /\ \A x \in 1 .. Len(s) : (s \o u)[x] = s[x]
           /\ \A x \in 1 .. Len(u) : (s \o u)[Len(s) + x] = u[x]
<1> DEFINE v == s \o u
<1>1. /\ v \in Seq(S) /\ Len(v) = Len(s) + Len(u)
      /\ \A i \in 1 .. Len(s) + Len(u) : v[i] = IF i <= Len(s) THEN s[i] ELSE u[i - Len(s)]
    BY ConcatProperties
<1>2. Len(s) \in Nat /\ Len(u) \in Nat BY LenProperties
<1> HIDE DEF v
<1>3. ASSUME NEW x \in 1 .. Len(s) PROVE v[x] = s[x]
  <2>1. x \in 1 .. Len(s) + Len(u) /\ x <= Len(s) BY <1>2
  <2> QED BY <1>1, <2>1
<1>4. ASSUME NEW x \in 1 .. Len(u) PROVE v[Len(s) + x] = u[x]
  <2>1. Len(s) + x \in 1 .. Len(s) + Len(u) /\ ~(Len(s) + x <= Len(s)) /\ (Len(s) + x) - Len(s) = x BY <1>2
  <2> QED BY <1>1, <2>1
<1> QED BY <1>1, <1>3, <1>4 DEF v

(* Memory to spare, which nobody has written to.                           *)
LEMMA TimesIs ==
    ASSUME NEW n \in Nat
    PROVE  Times(Junk, n) \in Seq(Byte) /\ Len(Times(Junk, n)) = n
<1>1. Junk \in Byte BY DEF Junk, Byte
<1>2. Times(Junk, n) \in [1 .. n -> Byte] BY <1>1 DEF Times
<1> QED BY <1>2, LengthIs

(* fdt_open_into changes no data.                                          *)
LEMMA OpenIntoIs ==
    ASSUME NEW b, Layout(b), NEW size \in Nat, size >= b.total, NEW c, c = OpenInto(b, size)
    PROVE  /\ Layout(c) /\ SameFront(b, c) /\ SameStruct(b, c) /\ MoreStrings(b, c)
           /\ c.total = size /\ SameData(b, c) /\ c.nstrings = b.nstrings
<1>1. /\ Whole(b) /\ b.mem \in Seq(Byte) /\ Len(b.mem) = b.total /\ b.rsv \in Nat /\ b.struct \in Nat
      /\ b.nstruct \in Nat /\ b.strings \in Nat /\ b.nstrings \in Nat /\ b.total \in Nat
      /\ DataSize(b) = b.strings + b.nstrings /\ b.strings + b.nstrings <= b.total
    BY LayoutIs, Fields
<1> DEFINE n == size - b.total
           more == Times(Junk, n)
           m == b.mem \o more
<1>2. n \in Nat /\ b.total + n = size BY <1>1
<1>3. more \in Seq(Byte) /\ Len(more) = n
  <2> HIDE DEF n
  <2> QED BY <1>2, TimesIs
<1> HIDE DEF n, more
<1>4. /\ m \in Seq(Byte) /\ Len(m) = b.total + n
      /\ \A x \in 1 .. b.total : m[x] = b.mem[x]
  <2>1. /\ m \in Seq(Byte) /\ Len(m) = Len(b.mem) + Len(more)
        /\ \A x \in 1 .. Len(b.mem) : m[x] = b.mem[x]
    <3>1. b.mem \in Seq(Byte) /\ more \in Seq(Byte) BY <1>1, <1>3
    <3> QED BY <3>1, JoinIs
  <2> HIDE DEF m
  <2> QED BY <1>1, <1>3, <2>1
<1>5. c = [b EXCEPT !.mem = m, !.total = size] BY DEF OpenInto, n, more
<1> HIDE DEF m
<1>6. /\ c \in BlobType /\ c.mem = m
      /\ c.rsv = b.rsv /\ c.struct = b.struct /\ c.nstruct = b.nstruct
      /\ c.strings = b.strings /\ c.nstrings = b.nstrings /\ c.total = size
    BY <1>1, <1>4, <1>5 DEF Whole, BlobType
<1>7. Whole(c) BY <1>2, <1>4, <1>6 DEF Whole
<1>8. SameData(b, c)
  <2>1. \A x \in 0 .. DataSize(b) - 1 : x + 1 \in 1 .. b.total BY <1>1
  <2>2. \A x \in 0 .. DataSize(b) - 1 : At(c, x) = At(b, x) BY <1>4, <1>6, <2>1 DEF At
  <2>3. c.nstrings >= b.nstrings BY <1>1, <1>6
  <2> QED BY <1>6, <2>2, <2>3 DEF SameData
<1>9. DataSize(c) <= c.total BY <1>1, <1>6 DEF DataSize
<1> QED BY <1>6, <1>7, <1>8, <1>9, SameDataIs

(* What is in the free space is not data.                                  *)
LEMMA TidyIs ==
    ASSUME NEW b, Layout(b), NEW c, c = Tidy(b)
    PROVE  /\ Layout(c) /\ SameFront(b, c) /\ SameStruct(b, c) /\ MoreStrings(b, c)
           /\ c.total = b.total
<1>1. /\ Whole(b) /\ b.mem \in Seq(Byte) /\ Len(b.mem) = b.total /\ b.rsv \in Nat /\ b.struct \in Nat
      /\ b.nstruct \in Nat /\ b.strings \in Nat /\ b.nstrings \in Nat /\ b.total \in Nat
      /\ DataSize(b) = b.strings + b.nstrings /\ b.strings + b.nstrings <= b.total
    BY LayoutIs, Fields
<1> DEFINE n == b.total - DataSize(b)
           data == SubSeq(b.mem, 1, DataSize(b))
           more == Times(Junk, n)
           m == data \o more
<1>2. n \in Nat /\ DataSize(b) + n = b.total /\ DataSize(b) \in Nat BY <1>1
<1>3. more \in Seq(Byte) /\ Len(more) = n
  <2> HIDE DEF n
  <2> QED BY <1>2, TimesIs
<1>4. data \in Seq(Byte) /\ Len(data) = DataSize(b)
      /\ \A x \in 1 .. DataSize(b) : data[x] = b.mem[x]
  <2> DEFINE l == DataSize(b)
  <2>1. l \in Nat /\ l <= Len(b.mem) /\ Len(b.mem) \in Nat BY <1>1, <1>2
  <2>2. \A x \in 1 .. l : b.mem[x] \in Byte
    <3>1. \A x \in 1 .. l : x \in 1 .. Len(b.mem) BY <2>1
    <3> QED BY <1>1, <3>1, ElementOfSeq
  <2>3. data = SubSeq(b.mem, 1, l) OBVIOUS
  <2> HIDE DEF l, data
  <2>4. /\ data \in Seq(Byte) /\ Len(data) = (IF 1 <= l THEN l - 1 + 1 ELSE 0)
        /\ \A x \in 1 .. l - 1 + 1 : data[x] = b.mem[1 + x - 1]
      BY <2>1, <2>2, <2>3, SubSeqProperties
  <2>5. Len(data) = l BY <2>1, <2>4
  <2>6. ASSUME NEW x \in 1 .. l PROVE data[x] = b.mem[x]
    <3>1. x \in 1 .. l - 1 + 1 /\ 1 + x - 1 = x BY <2>1
    <3> QED BY <2>4, <3>1
  <2> QED BY <2>4, <2>5, <2>6 DEF l
<1>5. c = [b EXCEPT !.mem = m] BY DEF Tidy
<1> HIDE DEF data, n, more
<1>6. /\ m \in Seq(Byte) /\ Len(m) = DataSize(b) + n
      /\ \A x \in 1 .. DataSize(b) : m[x] = b.mem[x]
  <2>1. /\ m \in Seq(Byte) /\ Len(m) = Len(data) + Len(more)
        /\ \A x \in 1 .. Len(data) : m[x] = data[x]
    <3>1. data \in Seq(Byte) /\ more \in Seq(Byte) BY <1>3, <1>4
    <3> QED BY <3>1, JoinIs
  <2> HIDE DEF m
  <2> QED BY <1>3, <1>4, <2>1
<1> HIDE DEF m
<1>7. /\ c \in BlobType /\ c.mem = m
      /\ c.rsv = b.rsv /\ c.struct = b.struct /\ c.nstruct = b.nstruct
      /\ c.strings = b.strings /\ c.nstrings = b.nstrings /\ c.total = b.total
    BY <1>1, <1>5, <1>6 DEF Whole, BlobType
<1>8. Whole(c) BY <1>2, <1>6, <1>7 DEF Whole
<1>9. SameData(b, c)
  <2>1. \A x \in 0 .. DataSize(b) - 1 : x + 1 \in 1 .. DataSize(b) BY <1>1
  <2>2. \A x \in 0 .. DataSize(b) - 1 : At(c, x) = At(b, x) BY <1>6, <1>7, <2>1 DEF At
  <2>3. c.nstrings >= b.nstrings BY <1>1, <1>7
  <2> QED BY <1>7, <2>2, <2>3 DEF SameData
<1>10. DataSize(c) <= c.total BY <1>1, <1>7 DEF DataSize
<1> QED BY <1>7, <1>8, <1>9, <1>10, SameDataIs

(* memcpy of a known number of bytes.                                      *)
LEMMA CopyIs ==
    ASSUME NEW mem \in Seq(Byte), NEW n \in Nat, NEW to \in Nat, to + n <= Len(mem),
           NEW bytes \in [1 .. n -> Byte]
    PROVE  /\ memcpy(mem, to, bytes) \in Seq(Byte)
           /\ Len(memcpy(mem, to, bytes)) = Len(mem)
           /\ \A x \in 1 .. Len(mem) :
                 memcpy(mem, to, bytes)[x] =
                     IF x <= to THEN mem[x]
                     ELSE IF x <= to + n THEN bytes[x - to] ELSE mem[x]
<1>1. bytes \in Seq(Byte) /\ Len(bytes) = n BY LengthIs
<1> QED BY <1>1, MemcpyIs

(* Some strings are written behind the others, and counted or not.         *)
StringAdded(b, k, bytes, c) ==
    c = [b EXCEPT !.mem = memcpy(b.mem, DataSize(b), bytes), !.nstrings = b.nstrings + k]

(* More strings move nothing and hide no string.                           *)
LEMMA AddStringIs ==
    ASSUME NEW b, Layout(b), NEW n \in Nat, DataSize(b) + n <= b.total, NEW k \in 0 .. n,
           NEW bytes \in [1 .. n -> Byte], NEW c, StringAdded(b, k, bytes, c)
    PROVE  /\ Layout(c) /\ SameFront(b, c) /\ SameStruct(b, c) /\ MoreStrings(b, c)
           /\ c.nstrings = b.nstrings + k /\ c.total = b.total
           /\ \A z \in 0 .. n - 1 : StringsAt(c, b.nstrings + z) = bytes[z + 1]
<1>1. /\ Whole(b) /\ b.mem \in Seq(Byte) /\ Len(b.mem) = b.total /\ b.rsv \in Nat /\ b.struct \in Nat
      /\ b.nstruct \in Nat /\ b.strings \in Nat /\ b.nstrings \in Nat /\ b.total \in Nat
      /\ DataSize(b) = b.strings + b.nstrings /\ b.strings + b.nstrings <= b.total
    BY LayoutIs, Fields
<1> DEFINE at == DataSize(b)
           m == memcpy(b.mem, at, bytes)
<1>2. bytes \in Seq(Byte) /\ Len(bytes) = n BY LengthIs
<1>3. at \in Nat /\ at + n <= b.total /\ at = b.strings + b.nstrings BY <1>1
<1> HIDE DEF at
<1>4. /\ m \in Seq(Byte) /\ Len(m) = Len(b.mem)
      /\ \A x \in 1 .. Len(b.mem) :
            m[x] = IF x <= at THEN b.mem[x]
                   ELSE IF x <= at + n THEN bytes[x - at] ELSE b.mem[x]
  <2> DEFINE mem == b.mem
  <2>1. mem \in Seq(Byte) /\ at \in Nat /\ at + n <= Len(mem) BY <1>1, <1>3
  <2>2. m = memcpy(mem, at, bytes) OBVIOUS
  <2> HIDE DEF mem, m
  <2> QED BY <2>1, <2>2, CopyIs DEF mem
<1>5. c = [b EXCEPT !.mem = m, !.nstrings = b.nstrings + k] BY DEF at, StringAdded
<1> HIDE DEF m
<1>6. b.nstrings + k \in Nat BY <1>1
<1>7. /\ c \in BlobType /\ c.mem = m
      /\ c.rsv = b.rsv /\ c.struct = b.struct /\ c.nstruct = b.nstruct
      /\ c.strings = b.strings /\ c.nstrings = b.nstrings + k /\ c.total = b.total
    BY <1>1, <1>4, <1>5, <1>6 DEF Whole, BlobType
<1>8. Whole(c) BY <1>1, <1>4, <1>7 DEF Whole
<1>9. SameData(b, c)
  <2>1. \A x \in 0 .. at - 1 : x + 1 \in 1 .. Len(b.mem) /\ x + 1 <= at
    <3>1. PICK l : l = Len(b.mem) OBVIOUS
    <3>2. l \in Nat /\ at \in Nat /\ at <= l
      <4>1. l = b.total BY <1>1, <3>1
      <4> QED BY <1>1, <1>3, <4>1
    <3>3. \A x \in 0 .. at - 1 : x + 1 \in 1 .. l /\ x + 1 <= at BY <3>2
    <3> QED BY <3>1, <3>3
  <2>2. \A x \in 0 .. at - 1 : At(c, x) = At(b, x) BY <1>4, <1>7, <2>1 DEF At
  <2>3. c.nstrings >= b.nstrings BY <1>1, <1>7
  <2> QED BY <1>7, <2>2, <2>3 DEF SameData, at
<1>10. DataSize(c) <= c.total
  <2>1. DataSize(c) = b.strings + (b.nstrings + k) BY <1>7 DEF DataSize
  <2>2. b.strings + (b.nstrings + k) <= b.total BY <1>1, <1>3
  <2> QED BY <1>7, <2>1, <2>2
<1>11. ASSUME NEW z \in 0 .. n - 1 PROVE StringsAt(c, b.nstrings + z) = bytes[z + 1]
  <2> DEFINE x == (b.strings + (b.nstrings + z)) + 1
  <2>1. x \in 1 .. Len(b.mem) /\ ~(x <= at) /\ x <= at + n /\ x - at = z + 1
    <3>1. PICK l : l = Len(b.mem) OBVIOUS
    <3>2. l = b.total BY <1>1, <3>1
    <3>3. l \in Nat /\ at + n <= l /\ at \in Nat BY <1>1, <1>3, <3>2
    <3>4. PICK s : s = b.strings OBVIOUS
    <3>5. PICK g : g = b.nstrings OBVIOUS
    <3>6. s \in Nat /\ g \in Nat /\ at = s + g BY <1>1, <1>3, <3>4, <3>5
    <3>7. x = (s + (g + z)) + 1 BY <3>4, <3>5
    <3> HIDE DEF x
    <3>8. x = at + z + 1 BY <3>6, <3>7
    <3>9. x \in 1 .. l /\ ~(x <= at) /\ x <= at + n /\ x - at = z + 1 BY <3>3, <3>8
    <3> QED BY <3>1, <3>9
  <2> HIDE DEF x
  <2>2. m[x] = bytes[z + 1] BY <1>4, <2>1
  <2> QED BY <1>7, <2>2 DEF StringsAt, At, x
<1> QED BY <1>7, <1>8, <1>9, <1>10, <1>11, SameDataIs

-----------------------------------------------------------------------------
(* Bytes put together.                                                     *)
LEMMA JoinBytes ==
    ASSUME NEW m \in Nat, NEW n \in Nat, NEW s \in [1 .. m -> Byte], NEW u \in [1 .. n -> Byte],
           NEW l, l = m + n
    PROVE  /\ s \o u \in [1 .. l -> Byte]
           /\ \A x \in 1 .. m : (s \o u)[x] = s[x]
           /\ \A x \in 1 .. n : (s \o u)[m + x] = u[x]
<1> DEFINE v == s \o u
<1>1. s \in Seq(Byte) /\ Len(s) = m BY LengthIs
<1>2. u \in Seq(Byte) /\ Len(u) = n BY LengthIs
<1>3. /\ v \in Seq(Byte) /\ Len(v) = Len(s) + Len(u)
      /\ \A x \in 1 .. Len(s) : v[x] = s[x]
      /\ \A x \in 1 .. Len(u) : v[Len(s) + x] = u[x]
  <2>1. s \in Seq(Byte) /\ u \in Seq(Byte) BY <1>1, <1>2
  <2> QED BY <2>1, JoinIs
<1> HIDE DEF v
<1>4. Len(v) = l BY <1>1, <1>2, <1>3
<1>5. v \in [1 .. l -> Byte] BY <1>3, <1>4, LenProperties
<1> QED BY <1>1, <1>2, <1>3, <1>5 DEF v

(* The bytes of a text.                                                    *)
LEMMA BytesIs ==
    ASSUME NEW s \in Seq(Int)
    PROVE  /\ Len(s) \in Nat /\ Bytes(s) \in [1 .. Len(s) -> Byte]
           /\ \A k \in 1 .. Len(s) : Bytes(s)[k] = <<s[k], 0>>
<1>1. Len(s) \in Nat BY LenProperties
<1>2. \A k \in 1 .. Len(s) : s[k] \in Int BY ElementOfSeq
<1> QED BY <1>1, <1>2 DEF Bytes, Byte

(* A text with its NUL.                                                    *)
LEMMA AppendBytes ==
    ASSUME NEW n \in Nat, NEW s \in [1 .. n -> Byte], NEW e \in Byte, NEW l, l = n + 1
    PROVE  /\ Append(s, e) \in [1 .. l -> Byte]
           /\ \A x \in 1 .. n : Append(s, e)[x] = s[x]
           /\ Append(s, e)[l] = e
<1> DEFINE v == Append(s, e)
<1>1. s \in Seq(Byte) /\ Len(s) = n BY LengthIs
<1>2. /\ v \in Seq(Byte) /\ Len(v) = Len(s) + 1
      /\ \A x \in 1 .. Len(s) : v[x] = s[x]
      /\ v[Len(s) + 1] = e
    BY <1>1, AppendProperties
<1> HIDE DEF v
<1>3. Len(v) = l BY <1>1, <1>2
<1>4. v \in [1 .. l -> Byte] BY <1>2, <1>3, LenProperties
<1> QED BY <1>1, <1>2, <1>4 DEF v

(* A name has no NUL in it.                                                *)
LEMMA NameBytes ==
    ASSUME NEW name \in Names
    PROVE  /\ name \in Seq(Int) /\ Len(name) \in Nat
           /\ \A k \in 1 .. Len(name) : <<name[k], 0>> # NUL
<1>1. name \in Seq(Nat \ {0}) BY Constants
<1>2. Len(name) \in Nat BY <1>1, LenProperties
<1>3. \A k \in 1 .. Len(name) : name[k] \in Nat \ {0} BY <1>1, ElementOfSeq
<1>4. name \in Seq(Int)
  <2>1. name \in [1 .. Len(name) -> Nat \ {0}] BY <1>1, LenProperties
  <2>2. name \in [1 .. Len(name) -> Int] BY <2>1
  <2> QED BY <1>2, <2>2, LengthIs
<1> QED BY <1>2, <1>3, <1>4 DEF NUL

(* A value may have any byte.                                              *)
LEMMA ValueBytes ==
    ASSUME NEW value \in Values
    PROVE  value \in Seq(Int) /\ Len(value) \in Nat
<1>1. value \in Seq(Nat) BY Constants
<1>2. Len(value) \in Nat BY <1>1, LenProperties
<1>3. value \in Seq(Int)
  <2>1. value \in [1 .. Len(value) -> Nat] BY <1>1, LenProperties
  <2>2. value \in [1 .. Len(value) -> Int] BY <2>1
  <2> QED BY <1>2, <2>2, LengthIs
<1> QED BY <1>2, <1>3

-----------------------------------------------------------------------------
(* Changes of the list of reserved regions move all that is behind.        *)

FrontSpliced(b, p, o, w, c) ==
    c = [b EXCEPT !.mem = Splice(b, p, o, w),
                  !.struct = b.struct + (w - o), !.strings = b.strings + (w - o)]

(* fdt_splice_mem_rsv_ moves structure and strings together.               *)
LEMMA FrontSplicedIs ==
    ASSUME NEW b, Layout(b), NEW p \in Nat, NEW o \in Nat, NEW w \in Nat,
           b.rsv <= p, p + o <= b.struct, b.strings + b.nstrings + (w - o) <= b.total,
           NEW c, FrontSpliced(b, p, o, w, c)
    PROVE  /\ Layout(c) /\ SameStruct(b, c) /\ MoreStrings(b, c)
           /\ c.rsv = b.rsv /\ c.struct = b.struct + (w - o) /\ c.total = b.total
           /\ \A x \in 0 .. p - 1 : At(c, x) = At(b, x)
           /\ \A x \in p + o .. b.struct - 1 : At(c, x + (w - o)) = At(b, x)
<1> DEFINE d == w - o
           m == Splice(b, p, o, w)
<1>1. /\ Whole(b) /\ b.rsv \in Nat /\ b.struct \in Nat /\ b.nstruct \in Nat
      /\ b.strings \in Nat /\ b.nstrings \in Nat /\ b.total \in Nat
      /\ b.rsv <= b.struct /\ b.struct + b.nstruct <= b.strings
      /\ DataSize(b) = b.strings + b.nstrings /\ b.strings + b.nstrings <= b.total
    BY LayoutIs, Fields
<1>2. d \in Int /\ b.strings + b.nstrings + d <= b.total OBVIOUS
<1>3. p + o <= DataSize(b) /\ DataSize(b) + w - o <= b.total
    BY <1>1, <1>2
<1>4. /\ m \in Seq(Byte) /\ Len(m) = b.total
      /\ \A y \in 0 .. p + w - 1 : m[y + 1] = At(b, y)
      /\ \A y \in p + o .. DataSize(b) - 1 : m[(y + w - o) + 1] = At(b, y)
    BY <1>3, SpliceIs
<1>5. b.struct + d \in Nat /\ b.strings + d \in Nat /\ b.rsv <= b.struct + d
    BY <1>1
<1>6. c = [b EXCEPT !.mem = m, !.struct = b.struct + d, !.strings = b.strings + d]
    BY DEF FrontSpliced
<1> HIDE DEF d, m
<1>7. /\ c \in BlobType /\ c.mem = m
      /\ c.rsv = b.rsv /\ c.struct = b.struct + d /\ c.nstruct = b.nstruct
      /\ c.strings = b.strings + d /\ c.nstrings = b.nstrings /\ c.total = b.total
    BY <1>1, <1>4, <1>5, <1>6 DEF Whole, BlobType
<1>8. Layout(c)
  <2>1. (b.struct + d) + b.nstruct <= b.strings + d /\ (b.strings + d) + b.nstrings <= b.total
      BY <1>1, <1>2
  <2>2. c.struct + c.nstruct <= c.strings /\ DataSize(c) <= c.total /\ c.rsv <= c.struct
      BY <1>1, <1>5, <1>7, <2>1 DEF DataSize
  <2> QED BY <1>4, <1>7, <2>2 DEF Layout
<1>9. \A y \in 0 .. p - 1 : At(c, y) = At(b, y)
  <2> SUFFICES ASSUME NEW y \in 0 .. p - 1 PROVE At(c, y) = At(b, y)
      OBVIOUS
  <2>1. y \in 0 .. p + w - 1 OBVIOUS
  <2> QED BY <1>4, <1>7, <2>1 DEF At
<1>10. \A y \in p + o .. DataSize(b) - 1 : At(c, y + d) = At(b, y)
  <2> SUFFICES ASSUME NEW y \in p + o .. DataSize(b) - 1 PROVE At(c, y + d) = At(b, y)
      OBVIOUS
  <2>1. y + w - o = y + d BY <1>1 DEF d
  <2> QED BY <1>4, <1>7, <2>1 DEF At
<1>11. SameStruct(b, c)
  <2> SUFFICES ASSUME NEW z \in 0 .. b.nstruct - 1 PROVE StructAt(c, z) = StructAt(b, z)
      BY <1>7 DEF SameStruct
  <2>1. b.struct + z \in p + o .. DataSize(b) - 1 /\ (b.struct + d) + z = (b.struct + z) + d
      BY <1>1, <1>2
  <2> QED BY <1>7, <1>10, <2>1 DEF StructAt
<1>12. MoreStrings(b, c)
  <2> SUFFICES ASSUME NEW z \in 0 .. b.nstrings - 1 PROVE StringsAt(c, z) = StringsAt(b, z)
      BY <1>1, <1>7 DEF MoreStrings
  <2>1. b.strings + z \in p + o .. DataSize(b) - 1 /\ (b.strings + d) + z = (b.strings + z) + d
      BY <1>1, <1>2
  <2> QED BY <1>7, <1>10, <2>1 DEF StringsAt
<1>13. ASSUME NEW x \in p + o .. b.struct - 1 PROVE At(c, x + d) = At(b, x)
  <2>1. x \in p + o .. DataSize(b) - 1 BY <1>1
  <2> QED BY <1>10, <2>1
<1> QED BY <1>7, <1>8, <1>9, <1>11, <1>12, <1>13 DEF d

(* p is behind some entries, of which old become new ones.                 *)
LEMMA SpliceRsvIs ==
    ASSUME NEW b, Layout(b), NEW p \in Nat, NEW old \in Nat, NEW new \in Nat,
           NEW o, o = old * RsvSize, NEW w, w = new * RsvSize,
           b.rsv <= p, p + o <= b.struct, Fits(b, (new - old) * RsvSize),
           NEW c, c = SpliceMemRsv(b, p, old, new).blob
    PROVE  SpliceMemRsv(b, p, old, new) = Ok(c) /\ FrontSpliced(b, p, o, w, c)
           /\ o \in Nat /\ w \in Nat /\ b.strings + b.nstrings + (w - o) <= b.total
<1>1. Whole(b) BY LayoutIs
<1>2. o \in Nat /\ w \in Nat /\ (new - old) * RsvSize = w - o
  <2>1. o \in Nat /\ w \in Nat BY RsvMultiples
  <2>2. RsvSize \in Nat BY RsvMultiples
  <2>3. (new - old) * RsvSize = new * RsvSize - old * RsvSize BY <2>2
  <2> QED BY <2>1, <2>3
<1>3. w - o \in Int BY <1>2
<1>4. b.strings + b.nstrings + (w - o) <= b.total
    BY <1>1, <1>2, <1>3, FitsIs
<1> DEFINE m == Splice(b, p, old * RsvSize, new * RsvSize)
           x == (new - old) * RsvSize
           k == [b EXCEPT !.mem = m, !.struct = b.struct + x, !.strings = b.strings + x]
<1>5. SpliceMemRsv(b, p, old, new) = IF ~Fits(b, x) THEN Error(b, "nospace") ELSE Ok(k)
    BY DEF SpliceMemRsv
<1>6. Fits(b, x) OBVIOUS
<1>7. FrontSpliced(b, p, o, w, k) BY <1>2 DEF FrontSpliced
<1> HIDE DEF k, x
<1>8. SpliceMemRsv(b, p, old, new) = Ok(k) BY <1>5, <1>6
<1>9. c = k BY <1>8 DEF Ok
<1> QED BY <1>2, <1>4, <1>7, <1>8, <1>9

(* An entry that is found elsewhere.                                       *)
LEMMA SameRsv ==
    ASSUME NEW b, Layout(b), NEW i \in Nat, b.rsv + (i + 1) * RsvSize <= b.struct,
           NEW c, Layout(c), NEW j \in Nat, c.rsv + (j + 1) * RsvSize <= c.struct,
           SameBytes(b, b.rsv + i * RsvSize, c, c.rsv + j * RsvSize, TAGSIZE)
    PROVE  RsvAt(c, j) = RsvAt(b, i)
<1>1. /\ Whole(b) /\ b.rsv \in Nat /\ b.struct \in Nat /\ b.nstruct \in Nat
      /\ b.strings \in Nat /\ b.nstrings \in Nat /\ b.total \in Nat
      /\ b.struct + b.nstruct <= b.strings /\ b.strings + b.nstrings <= b.total
    BY LayoutIs, Fields
<1>2. /\ Whole(c) /\ c.rsv \in Nat /\ c.struct \in Nat /\ c.nstruct \in Nat
      /\ c.strings \in Nat /\ c.nstrings \in Nat /\ c.total \in Nat
      /\ c.struct + c.nstruct <= c.strings /\ c.strings + c.nstrings <= c.total
    BY LayoutIs, Fields
<1> DEFINE x == i * RsvSize
           y == j * RsvSize
<1>3. x \in Nat /\ y \in Nat /\ b.rsv + (x + TAGSIZE) <= b.struct /\ c.rsv + (y + TAGSIZE) <= c.struct
      /\ TAGSIZE \in Nat
  <2>1. x \in Nat /\ y \in Nat /\ (i + 1) * RsvSize = x + RsvSize /\ (j + 1) * RsvSize = y + RsvSize
        /\ RsvSize \in Nat /\ RsvSize >= TAGSIZE
      BY RsvMultiples
  <2> HIDE DEF x, y
  <2>2. TAGSIZE \in Nat BY Constants
  <2>3. b.rsv + (x + RsvSize) <= b.struct /\ c.rsv + (y + RsvSize) <= c.struct BY <2>1
  <2> QED BY <1>1, <1>2, <2>1, <2>2, <2>3
<1>4. RsvAt(b, i) = WordAt(b, b.rsv + x) /\ RsvAt(c, j) = WordAt(c, c.rsv + y) BY DEF RsvAt
<1>5. SameBytes(b, b.rsv + x, c, c.rsv + y, TAGSIZE) OBVIOUS
<1> HIDE DEF x, y
<1>6. b.rsv + x \in Nat /\ c.rsv + y \in Nat
      /\ (b.rsv + x) + TAGSIZE <= b.total /\ (c.rsv + y) + TAGSIZE <= c.total
    BY <1>1, <1>2, <1>3
<1>7. WordAt(c, c.rsv + y) = WordAt(b, b.rsv + x) BY <1>1, <1>2, <1>5, <1>6, SameWordAt
<1> QED BY <1>4, <1>7

-----------------------------------------------------------------------------
(* What a blob must be for the next call.                                  *)
Good(b) ==
    /\ Layout(b)
    /\ \E n \in Nat : RsvEnds(b, n)
    /\ \E M : Marks(b, M)

(* Such a blob can be read.                                                *)
LEMMA GoodIs ==
    ASSUME NEW b, Good(b), NEW r, r = Read(b)
    PROVE  Layout(b) /\ (\E n \in Nat : RsvEnds(b, n)) /\ (\E M : Marks(b, M) /\ Reading(b, M, r))
BY DEF Good, Reading

(* It stays so when what can be read does not change.                      *)
LEMMA GoodSame ==
    ASSUME NEW b, Good(b), NEW c, Layout(c), SameFront(b, c), SameStruct(b, c), MoreStrings(b, c)
    PROVE  Good(c)
<1>1. Layout(b) BY DEF Good
<1>2. PICK n \in Nat : RsvEnds(b, n) BY DEF Good
<1>3. PICK M : Marks(b, M) BY DEF Good
<1>4. RsvEnds(c, n) BY <1>1, <1>2, RsvSame
<1>5. Marks(c, M) BY <1>1, <1>3, MarksMoved
<1> QED BY <1>4, <1>5 DEF Good

(* It stays so when the structure has marks again.                         *)
LEMMA GoodEdited ==
    ASSUME NEW b, Good(b), NEW c, Layout(c), SameFront(b, c), NEW M, Marks(c, M)
    PROVE  Good(c)
<1>1. Layout(b) BY DEF Good
<1>2. PICK n \in Nat : RsvEnds(b, n) BY DEF Good
<1>4. RsvEnds(c, n) BY <1>1, <1>2, RsvSame
<1> QED BY <1>4 DEF Good

(* What a call may answer, and leave.                                      *)
Answers == {"ok", "nospace", "notfound", "exists", "resized"}
Fine(s) == s.err \in Answers /\ Good(s.blob)

(* A call that succeeds.                                                   *)
LEMMA OkIs ==
    ASSUME NEW b
    PROVE  Ok(b).blob = b /\ Ok(b).err = "ok" /\ "ok" \in Answers
BY DEF Ok, Answers

(* A call that fails.                                                      *)
LEMMA ErrorIs ==
    ASSUME NEW b, NEW e \in Answers
    PROVE  Error(b, e).blob = b /\ Error(b, e).err = e
BY DEF Error

(* fdt_open_into, and the free space.                                      *)
LEMMA GoodOpenInto ==
    ASSUME NEW b, Good(b), NEW size \in Nat, size >= b.total
    PROVE  Good(OpenInto(b, size))
<1>1. Layout(b) BY DEF Good
<1>2. PICK c : c = OpenInto(b, size) OBVIOUS
<1>3. Layout(c) /\ SameFront(b, c) /\ SameStruct(b, c) /\ MoreStrings(b, c) BY <1>1, <1>2, OpenIntoIs
<1> QED BY <1>2, <1>3, GoodSame

(* The free space does not matter.                                         *)
LEMMA GoodTidy ==
    ASSUME NEW b, Good(b)
    PROVE  Good(Tidy(b))
<1>1. Layout(b) BY DEF Good
<1>2. PICK c : c = Tidy(b) OBVIOUS
<1>3. Layout(c) /\ SameFront(b, c) /\ SameStruct(b, c) /\ MoreStrings(b, c) BY <1>1, <1>2, TidyIs
<1> QED BY <1>2, <1>3, GoodSame

-----------------------------------------------------------------------------
(* fdt_del_mem_rsv.                                                        *)
LEMMA GoodDelRsv ==
    ASSUME NEW b, Good(b), NEW k \in 1 .. NumMemRsv(b)
    PROVE  Fine(DelRsv(b, k))
<1>1. Layout(b) BY DEF Good
<1>2. PICK n \in Nat : RsvEnds(b, n) BY DEF Good
<1>3. PICK M : Marks(b, M) BY DEF Good
<1>4. NumMemRsv(b) = n BY <1>1, <1>2, NumMemRsvIs
<1> DEFINE R == RsvSize
           p == b.rsv + (k - 1) * R
           s == SpliceMemRsv(b, p, 1, 0)
           c == s.blob
<1>5. DelRsv(b, k) = s BY DEF DelRsv
<1>6. k \in Nat /\ k - 1 \in Nat /\ k <= n /\ n - 1 \in Nat BY <1>4
<1>7. /\ R \in Nat /\ (k - 1) * R \in Nat /\ k * R = (k - 1) * R + R /\ k * R <= n * R
      /\ (n + 1) * R = n * R + R /\ n * R \in Nat
  <2>1. (k - 1) * R \in Nat /\ R \in Nat BY <1>6, RsvMultiples
  <2>2. ((k - 1) + 1) * R = (k - 1) * R + R BY <1>6, RsvMultiples
  <2>3. (k - 1) + 1 = k BY <1>6
  <2>4. k * R <= n * R /\ (n + 1) * R = n * R + R /\ n * R \in Nat BY <1>6, RsvMultiples
  <2> QED BY <2>1, <2>2, <2>3, <2>4
<1>8. /\ b.rsv \in Nat /\ b.struct \in Nat /\ b.strings \in Nat /\ b.nstrings \in Nat /\ b.total \in Nat
      /\ Whole(b) /\ b.strings + b.nstrings <= b.total
    BY <1>1, LayoutIs, Fields
<1>9. /\ b.rsv + (n + 1) * R <= b.struct /\ RsvAt(b, n) = 0
      /\ \A j \in 0 .. n - 1 : RsvAt(b, j) # 0
    BY <1>2 DEF RsvEnds
<1>10. p \in Nat /\ b.rsv <= p /\ p + R <= b.struct
  <2> DEFINE x == (k - 1) * R
             y == n * R
             z == (n + 1) * R
             v == k * R
  <2>1. x \in Nat /\ y \in Nat /\ v = x + R /\ v <= y /\ z = y + R /\ R \in Nat /\ b.rsv + z <= b.struct
      BY <1>7, <1>9
  <2>2. p = b.rsv + x OBVIOUS
  <2> HIDE DEF x, y, z, v, R, p
  <2> QED BY <1>8, <2>1, <2>2
<1>11. Fits(b, (0 - 1) * R)
  <2>1. (0 - 1) * R = 0 - R /\ 0 - R \in Int BY <1>7
  <2> HIDE DEF R
  <2>2. b.strings + b.nstrings + (0 - R) <= b.total BY <1>7, <1>8
  <2> QED BY <1>8, <2>1, <2>2, FitsIs
<1>12. R = 1 * R /\ 0 = 0 * R BY <1>7
<1>13. s = Ok(c) /\ FrontSpliced(b, p, R, 0, c)
  <2>1. p \in Nat /\ b.rsv <= p /\ p + R <= b.struct BY <1>10
  <2>2. Fits(b, (0 - 1) * RsvSize) BY <1>11
  <2>3. PICK o, w : o = 1 * RsvSize /\ w = 0 * RsvSize /\ o = R /\ w = 0 BY <1>12
  <2>4. 0 \in Nat /\ 1 \in Nat OBVIOUS
  <2>5. PICK q : q = p OBVIOUS
  <2>6. c = SpliceMemRsv(b, q, 1, 0).blob BY <2>5
  <2> HIDE DEF p, s, c, R
  <2>7. SpliceMemRsv(b, q, 1, 0) = Ok(c) /\ FrontSpliced(b, q, o, w, c)
    <3>1. q \in Nat /\ b.rsv <= q /\ q + o <= b.struct BY <2>1, <2>3, <2>5
    <3> QED BY <1>1, <2>2, <2>3, <2>4, <2>6, <3>1, SpliceRsvIs
  <2> QED BY <2>3, <2>5, <2>7 DEF s
<1> HIDE DEF s, c
<1>14. /\ Layout(c) /\ SameStruct(b, c) /\ MoreStrings(b, c)
       /\ c.rsv = b.rsv /\ c.struct = b.struct + (0 - R)
       /\ \A x \in 0 .. p - 1 : At(c, x) = At(b, x)
       /\ \A x \in p + R .. b.struct - 1 : At(c, x + (0 - R)) = At(b, x)
  <2> HIDE DEF p, R
  <2>1. b.strings + b.nstrings + (0 - R) <= b.total BY <1>7, <1>8
  <2> QED BY <1>1, <1>7, <1>10, <1>13, <2>1, FrontSplicedIs
<1>15. ASSUME NEW j \in 0 .. n - 1
       PROVE  RsvAt(c, j) = RsvAt(b, IF j < k - 1 THEN j ELSE j + 1)
  <2> DEFINE x == j * R
             top == (n + 1) * R
  <2>1. /\ x \in Nat /\ (j + 1) * R = x + R /\ (j + 1 + 1) * R = (x + R) + R
        /\ (j + 1 + 1) * R <= top /\ top = n * R + R /\ (j + 1) * R <= n * R
        /\ (j < k - 1 => (j + 1) * R <= (k - 1) * R) /\ (~(j < k - 1) => (k - 1) * R <= x)
        /\ TAGSIZE \in Nat /\ R >= TAGSIZE
    <3>1. j \in Nat /\ j + 1 \in Nat /\ j + 1 + 1 \in Nat /\ j + 1 + 1 <= n + 1 /\ j + 1 <= n /\ n + 1 \in Nat
          /\ (j < k - 1 => j + 1 <= k - 1) /\ (~(j < k - 1) => k - 1 <= j)
        BY <1>6
    <3> HIDE DEF R
    <3>2. \A q, m \in Nat : /\ q * R \in Nat /\ (q + 1) * R = q * R + R
                            /\ (q <= m => q * R <= m * R)
        BY RsvMultiples DEF R
    <3> QED BY <1>6, <1>7, <3>1, <3>2, RsvMultiples, Constants DEF R
  <2> DEFINE x1 == (j + 1) * R
             x2 == (j + 1 + 1) * R
             xk == (k - 1) * R
             xn == n * R
  <2>2. /\ p = b.rsv + xk /\ b.rsv + top <= b.struct /\ c.rsv = b.rsv /\ c.struct = b.struct + (0 - R)
        /\ xk \in Nat /\ xn \in Nat /\ R \in Nat
      BY <1>7, <1>9, <1>14
  <2>3. /\ x \in Nat /\ x1 = x + R /\ x2 = (x + R) + R /\ x2 <= top /\ top = xn + R /\ x1 <= xn
        /\ (j < k - 1 => x1 <= xk) /\ (~(j < k - 1) => xk <= x)
        /\ TAGSIZE \in Nat /\ R >= TAGSIZE
      BY <2>1
  <2>4. /\ \A z \in 0 .. p - 1 : At(c, z) = At(b, z)
        /\ \A z \in p + R .. b.struct - 1 : At(c, z + (0 - R)) = At(b, z)
      BY <1>14
  <2>5. CASE j < k - 1
    <3>1. SameBytes(b, b.rsv + x, c, c.rsv + x, TAGSIZE)
      <4> HIDE DEF x, x1, x2, xk, xn, top, p, R
      <4> SUFFICES ASSUME NEW z \in 0 .. TAGSIZE - 1
                   PROVE At(c, (c.rsv + x) + z) = At(b, (b.rsv + x) + z)
          BY DEF SameBytes
      <4>1. (b.rsv + x) + z \in 0 .. p - 1 /\ c.rsv = b.rsv BY <1>8, <2>2, <2>3, <2>5
      <4> QED BY <2>4, <4>1
    <3>2. b.rsv + x1 <= b.struct /\ c.rsv + x1 <= c.struct
      <4> HIDE DEF x, x1, x2, xk, xn, top, p, R
      <4> QED BY <1>8, <2>2, <2>3
    <3>3. SameBytes(b, b.rsv + j * RsvSize, c, c.rsv + j * RsvSize, TAGSIZE) BY <3>1
    <3>4. b.rsv + (j + 1) * RsvSize <= b.struct /\ c.rsv + (j + 1) * RsvSize <= c.struct BY <3>2
    <3>5. j \in Nat OBVIOUS
    <3> HIDE DEF x, x1, x2, xk, xn, top, p, R
    <3>6. RsvAt(c, j) = RsvAt(b, j) BY <1>1, <1>14, <3>3, <3>4, <3>5, SameRsv
    <3> QED BY <2>5, <3>6
  <2>6. CASE ~(j < k - 1)
    <3>1. SameBytes(b, b.rsv + x1, c, c.rsv + x, TAGSIZE)
      <4> HIDE DEF x, x1, x2, xk, xn, top, p, R
      <4> SUFFICES ASSUME NEW z \in 0 .. TAGSIZE - 1
                   PROVE At(c, (c.rsv + x) + z) = At(b, (b.rsv + x1) + z)
          BY DEF SameBytes
      <4>1. (b.rsv + x1) + z \in p + R .. b.struct - 1
            /\ ((b.rsv + x1) + z) + (0 - R) = (c.rsv + x) + z
          BY <1>8, <2>2, <2>3, <2>6
      <4> QED BY <2>4, <4>1
    <3>2. b.rsv + x2 <= b.struct /\ c.rsv + x1 <= c.struct
      <4> HIDE DEF x, x1, x2, xk, xn, top, p, R
      <4> QED BY <1>8, <2>2, <2>3
    <3>3. SameBytes(b, b.rsv + (j + 1) * RsvSize, c, c.rsv + j * RsvSize, TAGSIZE) BY <3>1
    <3>4. b.rsv + (j + 1 + 1) * RsvSize <= b.struct /\ c.rsv + (j + 1) * RsvSize <= c.struct BY <3>2
    <3>5. j \in Nat /\ j + 1 \in Nat OBVIOUS
    <3> HIDE DEF x, x1, x2, xk, xn, top, p, R
    <3>6. RsvAt(c, j) = RsvAt(b, j + 1) BY <1>1, <1>14, <3>3, <3>4, <3>5, SameRsv
    <3> QED BY <2>6, <3>6
  <2> QED BY <2>5, <2>6
<1>16. RsvEnds(c, n - 1)
  <2>1. c.rsv + ((n - 1) + 1) * RsvSize <= c.struct
    <3>1. (n - 1) + 1 = n BY <1>6
    <3> DEFINE xn == n * R
               top == (n + 1) * R
    <3>2. xn \in Nat /\ top = xn + R /\ R \in Nat /\ b.rsv + top <= b.struct /\ c.rsv = b.rsv
          /\ c.struct = b.struct + (0 - R)
        BY <1>7, <1>9, <1>14
    <3>3. c.rsv + xn <= c.struct
      <4> HIDE DEF xn, top, R
      <4> QED BY <1>8, <3>2
    <3> QED BY <3>1, <3>3
  <2>2. RsvAt(c, n - 1) = 0
    <3>1. n - 1 \in 0 .. n - 1 /\ ~(n - 1 < k - 1) /\ (n - 1) + 1 = n BY <1>6
    <3> QED BY <1>9, <1>15, <3>1
  <2>3. ASSUME NEW j \in 0 .. (n - 1) - 1 PROVE RsvAt(c, j) # 0
    <3>1. j \in 0 .. n - 1 /\ j + 1 \in 0 .. n - 1 BY <1>6
    <3> QED BY <1>9, <1>15, <3>1
  <2> QED BY <2>1, <2>2, <2>3 DEF RsvEnds
<1>17. Marks(c, M) BY <1>1, <1>3, <1>14, MarksMoved
<1>18. Good(c) BY <1>6, <1>14, <1>16, <1>17 DEF Good
<1> QED BY <1>5, <1>13, <1>18, OkIs DEF Fine

(* A write in front of the structure.                                      *)
FrontWritten(b, at, n, bytes, c) == bytes \in [1 .. n -> Byte] /\ c = Write(b, at, bytes)

(* It changes neither structure nor strings.                               *)
LEMMA WriteFrontIs ==
    ASSUME NEW b, Layout(b), NEW at \in Nat, NEW n \in Nat, at + n <= b.struct,
           NEW bytes, NEW c, FrontWritten(b, at, n, bytes, c)
    PROVE  /\ Layout(c) /\ SameStruct(b, c) /\ MoreStrings(b, c)
           /\ c.rsv = b.rsv /\ c.struct = b.struct
           /\ \A x \in 0 .. b.struct - 1 :
                 At(c, x) = IF at <= x /\ x < at + n THEN bytes[x - at + 1] ELSE At(b, x)
<1>1. /\ Whole(b) /\ b.rsv \in Nat /\ b.struct \in Nat /\ b.nstruct \in Nat
      /\ b.strings \in Nat /\ b.nstrings \in Nat /\ b.total \in Nat
      /\ b.rsv <= b.struct /\ b.struct + b.nstruct <= b.strings
      /\ DataSize(b) = b.strings + b.nstrings /\ b.strings + b.nstrings <= b.total
    BY LayoutIs, Fields
<1>2. /\ Whole(c)
      /\ c.rsv = b.rsv /\ c.struct = b.struct /\ c.nstruct = b.nstruct
      /\ c.strings = b.strings /\ c.nstrings = b.nstrings /\ c.total = b.total
      /\ \A z \in 0 .. b.total - 1 :
            At(c, z) = IF at <= z /\ z < at + n THEN bytes[z - at + 1] ELSE At(b, z)
  <2>1. bytes \in [1 .. n -> Byte] /\ c = Write(b, at, bytes) BY DEF FrontWritten
  <2> DEFINE d == Write(b, at, bytes)
  <2>2. at + n <= b.total BY <1>1
  <2>3. c = d BY <2>1
  <2>4. /\ Whole(d)
        /\ d.rsv = b.rsv /\ d.struct = b.struct /\ d.nstruct = b.nstruct
        /\ d.strings = b.strings /\ d.nstrings = b.nstrings /\ d.total = b.total
        /\ \A z \in 0 .. b.total - 1 :
              At(d, z) = IF at <= z /\ z < at + n THEN bytes[z - at + 1] ELSE At(b, z)
    <3>1. Whole(b) BY <1>1
    <3>2. bytes \in [1 .. n -> Byte] BY <2>1
    <3> QED BY <2>2, <3>1, <3>2, WriteIs
  <2> HIDE DEF d
  <2> QED BY <2>3, <2>4
<1>3. Layout(c) BY <1>1, <1>2 DEF Layout, Whole, DataSize
<1>4. SameStruct(b, c)
  <2>1. \A z \in 0 .. b.nstruct - 1 :
            b.struct + z \in 0 .. b.total - 1 /\ ~(b.struct + z < at + n)
      BY <1>1
  <2> QED BY <1>2, <2>1 DEF SameStruct, StructAt
<1>5. MoreStrings(b, c)
  <2>1. \A z \in 0 .. b.nstrings - 1 :
            b.strings + z \in 0 .. b.total - 1 /\ ~(b.strings + z < at + n)
      BY <1>1
  <2> QED BY <1>1, <1>2, <2>1 DEF MoreStrings, StringsAt
<1>6. \A x \in 0 .. b.struct - 1 : x \in 0 .. b.total - 1 BY <1>1
<1> QED BY <1>2, <1>3, <1>4, <1>5, <1>6

(* fdt_add_mem_rsv.                                                        *)
RsvBytes(size) == Word(size) \o Word(size) \o Word(size) \o Word(size)

Joined(m, n, s, u, l, v) ==
    /\ m \in Nat /\ n \in Nat /\ s \in [1 .. m -> Byte] /\ u \in [1 .. n -> Byte]
    /\ l = m + n /\ v = s \o u

(* The first of two parts put together.                                    *)
LEMMA JoinFront ==
    ASSUME NEW m, NEW n, NEW s, NEW u, NEW l, NEW v, Joined(m, n, s, u, l, v)
    PROVE  v \in [1 .. l -> Byte] /\ \A x \in 1 .. m : v[x] = s[x]
<1>1. m \in Nat /\ n \in Nat /\ s \in [1 .. m -> Byte] /\ u \in [1 .. n -> Byte] /\ l = m + n /\ v = s \o u
    BY DEF Joined
<1>2. /\ s \o u \in [1 .. l -> Byte]
      /\ \A x \in 1 .. m : (s \o u)[x] = s[x]
      /\ \A x \in 1 .. n : (s \o u)[m + x] = u[x]
    BY <1>1, JoinBytes
<1> QED BY <1>1, <1>2

(* The bytes of a reserved region.                                         *)
LEMMA RsvBytesIs ==
    ASSUME NEW size \in Nat
    PROVE  /\ RsvBytes(size) \in [1 .. RsvSize -> Byte]
           /\ \A k \in 1 .. TAGSIZE : RsvBytes(size)[k] = <<size, k>>
<1> DEFINE t == TAGSIZE
           w == Word(size)
<1>1. t \in Nat /\ t >= 1 BY Constants
<1>2. w \in [1 .. t -> Byte] /\ \A k \in 1 .. t : w[k] = <<size, k>> BY WordIs
<1>3. RsvSize = 4 * t BY DEF RsvSize
<1>4. RsvBytes(size) = ((w \o w) \o w) \o w BY DEF RsvBytes
<1> HIDE DEF t, w
<1>0. PICK l2 : l2 = t + t OBVIOUS
<1>a. PICK l3 : l3 = l2 + t OBVIOUS
<1>b. PICK l4 : l4 = l3 + t OBVIOUS
<1>c. t \in Nat /\ l2 \in Nat /\ l3 \in Nat /\ t <= l2 /\ l2 <= l3 /\ l4 = 4 * t BY <1>0, <1>1, <1>a, <1>b
<1>d. w \in [1 .. t -> Byte] BY <1>2
<1>e. PICK w2 : w2 = w \o w OBVIOUS
<1>5. w2 \in [1 .. l2 -> Byte] /\ \A k \in 1 .. t : w2[k] = w[k]  <2>1. Joined(t, t, w, w, l2, w2) BY <1>0, <1>c, <1>d, <1>e DEF Joined
  <2> QED BY <2>1, JoinFront
<1>f. PICK w3 : w3 = w2 \o w OBVIOUS
<1>6. w3 \in [1 .. l3 -> Byte] /\ \A k \in 1 .. l2 : w3[k] = w2[k]  <2>1. Joined(l2, t, w2, w, l3, w3) BY <1>5, <1>a, <1>c, <1>d, <1>f DEF Joined
  <2> QED BY <2>1, JoinFront
<1>g. PICK w4 : w4 = w3 \o w OBVIOUS
<1>7. w4 \in [1 .. l4 -> Byte] /\ \A k \in 1 .. l3 : w4[k] = w3[k]  <2>1. Joined(l3, t, w3, w, l4, w4) BY <1>6, <1>b, <1>c, <1>d, <1>g DEF Joined
  <2> QED BY <2>1, JoinFront
<1>8. \A k \in 1 .. t : k \in 1 .. l2 /\ k \in 1 .. l3 BY <1>c
<1>9. \A k \in 1 .. t : w4[k] = <<size, k>> BY <1>2, <1>5, <1>6, <1>7, <1>8
<1>10. RsvBytes(size) = w4 BY <1>4, <1>e, <1>f, <1>g
<1> QED BY <1>3, <1>7, <1>9, <1>10, <1>c DEF t

(* The new region is put behind the others, before the end of the list.    *)
LEMMA AddRsvIs ==
    ASSUME NEW b, Layout(b), NEW n \in Nat, RsvEnds(b, n), NEW size \in Nat,
           NEW p, p = b.rsv + n * RsvSize, Fits(b, (1 - 0) * RsvSize)
    PROVE  \E c : /\ AddRsv(b, size) = Ok(c)
                  /\ Layout(c) /\ SameStruct(b, c) /\ MoreStrings(b, c)
                  /\ c.rsv = b.rsv /\ c.struct = b.struct + RsvSize
                  /\ \A x \in 0 .. p - 1 : At(c, x) = At(b, x)
                  /\ \A k \in 1 .. TAGSIZE : At(c, p + k - 1) = <<size, k>>
                  /\ \A x \in p .. b.struct - 1 : At(c, x + RsvSize) = At(b, x)
                  /\ p \in Nat /\ p + RsvSize <= b.struct /\ b.rsv <= p
<1> DEFINE R == RsvSize
           s == SpliceMemRsv(b, p, 0, 1)
           e == s.blob
           c == Write(e, p, RsvBytes(size))
<1>1. /\ b.rsv \in Nat /\ b.struct \in Nat /\ b.strings \in Nat /\ b.nstrings \in Nat /\ b.total \in Nat
      /\ b.struct + b.nstruct <= b.strings /\ b.nstruct \in Nat
    BY LayoutIs, Fields
<1>2. R \in Nat /\ R >= TAGSIZE /\ n * R \in Nat /\ (n + 1) * R = n * R + R /\ TAGSIZE \in Nat
    BY RsvMultiples, Constants
<1>3. p \in Nat /\ b.rsv <= p /\ p + R <= b.struct
  <2> DEFINE x == n * R
             z == (n + 1) * R
  <2>1. x \in Nat /\ z = x + R /\ b.rsv + z <= b.struct /\ p = b.rsv + x BY <1>2 DEF RsvEnds
  <2> HIDE DEF x, z, R
  <2> QED BY <1>1, <1>2, <2>1
<1>4. NumMemRsv(b) = n BY NumMemRsvIs
<1>5. AddRsv(b, size) = IF s.err # "ok" THEN s ELSE Ok(c)
    BY <1>4 DEF AddRsv, RsvBytes
<1>6. s = Ok(e) /\ FrontSpliced(b, p, 0, R, e)
  <2>1. PICK o, w : o = 0 * RsvSize /\ w = 1 * RsvSize /\ o = 0 /\ w = R BY <1>2
  <2>2. 0 \in Nat /\ 1 \in Nat OBVIOUS
  <2>3. p + o <= b.struct BY <1>1, <1>2, <1>3, <2>1
  <2>4. e = SpliceMemRsv(b, p, 0, 1).blob OBVIOUS
  <2> HIDE DEF s, c, R, e
  <2>5. SpliceMemRsv(b, p, 0, 1) = Ok(e) /\ FrontSpliced(b, p, o, w, e)
      BY <1>3, <2>1, <2>2, <2>3, <2>4, SpliceRsvIs
  <2> QED BY <2>1, <2>5 DEF s
<1>7. AddRsv(b, size) = Ok(c)
  <2> HIDE DEF s, e, c
  <2> QED BY <1>5, <1>6, OkIs
<1>8. b.strings + b.nstrings + (R - 0) <= b.total
  <2>1. (1 - 0) * R = R /\ R \in Int BY <1>2
  <2>2. Whole(b) BY LayoutIs
  <2>3. Fits(b, R) BY <2>1
  <2> HIDE DEF R
  <2>4. b.strings + b.nstrings + R <= b.total BY <1>2, <2>2, <2>3, FitsIs
  <2> QED BY <1>2, <2>4
<1> HIDE DEF s, e
<1>9. /\ Layout(e) /\ SameStruct(b, e) /\ MoreStrings(b, e)
      /\ e.rsv = b.rsv /\ e.struct = b.struct + (R - 0)
      /\ \A x \in 0 .. p - 1 : At(e, x) = At(b, x)
      /\ \A x \in p + 0 .. b.struct - 1 : At(e, x + (R - 0)) = At(b, x)
  <2> HIDE DEF R
  <2>1. 0 \in Nat /\ p + 0 <= b.struct BY <1>1, <1>2, <1>3
  <2> QED BY <1>2, <1>3, <1>6, <1>8, <2>1, FrontSplicedIs
<1>10. R - 0 = R /\ p + 0 = p /\ e.struct = b.struct + R BY <1>2, <1>3, <1>9
<1>11. /\ Layout(c) /\ SameStruct(e, c) /\ MoreStrings(e, c)
       /\ c.rsv = e.rsv /\ c.struct = e.struct
       /\ \A x \in 0 .. e.struct - 1 :
             At(c, x) = IF p <= x /\ x < p + R THEN RsvBytes(size)[x - p + 1] ELSE At(e, x)
  <2>1. RsvBytes(size) \in [1 .. R -> Byte] BY RsvBytesIs
  <2>2. PICK bytes : bytes = RsvBytes(size) OBVIOUS
  <2>3. FrontWritten(e, p, R, bytes, c) BY <2>1, <2>2 DEF FrontWritten
  <2>4. p + R <= e.struct BY <1>1, <1>2, <1>3, <1>10
  <2> HIDE DEF c, R
  <2> QED BY <1>2, <1>3, <1>9, <2>2, <2>3, <2>4, WriteFrontIs
<1> HIDE DEF c
<1>12. SameStruct(b, c) BY <1>9, <1>11 DEF SameStruct
<1>13. MoreStrings(b, c)
  <2>1. b.nstrings \in Nat /\ e.nstrings \in Nat /\ c.nstrings \in Nat
      BY <1>9, <1>11, LayoutIs, Fields
  <2>2. \A x \in 0 .. b.nstrings - 1 : x \in 0 .. e.nstrings - 1 BY <1>9, <2>1 DEF MoreStrings
  <2> QED BY <1>9, <1>11, <2>1, <2>2 DEF MoreStrings
<1>14. ASSUME NEW x \in 0 .. p - 1 PROVE At(c, x) = At(b, x)
  <2> HIDE DEF R
  <2>1. x \in 0 .. e.struct - 1 /\ ~(p <= x) BY <1>1, <1>2, <1>3, <1>10
  <2> QED BY <1>9, <1>11, <2>1
<1>15. ASSUME NEW k \in 1 .. TAGSIZE PROVE At(c, p + k - 1) = <<size, k>>
  <2> DEFINE x == p + k - 1
  <2> HIDE DEF R
  <2>1. x \in 0 .. e.struct - 1 /\ p <= x /\ x < p + R /\ x - p + 1 = k BY <1>1, <1>2, <1>3, <1>10
  <2> HIDE DEF x
  <2>2. At(c, x) = RsvBytes(size)[k] BY <1>11, <2>1
  <2> QED BY <2>2, RsvBytesIs DEF x
<1>16. ASSUME NEW x \in p .. b.struct - 1 PROVE At(c, x + R) = At(b, x)
  <2> HIDE DEF R
  <2>1. x + R \in 0 .. e.struct - 1 /\ ~(x + R < p + R) BY <1>1, <1>2, <1>3, <1>10
  <2>2. At(c, x + R) = At(e, x + R) BY <1>11, <2>1
  <2> QED BY <1>9, <1>10, <2>2
<1> QED BY <1>3, <1>7, <1>9, <1>10, <1>11, <1>12, <1>13, <1>14, <1>15, <1>16

(* fdt_add_mem_rsv, with a size of 0 too.                                  *)
LEMMA GoodAddRsv ==
    ASSUME NEW b, Good(b), NEW size \in Nat
    PROVE  Fine(AddRsv(b, size))
<1>1. Layout(b) BY DEF Good
<1>2. PICK n \in Nat : RsvEnds(b, n) BY DEF Good
<1>3. PICK M : Marks(b, M) BY DEF Good
<1> DEFINE R == RsvSize
<1>4. PICK p : p = b.rsv + n * RsvSize OBVIOUS
<1>5. CASE ~Fits(b, (1 - 0) * RsvSize)
  <2>1. SpliceMemRsv(b, p, 0, 1) = Error(b, "nospace") BY <1>5 DEF SpliceMemRsv
  <2>2. NumMemRsv(b) = n BY <1>1, <1>2, NumMemRsvIs
  <2>3. "nospace" \in Answers /\ "nospace" # "ok" BY DEF Answers
  <2>4. AddRsv(b, size) = Error(b, "nospace") BY <1>4, <2>1, <2>2, <2>3, ErrorIs DEF AddRsv
  <2> QED BY <2>3, <2>4, ErrorIs DEF Fine
<1>6. CASE Fits(b, (1 - 0) * RsvSize)
  <2>1. PICK c :
           /\ AddRsv(b, size) = Ok(c)
           /\ Layout(c) /\ SameStruct(b, c) /\ MoreStrings(b, c)
           /\ c.rsv = b.rsv /\ c.struct = b.struct + RsvSize
           /\ \A x \in 0 .. p - 1 : At(c, x) = At(b, x)
           /\ \A k \in 1 .. TAGSIZE : At(c, p + k - 1) = <<size, k>>
           /\ \A x \in p .. b.struct - 1 : At(c, x + RsvSize) = At(b, x)
           /\ p \in Nat /\ p + RsvSize <= b.struct /\ b.rsv <= p
      BY <1>1, <1>2, <1>4, <1>6, AddRsvIs
  <2>2. Marks(c, M) BY <1>1, <1>3, <2>1, MarksMoved
  <2>3. /\ R \in Nat /\ R >= TAGSIZE /\ n * R \in Nat /\ (n + 1) * R = n * R + R
        /\ ((n + 1) + 1) * R = (n * R + R) + R /\ TAGSIZE \in Nat
    <3>1. n + 1 \in Nat OBVIOUS
    <3> QED BY <3>1, RsvMultiples, Constants
  <2>4. /\ b.rsv + (n + 1) * R <= b.struct /\ RsvAt(b, n) = 0
        /\ \A j \in 0 .. n - 1 : RsvAt(b, j) # 0
      BY <1>2 DEF RsvEnds
  <2> DEFINE x == n * R
             x1 == (n + 1) * R
             x2 == ((n + 1) + 1) * R
  <2>5. /\ x \in Nat /\ x1 = x + R /\ x2 = (x + R) + R /\ R \in Nat /\ R >= TAGSIZE /\ TAGSIZE \in Nat
        /\ b.rsv + x1 <= b.struct /\ p = b.rsv + x /\ c.rsv = b.rsv /\ c.struct = b.struct + R
      BY <1>4, <2>1, <2>3, <2>4
  <2>6. b.rsv \in Nat /\ b.struct \in Nat BY <1>1, LayoutIs, Fields
  <2>7. /\ \A z \in 0 .. p - 1 : At(c, z) = At(b, z)
        /\ \A z \in p .. b.struct - 1 : At(c, z + R) = At(b, z)
      BY <2>1
  <2>8. ASSUME NEW j \in 0 .. n - 1 PROVE RsvAt(c, j) # 0
    <3> DEFINE y == j * R
               y1 == (j + 1) * R
    <3>1. y \in Nat /\ y1 = y + R /\ y1 <= x
      <4>1. j \in Nat /\ j + 1 \in Nat /\ j + 1 <= n OBVIOUS
      <4> QED BY <4>1, RsvMultiples
    <3>2. SameBytes(b, b.rsv + y, c, c.rsv + y, TAGSIZE)
      <4> HIDE DEF x, x1, x2, y, y1, R
      <4> SUFFICES ASSUME NEW z \in 0 .. TAGSIZE - 1
                   PROVE At(c, (c.rsv + y) + z) = At(b, (b.rsv + y) + z)
          BY DEF SameBytes
      <4>1. (b.rsv + y) + z \in 0 .. p - 1 BY <2>5, <2>6, <3>1
      <4> QED BY <2>5, <2>7, <4>1
    <3>3. b.rsv + y1 <= b.struct /\ c.rsv + y1 <= c.struct
      <4> HIDE DEF x, x1, x2, y, y1, R
      <4> QED BY <2>5, <2>6, <3>1
    <3>4. SameBytes(b, b.rsv + j * RsvSize, c, c.rsv + j * RsvSize, TAGSIZE) BY <3>2
    <3>5. b.rsv + (j + 1) * RsvSize <= b.struct /\ c.rsv + (j + 1) * RsvSize <= c.struct BY <3>3
    <3>6. j \in Nat OBVIOUS
    <3> HIDE DEF x, x1, x2, y, y1, R
    <3>7. RsvAt(c, j) = RsvAt(b, j) BY <1>1, <2>1, <3>4, <3>5, <3>6, SameRsv
    <3> QED BY <2>4, <3>7
  <2>9. RsvAt(c, n + 1) = 0
    <3>1. SameBytes(b, b.rsv + x, c, c.rsv + x1, TAGSIZE)
      <4> HIDE DEF x, x1, x2, R
      <4> SUFFICES ASSUME NEW z \in 0 .. TAGSIZE - 1
                   PROVE At(c, (c.rsv + x1) + z) = At(b, (b.rsv + x) + z)
          BY DEF SameBytes
      <4>1. (b.rsv + x) + z \in p .. b.struct - 1 /\ ((b.rsv + x) + z) + R = (c.rsv + x1) + z BY <2>5, <2>6
      <4> QED BY <2>7, <4>1
    <3>2. b.rsv + x1 <= b.struct /\ c.rsv + x2 <= c.struct
      <4> HIDE DEF x, x1, x2, R
      <4> QED BY <2>5, <2>6
    <3>3. SameBytes(b, b.rsv + n * RsvSize, c, c.rsv + (n + 1) * RsvSize, TAGSIZE) BY <3>1
    <3>4. b.rsv + (n + 1) * RsvSize <= b.struct /\ c.rsv + ((n + 1) + 1) * RsvSize <= c.struct BY <3>2
    <3>5. n + 1 \in Nat OBVIOUS
    <3> HIDE DEF x, x1, x2, R
    <3>6. RsvAt(c, n + 1) = RsvAt(b, n) BY <1>1, <2>1, <3>3, <3>4, <3>5, SameRsv
    <3> QED BY <2>4, <3>6
  <2>10. RsvAt(c, n) = size
    <3>1. c.rsv + n * RsvSize = p BY <1>4, <2>1
    <3>2. IsWord(c, p, size) BY <2>1 DEF IsWord
    <3>3. Whole(c) /\ c.total \in Nat /\ c.struct <= c.total
      <4>1. Whole(c) /\ c.struct \in Nat /\ c.nstruct \in Nat /\ c.strings \in Nat /\ c.nstrings \in Nat
            /\ c.struct + c.nstruct <= c.strings /\ c.strings + c.nstrings <= c.total /\ c.total \in Nat
          BY <2>1, LayoutIs, Fields
      <4> QED BY <4>1
    <3>4. p \in Nat /\ p + TAGSIZE <= c.total
      <4>1. p \in Nat /\ p + R <= b.struct /\ c.struct = b.struct + R BY <2>1
      <4> HIDE DEF x, x1, x2, R
      <4> QED BY <2>5, <2>6, <3>3, <4>1
    <3>5. WordAt(c, p) = size BY <3>2, <3>3, <3>4, WordAtIs
    <3> QED BY <3>1, <3>5 DEF RsvAt
  <2>11. c.rsv + (n + 1) * RsvSize <= c.struct /\ c.rsv + ((n + 1) + 1) * RsvSize <= c.struct
    <3>1. c.rsv + x1 <= c.struct /\ c.rsv + x2 <= c.struct
      <4> HIDE DEF x, x1, x2, R
      <4> QED BY <2>5, <2>6
    <3> QED BY <3>1
  <2>12. \E k \in Nat : RsvEnds(c, k)
    <3>1. CASE size = 0
      <4>1. RsvEnds(c, n) BY <2>8, <2>10, <2>11, <3>1 DEF RsvEnds
      <4> QED BY <4>1
    <3>2. CASE size # 0
      <4>1. \A j \in 0 .. (n + 1) - 1 : j \in 0 .. n - 1 \/ j = n OBVIOUS
      <4>2. RsvEnds(c, n + 1) BY <2>8, <2>9, <2>10, <2>11, <3>2, <4>1 DEF RsvEnds
      <4>3. n + 1 \in Nat OBVIOUS
      <4> QED BY <4>2, <4>3
    <3> QED BY <3>1, <3>2
  <2>13. Good(c) BY <2>1, <2>2, <2>12 DEF Good
  <2> QED BY <2>1, <2>13, OkIs DEF Fine
<1> QED BY <1>5, <1>6

(* The three blocks moved down, in their order.                            *)
Packed(mem, rsv, w, struct, l, strings, k) ==
    memmove(memmove(memmove(mem, 0, rsv, w), w, struct, l), w + l, strings, k)

InOrder(mem, rsv, w, struct, l, strings, k) ==
    /\ mem \in Seq(Byte) /\ rsv \in Nat /\ w \in Nat /\ struct \in Nat /\ l \in Nat
    /\ strings \in Nat /\ k \in Nat
    /\ rsv + w <= struct /\ struct + l <= strings /\ strings + k <= Len(mem)
IsPacked(mem, rsv, w, struct, l, strings, k, m) ==
    /\ m \in Seq(Byte) /\ Len(m) = Len(mem)
    /\ \A x \in 1 .. w : m[x] = mem[rsv + x]
    /\ \A x \in 1 .. l : m[w + x] = mem[struct + x]
    /\ \A x \in 1 .. k : m[w + l + x] = mem[strings + x]

(* Moved down in this order none of them runs into the next.               *)
LEMMA PackedIs ==
    ASSUME NEW mem, NEW rsv, NEW w, NEW struct, NEW l, NEW strings, NEW k,
           InOrder(mem, rsv, w, struct, l, strings, k)
    PROVE  IsPacked(mem, rsv, w, struct, l, strings, k, Packed(mem, rsv, w, struct, l, strings, k))
<1> SUFFICES ASSUME mem \in Seq(Byte), rsv \in Nat, w \in Nat, struct \in Nat, l \in Nat,
                    strings \in Nat, k \in Nat,
                    rsv + w <= struct, struct + l <= strings, strings + k <= Len(mem),
                    NEW m, m = Packed(mem, rsv, w, struct, l, strings, k)
             PROVE  IsPacked(mem, rsv, w, struct, l, strings, k, m)
    BY DEF InOrder
<1> DEFINE a == memmove(mem, 0, rsv, w)
           b == memmove(a, w, struct, l)
           c == memmove(b, w + l, strings, k)
           last == Len(mem)
<1>0. m = c BY DEF Packed
<1>1. last \in Nat BY LenProperties
<1>2. /\ a \in Seq(Byte) /\ Len(a) = last
      /\ \A x \in 1 .. last :
            a[x] = IF x <= 0 THEN mem[x] ELSE IF x <= 0 + w THEN mem[rsv + (x - 0)] ELSE mem[x]
  <2>1. 0 \in Nat /\ 0 + w <= Len(mem) /\ rsv + w <= Len(mem) BY <1>1
  <2> QED BY <2>1, MemmoveIs
<1> HIDE DEF a
<1>3. /\ b \in Seq(Byte) /\ Len(b) = last
      /\ \A x \in 1 .. last :
            b[x] = IF x <= w THEN a[x] ELSE IF x <= w + l THEN a[struct + (x - w)] ELSE a[x]
  <2>1. w + l <= Len(a) /\ struct + l <= Len(a) BY <1>1, <1>2
  <2>2. a \in Seq(Byte) BY <1>2
  <2>3. /\ b \in Seq(Byte) /\ Len(b) = Len(a)
        /\ \A x \in 1 .. Len(a) :
              b[x] = IF x <= w THEN a[x] ELSE IF x <= w + l THEN a[struct + (x - w)] ELSE a[x]
      BY <2>1, <2>2, MemmoveIs
  <2> HIDE DEF b
  <2> QED BY <1>2, <2>3
<1> HIDE DEF b
<1>4. /\ c \in Seq(Byte) /\ Len(c) = last
      /\ \A x \in 1 .. last :
            c[x] = IF x <= w + l THEN b[x]
                   ELSE IF x <= (w + l) + k THEN b[strings + (x - (w + l))] ELSE b[x]
  <2> DEFINE u == w + l
  <2>1. u \in Nat /\ u + k <= Len(b) /\ strings + k <= Len(b) BY <1>1, <1>3
  <2>2. b \in Seq(Byte) BY <1>3
  <2>3. /\ c \in Seq(Byte) /\ Len(c) = Len(b)
        /\ \A x \in 1 .. Len(b) :
              c[x] = IF x <= u THEN b[x] ELSE IF x <= u + k THEN b[strings + (x - u)] ELSE b[x]
    <3>1. c = memmove(b, u, strings, k) OBVIOUS
    <3> HIDE DEF u, c
    <3> QED BY <2>1, <2>2, <3>1, MemmoveIs
  <2> HIDE DEF c
  <2> QED BY <1>3, <2>3
<1> HIDE DEF c, last
<1>5. last = Len(mem) /\ strings + k <= last BY DEF last
<1>6. ASSUME NEW x \in 1 .. w PROVE c[x] = mem[rsv + x]
  <2>1. x \in 1 .. last /\ ~(x <= 0) /\ x <= 0 + w /\ x <= w /\ x <= w + l /\ x - 0 = x BY <1>1, <1>5
  <2> QED BY <1>2, <1>3, <1>4, <2>1
<1>7. ASSUME NEW x \in 1 .. l PROVE c[w + x] = mem[struct + x]
  <2>1. /\ w + x \in 1 .. last /\ ~(w + x <= w) /\ w + x <= w + l /\ (w + x) - w = x
        /\ struct + x \in 1 .. last /\ ~(struct + x <= 0 + w) /\ ~(struct + x <= 0)
      BY <1>1, <1>5
  <2>2. c[w + x] = b[w + x] BY <1>4, <2>1
  <2>3. b[w + x] = a[struct + x] BY <1>3, <2>1
  <2>4. a[struct + x] = mem[struct + x] BY <1>2, <2>1
  <2> QED BY <2>2, <2>3, <2>4
<1>8. ASSUME NEW x \in 1 .. k PROVE c[w + l + x] = mem[strings + x]
  <2>1. /\ w + l + x \in 1 .. last /\ ~(w + l + x <= w + l) /\ w + l + x <= (w + l) + k
        /\ (w + l + x) - (w + l) = x
        /\ strings + x \in 1 .. last /\ ~(strings + x <= 0 + w) /\ ~(strings + x <= 0)
        /\ ~(strings + x <= w) /\ ~(strings + x <= w + l)
      BY <1>1, <1>5
  <2>2. c[w + l + x] = b[strings + x] BY <1>4, <2>1
  <2>3. b[strings + x] = a[strings + x] BY <1>3, <2>1
  <2>4. a[strings + x] = mem[strings + x] BY <1>2, <2>1
  <2> QED BY <2>2, <2>3, <2>4
<1> QED BY <1>0, <1>4, <1>5, <1>6, <1>7, <1>8 DEF IsPacked

(* The first n of a sequence.                                              *)
LEMMA FrontIs ==
    ASSUME NEW S, NEW s \in Seq(S), NEW n \in Nat, n <= Len(s), NEW u, u = SubSeq(s, 1, n)
    PROVE  u \in Seq(S) /\ Len(u) = n /\ \A x \in 1 .. n : u[x] = s[x]
<1>1. Len(s) \in Nat BY LenProperties
<1>2. \A x \in 1 .. n : s[x] \in S
  <2>1. \A x \in 1 .. n : x \in 1 .. Len(s) BY <1>1
  <2> QED BY <2>1, ElementOfSeq
<1>3. /\ u \in Seq(S) /\ Len(u) = (IF 1 <= n THEN n - 1 + 1 ELSE 0)
      /\ \A x \in 1 .. n - 1 + 1 : u[x] = s[1 + x - 1]
    BY <1>2, SubSeqProperties
<1>4. Len(u) = n BY <1>3
<1>5. ASSUME NEW x \in 1 .. n PROVE u[x] = s[x]
  <2>1. x \in 1 .. n - 1 + 1 /\ 1 + x - 1 = x OBVIOUS
  <2> QED BY <1>3, <2>1
<1> QED BY <1>3, <1>4, <1>5

(* fdt_pack.                                                               *)
PacksTo(b, w, m, c) ==
    c = [b EXCEPT !.mem = m, !.rsv = 0, !.struct = w, !.strings = w + b.nstruct,
                  !.total = w + b.nstruct + b.nstrings]

(* fdt_pack changes no data.                                               *)
LEMMA PackIs ==
    ASSUME NEW b, Layout(b), NEW n \in Nat, RsvEnds(b, n), NEW c, c = Pack(b)
    PROVE  Layout(c) /\ SameStruct(b, c) /\ MoreStrings(b, c) /\ RsvEnds(c, n)
<1> DEFINE w == (n + 1) * RsvSize
           full == Packed(b.mem, b.rsv, w, b.struct, b.nstruct, b.strings, b.nstrings)
           size == w + b.nstruct + b.nstrings
           m == SubSeq(full, 1, size)
<1>0. Whole(b) /\ b.mem \in Seq(Byte) /\ Len(b.mem) = b.total BY LayoutIs, Fields
<1>1. /\ b.rsv \in Nat /\ b.struct \in Nat /\ b.nstruct \in Nat
      /\ b.strings \in Nat /\ b.nstrings \in Nat /\ b.total \in Nat
      /\ b.rsv <= b.struct /\ b.struct + b.nstruct <= b.strings
      /\ DataSize(b) = b.strings + b.nstrings /\ b.strings + b.nstrings <= b.total
    BY LayoutIs, Fields
<1>2. w \in Nat /\ b.rsv + w <= b.struct BY RsvMultiples DEF RsvEnds
<1>3. NumMemRsv(b) = n BY NumMemRsvIs
<1>4. PacksTo(b, w, m, c) BY <1>3 DEF Pack, PacksTo, Packed
<1>5. w = (n + 1) * RsvSize OBVIOUS
<1> HIDE DEF w
<1>6. /\ full \in Seq(Byte) /\ Len(full) = b.total
      /\ \A x \in 1 .. w : full[x] = b.mem[b.rsv + x]
      /\ \A x \in 1 .. b.nstruct : full[w + x] = b.mem[b.struct + x]
      /\ \A x \in 1 .. b.nstrings : full[w + b.nstruct + x] = b.mem[b.strings + x]
  <2> DEFINE mem == b.mem
             q1 == b.rsv
             q2 == b.struct
             q3 == b.nstruct
             q4 == b.strings
             q5 == b.nstrings
  <2>1. /\ mem \in Seq(Byte) /\ q1 \in Nat /\ q2 \in Nat /\ q3 \in Nat /\ q4 \in Nat /\ q5 \in Nat
        /\ q1 + w <= q2 /\ q2 + q3 <= q4 /\ q4 + q5 <= Len(mem) /\ w \in Nat
      BY <1>0, <1>1, <1>2
  <2>2. full = Packed(mem, q1, w, q2, q3, q4, q5) OBVIOUS
  <2> HIDE DEF mem, q1, q2, q3, q4, q5, full
  <2>3. /\ full \in Seq(Byte) /\ Len(full) = Len(mem)
        /\ \A x \in 1 .. w : full[x] = mem[q1 + x]
        /\ \A x \in 1 .. q3 : full[w + x] = mem[q2 + x]
        /\ \A x \in 1 .. q5 : full[w + q3 + x] = mem[q4 + x]
    <3>1. InOrder(mem, q1, w, q2, q3, q4, q5) BY <2>1 DEF InOrder
    <3>2. IsPacked(mem, q1, w, q2, q3, q4, q5, full) BY <2>2, <3>1, PackedIs
    <3> QED BY <3>2 DEF IsPacked
  <2> QED BY <1>0, <2>3 DEF mem, q1, q2, q3, q4, q5
<1> HIDE DEF full
<1>7. size \in Nat /\ size <= b.total BY <1>1, <1>2
<1> HIDE DEF size
<1>8. m \in Seq(Byte) /\ Len(m) = size /\ \A x \in 1 .. size : m[x] = full[x]
  <2>1. size <= Len(full) /\ full \in Seq(Byte) BY <1>6, <1>7
  <2>2. PICK u : u = m OBVIOUS
  <2>3. u = SubSeq(full, 1, size) BY <2>2
  <2> HIDE DEF m
  <2>4. u \in Seq(Byte) /\ Len(u) = size /\ \A x \in 1 .. size : u[x] = full[x]
      BY <1>7, <2>1, <2>3, FrontIs
  <2> QED BY <2>2, <2>4
<1> HIDE DEF m
<1>9. /\ c \in BlobType /\ c.mem = m
      /\ c.rsv = 0 /\ c.struct = w /\ c.nstruct = b.nstruct
      /\ c.strings = w + b.nstruct /\ c.nstrings = b.nstrings /\ c.total = size
  <2>1. w + b.nstruct \in Nat /\ 0 \in Nat BY <1>1, <1>2
  <2>2. c = [b EXCEPT !.mem = m, !.rsv = 0, !.struct = w, !.strings = w + b.nstruct, !.total = size]
      BY <1>4 DEF PacksTo, size
  <2> QED BY <1>0, <1>1, <1>2, <1>7, <1>8, <2>1, <2>2 DEF Whole, BlobType
<1>10. size = w + b.nstruct + b.nstrings BY DEF size
<1>11. Layout(c)
  <2>1. 0 <= w /\ c.struct + c.nstruct <= c.strings /\ DataSize(c) <= c.total
      BY <1>1, <1>2, <1>9, <1>10 DEF DataSize
  <2> QED BY <1>8, <1>9, <2>1 DEF Layout
<1>12. SameStruct(b, c)
  <2> SUFFICES ASSUME NEW z \in 0 .. b.nstruct - 1 PROVE StructAt(c, z) = StructAt(b, z)
      BY <1>9 DEF SameStruct
  <2>1. z + 1 \in 1 .. b.nstruct /\ w + (z + 1) = (w + z) + 1 /\ b.struct + (z + 1) = (b.struct + z) + 1
        /\ (w + z) + 1 \in 1 .. size
      BY <1>1, <1>2, <1>10
  <2> QED BY <1>6, <1>8, <1>9, <2>1 DEF StructAt, At
<1>13. MoreStrings(b, c)
  <2> SUFFICES ASSUME NEW z \in 0 .. b.nstrings - 1 PROVE StringsAt(c, z) = StringsAt(b, z)
      BY <1>1, <1>9 DEF MoreStrings
  <2>1. z + 1 \in 1 .. b.nstrings /\ w + b.nstruct + (z + 1) = ((w + b.nstruct) + z) + 1
        /\ b.strings + (z + 1) = (b.strings + z) + 1 /\ ((w + b.nstruct) + z) + 1 \in 1 .. size
    <3> DEFINE q3 == b.nstruct
               q4 == b.strings
               q5 == b.nstrings
    <3>1. q3 \in Nat /\ q4 \in Nat /\ q5 \in Nat /\ w \in Nat /\ size = w + q3 + q5 /\ z \in 0 .. q5 - 1
        BY <1>1, <1>2, <1>10
    <3> HIDE DEF q3, q4, q5
    <3>2. z + 1 \in 1 .. q5 /\ w + q3 + (z + 1) = ((w + q3) + z) + 1
          /\ q4 + (z + 1) = (q4 + z) + 1 /\ ((w + q3) + z) + 1 \in 1 .. size
        BY <3>1
    <3> QED BY <3>2 DEF q3, q4, q5
  <2> QED BY <1>6, <1>8, <1>9, <2>1 DEF StringsAt, At
<1>14. RsvEnds(c, n)
  <2>1. c.rsv + w <= c.struct BY <1>2, <1>9
  <2>2. ASSUME NEW x \in 0 .. w - 1 PROVE At(c, c.rsv + x) = At(b, b.rsv + x)
    <3>1. x + 1 \in 1 .. w /\ x + 1 \in 1 .. size /\ b.rsv + (x + 1) = (b.rsv + x) + 1 /\ c.rsv + x = x
        BY <1>1, <1>2, <1>9, <1>10
    <3> QED BY <1>6, <1>8, <1>9, <3>1 DEF At
  <2> QED BY <1>5, <1>11, <2>1, <2>2, RsvKept
<1> QED BY <1>11, <1>12, <1>13, <1>14

(* What fdtput writes can be read.                                         *)
LEMMA GoodPack ==
    ASSUME NEW b, Good(b)
    PROVE  Good(Pack(b))
<1>1. Layout(b) BY DEF Good
<1>2. PICK n \in Nat : RsvEnds(b, n) BY DEF Good
<1>3. PICK M : Marks(b, M) BY DEF Good
<1>4. PICK c : c = Pack(b) OBVIOUS
<1>5. Layout(c) /\ SameStruct(b, c) /\ MoreStrings(b, c) /\ RsvEnds(c, n) BY <1>1, <1>2, <1>4, PackIs
<1>6. Marks(c, M) BY <1>1, <1>3, <1>5, MarksMoved
<1> QED BY <1>4, <1>5, <1>6 DEF Good

(* Edits one after the other, and of less than is said.                    *)
LEMMA EditedTwice ==
    ASSUME NEW b, NEW s, NEW c, b.nstruct \in Nat,
           NEW x \in Nat, NEW y \in Nat, NEW d \in Int,
           Edited(b, s, x, y, d), Edited(s, c, x, y + d, 0)
    PROVE  Edited(b, c, x, y, d)
<1>1. /\ s.nstruct = b.nstruct + d
      /\ \A z \in 0 .. x - 1 : StructAt(s, z) = StructAt(b, z)
      /\ \A z \in y .. b.nstruct - 1 : StructAt(s, z + d) = StructAt(b, z)
    BY DEF Edited
<1>2. /\ c.nstruct = s.nstruct + 0
      /\ \A z \in 0 .. x - 1 : StructAt(c, z) = StructAt(s, z)
      /\ \A z \in y + d .. s.nstruct - 1 : StructAt(c, z + 0) = StructAt(s, z)
    BY DEF Edited
<1>3. c.nstruct = b.nstruct + d BY <1>1, <1>2
<1>4. ASSUME NEW z \in y .. b.nstruct - 1 PROVE StructAt(c, z + d) = StructAt(b, z)
  <2>1. z + d \in y + d .. s.nstruct - 1 /\ (z + d) + 0 = z + d BY <1>1
  <2> QED BY <1>1, <1>2, <2>1
<1> QED BY <1>1, <1>2, <1>3, <1>4 DEF Edited

(* An edit seen from further outside.                                      *)
LEMMA EditedLess ==
    ASSUME NEW b, NEW c, b.nstruct \in Nat,
           NEW x \in Nat, NEW y \in Nat, NEW d \in Int, Edited(b, c, x, y, d),
           NEW u \in Nat, NEW v \in Nat, u <= x, y <= v
    PROVE  Edited(b, c, u, v, d)
<1>1. \A z \in 0 .. u - 1 : z \in 0 .. x - 1 OBVIOUS
<1>2. \A z \in v .. b.nstruct - 1 : z \in y .. b.nstruct - 1 OBVIOUS
<1> QED BY <1>1, <1>2 DEF Edited

(* An edit, then one of the same place.                                    *)
LEMMA SameTwice ==
    ASSUME NEW b, NEW s, NEW c, Layout(b), Layout(s), Layout(c)
    PROVE  /\ SameFront(b, s) /\ SameFront(s, c) => SameFront(b, c)
           /\ MoreStrings(b, s) /\ MoreStrings(s, c) => MoreStrings(b, c)
           /\ SameStruct(b, s) /\ SameStruct(s, c) => SameStruct(b, c)
<1>1. b.nstrings \in Nat /\ s.nstrings \in Nat /\ c.nstrings \in Nat BY LayoutIs, Fields
<1>2. SameFront(b, s) /\ SameFront(s, c) => SameFront(b, c) BY DEF SameFront
<1>3. SameStruct(b, s) /\ SameStruct(s, c) => SameStruct(b, c) BY DEF SameStruct
<1>4. ASSUME MoreStrings(b, s), MoreStrings(s, c) PROVE MoreStrings(b, c)
  <2>1. c.nstrings >= b.nstrings /\ \A z \in 0 .. b.nstrings - 1 : z \in 0 .. s.nstrings - 1
      BY <1>1, <1>4 DEF MoreStrings
  <2> QED BY <1>4, <2>1 DEF MoreStrings
<1> QED BY <1>2, <1>3, <1>4

(* The structure makes room at x for new bytes instead of old, of which    *)
(* the first n are written.                                                *)
SpliceWritten(b, x, old, new, n, bytes, c) ==
    /\ n <= new
    /\ Written(SpliceStruct(b, b.struct + x, old, new).blob, x, n, bytes, c)

(* A splice, then a write into what it made.                               *)
LEMMA SpliceWrittenIs ==
    ASSUME NEW b, Layout(b), NEW x \in Nat, NEW old \in Nat, NEW new \in Nat,
           x + old <= b.nstruct, Fits(b, new - old), NEW n \in Nat,
           NEW bytes, NEW c, SpliceWritten(b, x, old, new, n, bytes, c)
    PROVE  /\ Layout(c) /\ SameFront(b, c) /\ c.total = b.total
           /\ c.nstrings = b.nstrings /\ MoreStrings(b, c) /\ c.struct = b.struct
           /\ Edited(b, c, x, x + old, new - old)
           /\ \A z \in 0 .. n - 1 : StructAt(c, x + z) = bytes[z + 1]
           /\ x + new <= c.nstruct
<1>1. PICK s : s = SpliceStruct(b, b.struct + x, old, new).blob OBVIOUS
<1>2. /\ Layout(s) /\ SameFront(b, s) /\ s.total = b.total
      /\ s.nstrings = b.nstrings /\ MoreStrings(b, s)
      /\ Edited(b, s, x, x + old, new - old)
    BY <1>1, SpliceStructIs
<1>3. n <= new /\ Written(s, x, n, bytes, c) BY <1>1 DEF SpliceWritten
<1>4. b.nstruct \in Nat /\ s.nstruct \in Nat /\ b.struct \in Nat BY <1>2, LayoutIs, Fields
<1>5. s.nstruct = b.nstruct + (new - old) BY <1>2 DEF Edited
<1>6. x + new \in Nat /\ x + new <= s.nstruct /\ x + n <= x + new BY <1>3, <1>4, <1>5
<1> DEFINE y == x + new
<1>7. /\ Layout(c) /\ SameFront(s, c) /\ c.total = s.total
      /\ c.nstrings = s.nstrings /\ MoreStrings(s, c)
      /\ Edited(s, c, x, y, 0)
      /\ \A z \in 0 .. n - 1 : StructAt(c, x + z) = bytes[z + 1]
  <2>1. y \in Nat /\ y <= s.nstruct /\ x + n <= y BY <1>6
  <2> HIDE DEF y
  <2> QED BY <1>2, <1>3, <2>1, WriteStructIs
<1>8. SameFront(b, c) /\ MoreStrings(b, c) BY <1>2, <1>7, SameTwice
<1>9. Edited(b, c, x, x + old, new - old)
  <2>1. y = (x + old) + (new - old) /\ x + old \in Nat /\ new - old \in Int OBVIOUS
  <2>2. Edited(s, c, x, (x + old) + (new - old), 0) BY <1>7, <2>1
  <2> QED BY <1>2, <1>4, <2>1, <2>2, EditedTwice
<1>10. c.nstruct = s.nstruct
  <2>1. c.nstruct = s.nstruct + 0 BY <1>7 DEF Edited
  <2> QED BY <1>4, <2>1
<1>11. c.struct = b.struct BY <1>8 DEF SameFront
<1> QED BY <1>2, <1>6, <1>7, <1>8, <1>9, <1>10, <1>11

-----------------------------------------------------------------------------
(* What can stand instead of a tag.                                        *)
LEMMA FollowsLike ==
    ASSUME NEW m, NEW n, Follows(m, n), NEW q, q.depth = m.depth, m.open => q.open
    PROVE  Follows(q, n)
BY DEF Follows

(* A mark can stand for another before the next one.                       *)
LEMMA FollowedLike ==
    ASSUME NEW m, NEW n, Follows(m, n), NEW q, q.tag = n.tag, q.depth = n.depth, q.open = n.open
    PROVE  Follows(m, q)
BY DEF Follows

(* A place in the structure between two tags, with some others or none in  *)
(* between that can go: before could be followed by after.                 *)
Bridged(b, M, before, after, x, y) ==
    /\ Marks(b, M) /\ Site(M, before, after, x, y)
    /\ x \in Nat /\ y \in Nat /\ x <= y /\ Follows(before, after)

(* One new tag.                                                            *)
LEMMA MarksPut ==
    ASSUME NEW b, NEW c, Layout(b), Layout(c), NEW M, Marks(b, M), MoreStrings(b, c),
           NEW x \in Nat, NEW y \in Nat, x <= y,
           NEW before, NEW after, Site(M, before, after, x, y),
           NEW q \in Mark, q.off = x, q.depth >= 1, q.tag # FDT_END,
           Stands(c, q), HasName(c, q), Opens(q), Aligned(x), Multiple(End(q) - y),
           Follows(before, q), Follows(q, after),
           Edited(b, c, x, y, End(q) - y)
    PROVE  \E N : Marks(c, N)
<1> DEFINE d == End(q) - y
           Q == {q}
<1>1. End(q) \in Nat /\ End(q) = x + q.size /\ q.size \in Nat BY MarkIs
<1>2. d \in Int /\ y + d = End(q) /\ x <= y + d BY <1>1
<1>3. before \in M /\ End(before) = x BY DEF Site
<1>4. NewMarks(c, Q, x, y + d)
  <2>1. Apart(Q)
    <3>1. q.off \in Nat BY MarkIs
    <3>2. ~(q.off < q.off) BY <3>1
    <3> QED BY <3>2 DEF Apart
  <2>2. x <= q.off /\ End(q) <= y + d BY <1>1, <1>2
  <2> QED BY <2>1, <2>2 DEF NewMarks
<1>5. Chain(before, Q, after, y + d) BY <1>2, <1>3 DEF Chain
<1>6. Multiple(d) /\ Edited(b, c, x, y, d) OBVIOUS
<1> HIDE DEF d, Q
<1>7. Marks(c, Spliced(M, Q, x, y, d)) BY <1>2, <1>4, <1>5, <1>6, MarksEdited
<1> QED BY <1>7

(* None.                                                                   *)
LEMMA MarksDropped ==
    ASSUME NEW b, NEW c, Layout(b), Layout(c), NEW M, MoreStrings(b, c),
           NEW x, NEW y, NEW before, NEW after, Bridged(b, M, before, after, x, y),
           Multiple(x - y), Edited(b, c, x, y, x - y)
    PROVE  \E N : Marks(c, N)
<1> DEFINE d == x - y
<1>1. /\ Marks(b, M) /\ Site(M, before, after, x, y)
      /\ x \in Nat /\ y \in Nat /\ x <= y /\ Follows(before, after)
    BY DEF Bridged
<1>2. d \in Int /\ y + d = x /\ x <= y + d BY <1>1
<1>3. before \in M /\ End(before) = x BY <1>1 DEF Site
<1>4. NewMarks(c, {}, x, y + d) BY DEF NewMarks, Apart
<1>5. Chain(before, {}, after, y + d) BY <1>1, <1>2, <1>3 DEF Chain
<1>6. Multiple(d) /\ Edited(b, c, x, y, d) OBVIOUS
<1> HIDE DEF d
<1>7. Marks(c, Spliced(M, {}, x, y, d)) BY <1>1, <1>2, <1>4, <1>5, <1>6, MarksEdited
<1> QED BY <1>7

(* Where a mark ends, it and all before are whole tags.                    *)
LEMMA AlignedEnd ==
    ASSUME NEW b, NEW M, Marks(b, M), NEW m \in M
    PROVE  Aligned(m.off) /\ Multiple(m.off) /\ (m.tag # FDT_END => Multiple(End(m)) /\ Aligned(End(m)))
<1>1. Aligned(m.off) BY MarkPlace
<1>2. Multiple(m.off) BY <1>1 DEF Aligned, Multiple
<1>3. ASSUME m.tag # FDT_END PROVE Multiple(End(m)) /\ Aligned(End(m))
  <2>1. PICK n \in M : n.off = End(m) BY <1>3, NextMark
  <2>2. Aligned(n.off) BY <2>1, MarkPlace
  <2>3. Multiple(n.off) BY <2>2 DEF Aligned, Multiple
  <2> QED BY <2>1, <2>2, <2>3
<1> QED BY <1>1, <1>2, <1>3

(* The difference of multiples is one.                                     *)
LEMMA MultipleMinus ==
    ASSUME NEW x, NEW y, Multiple(x), Multiple(y)
    PROVE  Multiple(x - y) /\ Multiple(x + y) /\ Multiple(0)
<1>1. PICK p \in Int : x = p * TAGSIZE BY DEF Multiple
<1>2. PICK q \in Int : y = q * TAGSIZE BY DEF Multiple
<1> DEFINE t == TAGSIZE
<1>3. t \in Int BY Constants
<1>4. p * t - q * t = (p - q) * t /\ p * t + q * t = (p + q) * t /\ 0 = 0 * t BY <1>3
<1>5. p - q \in Int /\ p + q \in Int OBVIOUS
<1> QED BY <1>1, <1>2, <1>4, <1>5 DEF Multiple

(* FDT_TAGALIGN makes a multiple.                                          *)
LEMMA MultipleAlign ==
    ASSUME NEW x \in Nat
    PROVE  Multiple(FDT_TAGALIGN(x)) /\ Multiple(TAGSIZE) /\ Multiple(PropSize)
<1>1. PICK q \in Nat : FDT_TAGALIGN(x) = q * TAGSIZE BY AlignIs
<1>2. TAGSIZE = 1 * TAGSIZE /\ PropSize = 3 * TAGSIZE BY Constants DEF PropSize
<1> QED BY <1>1, <1>2 DEF Multiple

(* Whoever is followed by a tag of the root is in the root.                *)
LEMMA SiteBefore ==
    ASSUME NEW b, NEW M, NEW r, Reading(b, M, r), NEW k \in 1 .. Len(r) - 1, r[k + 1].tag # FDT_END,
           NEW m, m = MarkFor(M, r[k]), NEW n, n = MarkFor(M, r[k + 1])
    PROVE  /\ m \in M /\ n \in M /\ m.depth \in Nat /\ m.depth >= 1
           /\ End(m) = n.off /\ Follows(m, n) /\ m.tag # FDT_END
<1>1. m \in M /\ n \in M /\ m.tag # FDT_END /\ n.off = End(m) /\ Follows(m, n) BY WalkNext
<1>2. n.tag = r[k + 1].tag /\ n.tag # FDT_END
  <2>1. k + 1 \in 1 .. Len(r) /\ Len(r) \in Nat BY ReadingIs
  <2> QED BY <2>1, WalkIs
<1>3. Layout(b) /\ Marks(b, M) BY ReadingIs
<1>4. /\ m.depth \in Nat /\ (m.depth = 0 => m.tag = FDT_END \/ (m.tag = FDT_END_NODE /\ End(m) + TAGSIZE = b.nstruct))
    BY <1>1, <1>3, MarkPlace
<1>5. /\ n.depth \in Nat /\ n \in Mark /\ Stands(b, n) /\ End(n) <= b.nstruct /\ n.tag \in Tags
      /\ (n.depth = 0 => n.tag = FDT_END \/ n.tag = FDT_END_NODE)
    BY <1>1, <1>3, MarkPlace
<1>6. m.depth # 0
  <2> SUFFICES ASSUME m.depth = 0 PROVE FALSE
      OBVIOUS
  <2>1. End(m) + TAGSIZE = b.nstruct BY <1>1, <1>4
  <2>2. CASE n.tag = FDT_BEGIN_NODE
    <3>1. n.size >= TAGSIZE + n.len + 1 /\ n.size \in Nat /\ n.len \in Nat /\ n.off \in Nat
          /\ End(n) = n.off + n.size
        BY <1>5, <2>2, StandsSize, MarkIs
    <3>2. TAGSIZE \in Nat /\ b.nstruct \in Nat BY <1>3, Constants, LayoutIs, Fields
    <3> QED BY <1>1, <1>5, <2>1, <3>1, <3>2
  <2>3. CASE n.tag = FDT_END_NODE
    <3>1. m.depth = n.depth + 1 BY <1>1, <2>3, TagsDiffer DEF Follows
    <3> QED BY <1>5, <3>1
  <2>4. CASE n.tag \in {FDT_PROP, FDT_NOP}
    <3>1. n.depth = m.depth BY <1>1, <2>4, TagsDiffer, Zenon DEF Follows
    <3>2. n.tag # FDT_END /\ n.tag # FDT_END_NODE BY <2>4, TagsDiffer
    <3> QED BY <1>5, <3>1, <3>2
  <2> QED BY <1>2, <1>5, <2>2, <2>3, <2>4 DEF Tags
<1> QED BY <1>1, <1>4, <1>6

(* A property that can go, and what is before and behind it.               *)
LEMMA PropSite ==
    ASSUME NEW b, NEW M, NEW r, Reading(b, M, r), NEW j \in 1 .. Len(r), r[j].tag = FDT_PROP,
           NEW m, m = MarkFor(M, r[j])
    PROVE  \E before, after :
              /\ Bridged(b, M, before, after, m.off, End(m))
              /\ before.depth \in Nat /\ before.depth >= 1
              /\ Follows(before, m) /\ Follows(m, after)
              /\ m \in M /\ m.off = r[j].off /\ m.tag = FDT_PROP /\ m.depth \in Nat /\ m.depth >= 1
<1>1. j \in 2 .. Len(r) - 1 /\ m \in M /\ m.tag = FDT_PROP /\ m.open /\ m.depth >= 1 BY PropIs
<1>2. Len(r) \in Nat /\ Layout(b) /\ Marks(b, M) BY ReadingIs
<1> DEFINE k == j - 1
<1>3. k \in 1 .. Len(r) - 1 /\ k + 1 = j /\ j \in 1 .. Len(r) - 1 BY <1>1, <1>2
<1> HIDE DEF k
<1> DEFINE before == MarkFor(M, r[k])
           after == MarkFor(M, r[j + 1])
<1>4. FDT_PROP # FDT_END /\ FDT_PROP # FDT_END_NODE /\ FDT_PROP # FDT_BEGIN_NODE BY TagsDiffer
<1>5. /\ before \in M /\ before.depth \in Nat /\ before.depth >= 1 /\ End(before) = m.off
      /\ Follows(before, m) /\ before.tag # FDT_END
  <2>1. r[k + 1].tag # FDT_END /\ m = MarkFor(M, r[k + 1]) BY <1>3, <1>4
  <2> QED BY <1>3, <2>1, SiteBefore
<1>6. after \in M /\ after.off = End(m) /\ Follows(m, after) BY <1>3, WalkNext
<1> HIDE DEF before, after
<1>7. m.off \in Nat /\ End(m) \in Nat /\ End(m) = m.off + m.size /\ m.size \in Nat /\ m.depth \in Nat
      /\ m.off = r[j].off
    BY <1>1, <1>2, MarkPlace, WalkIs
<1>8. m.depth = before.depth BY <1>1, <1>4, <1>5 DEF Follows
<1>9. before.open BY <1>1, <1>4, <1>5 DEF Follows
<1>10. Follows(before, after) BY <1>6, <1>8, <1>9, FollowsLike
<1>11. Bridged(b, M, before, after, m.off, End(m)) BY <1>2, <1>5, <1>6, <1>7, <1>10 DEF Bridged, Site
<1> QED BY <1>1, <1>5, <1>6, <1>7, <1>11

(* A node that can go, which is not the root.                              *)
LEMMA NodeSite ==
    ASSUME NEW b, NEW M, NEW r, Reading(b, M, r), NEW path \in PathsOf(r) \ {Root},
           NEW i, i = NodeAt(r, path), NEW m, m = MarkFor(M, r[i]), NEW y, y = NodeEnd(r, i)
    PROVE  \E before, after, next :
              /\ Bridged(b, M, before, after, m.off, y) /\ y <= b.nstruct /\ m.off < y
              /\ Multiple(m.off) /\ Multiple(y)
              /\ Follows(before, m) /\ Follows(m, next) /\ next \in M /\ End(m) = next.off
              /\ m \in M /\ m.off = r[i].off /\ m.tag = FDT_BEGIN_NODE /\ m.depth \in Nat /\ m.depth >= 1
<1>1. /\ i \in 1 .. Len(r) - 1 /\ r[i].tag = FDT_BEGIN_NODE /\ m \in M /\ m.tag = FDT_BEGIN_NODE
      /\ m.depth >= 1 /\ m.depth \in Nat /\ i >= 2
    BY PathIs
<1>2. Len(r) \in Nat /\ Layout(b) /\ Marks(b, M) BY ReadingIs
<1> DEFINE k == i - 1
<1>3. k \in 1 .. Len(r) - 1 /\ k + 1 = i /\ i \in 1 .. Len(r) BY <1>1, <1>2
<1> HIDE DEF k
<1>4. PICK e \in i + 1 .. Len(r) - 1 :
          /\ MarkFor(M, r[e]) \in M
          /\ MarkFor(M, r[e]).tag = FDT_END_NODE /\ NodeEnd(r, i) = End(MarkFor(M, r[e]))
          /\ m.depth = MarkFor(M, r[e]).depth + 1
    BY <1>1, <1>3, NodeEndIs
<1> DEFINE before == MarkFor(M, r[k])
           last == MarkFor(M, r[e])
           after == MarkFor(M, r[e + 1])
           next == MarkFor(M, r[i + 1])
<1>5. /\ before \in M /\ before.depth \in Nat /\ before.depth >= 1 /\ End(before) = m.off
      /\ Follows(before, m)
  <2>1. r[k + 1].tag # FDT_END /\ m = MarkFor(M, r[k + 1]) BY <1>1, <1>3, TagsDiffer
  <2> QED BY <1>3, <2>1, SiteBefore
<1>6. last \in M /\ after \in M /\ after.off = End(last) /\ Follows(last, after) /\ last.tag # FDT_END
  <2>1. e \in 1 .. Len(r) - 1 BY <1>1, <1>2
  <2> QED BY <2>1, WalkNext
<1>7. next \in M /\ next.off = End(m) /\ Follows(m, next) BY <1>1, WalkNext
<1>8. last.tag = FDT_END_NODE /\ y = End(last) /\ m.depth = last.depth + 1 BY <1>4
<1>9. r[i].off = m.off /\ r[e].off = last.off
  <2>1. e \in 1 .. Len(r) BY <1>1, <1>2
  <2> QED BY <1>3, <2>1, WalkIs
<1>10. r[i].off <= r[e].off
  <2>1. e \in i .. Len(r) BY <1>1, <1>2
  <2> QED BY <1>3, <2>1, OffsetsGrow
<1> HIDE DEF before, last, after, next
<1>11. /\ last.off \in Nat /\ End(last) = last.off + last.size /\ last.size \in Nat /\ last.size >= 1
       /\ End(last) <= b.nstruct /\ last.depth \in Nat /\ Opens(last)
    BY <1>2, <1>6, MarkPlace
<1>12. m.off \in Nat BY <1>1, <1>2, MarkPlace
<1>13. y \in Nat /\ m.off < y /\ y <= b.nstruct BY <1>8, <1>9, <1>10, <1>11, <1>12
<1>14. m.depth = before.depth + 1 BY <1>1, <1>5, TagsDiffer DEF Follows
<1>15. last.depth = before.depth BY <1>5, <1>8, <1>11, <1>14
<1>16. ~last.open BY <1>8, <1>11, TagsDiffer DEF Opens
<1>17. Follows(before, after) BY <1>6, <1>15, <1>16, FollowsLike
<1>18. Multiple(m.off) /\ Multiple(y) BY <1>1, <1>2, <1>6, <1>8, AlignedEnd
<1>19. Bridged(b, M, before, after, m.off, y)
    BY <1>2, <1>5, <1>6, <1>8, <1>12, <1>13, <1>17 DEF Bridged, Site
<1> QED BY <1>1, <1>5, <1>7, <1>9, <1>13, <1>18, <1>19

-----------------------------------------------------------------------------
(* fdt_delprop and fdt_del_node.                                           *)
LEMMA GoodDropped ==
    ASSUME NEW b, Good(b), NEW M, NEW x, NEW y, NEW before, NEW after, Bridged(b, M, before, after, x, y),
           y <= b.nstruct, Multiple(x), Multiple(y), NEW old, old = y - x
    PROVE  Fine(SpliceStruct(b, b.struct + x, old, 0)) /\ SpliceStruct(b, b.struct + x, old, 0).err # "nospace"
<1>1. Layout(b) /\ b.nstruct \in Nat /\ b.strings + b.nstrings <= b.total /\ Whole(b)
      /\ b.strings \in Nat /\ b.nstrings \in Nat /\ b.total \in Nat
    BY LayoutIs, Fields DEF Good
<1>2. x \in Nat /\ y \in Nat /\ x <= y BY DEF Bridged
<1>3. old \in Nat /\ x + old = y /\ 0 - old = x - y /\ 0 \in Nat BY <1>2
<1>4. Fits(b, 0 - old)
  <2>1. 0 - old \in Int /\ b.strings + b.nstrings + (0 - old) <= b.total BY <1>1, <1>3
  <2> QED BY <1>1, <2>1, FitsIs
<1>5. PICK c : c = SpliceStruct(b, b.struct + x, old, 0).blob OBVIOUS
<1>6. x + old <= b.nstruct BY <1>3
<1>7. /\ SpliceStruct(b, b.struct + x, old, 0) = Ok(c)
      /\ Layout(c) /\ SameFront(b, c) /\ MoreStrings(b, c)
      /\ Edited(b, c, x, x + old, 0 - old)
    BY <1>1, <1>2, <1>3, <1>4, <1>5, <1>6, SpliceStructIs
<1>8. Edited(b, c, x, y, x - y) BY <1>3, <1>7
<1>9. Multiple(x - y) BY MultipleMinus
<1>10. \E N : Marks(c, N) BY <1>1, <1>7, <1>8, <1>9, MarksDropped
<1>11. Good(c) BY <1>7, <1>10, GoodEdited
<1> QED BY <1>7, <1>11, OkIs DEF Fine

(* The property that is found has the name it is looked for with.          *)
LEMMA NamedIs ==
    ASSUME NEW b, NEW M, NEW r, Reading(b, M, r), NEW i, NEW name, NEW old, old = Named(b, r, i, name),
           old # {}, NEW j, j = Least(old)
    PROVE  /\ j \in old /\ j \in Props(r) /\ j \in 1 .. Len(r) /\ r[j].tag = FDT_PROP
           /\ r[j].node = i /\ PropName(b, r, j) = name
<1>1. DOMAIN r = 1 .. Len(r) /\ Len(r) \in Nat BY ReadingIs
<1>2. old \subseteq Nat BY <1>1 DEF Named, Props
<1>3. j \in old BY <1>2, LeastIs
<1> QED BY <1>1, <1>3 DEF Named, Props

(* fdt_delprop, which needs no room.                                       *)
LEMMA GoodDelProp ==
    ASSUME NEW b, Good(b), NEW M, NEW r, Reading(b, M, r), NEW path, NEW name
    PROVE  Fine(DelProp(b, r, path, name)) /\ DelProp(b, r, path, name).err # "nospace"
<1> DEFINE i == NodeAt(r, path)
           old == Named(b, r, i, name)
           j == Least(old)
           len == PropSize + FDT_TAGALIGN(PropLen(b, r, j))
           p == b.struct + r[j].off
<1>1. DelProp(b, r, path, name) = IF old = {} THEN Error(b, "notfound") ELSE SpliceStruct(b, p, len, 0)
    BY DEF DelProp
<1>2. CASE old = {}
  <2>1. "notfound" \in Answers BY DEF Answers
  <2>2. DelProp(b, r, path, name) = Error(b, "notfound") BY <1>1, <1>2
  <2> QED BY <2>1, <2>2, ErrorIs DEF Fine
<1>3. CASE old # {}
  <2>1. j \in 1 .. Len(r) /\ r[j].tag = FDT_PROP
    <3>1. PICK q : q = i OBVIOUS
    <3>2. old = Named(b, r, q, name) BY <3>1
    <3> HIDE DEF i, old
    <3> QED BY <1>3, <3>2, NamedIs
  <2>2. DelProp(b, r, path, name) = SpliceStruct(b, p, len, 0) BY <1>1, <1>3
  <2>3. PICK m : m = MarkFor(M, r[j]) OBVIOUS
  <2> HIDE DEF j
  <2>4. PICK before, after :
           /\ Bridged(b, M, before, after, m.off, End(m))
           /\ m \in M /\ m.off = r[j].off /\ m.tag = FDT_PROP
      BY <2>1, <2>3, PropSite
  <2>5. PropLen(b, r, j) = m.len BY <2>1, <2>3, PropIs
  <2>6. Marks(b, M) BY ReadingIs
  <2>7. /\ m \in Mark /\ Stands(b, m) /\ End(m) <= b.nstruct /\ m.off \in Nat /\ m.size \in Nat
        /\ End(m) = m.off + m.size
      BY <2>4, <2>6, MarkPlace
  <2>8. len = m.size BY <2>4, <2>5, <2>7 DEF Stands
  <2>9. Multiple(m.off) /\ Multiple(End(m))
    <3>1. m.tag # FDT_END BY <2>4, TagsDiffer
    <3> QED BY <2>4, <2>6, <3>1, AlignedEnd
  <2>10. len = End(m) - m.off BY <2>7, <2>8
  <2>11. p = b.struct + m.off BY <2>4
  <2> HIDE DEF len, p
  <2>12. /\ Fine(SpliceStruct(b, b.struct + m.off, len, 0))
         /\ SpliceStruct(b, b.struct + m.off, len, 0).err # "nospace"
      BY <2>4, <2>7, <2>9, <2>10, GoodDropped
  <2> QED BY <2>2, <2>11, <2>12
<1> QED BY <1>2, <1>3

(* fdt_del_node, with all that is in it, which needs no room.              *)
LEMMA GoodDelSubNode ==
    ASSUME NEW b, Good(b), NEW M, NEW r, Reading(b, M, r), NEW path \in PathsOf(r) \ {Root}
    PROVE  Fine(DelSubNode(b, r, path)) /\ DelSubNode(b, r, path).err # "nospace"
<1>1. PICK i : i = NodeAt(r, path) OBVIOUS
<1>2. PICK m : m = MarkFor(M, r[i]) OBVIOUS
<1>3. PICK y : y = NodeEnd(r, i) OBVIOUS
<1>4. PICK before, after :
          /\ Bridged(b, M, before, after, m.off, y) /\ y <= b.nstruct /\ m.off < y
          /\ Multiple(m.off) /\ Multiple(y) /\ m.off = r[i].off
    BY <1>1, <1>2, <1>3, NodeSite
<1>5. DelSubNode(b, r, path) = SpliceStruct(b, b.struct + m.off, y - m.off, 0)
    BY <1>1, <1>3, <1>4 DEF DelSubNode
<1>6. /\ Fine(SpliceStruct(b, b.struct + m.off, y - m.off, 0))
      /\ SpliceStruct(b, b.struct + m.off, y - m.off, 0).err # "nospace"
    BY <1>4, GoodDropped
<1> QED BY <1>5, <1>6

(* Every FDT_NOP begins at a multiple.                                     *)
LEMMA TagAt ==
    ASSUME NEW q \in Nat, NEW k \in 1 .. TAGSIZE
    PROVE  (q * TAGSIZE + (k - 1)) % TAGSIZE = k - 1
<1> DEFINE t == TAGSIZE
<1>1. t \in Nat /\ t >= 1 BY Constants
<1>2. k \in 1 .. t OBVIOUS
<1> HIDE DEF t
<1> DEFINE j == k - 1
<1>3. j \in Nat /\ j < t BY <1>1, <1>2
<1> HIDE DEF j
<1>4. (q * t + j) % t = j BY <1>1, <1>3
<1> QED BY <1>4 DEF j, t

(* FDT_NOPs instead of tags that can go.                                   *)
NopMark(before, off) ==
    [off |-> off, size |-> TAGSIZE, tag |-> FDT_NOP, len |-> 0, name |-> 0,
     depth |-> before.depth, open |-> before.open]

(* What is known of such a mark.                                           *)
NopBehind(before, off, m) ==
    /\ m \in Mark /\ m.off = off /\ m.size = TAGSIZE /\ m.tag = FDT_NOP
    /\ m.depth = before.depth /\ m.open = before.open /\ Opens(m)
    /\ End(m) = off + TAGSIZE

(* The mark of an FDT_NOP, in the node it is in.                           *)
LEMMA NopMarkIs ==
    ASSUME NEW before \in Mark, NEW off \in Nat, NEW m, m = NopMark(before, off)
    PROVE  NopBehind(before, off, m)
<1>1. TAGSIZE \in Nat BY Constants
<1>2. FDT_NOP \in Tags BY DEF Tags
<1>3. before.depth \in Nat /\ before.open \in BOOLEAN BY DEF Mark
<1>4. m \in Mark /\ m.off = off /\ m.size = TAGSIZE /\ m.tag = FDT_NOP
      /\ m.depth = before.depth /\ m.open = before.open
    BY <1>1, <1>2, <1>3 DEF NopMark, Mark
<1>5. Opens(m) BY <1>4, TagsDiffer DEF Opens
<1> QED BY <1>4, <1>5 DEF End, NopBehind

Nopped(b, x, y, c) == \A z \in x .. y - 1 : StructAt(c, z) = <<FDT_NOP, ((z - x) % TAGSIZE) + 1>>

(* FDT_NOPs may stand for any tags that can go.                            *)
LEMMA MarksNopped ==
    ASSUME NEW b, NEW c, Layout(b), Layout(c), NEW M, MoreStrings(b, c),
           NEW x, NEW y, NEW before, NEW after, Bridged(b, M, before, after, x, y), x < y,
           before.depth \in Nat, before.depth >= 1,
           Multiple(x), Multiple(y), Edited(b, c, x, y, 0), Nopped(b, x, y, c)
    PROVE  \E N : Marks(c, N)
<1> DEFINE t == TAGSIZE
           nop(k) == NopMark(before, x + k * t)
<1>1. /\ Marks(b, M) /\ Site(M, before, after, x, y)
      /\ x \in Nat /\ y \in Nat /\ x <= y /\ Follows(before, after)
    BY DEF Bridged
<1>2. before \in M /\ End(before) = x /\ after \in M /\ after.off = y BY <1>1 DEF Site
<1>3. before \in Mark BY <1>1, <1>2, MarkPlace
<1>4. PICK n \in Int : y - x = n * t BY MultipleMinus DEF Multiple
<1>5. t \in Nat /\ t >= 1 BY Constants
<1>6. n \in Nat /\ n >= 1
  <2>1. n * t >= 1 BY <1>1, <1>4
  <2> SUFFICES ASSUME n <= 0 PROVE FALSE
      OBVIOUS
  <2>2. 0 - n \in Nat BY <2>1
  <2>3. (0 - n) * t \in Nat BY <1>5, <2>2
  <2>4. (0 - n) * t = 0 - n * t BY <1>5
  <2>5. n * t \in Int BY <1>5
  <2> QED BY <2>1, <2>3, <2>4, <2>5
<1> DEFINE I == 0 .. n - 1
           Q == {nop(k) : k \in I}
<1>7. ASSUME NEW k \in I
      PROVE  /\ k * t \in Nat /\ (k + 1) * t = k * t + t /\ k * t + t <= n * t /\ x + k * t \in Nat
             /\ Multiple(x + k * t)
  <2>1. k \in Nat /\ k < n BY <1>6
  <2>2. k * t \in Nat /\ k * t + t <= n * t BY <1>6, <2>1, Multiples
  <2>3. (k + 1) * t = k * t + t BY <1>5, <2>1
  <2>4. Multiple(k * t) BY <2>1 DEF Multiple
  <2>5. Multiple(x + k * t) BY <2>4, MultipleMinus
  <2> QED BY <1>1, <2>2, <2>3, <2>5
<1>8. ASSUME NEW k \in I, NEW j \in I, k < j PROVE k * t + t <= j * t
  <2>1. k \in Nat /\ j \in Nat BY <1>6
  <2> QED BY <1>8, <2>1, Multiples
<1>9. ASSUME NEW k \in I
      PROVE  /\ nop(k) \in Mark /\ nop(k).off = x + k * t /\ nop(k).size = t /\ nop(k).tag = FDT_NOP
             /\ nop(k).depth = before.depth /\ nop(k).open = before.open /\ Opens(nop(k))
             /\ End(nop(k)) = (x + k * t) + t
  <2>1. PICK off : off = x + k * t OBVIOUS
  <2>2. off \in Nat BY <1>7, <2>1
  <2>3. PICK m : m = NopMark(before, off) OBVIOUS
  <2>4. NopBehind(before, off, m) BY <1>3, <2>2, <2>3, NopMarkIs
  <2>5. nop(k) = m BY <2>1, <2>3
  <2> HIDE DEF nop
  <2>6. /\ m \in Mark /\ m.off = x + k * t /\ m.size = t /\ m.tag = FDT_NOP
        /\ m.depth = before.depth /\ m.open = before.open /\ Opens(m)
        /\ End(m) = (x + k * t) + t
      BY <2>1, <2>4 DEF NopBehind
  <2> QED BY <2>5, <2>6
<1>10. /\ FDT_NOP # FDT_END /\ FDT_NOP # FDT_BEGIN_NODE /\ FDT_NOP # FDT_PROP /\ FDT_NOP # FDT_END_NODE
    BY TagsDiffer
<1>11. ASSUME NEW k \in I PROVE Stands(c, nop(k)) /\ HasName(c, nop(k)) /\ Aligned(nop(k).off)
  <2> DEFINE off == x + k * t
  <2>1. off \in Nat /\ Multiple(off) /\ k * t \in Nat /\ k * t + t <= n * t BY <1>7
  <2>2. IsWord(c, c.struct + off, FDT_NOP)
    <3> SUFFICES ASSUME NEW h \in 1 .. TAGSIZE
                 PROVE At(c, (c.struct + off) + h - 1) = <<FDT_NOP, h>>
        BY DEF IsWord
    <3>1. h \in 1 .. t OBVIOUS
    <3> DEFINE kt == k * t
               nt == n * t
               z == (x + kt) + (h - 1)
    <3>2. kt \in Nat /\ kt + t <= nt /\ y - x = nt /\ off = x + kt BY <1>4, <2>1
    <3> HIDE DEF kt, nt, off, t
    <3>3. z \in x .. y - 1 /\ z - x = kt + (h - 1) BY <1>1, <1>5, <3>1, <3>2
    <3>4. (kt + (h - 1)) % TAGSIZE = h - 1
      <4>1. k \in Nat BY <1>6
      <4> QED BY <4>1, TagAt DEF kt, t
    <3>5. StructAt(c, z) = <<FDT_NOP, ((z - x) % TAGSIZE) + 1>> BY <3>3 DEF Nopped
    <3>6. StructAt(c, z) = <<FDT_NOP, (h - 1) + 1>> BY <3>3, <3>4, <3>5
    <3>7. (h - 1) + 1 = h OBVIOUS
    <3>8. c.struct \in Nat BY LayoutIs, Fields
    <3>9. c.struct + z = (c.struct + off) + h - 1 BY <1>1, <3>1, <3>2, <3>8
    <3> QED BY <3>6, <3>7, <3>9 DEF StructAt
  <2>3. nop(k).off = off /\ nop(k).tag = FDT_NOP /\ nop(k).size = TAGSIZE BY <1>9
  <2>4. Stands(c, nop(k))
    <3>1. PICK m : m = nop(k) OBVIOUS
    <3>2. m.off = off /\ m.tag = FDT_NOP /\ m.size = TAGSIZE BY <2>3, <3>1
    <3> HIDE DEF off
    <3>3. Stands(c, m) BY <1>10, <2>2, <3>2 DEF Stands
    <3> QED BY <3>1, <3>3
  <2>5. HasName(c, nop(k)) BY <1>10, <2>3 DEF HasName
  <2>6. Aligned(off)
    <3> HIDE DEF off
    <3>1. PICK e \in Int : off = e * TAGSIZE BY <2>1 DEF Multiple
    <3>2. e \in 0 .. off
      <4>1. e * t \in Nat BY <2>1, <3>1
      <4>2. e >= 0
        <5> SUFFICES ASSUME e < 0 PROVE FALSE
            OBVIOUS
        <5>1. 0 - e \in Nat /\ 0 - e >= 1 OBVIOUS
        <5>2. 0 - e <= (0 - e) * t BY <5>1, Multiples
        <5>3. (0 - e) * t = 0 - e * t /\ (0 - e) * t \in Int BY <1>5
        <5> QED BY <4>1, <5>1, <5>2, <5>3
      <4>3. e \in Nat BY <4>2
      <4>4. e <= e * t BY <4>3, Multiples
      <4> QED BY <2>1, <3>1, <4>3, <4>4
    <3> QED BY <3>1, <3>2 DEF Aligned
  <2> QED BY <2>3, <2>4, <2>5, <2>6
<1>12. ASSUME NEW k \in I, NEW j \in I
       PROVE  /\ nop(k).off < nop(j).off => End(nop(k)) <= nop(j).off
              /\ nop(k).off = nop(j).off => nop(k) = nop(j)
  <2>1. /\ nop(k).off = x + k * t /\ nop(j).off = x + j * t /\ End(nop(k)) = (x + k * t) + t
        /\ k * t \in Nat /\ j * t \in Nat
      BY <1>7, <1>9
  <2>2. k < j => k * t + t <= j * t BY <1>8
  <2>3. j < k => j * t + t <= k * t BY <1>8
  <2>4. k \in Int /\ j \in Int BY <1>6
  <2>5. k = j => k * t = j * t OBVIOUS
  <2>6. x + k * t = x + j * t => k = j
    <3> DEFINE kt == k * t
               jt == j * t
    <3>1. kt \in Nat /\ jt \in Nat /\ (k < j => kt + t <= jt) /\ (j < k => jt + t <= kt) BY <2>1, <2>2, <2>3
    <3> HIDE DEF kt, jt, t
    <3>2. x + kt = x + jt => k = j BY <1>1, <1>5, <2>4, <3>1
    <3> QED BY <3>2 DEF kt, jt
  <2>7. x + k * t < x + j * t => (x + k * t) + t <= x + j * t
    <3> DEFINE kt == k * t
               jt == j * t
    <3>1. kt \in Nat /\ jt \in Nat /\ (k < j => kt + t <= jt) /\ (j < k => jt + t <= kt) /\ (k = j => kt = jt)
        BY <2>1, <2>2, <2>3, <2>5
    <3> HIDE DEF kt, jt, t
    <3>2. x + kt < x + jt => (x + kt) + t <= x + jt BY <1>1, <1>5, <2>4, <3>1
    <3> QED BY <3>2 DEF kt, jt
  <2> QED BY <2>1, <2>6, <2>7
<1>13. NewMarks(c, Q, x, y)
  <2>1. Q \subseteq Mark BY <1>9
  <2>2. Apart(Q) BY <1>12 DEF Apart
  <2>3. ASSUME NEW k \in I PROVE x <= nop(k).off /\ End(nop(k)) <= y
    <3>1. nop(k).off = x + k * t /\ End(nop(k)) = (x + k * t) + t /\ k * t \in Nat /\ k * t + t <= n * t
          /\ y - x = n * t /\ n * t \in Int
        BY <1>4, <1>5, <1>7, <1>9
    <3> DEFINE kt == k * t
               nt == n * t
    <3>2. kt \in Nat /\ kt + t <= nt /\ y - x = nt BY <3>1
    <3> HIDE DEF kt, nt, t
    <3>3. x <= x + kt /\ (x + kt) + t <= y BY <1>1, <1>5, <3>2
    <3> QED BY <3>1, <3>3 DEF kt, t
  <2>4. ASSUME NEW k \in I
        PROVE  /\ Stands(c, nop(k)) /\ HasName(c, nop(k)) /\ Opens(nop(k)) /\ Aligned(nop(k).off)
               /\ x <= nop(k).off /\ End(nop(k)) <= y /\ nop(k).depth >= 1 /\ nop(k).tag # FDT_END
    <3>1. Stands(c, nop(k)) /\ HasName(c, nop(k)) /\ Aligned(nop(k).off) BY <1>11
    <3>2. Opens(nop(k)) /\ nop(k).depth = before.depth /\ nop(k).tag = FDT_NOP BY <1>9
    <3>3. nop(k).depth >= 1 BY <3>2
    <3> QED BY <1>10, <2>3, <3>1, <3>2, <3>3
  <2> HIDE DEF nop
  <2> QED BY <2>1, <2>2, <2>4 DEF NewMarks
<1>14. ASSUME NEW k \in I PROVE Follows(before, nop(k)) /\ Follows(nop(k), after)
  <2>1. nop(k).depth = before.depth /\ nop(k).tag = FDT_NOP /\ nop(k).open = before.open BY <1>9
  <2> HIDE DEF nop
  <2>2. Follows(before, nop(k)) BY <1>10, <2>1, Zenon DEF Follows
  <2>3. Follows(nop(k), after) BY <1>1, <2>1, FollowsLike
  <2> QED BY <2>2, <2>3
<1>15. Chain(before, Q, after, y)
  <2>1. nop(0) \in Q /\ nop(0).off = End(before) /\ Follows(before, nop(0))
    <3>1. 0 \in I BY <1>6
    <3>2. nop(0).off = x + 0 * t BY <1>9, <3>1
    <3>3. x + 0 * t = x BY <1>1, <1>5
    <3> QED BY <1>2, <1>14, <3>1, <3>2, <3>3
  <2>2. ASSUME NEW k \in I, k # n - 1
        PROVE  nop(k + 1) \in Q /\ nop(k + 1).off = End(nop(k)) /\ Follows(nop(k), nop(k + 1))
    <3>1. k + 1 \in I BY <1>6, <2>2
    <3>2. nop(k + 1).off = x + (k + 1) * t /\ End(nop(k)) = (x + k * t) + t /\ (k + 1) * t = k * t + t
          /\ k * t \in Nat
        BY <1>7, <1>9, <3>1
    <3>3. x + (k * t + t) = (x + k * t) + t BY <1>1, <1>5, <3>2
    <3>4. /\ nop(k).depth = before.depth /\ nop(k).tag = FDT_NOP /\ nop(k).open = before.open
          /\ nop(k + 1).depth = before.depth /\ nop(k + 1).tag = FDT_NOP /\ nop(k + 1).open = before.open
        BY <1>9, <3>1
    <3>5. nop(k + 1) \in Q BY <3>1
    <3> HIDE DEF nop
    <3>6. Follows(nop(k), nop(k + 1)) BY <1>10, <3>4, Zenon DEF Follows
    <3> QED BY <3>2, <3>3, <3>5, <3>6
  <2>3. ASSUME NEW k \in I, k = n - 1 PROVE End(nop(k)) = y /\ Follows(nop(k), after)
    <3>1. End(nop(k)) = (x + k * t) + t /\ (k + 1) * t = k * t + t /\ k * t \in Nat BY <1>7, <1>9
    <3>2. k + 1 = n BY <1>6, <2>3
    <3>3. (x + k * t) + t = y BY <1>1, <1>4, <1>5, <3>1, <3>2
    <3> QED BY <1>14, <3>1, <3>3
  <2> HIDE DEF nop
  <2>4. ASSUME NEW k \in I
        PROVE  \/ \E m \in Q : m.off = End(nop(k)) /\ Follows(nop(k), m)
               \/ End(nop(k)) = y /\ Follows(nop(k), after)
      BY <2>2, <2>3
  <2>5. ASSUME NEW q \in {before} \cup Q
        PROVE  \/ \E m \in Q : m.off = End(q) /\ Follows(q, m)
               \/ End(q) = y /\ Follows(q, after)
    <3>1. CASE q = before BY <2>1, <3>1
    <3>2. CASE q \in Q
      <4>1. PICK k \in I : q = nop(k) BY <3>2
      <4> QED BY <2>4, <4>1
    <3> QED BY <3>1, <3>2
  <2> QED BY <2>5 DEF Chain
<1>16. Multiple(0) BY MultipleMinus
<1> HIDE DEF Q, I, nop, t
<1>17. y + 0 = y /\ 0 \in Int BY <1>1
<1>18. Marks(c, Spliced(M, Q, x, y, 0)) BY <1>1, <1>13, <1>15, <1>16, <1>17, MarksEdited
<1> QED BY <1>18

NopBytes(n) == [k \in 1 .. n |-> <<FDT_NOP, ((k - 1) % TAGSIZE) + 1>>]

(* The bytes of some FDT_NOPs.                                             *)
LEMMA NopBytesIs ==
    ASSUME NEW n \in Nat, NEW bytes, bytes = NopBytes(n)
    PROVE  /\ bytes \in [1 .. n -> Byte]
           /\ \A k \in 1 .. n : bytes[k] = <<FDT_NOP, ((k - 1) % TAGSIZE) + 1>>
<1> DEFINE t == TAGSIZE
<1>1. t \in Nat /\ t >= 1 BY Constants
<1>2. ASSUME NEW k \in 1 .. n PROVE <<FDT_NOP, ((k - 1) % t) + 1>> \in Byte
  <2>1. k - 1 \in Nat OBVIOUS
  <2> HIDE DEF t
  <2>2. (k - 1) % t \in Int BY <1>1, <2>1
  <2>3. FDT_NOP \in Int BY TagsDiffer
  <2> QED BY <2>2, <2>3 DEF Byte
<1> QED BY <1>2 DEF NopBytes

(* fdt_nop_region_.                                                        *)
LEMMA GoodNop ==
    ASSUME NEW b, Good(b), NEW M, NEW x, NEW y, NEW before, NEW after, Bridged(b, M, before, after, x, y),
           x < y, y <= b.nstruct, Multiple(x), Multiple(y),
           NEW len, FDT_TAGALIGN(len) = y - x
    PROVE  Fine(Ok(Nop(b, x, len)))
<1>1. Layout(b) /\ b.nstruct \in Nat BY LayoutIs, Fields DEF Good
<1>2. x \in Nat /\ y \in Nat /\ Marks(b, M) /\ before \in M /\ before.depth >= 1 BY DEF Bridged, Site
<1>3. before.depth \in Nat BY <1>2, MarkPlace
<1> DEFINE n == y - x
<1>4. n \in Nat /\ x + n = y BY <1>2
<1>5. PICK bytes : bytes = NopBytes(n) OBVIOUS
<1>6. Nop(b, x, len) = Write(b, b.struct + x, bytes) BY <1>5 DEF Nop, NopBytes
<1>7. PICK c : c = Nop(b, x, len) OBVIOUS
<1> HIDE DEF n
<1>8. bytes \in [1 .. n -> Byte] /\ \A k \in 1 .. n : bytes[k] = <<FDT_NOP, ((k - 1) % TAGSIZE) + 1>>
    BY <1>4, <1>5, NopBytesIs
<1>9. Written(b, x, n, bytes, c) BY <1>6, <1>7, <1>8 DEF Written
<1>10. x + n <= y BY <1>2, <1>4
<1>11. /\ Layout(c) /\ SameFront(b, c) /\ MoreStrings(b, c) /\ Edited(b, c, x, y, 0)
       /\ \A z \in 0 .. n - 1 : StructAt(c, x + z) = bytes[z + 1]
    BY <1>1, <1>2, <1>4, <1>9, <1>10, WriteStructIs
<1>12. Nopped(b, x, y, c)
  <2> SUFFICES ASSUME NEW z \in x .. y - 1
               PROVE StructAt(c, z) = <<FDT_NOP, ((z - x) % TAGSIZE) + 1>>
      BY DEF Nopped
  <2> DEFINE w == z - x
  <2>1. w \in 0 .. n - 1 /\ x + w = z /\ w + 1 \in 1 .. n /\ (w + 1) - 1 = w BY <1>2, <1>4
  <2> HIDE DEF w
  <2>2. StructAt(c, x + w) = bytes[w + 1] BY <1>11, <2>1
  <2>3. bytes[w + 1] = <<FDT_NOP, (((w + 1) - 1) % TAGSIZE) + 1>> BY <1>8, <2>1
  <2>4. StructAt(c, z) = <<FDT_NOP, (w % TAGSIZE) + 1>> BY <2>1, <2>2, <2>3
  <2> QED BY <2>4 DEF w
<1>13. \E N : Marks(c, N) BY <1>1, <1>3, <1>2, <1>11, <1>12, MarksNopped
<1>14. Good(c) BY <1>11, <1>13, GoodEdited
<1> QED BY <1>7, <1>14, OkIs DEF Fine

(* A multiple is aligned.                                                  *)
LEMMA AlignMultiple ==
    ASSUME NEW x \in Nat, Multiple(x)
    PROVE  FDT_TAGALIGN(x) = x
<1>1. PICK e \in Int : x = e * TAGSIZE BY DEF Multiple
<1>2. FDT_TAGALIGN(0) = 0
  <2> DEFINE t == TAGSIZE
  <2>1. t \in Nat /\ t >= 1 BY Constants
  <2> HIDE DEF t
  <2>2. (0 + t - 1) \div t = 0 BY <2>1
  <2>3. 0 * t = 0 BY <2>1
  <2> QED BY <2>2, <2>3 DEF FDT_TAGALIGN, t
<1>3. FDT_TAGALIGN(0 + e * TAGSIZE) = FDT_TAGALIGN(0) + e * TAGSIZE BY AlignShift
<1>4. 0 + x = x OBVIOUS
<1> QED BY <1>1, <1>2, <1>3, <1>4

(* The head of a property is.                                              *)
LEMMA AlignProp ==
    ASSUME NEW x \in Nat
    PROVE  FDT_TAGALIGN(PropSize + x) = PropSize + FDT_TAGALIGN(x)
<1>1. FDT_TAGALIGN(x + 3 * TAGSIZE) = FDT_TAGALIGN(x) + 3 * TAGSIZE BY AlignShift
<1>2. PropSize \in Nat /\ PropSize = 3 * TAGSIZE BY Constants DEF PropSize
<1>3. FDT_TAGALIGN(x) \in Nat BY AlignIs
<1>4. x + PropSize = PropSize + x /\ FDT_TAGALIGN(x) + PropSize = PropSize + FDT_TAGALIGN(x) BY <1>2, <1>3
<1> QED BY <1>1, <1>2, <1>4

(* fdt_nop_property.                                                       *)
LEMMA GoodNopProperty ==
    ASSUME NEW b, Good(b), NEW M, NEW r, Reading(b, M, r), NEW path, NEW name
    PROVE  Fine(NopProperty(b, r, path, name))
<1> DEFINE i == NodeAt(r, path)
           old == Named(b, r, i, name)
           j == Least(old)
           len == PropSize + PropLen(b, r, j)
<1>1. NopProperty(b, r, path, name) = IF old = {} THEN Error(b, "notfound") ELSE Ok(Nop(b, r[j].off, len))
    BY DEF NopProperty
<1>2. CASE old = {}
  <2>1. "notfound" \in Answers BY DEF Answers
  <2>2. NopProperty(b, r, path, name) = Error(b, "notfound") BY <1>1, <1>2
  <2> QED BY <2>1, <2>2, ErrorIs DEF Fine
<1>3. CASE old # {}
  <2>1. j \in 1 .. Len(r) /\ r[j].tag = FDT_PROP
    <3>1. PICK q : q = i OBVIOUS
    <3>2. old = Named(b, r, q, name) BY <3>1
    <3> HIDE DEF i, old
    <3> QED BY <1>3, <3>2, NamedIs
  <2>2. NopProperty(b, r, path, name) = Ok(Nop(b, r[j].off, len)) BY <1>1, <1>3
  <2>3. PICK m : m = MarkFor(M, r[j]) OBVIOUS
  <2> HIDE DEF j
  <2>4. PICK before, after :
           /\ Bridged(b, M, before, after, m.off, End(m))
           /\ m \in M /\ m.off = r[j].off /\ m.tag = FDT_PROP
      BY <2>1, <2>3, PropSite
  <2>5. PropLen(b, r, j) = m.len BY <2>1, <2>3, PropIs
  <2>6. Marks(b, M) BY ReadingIs
  <2>7. /\ m \in Mark /\ Stands(b, m) /\ End(m) <= b.nstruct /\ m.off \in Nat /\ m.size \in Nat
        /\ End(m) = m.off + m.size /\ m.len \in Nat /\ m.size >= 1
      BY <2>4, <2>6, MarkPlace
  <2>8. FDT_TAGALIGN(len) = m.size BY <2>4, <2>5, <2>7, AlignProp DEF Stands
  <2>9. Multiple(m.off) /\ Multiple(End(m))
    <3>1. m.tag # FDT_END BY <2>4, TagsDiffer
    <3> QED BY <2>4, <2>6, <3>1, AlignedEnd
  <2>10. FDT_TAGALIGN(len) = End(m) - m.off /\ m.off < End(m) BY <2>7, <2>8
  <2> HIDE DEF len
  <2>11. Fine(Ok(Nop(b, m.off, len))) BY <2>4, <2>7, <2>9, <2>10, GoodNop
  <2> QED BY <2>2, <2>4, <2>11
<1> QED BY <1>2, <1>3

(* fdt_nop_node.                                                           *)
LEMMA GoodNopNode ==
    ASSUME NEW b, Good(b), NEW M, NEW r, Reading(b, M, r), NEW path \in PathsOf(r) \ {Root}
    PROVE  Fine(NopNode(b, r, path))
<1>1. PICK i : i = NodeAt(r, path) OBVIOUS
<1>2. PICK m : m = MarkFor(M, r[i]) OBVIOUS
<1>3. PICK y : y = NodeEnd(r, i) OBVIOUS
<1>4. PICK before, after :
          /\ Bridged(b, M, before, after, m.off, y) /\ y <= b.nstruct /\ m.off < y
          /\ Multiple(m.off) /\ Multiple(y) /\ m.off = r[i].off
    BY <1>1, <1>2, <1>3, NodeSite
<1>5. NopNode(b, r, path) = Ok(Nop(b, m.off, y - m.off))
    BY <1>1, <1>3, <1>4 DEF NopNode
<1>6. m.off \in Nat /\ y \in Nat BY <1>4 DEF Bridged
<1>7. y - m.off \in Nat /\ Multiple(y - m.off) BY <1>4, <1>6, MultipleMinus
<1>8. FDT_TAGALIGN(y - m.off) = y - m.off BY <1>7, AlignMultiple
<1>9. Fine(Ok(Nop(b, m.off, y - m.off))) BY <1>4, <1>8, GoodNop
<1> QED BY <1>5, <1>9

(* Bytes that were written into the structure, and a word among them.      *)
Wrote(c, x, n, bytes) == \A z \in 0 .. n - 1 : StructAt(c, x + z) = bytes[z + 1]

(* A word among bytes that were written.                                   *)
LEMMA WroteWord ==
    ASSUME NEW c, c.struct \in Nat, NEW x \in Nat, NEW n \in Nat, NEW bytes, Wrote(c, x, n, bytes),
           NEW at \in Nat, at + TAGSIZE <= n, NEW w, \A k \in 1 .. TAGSIZE : bytes[at + k] = <<w, k>>,
           NEW p, p = c.struct + x + at
    PROVE  IsWord(c, p, w)
<1> SUFFICES ASSUME NEW k \in 1 .. TAGSIZE PROVE At(c, p + k - 1) = <<w, k>>
    BY DEF IsWord
<1> DEFINE z == at + k - 1
<1>1. TAGSIZE \in Nat BY Constants
<1>2. z \in 0 .. n - 1 /\ z + 1 = at + k BY <1>1
<1>3. p + k - 1 = c.struct + (x + z) BY <1>1
<1> HIDE DEF z
<1>4. StructAt(c, x + z) = bytes[at + k] BY <1>2 DEF Wrote
<1> QED BY <1>3, <1>4 DEF StructAt

(* New bytes where there were none.                                        *)
Made(b, x, new, n, bytes, c) ==
    /\ n <= new
    /\ Written(SpliceStruct(b, b.struct + x, 0, new).blob, x, n, bytes, c)

(* Room made, and written into.                                            *)
LEMMA MadeIs ==
    ASSUME NEW b, Layout(b), NEW x \in Nat, NEW new \in Nat, x <= b.nstruct, Fits(b, new),
           NEW n \in Nat, NEW bytes, NEW c, Made(b, x, new, n, bytes, c)
    PROVE  /\ Layout(c) /\ SameFront(b, c) /\ c.total = b.total
           /\ c.nstrings = b.nstrings /\ MoreStrings(b, c) /\ c.struct = b.struct
           /\ Edited(b, c, x, x, new)
           /\ Wrote(c, x, n, bytes)
           /\ x + new <= c.nstruct
<1>1. PICK old : old = 0 OBVIOUS
<1>2. old \in Nat /\ x + old = x /\ new - old = new BY <1>1
<1>3. SpliceWritten(b, x, old, new, n, bytes, c) BY <1>1 DEF SpliceWritten, Made
<1>4. x + old <= b.nstruct /\ Fits(b, new - old) BY <1>2
<1>5. /\ Layout(c) /\ SameFront(b, c) /\ c.total = b.total
      /\ c.nstrings = b.nstrings /\ MoreStrings(b, c) /\ c.struct = b.struct
      /\ Edited(b, c, x, x + old, new - old)
      /\ \A z \in 0 .. n - 1 : StructAt(c, x + z) = bytes[z + 1]
      /\ x + new <= c.nstruct
    BY <1>2, <1>3, <1>4, SpliceWrittenIs
<1> QED BY <1>2, <1>5 DEF Wrote

(* Room made where nothing goes.                                           *)
LEMMA SpliceNewIs ==
    ASSUME NEW b, Layout(b), NEW x \in Nat, NEW new \in Nat, x <= b.nstruct, Fits(b, new),
           NEW s, s = SpliceStruct(b, b.struct + x, 0, new).blob
    PROVE  SpliceStruct(b, b.struct + x, 0, new) = Ok(s) /\ s.struct = b.struct
<1>1. PICK old : old = 0 OBVIOUS
<1>2. old \in Nat /\ x + old = x /\ new - old = new BY <1>1
<1>3. s = SpliceStruct(b, b.struct + x, old, new).blob BY <1>1
<1>4. x + old <= b.nstruct /\ Fits(b, new - old) BY <1>2
<1>5. SpliceStruct(b, b.struct + x, old, new) = Ok(s) /\ SameFront(b, s)
    BY <1>2, <1>3, <1>4, SpliceStructIs
<1> QED BY <1>1, <1>5 DEF SameFront

(* struct fdt_property, with its data.                                     *)
PropBytes(len, nameoff, value) == Word(FDT_PROP) \o Word(len) \o Word(nameoff) \o Bytes(value)

(* What its bytes are.                                                     *)
SpellsProp(bytes, len, nameoff, value) ==
    /\ Len(value) \in Nat /\ bytes \in [1 .. PropSize + Len(value) -> Byte]
    /\ \A k \in 1 .. TAGSIZE : bytes[0 + k] = <<FDT_PROP, k>>
    /\ \A k \in 1 .. TAGSIZE : bytes[TAGSIZE + k] = <<len, k>>
    /\ \A k \in 1 .. TAGSIZE : bytes[2 * TAGSIZE + k] = <<nameoff, k>>

(* The bytes of a property.                                                *)
LEMMA PropBytesIs ==
    ASSUME NEW value \in Seq(Int), NEW len \in Nat, NEW nameoff \in Nat,
           NEW bytes, bytes = PropBytes(len, nameoff, value)
    PROVE  SpellsProp(bytes, len, nameoff, value)
<1> DEFINE t == TAGSIZE
           l == Len(value)
           w1 == Word(FDT_PROP)
           w2 == Word(len)
           w3 == Word(nameoff)
           w4 == Bytes(value)
           u2 == w1 \o w2
           u3 == u2 \o w3
           u4 == u3 \o w4
<1>1. t \in Nat /\ t >= 1 BY Constants
<1>2. w1 \in [1 .. t -> Byte] /\ \A k \in 1 .. t : w1[k] = <<FDT_PROP, k>> BY WordIs, TagsDiffer
<1>3. w2 \in [1 .. t -> Byte] /\ \A k \in 1 .. t : w2[k] = <<len, k>> BY WordIs
<1>4. w3 \in [1 .. t -> Byte] /\ \A k \in 1 .. t : w3[k] = <<nameoff, k>> BY WordIs
<1>5. l \in Nat /\ w4 \in [1 .. l -> Byte] BY BytesIs
<1>6. bytes = u4 BY DEF PropBytes
<1>7. PropSize + l = (t + t + t) + l /\ 2 * t = t + t BY <1>1, <1>5 DEF PropSize
<1> HIDE DEF t, l, w1, w2, w3, w4, u2, u3, u4
<1>8. /\ u2 \in [1 .. t + t -> Byte]
      /\ \A x \in 1 .. t : u2[x] = w1[x]
      /\ \A x \in 1 .. t : u2[t + x] = w2[x]
    BY <1>1, <1>2, <1>3, JoinBytes DEF u2
<1>9. /\ u3 \in [1 .. (t + t) + t -> Byte]
      /\ \A x \in 1 .. t + t : u3[x] = u2[x]
      /\ \A x \in 1 .. t : u3[(t + t) + x] = w3[x]
  <2>1. t + t \in Nat BY <1>1
  <2> QED BY <1>1, <1>4, <1>8, <2>1, JoinBytes DEF u3
<1>10. /\ u4 \in [1 .. ((t + t) + t) + l -> Byte]
       /\ \A x \in 1 .. (t + t) + t : u4[x] = u3[x]
  <2>1. PICK v : v = (t + t) + t OBVIOUS
  <2>2. v \in Nat BY <1>1, <2>1
  <2>3. u3 \in [1 .. v -> Byte] BY <1>9, <2>1
  <2>4. PICK w : w = v + l OBVIOUS
  <2>5. u4 \in [1 .. w -> Byte] /\ \A x \in 1 .. v : u4[x] = u3[x]
      BY <1>5, <2>2, <2>3, <2>4, JoinBytes DEF u4
  <2> QED BY <2>1, <2>4, <2>5
<1>11. ASSUME NEW k \in 1 .. t PROVE u4[0 + k] = <<FDT_PROP, k>>
  <2>1. 0 + k = k /\ k \in 1 .. t + t /\ k \in 1 .. (t + t) + t BY <1>1
  <2> QED BY <1>2, <1>8, <1>9, <1>10, <2>1
<1>12. ASSUME NEW k \in 1 .. t PROVE u4[t + k] = <<len, k>>
  <2>1. t + k \in 1 .. t + t /\ t + k \in 1 .. (t + t) + t BY <1>1
  <2> QED BY <1>3, <1>8, <1>9, <1>10, <2>1
<1>13. ASSUME NEW k \in 1 .. t PROVE u4[(t + t) + k] = <<nameoff, k>>
  <2>1. (t + t) + k \in 1 .. (t + t) + t BY <1>1
  <2> QED BY <1>4, <1>9, <1>10, <2>1
<1>14. u4 \in [1 .. PropSize + l -> Byte] BY <1>7, <1>10
<1>15. \A k \in 1 .. t : u4[2 * t + k] = <<nameoff, k>> BY <1>7, <1>13
<1>16. /\ Len(value) \in Nat /\ bytes \in [1 .. PropSize + Len(value) -> Byte]
       /\ \A k \in 1 .. TAGSIZE : bytes[0 + k] = <<FDT_PROP, k>>
       /\ \A k \in 1 .. TAGSIZE : bytes[TAGSIZE + k] = <<len, k>>
       /\ \A k \in 1 .. TAGSIZE : bytes[2 * TAGSIZE + k] = <<nameoff, k>>
    BY <1>5, <1>6, <1>11, <1>12, <1>14, <1>15 DEF t, l
<1> QED BY <1>16 DEF SpellsProp

(* A property behind the FDT_BEGIN_NODE of its node.                       *)
PropMark(before, off, len, name) ==
    [off |-> off, size |-> PropSize + FDT_TAGALIGN(len), tag |-> FDT_PROP, len |-> len, name |-> name,
     depth |-> before.depth, open |-> TRUE]

IsPropMark(q, before, off, len, name) ==
    /\ q \in Mark /\ q.off = off /\ q.size = PropSize + FDT_TAGALIGN(len) /\ q.tag = FDT_PROP
    /\ q.len = len /\ q.name = name /\ q.depth = before.depth /\ q.open = TRUE
    /\ End(q) = off + (PropSize + FDT_TAGALIGN(len)) /\ Opens(q)

(* The mark of a property.                                                 *)
LEMMA PropMarkIs ==
    ASSUME NEW before \in Mark, NEW off \in Nat, NEW len \in Nat, NEW name \in Nat
    PROVE  IsPropMark(PropMark(before, off, len, name), before, off, len, name)
<1> DEFINE q == PropMark(before, off, len, name)
<1> DEFINE size == PropSize + FDT_TAGALIGN(len)
<1>1. FDT_TAGALIGN(len) \in Nat BY AlignIs
<1>2. PropSize \in Nat BY Constants DEF PropSize
<1>3. size \in Nat BY <1>1, <1>2
<1> HIDE DEF size
<1>4. FDT_PROP \in Tags BY DEF Tags
<1>5. before.depth \in Nat BY DEF Mark
<1>6. q = [off |-> off, size |-> size, tag |-> FDT_PROP, len |-> len, name |-> name,
           depth |-> before.depth, open |-> TRUE]
    BY DEF PropMark, size
<1>7. /\ q \in Mark /\ q.off = off /\ q.size = size /\ q.tag = FDT_PROP
      /\ q.len = len /\ q.name = name /\ q.depth = before.depth /\ q.open = TRUE
    BY <1>3, <1>4, <1>5, <1>6 DEF Mark
<1>8. Opens(q) BY <1>7, TagsDiffer DEF Opens
<1> QED BY <1>7, <1>8 DEF End, size, IsPropMark

(* Its name is among the strings.                                          *)
NamedThere(c, nameoff, name) ==
    /\ nameoff \in Nat /\ nameoff + Len(name) + 1 <= c.nstrings
    /\ Spells(c, c.strings + nameoff, name)

PutProperty(c, r, i, nameoff, value, e) ==
    LET p == c.struct + r[i].next
    IN  e = Write(SpliceStruct(c, p, 0, PropSize + FDT_TAGALIGN(Len(value))).blob, p,
                  PropBytes(Len(value), nameoff, value))

(* A property put behind a tag of an open node.                            *)
LEMMA PutPropertyIs ==
    ASSUME NEW c, NEW M, NEW r, Reading(c, M, r), NEW i \in 1 .. Len(r) - 1, r[i].tag = FDT_BEGIN_NODE,
           NEW name \in Names, NEW nameoff, NamedThere(c, nameoff, name), NEW value \in Seq(Int),
           Fits(c, PropSize + FDT_TAGALIGN(Len(value))),
           NEW e, PutProperty(c, r, i, nameoff, value, e)
    PROVE  /\ Layout(e) /\ SameFront(c, e) /\ \E N : Marks(e, N)
           /\ SpliceStruct(c, c.struct + r[i].next, 0, PropSize + FDT_TAGALIGN(Len(value))).err = "ok"
<1>1. Layout(c) /\ Marks(c, M) /\ Len(r) \in Nat BY ReadingIs
<1>2. PICK m : m = MarkFor(M, r[i]) OBVIOUS
<1>3. PICK after : after = MarkFor(M, r[i + 1]) OBVIOUS
<1>4. m \in M /\ after \in M /\ m.tag # FDT_END /\ after.off = End(m) /\ Follows(m, after)
    BY <1>2, <1>3, WalkNext
<1>5. m.tag = FDT_BEGIN_NODE /\ r[i].next = End(m)
  <2>1. i \in 1 .. Len(r) BY <1>1
  <2>2. r[i].tag = m.tag /\ r[i].next = NextOf(m) BY <1>2, <2>1, WalkIs
  <2> QED BY <1>4, <2>2 DEF NextOf
<1>6. /\ m \in Mark /\ Opens(m) /\ End(m) \in Nat /\ End(m) <= c.nstruct /\ m.depth \in Nat
      /\ (m.depth = 0 => m.tag = FDT_END \/ m.tag = FDT_END_NODE)
    BY <1>1, <1>4, MarkPlace
<1>7. m.depth >= 1
  <2>1. m.depth # 0 BY <1>5, <1>6, TagsDiffer
  <2> QED BY <1>6, <2>1
<1>8. Aligned(End(m)) /\ Multiple(End(m)) BY <1>1, <1>4, AlignedEnd
<1>9. PICK x : x = End(m) OBVIOUS
<1>10. x \in Nat /\ x <= c.nstruct /\ Aligned(x) BY <1>6, <1>8, <1>9
<1> DEFINE l == Len(value)
           new == PropSize + FDT_TAGALIGN(l)
           n == PropSize + l
<1>11. PICK bytes : bytes = PropBytes(l, nameoff, value) OBVIOUS
<1>12. nameoff \in Nat BY DEF NamedThere
<1>13. l \in Nat BY LenProperties
<1>14. /\ bytes \in [1 .. n -> Byte]
       /\ \A k \in 1 .. TAGSIZE : bytes[0 + k] = <<FDT_PROP, k>>
       /\ \A k \in 1 .. TAGSIZE : bytes[TAGSIZE + k] = <<l, k>>
       /\ \A k \in 1 .. TAGSIZE : bytes[2 * TAGSIZE + k] = <<nameoff, k>>
  <2>1. PICK len : len = Len(value) OBVIOUS
  <2>2. len \in Nat /\ bytes = PropBytes(len, nameoff, value) BY <1>11, <1>13, <2>1
  <2>3. SpellsProp(bytes, len, nameoff, value) BY <1>12, <2>2, PropBytesIs
  <2> QED BY <2>1, <2>3 DEF SpellsProp
<1>15. e = Write(SpliceStruct(c, c.struct + x, 0, new).blob, c.struct + x, bytes)
    BY <1>5, <1>9, <1>11 DEF PutProperty
<1>16. FDT_TAGALIGN(l) \in Nat /\ FDT_TAGALIGN(l) >= l /\ PropSize \in Nat /\ PropSize = 3 * TAGSIZE /\ TAGSIZE \in Nat
    BY <1>13, AlignIs, Constants DEF PropSize
<1>17. new \in Nat /\ n \in Nat /\ n <= new BY <1>13, <1>16
<1>18. Fits(c, new) OBVIOUS
<1>19. new = PropSize + FDT_TAGALIGN(l) /\ n = PropSize + l /\ l = Len(value) OBVIOUS
<1>20. 2 * TAGSIZE \in Nat /\ 2 * TAGSIZE + TAGSIZE <= n /\ TAGSIZE + TAGSIZE <= n /\ 0 + TAGSIZE <= n
    BY <1>13, <1>16
<1> HIDE DEF l, n, new
<1>21. PICK s : s = SpliceStruct(c, c.struct + x, 0, new).blob OBVIOUS
<1>22. SpliceStruct(c, c.struct + x, 0, new) = Ok(s) /\ s.struct = c.struct
    BY <1>1, <1>10, <1>17, <1>18, <1>21, SpliceNewIs
<1>23. Made(c, x, new, n, bytes, e)
  <2>1. e = Write(s, s.struct + x, bytes) BY <1>15, <1>21, <1>22
  <2> QED BY <1>14, <1>17, <1>21, <2>1 DEF Made, Written
<1>24. /\ Layout(e) /\ SameFront(c, e) /\ MoreStrings(c, e) /\ e.struct = c.struct
       /\ Edited(c, e, x, x, new) /\ Wrote(e, x, n, bytes)
    BY <1>1, <1>10, <1>17, <1>18, <1>23, MadeIs
<1>25. Edited(c, e, x, x, new) BY <1>24
<1>26. PICK q : q = PropMark(m, x, l, nameoff) OBVIOUS
<1>27. /\ q \in Mark /\ q.off = x /\ q.size = new /\ q.tag = FDT_PROP
       /\ q.len = l /\ q.name = nameoff /\ q.depth = m.depth /\ q.open = TRUE
       /\ End(q) = x + new /\ Opens(q)
  <2>1. x \in Nat BY <1>10
  <2>2. m \in Mark BY <1>6
  <2>3. /\ q \in Mark /\ q.off = x /\ q.size = PropSize + FDT_TAGALIGN(l) /\ q.tag = FDT_PROP
        /\ q.len = l /\ q.name = nameoff /\ q.depth = m.depth /\ q.open = TRUE
        /\ End(q) = x + (PropSize + FDT_TAGALIGN(l)) /\ Opens(q)
    <3>1. IsPropMark(PropMark(m, x, l, nameoff), m, x, l, nameoff) BY <1>12, <1>13, <2>1, <2>2, PropMarkIs
    <3> QED BY <1>26, <3>1 DEF IsPropMark
  <2> QED BY <1>19, <2>3
<1>28. e.struct \in Nat BY <1>24, LayoutIs, Fields
<1>29. Stands(e, q)
  <2>1. IsWord(e, e.struct + x, FDT_PROP)
    <3>1. e.struct + x = e.struct + x + 0 /\ 0 \in Nat BY <1>10, <1>28
    <3> QED BY <1>10, <1>14, <1>17, <1>20, <1>24, <1>28, <3>1, WroteWord
  <2>2. IsWord(e, e.struct + x + TAGSIZE, l)
      BY <1>10, <1>14, <1>16, <1>17, <1>20, <1>24, <1>28, WroteWord
  <2>3. IsWord(e, e.struct + x + 2 * TAGSIZE, nameoff)
      BY <1>10, <1>14, <1>16, <1>17, <1>20, <1>24, <1>28, WroteWord
  <2>4. FDT_PROP # FDT_BEGIN_NODE /\ FDT_PROP \notin {FDT_END_NODE, FDT_NOP, FDT_END} BY TagsDiffer
  <2> QED BY <1>19, <1>27, <2>1, <2>2, <2>3, <2>4 DEF Stands
<1>30. HasName(e, q)
  <2>1. HasName(c, q)
    <3>1. nameoff + Len(name) + 1 <= c.nstrings /\ Spells(c, c.strings + nameoff, name) BY DEF NamedThere
    <3> QED BY <1>27, <3>1 DEF HasName
  <2>2. c.nstrings \in Nat /\ c.strings \in Nat /\ e.nstrings \in Nat /\ e.strings \in Nat
      BY <1>1, <1>24, LayoutIs, Fields
  <2> QED BY <1>24, <1>27, <2>1, <2>2, SameName
<1>31. m.open BY <1>5, <1>6 DEF Opens
<1>32. Follows(m, q) BY <1>27, <1>31, TagsDiffer, Zenon DEF Follows
<1>33. Follows(q, after) BY <1>4, <1>27, FollowsLike
<1>34. Multiple(new)
  <2>1. Multiple(PropSize) /\ Multiple(FDT_TAGALIGN(l)) BY <1>13, MultipleAlign
  <2> QED BY <1>19, <2>1, MultipleMinus
<1>35. End(q) - x = new BY <1>10, <1>17, <1>27
<1>36. Site(M, m, after, x, x) BY <1>4, <1>7, <1>9 DEF Site
<1>37. \E N : Marks(e, N)
  <2>1. q.depth >= 1 /\ q.tag # FDT_END /\ x <= x BY <1>7, <1>10, <1>27, TagsDiffer
  <2> QED BY <1>1, <1>10, <1>24, <1>25, <1>27, <1>29, <1>30, <1>32, <1>33, <1>34, <1>35, <1>36, <2>1, MarksPut
<1>38. c.struct + r[i].next = c.struct + x BY <1>5, <1>9
<1>39. Ok(s).err = "ok" BY OkIs
<1> QED BY <1>19, <1>22, <1>24, <1>37, <1>38, <1>39

(* A name with the NUL behind it.                                          *)
LEMMA KeyIs ==
    ASSUME NEW name \in Names
    PROVE  SubSeq(name, 1, Len(name)) = name
<1>1. name \in Seq(Nat \ {0}) BY Constants
<1> QED BY <1>1

StringBytes(name) == Append(Bytes(name), NUL)

(* A name among the strings, with its NUL.                                 *)
LEMMA StringBytesIs ==
    ASSUME NEW name \in Names, NEW l, l = Len(name), NEW n, n = l + 1
    PROVE  /\ l \in Nat /\ n \in Nat /\ StringBytes(name) \in [1 .. n -> Byte]
           /\ \A k \in 1 .. l : StringBytes(name)[k] = <<name[k], 0>>
           /\ StringBytes(name)[n] = NUL
<1>1. name \in Seq(Int) /\ l \in Nat BY NameBytes
<1>2. Bytes(name) \in [1 .. l -> Byte] /\ \A k \in 1 .. l : Bytes(name)[k] = <<name[k], 0>>
    BY <1>1, BytesIs
<1>3. NUL \in Byte BY DEF NUL, Byte
<1>4. /\ Append(Bytes(name), NUL) \in [1 .. n -> Byte]
      /\ \A x \in 1 .. l : Append(Bytes(name), NUL)[x] = Bytes(name)[x]
      /\ Append(Bytes(name), NUL)[n] = NUL
  <2>1. PICK s : s = Bytes(name) OBVIOUS
  <2>2. s \in [1 .. l -> Byte] BY <1>2, <2>1
  <2>3. /\ Append(s, NUL) \in [1 .. n -> Byte]
        /\ \A x \in 1 .. l : Append(s, NUL)[x] = s[x]
        /\ Append(s, NUL)[n] = NUL
    BY <1>1, <1>3, <2>2, AppendBytes
  <2> QED BY <2>1, <2>3
<1> QED BY <1>1, <1>2, <1>4 DEF StringBytes

(* What fdt_find_string_len_ compares is a name and its NUL.               *)
LEMMA SpellsIs ==
    ASSUME NEW b, NEW at \in Nat, NEW name \in Names, NEW l, l = Len(name),
           \A k \in 1 .. l + 1 : At(b, at + k - 1) = StringBytes(name)[k]
    PROVE  Spells(b, at, name)
<1> DEFINE n == l + 1
<1>1. /\ l \in Nat /\ n \in Nat
      /\ \A k \in 1 .. l : StringBytes(name)[k] = <<name[k], 0>>
      /\ StringBytes(name)[n] = NUL
    BY StringBytesIs
<1>2. ASSUME NEW k \in 1 .. l PROVE At(b, at + k - 1) = <<name[k], 0>>
  <2>1. k \in 1 .. l + 1 BY <1>1
  <2> QED BY <1>1, <2>1
<1>3. At(b, at + l) = NUL
  <2>1. n \in 1 .. l + 1 /\ at + n - 1 = at + l BY <1>1
  <2> QED BY <1>1, <2>1
<1> QED BY <1>2, <1>3 DEF Spells

(* fdt_find_string_ finds the name.                                        *)
LEMMA FoundIs ==
    ASSUME NEW b, Layout(b), NEW name \in Names, NEW p \in FindString(b, name)
    PROVE  NamedThere(b, p, name)
<1> DEFINE l == Len(name)
           n == l + 1
<1>1. l \in Nat /\ n \in Nat /\ StringBytes(name) \in [1 .. n -> Byte] BY StringBytesIs
<1>2. p \in 0 .. b.nstrings - (l + 1) /\ Has(b, b.strings + p, StringBytes(name))
    BY DEF FindString, StringBytes
<1>3. Whole(b) /\ b.strings \in Nat /\ b.nstrings \in Nat /\ b.strings + b.nstrings <= b.total /\ b.total \in Nat
    BY LayoutIs, Fields
<1> HIDE DEF l
<1>4. /\ p \in Nat /\ p + l + 1 <= b.nstrings /\ b.strings + p \in Nat
      /\ (b.strings + p) + n <= b.total
    BY <1>1, <1>2, <1>3
<1> HIDE DEF n
<1>5. \A k \in 1 .. n : At(b, b.strings + p + k - 1) = StringBytes(name)[k]
  <2>1. PICK at : at = b.strings + p OBVIOUS
  <2>2. at \in Nat /\ at + n <= b.total BY <1>4, <2>1
  <2>3. Has(b, at, StringBytes(name)) BY <1>2, <2>1
  <2>4. \A k \in 1 .. n : At(b, at + k - 1) = StringBytes(name)[k] BY <1>1, <1>3, <2>2, <2>3, HasIs
  <2> QED BY <2>1, <2>4
<1>6. Spells(b, b.strings + p, name) BY <1>4, <1>5, SpellsIs DEF l, n
<1> QED BY <1>4, <1>6 DEF NamedThere, l

(* The name is added, or its bytes are left behind the strings.            *)
WithString(b, name, k) ==
    [b EXCEPT !.mem = memcpy(b.mem, DataSize(b), StringBytes(name)), !.nstrings = b.nstrings + k]

(* The name of a new property behind the other strings.                    *)
LEMMA WithStringIs ==
    ASSUME NEW b, Layout(b), NEW name \in Names, NEW l, l = Len(name), Fits(b, l + 1),
           NEW k \in 0 .. l + 1, NEW c, c = WithString(b, name, k)
    PROVE  /\ Layout(c) /\ SameFront(b, c) /\ SameStruct(b, c) /\ MoreStrings(b, c)
           /\ c.nstrings = b.nstrings + k /\ c.total = b.total /\ c.strings = b.strings
           /\ k = l + 1 => NamedThere(c, b.nstrings, name)
<1> DEFINE n == l + 1
<1>1. l \in Nat /\ n \in Nat /\ StringBytes(name) \in [1 .. n -> Byte] BY StringBytesIs
<1>2. Whole(b) /\ b.strings \in Nat /\ b.nstrings \in Nat /\ b.total \in Nat BY LayoutIs, Fields
<1>3. DataSize(b) + n <= b.total BY DEF Fits
<1>4. k \in 0 .. n OBVIOUS
<1> HIDE DEF n
<1>5. /\ Layout(c) /\ SameFront(b, c) /\ SameStruct(b, c) /\ MoreStrings(b, c)
      /\ c.nstrings = b.nstrings + k /\ c.total = b.total
      /\ \A z \in 0 .. n - 1 : StringsAt(c, b.nstrings + z) = StringBytes(name)[z + 1]
  <2>1. PICK bytes : bytes = StringBytes(name) OBVIOUS
  <2>2. bytes \in [1 .. n -> Byte] BY <1>1, <2>1
  <2>3. StringAdded(b, k, bytes, c) BY <2>1 DEF WithString, StringAdded
  <2>4. /\ Layout(c) /\ SameFront(b, c) /\ SameStruct(b, c) /\ MoreStrings(b, c)
        /\ c.nstrings = b.nstrings + k /\ c.total = b.total
        /\ \A z \in 0 .. n - 1 : StringsAt(c, b.nstrings + z) = bytes[z + 1]
    BY <1>1, <1>3, <1>4, <2>2, <2>3, AddStringIs
  <2> QED BY <2>1, <2>4
<1>6. ASSUME k = l + 1 PROVE NamedThere(c, b.nstrings, name)
  <2>1. c.strings \in Nat /\ c.nstrings \in Nat BY <1>5, LayoutIs, Fields
  <2>2. PICK at : at = c.strings + b.nstrings OBVIOUS
  <2>3. at \in Nat BY <1>2, <2>1, <2>2
  <2>4. ASSUME NEW x \in 1 .. l + 1 PROVE At(c, at + x - 1) = StringBytes(name)[x]
    <3>1. PICK z : z = x - 1 OBVIOUS
    <3>2. z \in 0 .. n - 1 /\ z + 1 = x BY <1>1, <3>1 DEF n
    <3>3. StringsAt(c, b.nstrings + z) = StringBytes(name)[x] BY <1>5, <3>2
    <3>4. at + x - 1 = c.strings + (b.nstrings + z) BY <1>2, <2>1, <2>2, <3>1, <3>2, <1>1 DEF n
    <3> QED BY <3>3, <3>4 DEF StringsAt
  <2>5. Spells(c, at, name) BY <2>3, <2>4, SpellsIs
  <2>6. b.nstrings + l + 1 <= c.nstrings
    <3>1. c.nstrings = b.nstrings + k BY <1>5
    <3> QED BY <1>1, <1>2, <1>6, <3>1
  <2> QED BY <1>2, <2>2, <2>5, <2>6 DEF NamedThere
<1>7. c.strings = b.strings
  <2>1. PICK m : m = memcpy(b.mem, DataSize(b), StringBytes(name)) OBVIOUS
  <2>2. PICK x : x = b.nstrings + k OBVIOUS
  <2>3. c = [b EXCEPT !.mem = m, !.nstrings = x] BY <2>1, <2>2 DEF WithString
  <2>4. b \in BlobType BY <1>2 DEF Whole
  <2> QED BY <2>3, <2>4 DEF BlobType
<1> QED BY <1>5, <1>6, <1>7

(* A call that fails for want of room leaves all that can be read.         *)
Kept(b, c) ==
    /\ Layout(c) /\ SameFront(b, c) /\ SameStruct(b, c) /\ MoreStrings(b, c)
    /\ DataSize(c) = DataSize(b) /\ c.total = b.total
Tries(b, s, need) ==
    /\ s.err \in {"ok", "nospace"} /\ Good(s.blob)
    /\ s.err = "nospace" => Kept(b, s.blob)
    /\ Fits(b, need) => s.err = "ok"

(* A call that did nothing.                                                *)
LEMMA KeptItself ==
    ASSUME NEW b, Layout(b)
    PROVE  Kept(b, b)
<1>1. b.nstrings \in Nat BY LayoutIs, Fields
<1> QED BY <1>1 DEF Kept, SameFront, SameStruct, MoreStrings

(* The property is put into a blob with the name among the strings.        *)
NewSize(value) == PropSize + FDT_TAGALIGN(Len(value))
Placed(c, r, i, nameoff, value, back) ==
    LET p == c.struct + r[i].next
        s == SpliceStruct(c, p, 0, PropSize + FDT_TAGALIGN(Len(value)))
    IN  IF s.err # "ok" THEN Error(back, s.err)
        ELSE Ok(Write(s.blob, p, PropBytes(Len(value), nameoff, value)))

(* It is placed if there is room for it.                                   *)
LEMMA PlacedIs ==
    ASSUME NEW c, Good(c), NEW M, NEW r, Reading(c, M, r), NEW i \in 1 .. Len(r) - 1,
           r[i].tag = FDT_BEGIN_NODE,
           NEW name \in Names, NEW nameoff, NamedThere(c, nameoff, name), NEW value \in Values,
           NEW back, NEW s, s = Placed(c, r, i, nameoff, value, back)
    PROVE  /\ Fits(c, NewSize(value)) => s.err = "ok" /\ Good(s.blob)
           /\ ~Fits(c, NewSize(value)) => s.err = "nospace" /\ s.blob = back
<1> DEFINE p == c.struct + r[i].next
           new == PropSize + FDT_TAGALIGN(Len(value))
           u == SpliceStruct(c, p, 0, new)
           e == Write(u.blob, p, PropBytes(Len(value), nameoff, value))
<1>1. value \in Seq(Int) /\ Len(value) \in Nat BY ValueBytes
<1>2. new \in Nat
  <2>1. FDT_TAGALIGN(Len(value)) \in Nat BY <1>1, AlignIs
  <2>2. PropSize \in Nat BY Constants DEF PropSize
  <2> QED BY <2>1, <2>2
<1>3. s = IF u.err # "ok" THEN Error(back, u.err) ELSE Ok(e) BY DEF Placed
<1>4. CASE Fits(c, NewSize(value))
  <2>1. Fits(c, PropSize + FDT_TAGALIGN(Len(value))) BY <1>4 DEF NewSize
  <2>2. PutProperty(c, r, i, nameoff, value, e) BY DEF PutProperty
  <2>3. Layout(e) /\ SameFront(c, e) /\ (\E N : Marks(e, N)) /\ u.err = "ok"
    <3> HIDE DEF e
    <3> QED BY <1>1, <2>1, <2>2, PutPropertyIs
  <2> HIDE DEF e, u
  <2>4. Good(e) BY <2>3, GoodEdited
  <2>5. s = Ok(e) BY <1>3, <2>3
  <2> QED BY <1>4, <2>4, <2>5, OkIs
<1>5. CASE ~Fits(c, NewSize(value))
  <2>1. new - 0 = new BY <1>2
  <2>2. ~Fits(c, new - 0) BY <1>5, <2>1 DEF NewSize
  <2>3. u = Error(c, "nospace") BY <2>2 DEF SpliceStruct
  <2> HIDE DEF u, e
  <2>4. u.err = "nospace" BY <2>3, ErrorIs DEF Answers
  <2>5. s = Error(back, "nospace") BY <1>3, <2>4
  <2> QED BY <1>5, <2>5, ErrorIs DEF Answers
<1> QED BY <1>4, <1>5

(* fdt_add_property_.                                                      *)
AddedTo(b, r, i, found, nameoff, c, n, l, value) ==
    LET p == c.struct + r[i].next
        s == SpliceStruct(c, p, 0, PropSize + FDT_TAGALIGN(Len(value)))
    IN  IF found = {} /\ ~Fits(b, n + 1) THEN Error(b, "nospace")
        ELSE IF s.err # "ok"
        THEN Error(IF found = {} THEN [c EXCEPT !.nstrings = @ - (l + 1)] ELSE c, s.err)
        ELSE Ok(Write(s.blob, p, Word(FDT_PROP) \o Word(Len(value)) \o Word(nameoff) \o Bytes(value)))

AddedAs(b, r, i, name, l, value, s) ==
    s = IF FindString(b, name) # {} THEN Placed(b, r, i, Least(FindString(b, name)), value, b)
        ELSE IF ~Fits(b, l + 1) THEN Error(b, "nospace")
        ELSE Placed(WithString(b, name, l + 1), r, i, b.nstrings, value, WithString(b, name, 0))

(* fdt_add_property_, case by case.                                        *)
LEMMA AddPropertyCases ==
    ASSUME NEW b, Layout(b), NEW r, NEW i, NEW name \in Names, NEW l, l = Len(name), NEW value
    PROVE  AddedAs(b, r, i, name, l, value, AddProperty(b, r, i, name, l, value))
<1> DEFINE found == FindString(b, name)
<1>1. SubSeq(name, 1, l) = name BY KeyIs
<1>2. l \in Nat BY NameBytes
<1>3. b.nstrings \in Nat /\ b \in BlobType BY LayoutIs, Fields DEF Whole
<1> HIDE DEF found
<1>4. CASE found # {}
  <2>1. AddProperty(b, r, i, name, l, value) = Placed(b, r, i, Least(found), value, b)
    BY <1>1, <1>4 DEF AddProperty, Placed, PropBytes, found
  <2> QED BY <1>4, <2>1 DEF AddedAs, found
<1>5. CASE found = {} /\ ~Fits(b, l + 1)
  <2>1. AddProperty(b, r, i, name, l, value) = Error(b, "nospace")
    BY <1>1, <1>5 DEF AddProperty, found
  <2> QED BY <1>5, <2>1 DEF AddedAs, found
<1>6. CASE found = {} /\ Fits(b, l + 1)
  <2>1. PICK c : c = [b EXCEPT !.mem = memcpy(b.mem, DataSize(b), StringBytes(name)),
                               !.nstrings = b.nstrings + l + 1] OBVIOUS
  <2>2. b.nstrings + l + 1 = b.nstrings + (l + 1) BY <1>2, <1>3
  <2>3. c = WithString(b, name, l + 1) BY <2>1, <2>2 DEF WithString
  <2>4. PICK back : back = [c EXCEPT !.nstrings = c.nstrings - (l + 1)] OBVIOUS
  <2>5. back = WithString(b, name, 0)
    <3>1. c.nstrings = b.nstrings + l + 1 /\ back = [b EXCEPT !.mem = memcpy(b.mem, DataSize(b), StringBytes(name)),
                             !.nstrings = c.nstrings - (l + 1)]
      <4>1. PICK m : m = memcpy(b.mem, DataSize(b), StringBytes(name)) OBVIOUS
      <4>2. PICK x : x = b.nstrings + l + 1 OBVIOUS
      <4>3. c = [b EXCEPT !.mem = m, !.nstrings = x] BY <2>1, <4>1, <4>2
      <4>4. PICK y : y = c.nstrings - (l + 1) OBVIOUS
      <4>5. back = [c EXCEPT !.nstrings = y] BY <2>4, <4>4
      <4>6. b = [mem |-> b.mem, rsv |-> b.rsv, struct |-> b.struct, nstruct |-> b.nstruct,
                 strings |-> b.strings, nstrings |-> b.nstrings, total |-> b.total]
          BY <1>3 DEF BlobType
      <4>7. back = [b EXCEPT !.mem = m, !.nstrings = y] /\ c.nstrings = x
          BY <4>3, <4>5, <4>6
      <4> QED BY <4>1, <4>2, <4>4, <4>7
    <3>2. c.nstrings - (l + 1) = b.nstrings + 0 BY <1>2, <1>3, <3>1
    <3> QED BY <3>1, <3>2 DEF WithString
  <2>6. AddProperty(b, r, i, name, l, value) = Placed(c, r, i, b.nstrings, value, back)
    <3> DEFINE key == SubSeq(name, 1, l)
               have == FindString(b, key)
               off == IF have # {} THEN Least(have) ELSE b.nstrings
               new == IF have # {} THEN b
                      ELSE [b EXCEPT !.mem = memcpy(@, DataSize(b), Append(Bytes(key), NUL)),
                                     !.nstrings = @ + l + 1]
               p == c.struct + r[i].next
               s == SpliceStruct(c, p, 0, PropSize + FDT_TAGALIGN(Len(value)))
               w == Write(s.blob, p, PropBytes(Len(value), b.nstrings, value))
    <3>1. AddProperty(b, r, i, name, l, value) = AddedTo(b, r, i, have, off, new, l, Len(name), value)
        BY DEF AddProperty, AddedTo
    <3>2. have = {} BY <1>1, <1>6 DEF found
    <3>3. off = b.nstrings BY <3>2
    <3>4. new = c BY <1>1, <2>1, <3>2 DEF StringBytes
    <3> HIDE DEF have, off, new, key
    <3>5. AddProperty(b, r, i, name, l, value) = AddedTo(b, r, i, {}, b.nstrings, c, l, l, value)
        BY <3>1, <3>2, <3>3, <3>4
    <3>6. AddedTo(b, r, i, {}, b.nstrings, c, l, l, value) =
              IF s.err # "ok" THEN Error([c EXCEPT !.nstrings = @ - (l + 1)], s.err) ELSE Ok(w)
        BY <1>6 DEF AddedTo, PropBytes
    <3>7. Placed(c, r, i, b.nstrings, value, back) = IF s.err # "ok" THEN Error(back, s.err) ELSE Ok(w)
        BY DEF Placed
    <3> HIDE DEF w, s, p
    <3> QED BY <2>4, <3>5, <3>6, <3>7
  <2>7. AddProperty(b, r, i, name, l, value) =
            Placed(WithString(b, name, l + 1), r, i, b.nstrings, value, WithString(b, name, 0))
      BY <2>3, <2>5, <2>6
  <2> QED BY <1>6, <2>7 DEF AddedAs, found
<1>7. found # {} \/ (found = {} /\ ~Fits(b, l + 1)) \/ (found = {} /\ Fits(b, l + 1)) OBVIOUS
<1> QED BY <1>4, <1>5, <1>6, <1>7

(* What a new property takes, with its name.                               *)
PropertyNeed(name, value) == PropSize + Len(name) + 1 + FDT_TAGALIGN(Len(value))

(* It fails only for want of room, and then the name is no longer counted. *)
LEMMA AddPropertyTries ==
    ASSUME NEW b, Good(b), NEW M, NEW r, Reading(b, M, r), NEW i \in 1 .. Len(r) - 1,
           r[i].tag = FDT_BEGIN_NODE, NEW name \in Names, NEW value \in Values,
           NEW l, l = Len(name), NEW s, s = AddProperty(b, r, i, name, l, value)
    PROVE  Tries(b, s, PropertyNeed(name, value))
<1> DEFINE new == NewSize(value)
           need == PropertyNeed(name, value)
<1>1. Layout(b) BY DEF Good
<1>2. l \in Nat BY NameBytes
<1>3. Whole(b) /\ b.strings \in Nat /\ b.nstrings \in Nat /\ b.total \in Nat /\ DataSize(b) = b.strings + b.nstrings
    BY <1>1, LayoutIs, Fields
<1>4. new \in Nat /\ need \in Nat /\ need = new + (l + 1)
  <2>1. Len(value) \in Nat BY ValueBytes
  <2>2. FDT_TAGALIGN(Len(value)) \in Nat BY <2>1, AlignIs
  <2>3. PropSize \in Nat BY Constants DEF PropSize
  <2> QED BY <1>2, <2>2, <2>3 DEF NewSize, PropertyNeed
<1> HIDE DEF new, need
<1>5. PICK found : found = FindString(b, name) OBVIOUS
<1>6. s = IF found # {} THEN Placed(b, r, i, Least(found), value, b)
          ELSE IF ~Fits(b, l + 1) THEN Error(b, "nospace")
          ELSE Placed(WithString(b, name, l + 1), r, i, b.nstrings, value, WithString(b, name, 0))
  <2>1. AddedAs(b, r, i, name, l, value, AddProperty(b, r, i, name, l, value))
    BY <1>1, AddPropertyCases
  <2> QED BY <1>5, <2>1 DEF AddedAs
<1>7. Kept(b, b) BY <1>1, KeptItself
<1>8. CASE found # {}
  <2>1. found \subseteq Nat BY <1>5 DEF FindString
  <2>2. PICK p : p = Least(found) OBVIOUS
  <2>3. p \in found BY <1>8, <2>1, <2>2, LeastIs
  <2>4. NamedThere(b, p, name) BY <1>1, <1>5, <2>3, FoundIs
  <2>5. s = Placed(b, r, i, p, value, b) BY <1>6, <1>8, <2>2
  <2>6. /\ Fits(b, new) => s.err = "ok" /\ Good(s.blob)
        /\ ~Fits(b, new) => s.err = "nospace" /\ s.blob = b
    BY <2>4, <2>5, PlacedIs DEF new
  <2>7. Fits(b, need) => Fits(b, new) BY <1>2, <1>3, <1>4 DEF Fits
  <2> QED BY <1>7, <2>6, <2>7 DEF Tries, need
<1>9. CASE found = {} /\ ~Fits(b, l + 1)
  <2>1. s = Error(b, "nospace") BY <1>6, <1>9
  <2>2. s.err = "nospace" /\ s.blob = b BY <2>1, ErrorIs DEF Answers
  <2>3. ~Fits(b, need) BY <1>2, <1>3, <1>4, <1>9 DEF Fits
  <2> QED BY <1>7, <2>2, <2>3 DEF Tries, need
<1>10. CASE found = {} /\ Fits(b, l + 1)
  <2> DEFINE c == WithString(b, name, l + 1)
             back == WithString(b, name, 0)
  <2>1. s = Placed(c, r, i, b.nstrings, value, back) BY <1>6, <1>10
  <2>2. /\ Layout(c) /\ SameFront(b, c) /\ SameStruct(b, c) /\ MoreStrings(b, c)
        /\ c.nstrings = b.nstrings + (l + 1) /\ c.total = b.total /\ c.strings = b.strings
        /\ NamedThere(c, b.nstrings, name)
    <3>1. l + 1 \in 0 .. l + 1 BY <1>2
    <3> QED BY <1>1, <1>10, <3>1, WithStringIs
  <2>3. /\ Layout(back) /\ SameFront(b, back) /\ SameStruct(b, back) /\ MoreStrings(b, back)
        /\ back.nstrings = b.nstrings + 0 /\ back.total = b.total /\ back.strings = b.strings
    <3>1. 0 \in 0 .. l + 1 BY <1>2
    <3> QED BY <1>1, <1>10, <3>1, WithStringIs
  <2> HIDE DEF c, back
  <2>4. Good(c) /\ Good(back) BY <2>2, <2>3, GoodSame
  <2>5. c.strings = b.strings /\ back.strings = b.strings BY <2>2, <2>3
  <2>6. Reading(c, M, r) BY <2>2, SameRead
  <2>7. /\ Fits(c, new) => s.err = "ok" /\ Good(s.blob)
        /\ ~Fits(c, new) => s.err = "nospace" /\ s.blob = back
    BY <2>1, <2>2, <2>4, <2>6, PlacedIs DEF new
  <2>8. Fits(b, need) => Fits(c, new)
    <3>1. DataSize(c) = b.strings + (b.nstrings + (l + 1)) BY <2>2, <2>5 DEF DataSize
    <3> QED BY <1>2, <1>3, <1>4, <2>2, <3>1 DEF Fits
  <2>9. Kept(b, back)
    <3>1. DataSize(back) = DataSize(b) BY <1>3, <2>3, <2>5 DEF DataSize
    <3> QED BY <2>3, <3>1 DEF Kept
  <2> QED BY <2>4, <2>7, <2>8, <2>9 DEF Tries, need
<1> QED BY <1>8, <1>9, <1>10

-----------------------------------------------------------------------------
(* The bytes of a property when its value gets another length.             *)
Resized(b, off, old, new, len, at, value, e) ==
    LET p == b.struct + off
        u == SpliceStruct(b, p + PropSize, old, new).blob
    IN  e = Write(Write(u, p + TAGSIZE, Word(len)), p + PropSize + at, Bytes(value))

ResizedBytes(b, e, off, len) ==
    /\ IsWord(e, e.struct + off + TAGSIZE, len)
    /\ \A z \in off .. off + TAGSIZE - 1 : StructAt(e, z) = StructAt(b, z)
    /\ \A z \in off + 2 * TAGSIZE .. off + PropSize - 1 : StructAt(e, z) = StructAt(b, z)

(* A property made longer or shorter, and written.                         *)
LEMMA ResizedIs ==
    ASSUME NEW b, Layout(b), NEW off \in Nat, NEW old \in Nat, NEW new \in Nat, NEW len \in Nat,
           NEW at \in Nat, NEW value \in Seq(Int), at + Len(value) <= new,
           off + PropSize + old <= b.nstruct, Fits(b, new - old),
           NEW e, Resized(b, off, old, new, len, at, value, e)
    PROVE  /\ Layout(e) /\ SameFront(b, e) /\ MoreStrings(b, e) /\ e.struct = b.struct
           /\ SpliceStruct(b, b.struct + off + PropSize, old, new).err = "ok"
           /\ Edited(b, e, off, off + PropSize + old, new - old)
           /\ ResizedBytes(b, e, off, len)
<1> DEFINE t == TAGSIZE
           l == Len(value)
           y == off + PropSize + old
           end == off + PropSize + new
<1>1. PICK x : x = off + PropSize OBVIOUS
<1>2. PICK u : u = SpliceStruct(b, b.struct + x, old, new).blob OBVIOUS
<1>3. PICK s : s = Write(u, b.struct + off + TAGSIZE, Word(len)) OBVIOUS
<1>4. PICK v : v = off + PropSize + at OBVIOUS
<1>5. PICK w : w = off + TAGSIZE OBVIOUS
<1>6. t \in Nat /\ t >= 1 /\ PropSize = 3 * t /\ PropSize \in Nat /\ 2 * t = t + t /\ PropSize = t + t + t
    BY Constants DEF PropSize
<1>7. l \in Nat BY LenProperties
<1>8. b.struct \in Nat /\ b.nstruct \in Nat BY LayoutIs, Fields
<1>9. e = Write(s, b.struct + v, Bytes(value)) /\ s = Write(u, b.struct + w, Word(len))
  <2>a. PICK g : g = b.struct OBVIOUS
  <2>b. PICK h : h = PropSize OBVIOUS
  <2>c. g \in Nat /\ h \in Nat BY <1>6, <1>8, <2>a, <2>b
  <2>d. g + off + h = g + x BY <1>1, <2>b, <2>c
  <2>e. g + off + h + at = g + v BY <1>4, <2>b, <2>c
  <2>f. g + off + t = g + w BY <1>5, <1>6, <2>c
  <2>1. b.struct + off + PropSize = b.struct + x /\ b.struct + off + PropSize + at = b.struct + v
        /\ b.struct + off + TAGSIZE = b.struct + w
      BY <2>a, <2>b, <2>d, <2>e, <2>f
  <2>2. e = Write(Write(SpliceStruct(b, b.struct + off + PropSize, old, new).blob,
                        b.struct + off + TAGSIZE, Word(len)),
                  b.struct + off + PropSize + at, Bytes(value))
      BY DEF Resized
  <2> QED BY <1>2, <1>3, <2>1, <2>2
<1> HIDE DEF l, t
<1>10. /\ x \in Nat /\ w \in Nat /\ v \in Nat /\ y \in Nat /\ end \in Nat /\ x + old = y /\ x + new = end
       /\ off <= w /\ off <= x /\ x <= v /\ w <= x /\ w + t <= end /\ v + l <= end
       /\ w + t = off + 2 * t /\ w + t <= x /\ end = y + (new - old) /\ new - old \in Int
    BY <1>1, <1>4, <1>5, <1>6, <1>7 DEF l, t
<1> HIDE DEF y, end
<1>11. /\ SpliceStruct(b, b.struct + x, old, new) = Ok(u)
       /\ Layout(u) /\ SameFront(b, u) /\ u.total = b.total
       /\ u.nstrings = b.nstrings /\ MoreStrings(b, u)
       /\ Edited(b, u, x, x + old, new - old)
  <2>1. x + old <= b.nstruct BY <1>1
  <2> QED BY <1>2, <1>10, <2>1, SpliceStructIs
<1>12. u.struct = b.struct /\ u.nstruct = b.nstruct + (new - old) BY <1>11 DEF SameFront, Edited
<1>13. end <= u.nstruct
  <2>1. y <= b.nstruct BY DEF y
  <2> QED BY <1>8, <1>10, <1>12, <2>1
<1>14. Written(u, w, t, Word(len), s) BY <1>9, <1>12, WordIs DEF Written, t
<1>15. /\ Layout(s) /\ SameFront(u, s) /\ s.total = u.total
       /\ s.nstrings = u.nstrings /\ MoreStrings(u, s)
       /\ Edited(u, s, w, end, 0)
       /\ \A z \in 0 .. t - 1 : StructAt(s, w + z) = Word(len)[z + 1]
       /\ \A z \in w + t .. u.nstruct - 1 : StructAt(s, z) = StructAt(u, z)
  <2>1. PICK bytes : bytes = Word(len) OBVIOUS
  <2>2. Written(u, w, t, bytes, s) BY <1>14, <2>1
  <2>3. Layout(u) /\ w \in Nat /\ end \in Nat /\ end <= u.nstruct /\ t \in Nat /\ w + t <= end
      BY <1>6, <1>10, <1>11, <1>13
  <2>4. /\ Layout(s) /\ SameFront(u, s) /\ s.total = u.total
        /\ s.nstrings = u.nstrings /\ MoreStrings(u, s)
        /\ Edited(u, s, w, end, 0)
        /\ \A z \in 0 .. t - 1 : StructAt(s, w + z) = bytes[z + 1]
        /\ \A z \in w + t .. u.nstruct - 1 : StructAt(s, z) = StructAt(u, z)
      BY <2>2, <2>3, WriteStructIs
  <2> QED BY <2>1, <2>4
<1>16. s.struct = b.struct /\ s.nstruct = u.nstruct /\ u.nstruct \in Nat
  <2>1. s.nstruct = u.nstruct + 0 BY <1>15 DEF Edited
  <2>2. u.nstruct \in Nat BY <1>11, LayoutIs, Fields
  <2> QED BY <1>12, <1>15, <2>1, <2>2 DEF SameFront
<1>17. Written(s, v, l, Bytes(value), e) BY <1>9, <1>16, BytesIs DEF Written, l
<1>18. /\ Layout(e) /\ SameFront(s, e) /\ e.total = s.total
       /\ e.nstrings = s.nstrings /\ MoreStrings(s, e)
       /\ Edited(s, e, v, end, 0)
  <2>1. PICK bytes : bytes = Bytes(value) OBVIOUS
  <2>2. Written(s, v, l, bytes, e) BY <1>17, <2>1
  <2>3. Layout(s) /\ v \in Nat /\ end \in Nat /\ end <= s.nstruct /\ l \in Nat /\ v + l <= end
      BY <1>7, <1>10, <1>13, <1>15, <1>16
  <2> QED BY <2>2, <2>3, WriteStructIs
<1>19. /\ SameFront(b, e) /\ MoreStrings(b, e) /\ e.struct = b.struct
  <2>1. SameFront(b, s) /\ MoreStrings(b, s) BY <1>11, <1>15, SameTwice
  <2>2. SameFront(b, e) /\ MoreStrings(b, e) BY <1>15, <1>18, <2>1, SameTwice
  <2> QED BY <2>2 DEF SameFront
<1>20. Edited(b, e, off, y, new - old)
  <2>1. PICK d : d = new - old OBVIOUS
  <2>2. Edited(b, u, x, y, d) /\ d \in Int /\ end = y + d BY <1>10, <1>11, <2>1
  <2>3. Edited(b, u, off, y, d)
    <3>1. y <= y BY <1>10
    <3> QED BY <1>8, <1>10, <2>2, <3>1, EditedLess
  <2>4. Edited(u, s, off, y + d, 0)
    <3>1. PICK zero : zero = 0 OBVIOUS
    <3>2. Edited(u, s, w, end, zero) BY <1>15, <3>1
    <3>3. zero \in Int /\ end <= end BY <1>10, <3>1
    <3>4. off <= w /\ off \in Nat /\ w \in Nat /\ end \in Nat BY <1>10
    <3>5. Edited(u, s, off, end, zero) BY <1>16, <3>2, <3>3, <3>4, EditedLess
    <3> QED BY <2>2, <3>1, <3>5
  <2>5. Edited(s, e, off, y + d, 0)
    <3>1. PICK zero : zero = 0 OBVIOUS
    <3>2. Edited(s, e, v, end, zero) BY <1>18, <3>1
    <3>3. zero \in Int /\ end <= end BY <1>10, <3>1
    <3>4. off \in Nat /\ v \in Nat /\ end \in Nat BY <1>10
    <3>5. off <= v BY <1>10
    <3>6. Edited(s, e, off, end, zero) BY <1>16, <3>2, <3>3, <3>4, <3>5, EditedLess
    <3> QED BY <2>2, <3>1, <3>6
  <2>6. Edited(b, s, off, y, d) BY <1>8, <1>10, <2>2, <2>3, <2>4, EditedTwice
  <2>7. Edited(b, e, off, y, d) BY <1>8, <1>10, <2>2, <2>5, <2>6, EditedTwice
  <2> QED BY <2>1, <2>7
<1>21. \A z \in 0 .. x - 1 : StructAt(u, z) = StructAt(b, z) BY <1>11 DEF Edited
<1>22. \A z \in 0 .. w - 1 : StructAt(s, z) = StructAt(u, z) BY <1>15 DEF Edited
<1>23. \A z \in 0 .. v - 1 : StructAt(e, z) = StructAt(s, z) BY <1>18 DEF Edited
<1>24. ASSUME NEW z \in off .. off + TAGSIZE - 1 PROVE StructAt(e, z) = StructAt(b, z)
  <2>1. z \in 0 .. x - 1 /\ z \in 0 .. w - 1 /\ z \in 0 .. v - 1
    <3>1. z \in 0 .. w - 1 /\ z \in Nat BY <1>5, <1>6, <1>10 DEF t
    <3> QED BY <1>10, <3>1
  <2> QED BY <1>21, <1>22, <1>23, <2>1
<1>25. ASSUME NEW z \in off + 2 * TAGSIZE .. off + PropSize - 1 PROVE StructAt(e, z) = StructAt(b, z)
  <2>1. z \in w + t .. x - 1
    <3>1. w + t = off + 2 * TAGSIZE BY <1>10 DEF t
    <3>2. PropSize \in Nat /\ x - 1 = off + PropSize - 1 BY <1>1, <1>6
    <3> QED BY <3>1, <3>2
  <2>2. z \in 0 .. x - 1 /\ z \in w + t .. u.nstruct - 1 /\ z \in 0 .. v - 1
    <3>1. x <= end BY <1>10
    <3> QED BY <1>6, <1>10, <1>13, <1>16, <2>1, <3>1
  <2>3. StructAt(s, z) = StructAt(u, z) BY <1>15, <2>2
  <2> QED BY <1>21, <1>23, <2>2, <2>3
<1>26. IsWord(e, e.struct + off + TAGSIZE, len)
  <2> SUFFICES ASSUME NEW k \in 1 .. TAGSIZE PROVE At(e, e.struct + off + TAGSIZE + k - 1) = <<len, k>>
      BY DEF IsWord
  <2>1. PICK z : z = k - 1 OBVIOUS
  <2>2. z \in 0 .. t - 1 /\ z + 1 = k BY <1>6, <2>1 DEF t
  <2>3. StructAt(s, w + z) = <<len, k>>
    <3>1. Word(len)[k] = <<len, k>> BY WordIs
    <3>2. StructAt(s, w + z) = Word(len)[z + 1] BY <1>15, <2>2
    <3> QED BY <2>2, <3>1, <3>2
  <2>4. w + z \in 0 .. v - 1 BY <1>6, <1>10, <2>2
  <2>5. StructAt(e, w + z) = <<len, k>> BY <1>23, <2>3, <2>4
  <2>6. e.struct + off + TAGSIZE + k - 1 = e.struct + (w + z)
      BY <1>5, <1>6, <1>8, <1>19, <2>1 DEF t
  <2> QED BY <2>5, <2>6 DEF StructAt
<1>27. b.struct + off + PropSize = b.struct + x BY <1>1, <1>6, <1>8
<1>28. Ok(u).err = "ok" BY OkIs
<1> QED BY <1>11, <1>18, <1>19, <1>20, <1>24, <1>25, <1>26, <1>27, <1>28 DEF ResizedBytes, y

(* A property that stands where it did, with another length.               *)
LEMMA ResizedStands ==
    ASSUME NEW b, NEW e, b.struct \in Nat, e.struct = b.struct,
           NEW m \in Mark, Stands(b, m), m.tag = FDT_PROP, NEW len \in Nat,
           ResizedBytes(b, e, m.off, len),
           NEW q, IsPropMark(q, m, m.off, len, m.name)
    PROVE  Stands(e, q)
<1> DEFINE t == TAGSIZE
           p == b.struct + m.off
<1>1. /\ q.tag = FDT_PROP /\ q.off = m.off /\ q.size = PropSize + FDT_TAGALIGN(len)
      /\ q.len = len /\ q.name = m.name
    BY DEF IsPropMark
<1>2. IsWord(b, p, FDT_PROP) /\ IsWord(b, p + 2 * TAGSIZE, m.name) BY DEF Stands
<1>3. m.off \in Nat BY MarkIs
<1>4. t \in Nat /\ 2 * TAGSIZE = t + t /\ PropSize = t + t + t /\ PropSize = 2 * TAGSIZE + t BY Constants DEF PropSize
<1>5. IsWord(e, p, FDT_PROP)
  <2>1. SameBytes(b, p, e, p, TAGSIZE)
    <3> SUFFICES ASSUME NEW k \in 0 .. TAGSIZE - 1 PROVE At(e, p + k) = At(b, p + k) BY DEF SameBytes
    <3>1. PICK z : z = m.off + k OBVIOUS
    <3>2. z \in m.off .. m.off + TAGSIZE - 1 /\ p + k = b.struct + z BY <1>3, <1>4, <3>1
    <3>3. StructAt(e, z) = StructAt(b, z) BY <3>2 DEF ResizedBytes
    <3> QED BY <3>2, <3>3 DEF StructAt
  <2>2. p \in Int BY <1>3
  <2> QED BY <1>2, <2>1, <2>2, SameIsWord
<1>6. IsWord(e, p + 2 * TAGSIZE, m.name)
  <2> DEFINE u == p + 2 * TAGSIZE
  <2>1. SameBytes(b, u, e, u, TAGSIZE)
    <3> SUFFICES ASSUME NEW k \in 0 .. TAGSIZE - 1 PROVE At(e, u + k) = At(b, u + k) BY DEF SameBytes
    <3>1. PICK z : z = m.off + 2 * TAGSIZE + k OBVIOUS
    <3>2. z \in m.off + 2 * TAGSIZE .. m.off + PropSize - 1 /\ u + k = b.struct + z BY <1>3, <1>4, <3>1
    <3>3. StructAt(e, z) = StructAt(b, z) BY <3>2 DEF ResizedBytes
    <3> QED BY <3>2, <3>3 DEF StructAt
  <2>2. u \in Int BY <1>3, <1>4
  <2>3. IsWord(b, u, m.name) BY <1>2
  <2> HIDE DEF u
  <2>4. IsWord(e, u, m.name) BY <2>1, <2>2, <2>3, SameIsWord
  <2> QED BY <2>4 DEF u
<1>7. IsWord(e, p + TAGSIZE, len) BY DEF ResizedBytes
<1>8. FDT_PROP # FDT_BEGIN_NODE /\ FDT_PROP \notin {FDT_END_NODE, FDT_NOP, FDT_END} BY TagsDiffer
<1> QED BY <1>1, <1>5, <1>6, <1>7, <1>8 DEF Stands

(* fdt_resize_property_, and the write of the data.                        *)
ResizeNeed(b, r, j, len) == FDT_TAGALIGN(len) - FDT_TAGALIGN(PropLen(b, r, j))

(* With room for the difference.                                           *)
LEMMA ResizePropertyFits ==
    ASSUME NEW b, Good(b), NEW M, NEW r, Reading(b, M, r), NEW j \in 1 .. Len(r), r[j].tag = FDT_PROP,
           NEW len \in Nat, NEW at \in Nat, NEW value \in Values, at + Len(value) <= len,
           Fits(b, ResizeNeed(b, r, j, len)),
           NEW s, s = ResizeProperty(b, r, j, len, at, value)
    PROVE  s.err = "ok" /\ Good(s.blob)
<1>1. Layout(b) /\ Marks(b, M) BY ReadingIs
<1>2. PICK m : m = MarkFor(M, r[j]) OBVIOUS
<1>3. PICK before, after :
         /\ Bridged(b, M, before, after, m.off, End(m))
         /\ before.depth \in Nat /\ before.depth >= 1
         /\ Follows(before, m) /\ Follows(m, after)
         /\ m \in M /\ m.off = r[j].off /\ m.tag = FDT_PROP /\ m.depth \in Nat /\ m.depth >= 1
    BY <1>2, PropSite
<1>4. PropLen(b, r, j) = m.len /\ m.open BY <1>2, PropIs
<1>5. /\ m \in Mark /\ Stands(b, m) /\ HasName(b, m) /\ End(m) <= b.nstruct
      /\ m.off \in Nat /\ End(m) = m.off + m.size /\ m.len \in Nat /\ m.name \in Nat
    BY <1>1, <1>3, MarkPlace
<1>6. m.size = PropSize + FDT_TAGALIGN(m.len) BY <1>3, <1>5 DEF Stands
<1> DEFINE old == FDT_TAGALIGN(m.len)
           new == FDT_TAGALIGN(len)
           off == m.off
           y == off + PropSize + old
           e == Write(Write(SpliceStruct(b, b.struct + off + PropSize, old, new).blob,
                            b.struct + off + TAGSIZE, Word(len)),
                      b.struct + off + PropSize + at, Bytes(value))
<1>7. PropSize \in Nat /\ old \in Nat /\ new \in Nat /\ len <= new
  <2>1. old \in Nat /\ new \in Nat /\ len <= new BY <1>5, AlignIs
  <2>2. PropSize \in Nat BY Constants DEF PropSize
  <2> QED BY <2>1, <2>2
<1>8. value \in Seq(Int) /\ Len(value) \in Nat BY ValueBytes
<1>9. s = IF SpliceStruct(b, b.struct + off + PropSize, old, new).err # "ok"
          THEN SpliceStruct(b, b.struct + off + PropSize, old, new)
          ELSE Ok(e)
  <2>1. PICK n : n = PropLen(b, r, j) OBVIOUS
  <2>2. PICK o : o = r[j].off OBVIOUS
  <2>3. n = m.len /\ o = off BY <1>3, <1>4, <2>1, <2>2
  <2>4. s = IF SpliceStruct(b, b.struct + o + PropSize, FDT_TAGALIGN(n), FDT_TAGALIGN(len)).err # "ok"
            THEN SpliceStruct(b, b.struct + o + PropSize, FDT_TAGALIGN(n), FDT_TAGALIGN(len))
            ELSE Ok(Write(Write(SpliceStruct(b, b.struct + o + PropSize, FDT_TAGALIGN(n), FDT_TAGALIGN(len)).blob,
                                b.struct + o + TAGSIZE, Word(len)),
                          b.struct + o + PropSize + at, Bytes(value)))
      BY <2>1, <2>2 DEF ResizeProperty
  <2> QED BY <2>3, <2>4
<1>10. Resized(b, off, old, new, len, at, value, e) BY DEF Resized
<1>11. Fits(b, new - old) BY <1>4 DEF ResizeNeed
<1>12. new = FDT_TAGALIGN(len) /\ old = FDT_TAGALIGN(m.len) /\ off = m.off OBVIOUS
<1>13. End(m) = y /\ y <= b.nstruct /\ y \in Nat /\ off \in Nat /\ off <= y BY <1>5, <1>6, <1>7
<1>14. at + Len(value) <= new BY <1>7, <1>8
<1>15. PICK f : f = e OBVIOUS
<1> HIDE DEF old, new, off, e
<1>16. /\ Layout(f) /\ SameFront(b, f) /\ MoreStrings(b, f) /\ f.struct = b.struct
       /\ SpliceStruct(b, b.struct + off + PropSize, old, new).err = "ok"
       /\ Edited(b, f, off, y, new - old)
       /\ ResizedBytes(b, f, off, len)
  <2>1. off + PropSize + old <= b.nstruct BY <1>13
  <2>2. Resized(b, off, old, new, len, at, value, f) BY <1>10, <1>15
  <2> QED BY <1>1, <1>7, <1>8, <1>11, <1>13, <1>14, <2>1, <2>2, ResizedIs
<1>17. PICK q : q = PropMark(m, off, len, m.name) OBVIOUS
<1>18. IsPropMark(q, m, m.off, len, m.name) BY <1>5, <1>12, <1>17, PropMarkIs
<1>19. /\ q \in Mark /\ q.off = off /\ q.size = PropSize + new /\ q.tag = FDT_PROP /\ q.name = m.name
       /\ q.depth = m.depth /\ q.open = TRUE /\ End(q) = off + (PropSize + new) /\ Opens(q)
    BY <1>12, <1>18 DEF IsPropMark
<1>20. b.struct \in Nat /\ b.nstrings \in Nat /\ b.strings \in Nat BY <1>1, LayoutIs, Fields
<1>21. f.strings \in Nat /\ f.nstrings \in Nat BY <1>16, LayoutIs, Fields
<1>22. Stands(f, q)
  <2>1. ResizedBytes(b, f, m.off, len) BY <1>12, <1>16
  <2> QED BY <1>3, <1>5, <1>16, <1>18, <1>20, <2>1, ResizedStands
<1>23. HasName(f, q)
  <2>1. HasName(f, m) BY <1>5, <1>16, <1>20, <1>21, SameName
  <2> QED BY <1>3, <1>19, <2>1 DEF HasName
<1>24. Follows(before, q) BY <1>3, <1>4, <1>19, FollowedLike
<1>25. Follows(q, after) BY <1>3, <1>4, <1>19, FollowsLike
<1>26. End(q) - y = new - old BY <1>7, <1>13, <1>19
<1>27. Multiple(new - old)
  <2>1. Multiple(old) /\ Multiple(new) BY <1>5, <1>12, MultipleAlign
  <2> QED BY <2>1, MultipleMinus
<1>28. Aligned(off) BY <1>1, <1>3, <1>12, AlignedEnd
<1>29. Site(M, before, after, off, y) BY <1>3, <1>12, <1>13 DEF Bridged
<1> HIDE DEF y
<1>30. \E N : Marks(f, N)
  <2>1. q.depth >= 1 /\ q.tag # FDT_END BY <1>3, <1>19, TagsDiffer
  <2>2. Multiple(End(q) - y) /\ Edited(b, f, off, y, End(q) - y) BY <1>16, <1>26, <1>27
  <2> QED BY <1>1, <1>13, <1>16, <1>19, <1>22, <1>23, <1>24, <1>25, <1>28, <1>29, <2>1, <2>2, MarksPut
<1>31. Good(f) BY <1>16, <1>30, GoodEdited
<1>32. s = Ok(f) BY <1>9, <1>15, <1>16
<1> QED BY <1>31, <1>32, OkIs

(* fdt_resize_property_ fails only for want of room, before it changes     *)
(* anything.                                                               *)
LEMMA ResizePropertyTries ==
    ASSUME NEW b, Good(b), NEW M, NEW r, Reading(b, M, r), NEW j \in 1 .. Len(r), r[j].tag = FDT_PROP,
           NEW len \in Nat, NEW at \in Nat, NEW value \in Values, at + Len(value) <= len,
           NEW s, s = ResizeProperty(b, r, j, len, at, value)
    PROVE  Tries(b, s, ResizeNeed(b, r, j, len))
<1>1. CASE Fits(b, ResizeNeed(b, r, j, len))
  <2>1. s.err = "ok" /\ Good(s.blob) BY <1>1, ResizePropertyFits
  <2> QED BY <2>1 DEF Tries
<1>2. CASE ~Fits(b, ResizeNeed(b, r, j, len))
  <2> DEFINE u == SpliceStruct(b, b.struct + r[j].off + PropSize, FDT_TAGALIGN(PropLen(b, r, j)), FDT_TAGALIGN(len))
  <2>1. u = Error(b, "nospace") BY <1>2 DEF SpliceStruct, ResizeNeed
  <2>2. u.err = "nospace" /\ u.blob = b BY <2>1, ErrorIs DEF Answers
  <2>3. s = u BY <2>2 DEF ResizeProperty
  <2>4. Kept(b, b) BY KeptItself DEF Good
  <2> HIDE DEF u
  <2> QED BY <1>2, <2>2, <2>3, <2>4 DEF Tries
<1> QED BY <1>1, <1>2

-----------------------------------------------------------------------------
(* fdt_setprop and fdt_appendprop.                                         *)
SetNeed(b, r, path, name, value) ==
    LET old == Named(b, r, NodeAt(r, path), name)
    IN  IF old = {} THEN PropertyNeed(name, value) ELSE ResizeNeed(b, r, Least(old), Len(value))

(* fdt_setprop fails only for want of room, and nothing that can be read   *)
(* changes.                                                                *)
LEMMA SetPropTries ==
    ASSUME NEW b, Good(b), NEW M, NEW r, Reading(b, M, r), NEW path \in PathsOf(r),
           NEW name \in Names, NEW value \in Values, NEW s, s = SetProp(b, r, path, name, value)
    PROVE  Tries(b, s, SetNeed(b, r, path, name, value))
<1>1. PICK i : i = NodeAt(r, path) OBVIOUS
<1>2. PICK m : m = MarkFor(M, r[i]) OBVIOUS
<1>3. i \in 1 .. Len(r) - 1 /\ r[i].tag = FDT_BEGIN_NODE BY <1>1, <1>2, PathIs
<1>4. PICK old : old = Named(b, r, i, name) OBVIOUS
<1>5. PICK l : l = Len(name) OBVIOUS
<1>6. SubSeq(name, 1, l) = name BY <1>5, KeyIs
<1>7. s = IF old = {} THEN AddProperty(b, r, i, name, l, value)
          ELSE ResizeProperty(b, r, Least(old), Len(value), 0, value)
    BY <1>1, <1>4, <1>5, <1>6 DEF SetProp, SetpropNamelen
<1>8. SetNeed(b, r, path, name, value) =
          IF old = {} THEN PropertyNeed(name, value) ELSE ResizeNeed(b, r, Least(old), Len(value))
    BY <1>1, <1>4 DEF SetNeed
<1>9. CASE old = {}
  <2>1. s = AddProperty(b, r, i, name, l, value) BY <1>7, <1>9
  <2>2. Tries(b, s, PropertyNeed(name, value)) BY <1>3, <1>5, <2>1, AddPropertyTries
  <2> QED BY <1>8, <1>9, <2>2
<1>10. CASE old # {}
  <2>1. PICK j : j = Least(old) OBVIOUS
  <2>2. j \in 1 .. Len(r) /\ r[j].tag = FDT_PROP BY <1>4, <1>10, <2>1, NamedIs
  <2>3. PICK len : len = Len(value) OBVIOUS
  <2>4. PICK at : at = 0 OBVIOUS
  <2>5. len \in Nat /\ at \in Nat /\ at + Len(value) <= len
    <3>1. Len(value) \in Nat BY ValueBytes
    <3> QED BY <2>3, <2>4, <3>1
  <2>6. s = ResizeProperty(b, r, j, len, at, value) BY <1>7, <1>10, <2>1, <2>3, <2>4
  <2>7. Tries(b, s, ResizeNeed(b, r, j, len)) BY <2>2, <2>5, <2>6, ResizePropertyTries
  <2> QED BY <1>8, <1>10, <2>1, <2>3, <2>7
<1> QED BY <1>9, <1>10

(* Such a call is a fine one.                                              *)
LEMMA TriesIsFine ==
    ASSUME NEW b, NEW s, NEW need, Tries(b, s, need)
    PROVE  Fine(s)
<1> QED BY DEF Tries, Fine, Answers

(* fdt_appendprop, of the old value and the new.                           *)
LEMMA GoodAppendProp ==
    ASSUME NEW b, Good(b), NEW M, NEW r, Reading(b, M, r), NEW path \in PathsOf(r),
           NEW name \in Names, NEW value \in Values
    PROVE  Fine(AppendProp(b, r, path, name, value))
<1>1. PICK i : i = NodeAt(r, path) OBVIOUS
<1>2. PICK m : m = MarkFor(M, r[i]) OBVIOUS
<1>3. i \in 1 .. Len(r) - 1 /\ r[i].tag = FDT_BEGIN_NODE BY <1>1, <1>2, PathIs
<1>4. PICK old : old = Named(b, r, i, name) OBVIOUS
<1>5. PICK l : l = Len(name) OBVIOUS
<1>6. PICK j : j = Least(old) OBVIOUS
<1>7. PICK at : at = PropLen(b, r, j) OBVIOUS
<1>8. PICK s : s = AppendProp(b, r, path, name, value) OBVIOUS
<1>9. s = IF old = {} THEN AddProperty(b, r, i, name, l, value)
          ELSE ResizeProperty(b, r, j, at + Len(value), at, value)
    BY <1>1, <1>4, <1>5, <1>6, <1>7, <1>8 DEF AppendProp
<1>10. CASE old = {}
  <2>1. s = AddProperty(b, r, i, name, l, value) BY <1>9, <1>10
  <2>2. Tries(b, s, PropertyNeed(name, value)) BY <1>3, <1>5, <2>1, AddPropertyTries
  <2> QED BY <1>8, <2>2, TriesIsFine
<1>11. CASE old # {}
  <2>1. j \in 1 .. Len(r) /\ r[j].tag = FDT_PROP BY <1>4, <1>6, <1>11, NamedIs
  <2>2. PICK n : n = MarkFor(M, r[j]) OBVIOUS
  <2>3. at = n.len /\ n \in M BY <1>7, <2>1, <2>2, PropIs
  <2>4. at \in Nat
    <3>1. Marks(b, M) BY ReadingIs
    <3> QED BY <2>3, <3>1, MarkPlace
  <2>5. PICK len : len = at + Len(value) OBVIOUS
  <2>6. len \in Nat /\ at + Len(value) <= len
    <3>1. Len(value) \in Nat BY ValueBytes
    <3> QED BY <2>4, <2>5, <3>1
  <2>7. s = ResizeProperty(b, r, j, len, at, value) BY <1>9, <1>11, <2>5
  <2>8. Tries(b, s, ResizeNeed(b, r, j, len)) BY <2>1, <2>4, <2>6, <2>7, ResizePropertyTries
  <2> QED BY <1>8, <2>8, TriesIsFine
<1> QED BY <1>10, <1>11

(* A reallocation changes nothing but the room there is.                   *)
LEMMA LargerIs ==
    ASSUME NEW b, Good(b), NEW M, NEW r, Reading(b, M, r), NEW d \in Nat, NEW c, c = ReallocFdt(b, d)
    PROVE  /\ Good(c) /\ Reading(c, M, r) /\ Read(c) = r /\ Layout(c) /\ SameStruct(b, c) /\ MoreStrings(b, c)
           /\ DataSize(c) = DataSize(b) /\ c.total = b.total + d /\ \A need \in Int : need <= d => Fits(c, need)
<1>1. Layout(b) BY ReadingIs
<1>2. b.total \in Nat /\ b.nstrings \in Nat /\ b.strings \in Nat /\ b.strings + b.nstrings <= b.total
    BY <1>1, LayoutIs, Fields
<1>3. PICK size : size = b.total + d OBVIOUS
<1>4. size \in Nat /\ size >= b.total BY <1>2, <1>3
<1>5. c = OpenInto(b, size) BY <1>3 DEF ReallocFdt
<1>6. Good(c) BY <1>4, <1>5, GoodOpenInto
<1>7. /\ Layout(c) /\ SameFront(b, c) /\ SameStruct(b, c) /\ MoreStrings(b, c)
      /\ c.total = size /\ SameData(b, c) /\ c.nstrings = b.nstrings
    BY <1>1, <1>4, <1>5, OpenIntoIs
<1>8. Reading(c, M, Read(c)) /\ Read(c) = r BY <1>7, SameRead
<1>9. c.strings = b.strings BY <1>7 DEF SameData
<1>10. DataSize(c) = b.strings + b.nstrings /\ DataSize(b) = b.strings + b.nstrings BY <1>7, <1>9 DEF DataSize
<1>11. ASSUME NEW need \in Int, need <= d PROVE Fits(c, need) BY <1>2, <1>3, <1>7, <1>10, <1>11 DEF Fits
<1> QED BY <1>3, <1>6, <1>7, <1>8, <1>10, <1>11

(* fdtput store_key_value.                                                 *)
LEMMA ReallocPropertyIs ==
    ASSUME NEW b, Good(b), NEW M, NEW r, Reading(b, M, r), NEW path \in PathsOf(r),
           NEW name \in Names, NEW value \in Values,
           NEW c, c = ReallocProperty(b, r, path, name, Len(value))
    PROVE  /\ Good(c) /\ Reading(c, M, r) /\ Read(c) = r
           /\ Fits(c, SetNeed(c, r, path, name, value))
<1>1. PICK i : i = NodeAt(r, path) OBVIOUS
<1>2. PICK old : old = Named(b, r, i, name) OBVIOUS
<1>3. PICK j : j = Least(old) OBVIOUS
<1>4. PICK oldlen : oldlen = PropLen(b, r, j) OBVIOUS
<1>5. PICK newlen : newlen = Len(value) OBVIOUS
<1>6. newlen \in Nat BY <1>5, ValueBytes
<1>7. PICK d : d = IF old = {} THEN PropSize + Len(name) + 1 + FDT_TAGALIGN(newlen)
                  ELSE IF newlen > oldlen THEN FDT_TAGALIGN(newlen) - FDT_TAGALIGN(oldlen)
                  ELSE 0 OBVIOUS
<1>8. c = ReallocFdt(b, d) BY <1>1, <1>2, <1>3, <1>4, <1>5, <1>7 DEF ReallocProperty
<1>9. PICK need : need = SetNeed(c, r, path, name, value) OBVIOUS
<1>10. Layout(b) BY DEF Good
<1>11. FDT_TAGALIGN(newlen) \in Nat BY <1>6, AlignIs
<1>12. CASE old = {}
  <2>1. d = PropertyNeed(name, value) BY <1>5, <1>7, <1>12 DEF PropertyNeed
  <2>2. d \in Nat
    <3>1. Len(name) \in Nat BY NameBytes
    <3>2. PropSize \in Nat BY Constants DEF PropSize
    <3> QED BY <1>7, <1>11, <1>12, <3>1, <3>2
  <2>3. /\ Good(c) /\ Reading(c, M, r) /\ Read(c) = r /\ Layout(c) /\ SameStruct(b, c) /\ MoreStrings(b, c)
        /\ \A n \in Int : n <= d => Fits(c, n)
      BY <1>8, <2>2, LargerIs
  <2>4. Named(c, r, i, name) = {}
    <3>1. Layout(c) /\ SameStruct(b, c) /\ MoreStrings(b, c) BY <2>3
    <3>2. Named(c, r, i, name) = Named(b, r, i, name) BY <3>1, SameNames
    <3> QED BY <1>2, <1>12, <3>2
  <2>5. need = d BY <1>1, <1>9, <2>1, <2>4 DEF SetNeed
  <2>6. d \in Int /\ d <= d BY <2>2
  <2> QED BY <1>9, <2>3, <2>5, <2>6
<1>13. CASE old # {}
  <2>1. j \in old /\ j \in Props(r) /\ j \in 1 .. Len(r) /\ r[j].tag = FDT_PROP BY <1>2, <1>3, <1>13, NamedIs
  <2>2. PICK n : n = MarkFor(M, r[j]) OBVIOUS
  <2>3. oldlen = n.len /\ n \in M BY <1>4, <2>1, <2>2, PropIs
  <2>4. oldlen \in Nat
    <3>1. Marks(b, M) BY ReadingIs
    <3> QED BY <2>3, <3>1, MarkPlace
  <2>5. FDT_TAGALIGN(oldlen) \in Nat BY <2>4, AlignIs
  <2>6. d \in Nat /\ FDT_TAGALIGN(newlen) - FDT_TAGALIGN(oldlen) <= d
    <3>1. CASE newlen > oldlen
      <4>1. FDT_TAGALIGN(oldlen) <= FDT_TAGALIGN(newlen)
        <5>1. oldlen <= newlen BY <1>6, <2>4, <3>1
        <5> QED BY <1>6, <2>4, <5>1, AlignMonotonic
      <4>2. d = FDT_TAGALIGN(newlen) - FDT_TAGALIGN(oldlen) BY <1>7, <1>13, <3>1
      <4> QED BY <1>11, <2>5, <4>1, <4>2
    <3>2. CASE ~(newlen > oldlen)
      <4>1. FDT_TAGALIGN(newlen) <= FDT_TAGALIGN(oldlen)
        <5>1. newlen <= oldlen BY <1>6, <2>4, <3>2
        <5> QED BY <1>6, <2>4, <5>1, AlignMonotonic
      <4>2. d = 0 BY <1>7, <1>13, <3>2
      <4> QED BY <1>11, <2>5, <4>1, <4>2
    <3> QED BY <3>1, <3>2
  <2>7. /\ Good(c) /\ Reading(c, M, r) /\ Read(c) = r /\ Layout(c) /\ SameStruct(b, c) /\ MoreStrings(b, c)
        /\ \A k \in Int : k <= d => Fits(c, k)
      BY <1>8, <2>6, LargerIs
  <2>8. Named(c, r, i, name) = old /\ PropLen(c, r, j) = oldlen
      BY <1>2, <1>4, <2>1, <2>7, SameNames
  <2>9. need = FDT_TAGALIGN(newlen) - FDT_TAGALIGN(oldlen)
      BY <1>1, <1>3, <1>5, <1>9, <1>13, <2>8 DEF SetNeed, ResizeNeed
  <2>10. need \in Int /\ need <= d BY <1>11, <2>5, <2>6, <2>9
  <2> QED BY <1>9, <2>7, <2>10
<1> QED BY <1>12, <1>13

(* It never fails: what realloc_property adds is enough the second time.   *)
LEMMA StoreKeyValueIs ==
    ASSUME NEW b, Good(b), NEW M, NEW r, Reading(b, M, r), NEW path \in PathsOf(r),
           NEW name \in Names, NEW value \in Values, NEW s, s = StoreKeyValue(b, r, path, name, value)
    PROVE  s.err = "ok" /\ Good(s.blob)
<1>1. PICK u : u = SetProp(b, r, path, name, value) OBVIOUS
<1>2. PICK need : need = SetNeed(b, r, path, name, value) OBVIOUS
<1>3. Tries(b, u, need) BY <1>1, <1>2, SetPropTries
<1>4. CASE u.err # "nospace"
  <2>1. s = u BY <1>1, <1>4 DEF StoreKeyValue
  <2> QED BY <1>3, <1>4, <2>1 DEF Tries
<1>5. CASE u.err = "nospace"
  <2>1. PICK c : c = u.blob OBVIOUS
  <2>2. Kept(b, c) /\ Good(c) BY <1>3, <1>5, <2>1 DEF Tries
  <2>3. Layout(c) /\ SameStruct(b, c) /\ MoreStrings(b, c) BY <2>2 DEF Kept
  <2>4. Reading(c, M, r) /\ Read(c) = r BY <2>3, SameRead
  <2>5. PICK again : again = ReallocProperty(c, r, path, name, Len(value)) OBVIOUS
  <2>6. Good(again) /\ Reading(again, M, r) /\ Read(again) = r /\ Fits(again, SetNeed(again, r, path, name, value))
      BY <2>2, <2>4, <2>5, ReallocPropertyIs
  <2>7. s = SetProp(again, r, path, name, value)
      BY <1>1, <1>5, <2>1, <2>4, <2>5, <2>6 DEF StoreKeyValue
  <2>8. Tries(again, s, SetNeed(again, r, path, name, value)) BY <2>6, <2>7, SetPropTries
  <2> QED BY <2>6, <2>8 DEF Tries
<1> QED BY <1>4, <1>5

-----------------------------------------------------------------------------
(* Two parts, and four, put together.                                      *)
Joins(m, n, s, u, l, v) ==
    /\ l = m + n /\ v \in [1 .. l -> Byte]
    /\ \A x \in 1 .. m : v[x] = s[x]
    /\ \A x \in 1 .. n : v[m + x] = u[x]

(* Two parts put together, by length.                                      *)
LEMMA JoinsIs ==
    ASSUME NEW m \in Nat, NEW n \in Nat, NEW s \in [1 .. m -> Byte], NEW u \in [1 .. n -> Byte]
    PROVE  Joins(m, n, s, u, m + n, s \o u)
<1>1. PICK l : l = m + n OBVIOUS
<1>2. /\ s \o u \in [1 .. l -> Byte]
      /\ \A x \in 1 .. m : (s \o u)[x] = s[x]
      /\ \A x \in 1 .. n : (s \o u)[m + x] = u[x]
    BY <1>1, JoinBytes
<1> QED BY <1>1, <1>2 DEF Joins

(* Four, by their places.                                                  *)
LEMMA JoinFour ==
    ASSUME NEW t \in Nat, NEW l \in Nat, NEW g \in Nat,
           NEW w1, NEW w2, NEW w3, NEW w4, NEW u2, NEW u3, NEW u4, NEW v2, NEW v3, NEW v4,
           Joins(t, l, w1, w2, v2, u2), Joins(v2, g, u2, w3, v3, u3), Joins(v3, t, u3, w4, v4, u4)
    PROVE  /\ \A x \in 1 .. t : u4[x] = w1[x]
           /\ \A x \in 1 .. l : u4[t + x] = w2[x]
           /\ \A x \in 1 .. g : u4[v2 + x] = w3[x]
           /\ \A x \in 1 .. t : u4[v3 + x] = w4[x]
           /\ u4 \in [1 .. v4 -> Byte]
<1>1. v2 = t + l /\ v3 = v2 + g /\ v4 = v3 + t BY DEF Joins
<1>2. /\ \A x \in 1 .. t : u2[x] = w1[x]
      /\ \A x \in 1 .. l : u2[t + x] = w2[x]
    BY DEF Joins
<1>3. /\ \A x \in 1 .. v2 : u3[x] = u2[x]
      /\ \A x \in 1 .. g : u3[v2 + x] = w3[x]
    BY DEF Joins
<1>4. /\ u4 \in [1 .. v4 -> Byte]
      /\ \A x \in 1 .. v3 : u4[x] = u3[x]
      /\ \A x \in 1 .. t : u4[v3 + x] = w4[x]
    BY DEF Joins
<1>5. ASSUME NEW x \in 1 .. t PROVE u4[x] = w1[x]
  <2>1. x \in 1 .. v2 /\ x \in 1 .. v3 BY <1>1
  <2> QED BY <1>2, <1>3, <1>4, <2>1
<1>6. ASSUME NEW x \in 1 .. l PROVE u4[t + x] = w2[x]
  <2>1. t + x \in 1 .. v2 /\ t + x \in 1 .. v3 BY <1>1
  <2> QED BY <1>2, <1>3, <1>4, <2>1
<1>7. ASSUME NEW x \in 1 .. g PROVE u4[v2 + x] = w3[x]
  <2>1. v2 + x \in 1 .. v3 BY <1>1
  <2> QED BY <1>3, <1>4, <2>1
<1> QED BY <1>4, <1>5, <1>6, <1>7

(* A node with nothing in it.                                              *)
NodeBytes(name, size) ==
    Word(FDT_BEGIN_NODE) \o Bytes(name) \o Times(NUL, size - Len(name)) \o Word(FDT_END_NODE)

(* The bytes of a new node, its name padded with NULs.                     *)
LEMMA NodeBytesIs ==
    ASSUME NEW name \in Names, NEW l, l = Len(name), NEW size \in Nat, size >= l + 1,
           NEW bytes, bytes = NodeBytes(name, size)
    PROVE  /\ l \in Nat /\ bytes \in [1 .. TAGSIZE + size + TAGSIZE -> Byte]
           /\ \A k \in 1 .. TAGSIZE : bytes[0 + k] = <<FDT_BEGIN_NODE, k>>
           /\ \A k \in 1 .. l : bytes[TAGSIZE + k] # NUL /\ bytes[TAGSIZE + k] = <<name[k], 0>>
           /\ bytes[TAGSIZE + l + 1] = NUL
           /\ \A k \in 1 .. TAGSIZE : bytes[(TAGSIZE + size) + k] = <<FDT_END_NODE, k>>
<1> DEFINE t == TAGSIZE
           w1 == Word(FDT_BEGIN_NODE)
           w2 == Bytes(name)
           w3 == Times(NUL, size - l)
           w4 == Word(FDT_END_NODE)
           u2 == w1 \o w2
           u3 == u2 \o w3
           u4 == u3 \o w4
<1>1. t \in Nat /\ t >= 1 BY Constants
<1>2. w1 \in [1 .. t -> Byte] /\ \A k \in 1 .. t : w1[k] = <<FDT_BEGIN_NODE, k>> BY WordIs, TagsDiffer
<1>3. /\ l \in Nat /\ name \in Seq(Int) /\ \A k \in 1 .. l : <<name[k], 0>> # NUL BY NameBytes
<1>4. w2 \in [1 .. l -> Byte] /\ \A k \in 1 .. l : w2[k] = <<name[k], 0>> BY <1>3, BytesIs
<1>5. PICK g : g = size - l OBVIOUS
<1>6. g \in Nat /\ g >= 1 /\ size = l + g BY <1>3, <1>5
<1>7. w3 \in [1 .. g -> Byte] /\ \A k \in 1 .. g : w3[k] = NUL
  <2>1. NUL \in Byte BY DEF NUL, Byte
  <2>2. w3 = [k \in 1 .. g |-> NUL] BY <1>5 DEF Times
  <2> QED BY <2>1, <2>2
<1>8. w4 \in [1 .. t -> Byte] /\ \A k \in 1 .. t : w4[k] = <<FDT_END_NODE, k>> BY WordIs, TagsDiffer
<1>9. bytes = u4 BY DEF NodeBytes
<1> HIDE DEF t, w1, w2, w3, w4, u2, u3, u4
<1>10. PICK v2 : v2 = t + l OBVIOUS
<1>11. PICK v3 : v3 = v2 + g OBVIOUS
<1>12. PICK v4 : v4 = v3 + t OBVIOUS
<1>13. v2 \in Nat /\ v3 \in Nat /\ v4 \in Nat BY <1>1, <1>3, <1>6, <1>10, <1>11, <1>12
<1>14. v3 = t + size /\ v4 = t + size + t BY <1>1, <1>3, <1>6, <1>10, <1>11, <1>12
<1>15. /\ \A x \in 1 .. t : u4[x] = w1[x]
       /\ \A x \in 1 .. l : u4[t + x] = w2[x]
       /\ \A x \in 1 .. g : u4[v2 + x] = w3[x]
       /\ \A x \in 1 .. t : u4[v3 + x] = w4[x]
       /\ u4 \in [1 .. v4 -> Byte]
  <2>1. Joins(t, l, w1, w2, v2, u2)
    <3>1. Joins(t, l, w1, w2, t + l, w1 \o w2) BY <1>1, <1>2, <1>3, <1>4, JoinsIs
    <3> QED BY <1>10, <3>1 DEF u2
  <2>2. Joins(v2, g, u2, w3, v3, u3)
    <3>1. u2 \in [1 .. v2 -> Byte] BY <2>1 DEF Joins
    <3>2. Joins(v2, g, u2, w3, v2 + g, u2 \o w3) BY <1>6, <1>7, <1>13, <3>1, JoinsIs
    <3> QED BY <1>11, <3>2 DEF u3
  <2>3. Joins(v3, t, u3, w4, v4, u4)
    <3>1. u3 \in [1 .. v3 -> Byte] BY <2>2 DEF Joins
    <3>2. Joins(v3, t, u3, w4, v3 + t, u3 \o w4) BY <1>1, <1>8, <1>13, <3>1, JoinsIs
    <3> QED BY <1>12, <3>2 DEF u4
  <2> QED BY <1>1, <1>3, <1>6, <2>1, <2>2, <2>3, JoinFour
<1>18. ASSUME NEW k \in 1 .. t PROVE u4[0 + k] = <<FDT_BEGIN_NODE, k>>
  <2>1. 0 + k = k BY <1>1
  <2> QED BY <1>2, <1>15, <2>1
<1>19. ASSUME NEW k \in 1 .. l PROVE u4[t + k] # NUL /\ u4[t + k] = <<name[k], 0>>
  <2>1. u4[t + k] = <<name[k], 0>> BY <1>4, <1>15
  <2> QED BY <1>3, <2>1
<1>20. u4[t + l + 1] = NUL
  <2>1. t + l + 1 = v2 + 1 /\ 1 \in 1 .. g BY <1>1, <1>3, <1>6, <1>10
  <2>2. u4[v2 + 1] = NUL BY <1>7, <1>15, <2>1
  <2> QED BY <2>1, <2>2
<1>21. ASSUME NEW k \in 1 .. t PROVE u4[v3 + k] = <<FDT_END_NODE, k>> BY <1>8, <1>15
<1>22. u4 \in [1 .. t + size + t -> Byte] BY <1>14, <1>15
<1>23. \A k \in 1 .. t : u4[(t + size) + k] = <<FDT_END_NODE, k>> BY <1>14, <1>21
<1> QED BY <1>3, <1>9, <1>18, <1>19, <1>20, <1>22, <1>23 DEF t

(* The marks of its two tags, behind a mark.                               *)
BeginMark(before, off, len, size) ==
    [off |-> off, size |-> TAGSIZE + size, tag |-> FDT_BEGIN_NODE, len |-> len, name |-> 0,
     depth |-> before.depth + 1, open |-> TRUE]
EndMark(before, off) ==
    [off |-> off, size |-> TAGSIZE, tag |-> FDT_END_NODE, len |-> 0, name |-> 0,
     depth |-> before.depth, open |-> FALSE]

IsBeginMark(q, before, off, len, size) ==
    /\ q \in Mark /\ q.off = off /\ q.size = TAGSIZE + size /\ q.tag = FDT_BEGIN_NODE
    /\ q.len = len /\ q.depth = before.depth + 1 /\ q.open = TRUE
    /\ End(q) = off + (TAGSIZE + size) /\ Opens(q)
IsEndMark(q, before, off) ==
    /\ q \in Mark /\ q.off = off /\ q.size = TAGSIZE /\ q.tag = FDT_END_NODE
    /\ q.depth = before.depth /\ q.open = FALSE
    /\ End(q) = off + TAGSIZE /\ Opens(q)

(* The two are marks.                                                      *)
LEMMA NodeMarksAre ==
    ASSUME NEW before \in Mark, NEW off \in Nat, NEW len \in Nat, NEW size \in Nat
    PROVE  /\ IsBeginMark(BeginMark(before, off, len, size), before, off, len, size)
           /\ IsEndMark(EndMark(before, off), before, off)
<1> DEFINE q == BeginMark(before, off, len, size)
           n == EndMark(before, off)
<1>1. TAGSIZE \in Nat /\ TAGSIZE + size \in Nat BY Constants
<1>2. FDT_BEGIN_NODE \in Tags /\ FDT_END_NODE \in Tags BY DEF Tags
<1>3. before.depth \in Nat /\ before.depth + 1 \in Nat BY DEF Mark
<1>4. PICK s : s = TAGSIZE + size OBVIOUS
<1>5. PICK d : d = before.depth + 1 OBVIOUS
<1>6. q = [off |-> off, size |-> s, tag |-> FDT_BEGIN_NODE, len |-> len, name |-> 0, depth |-> d, open |-> TRUE]
    BY <1>4, <1>5 DEF BeginMark
<1>7. /\ q \in Mark /\ q.off = off /\ q.size = s /\ q.tag = FDT_BEGIN_NODE
      /\ q.len = len /\ q.depth = d /\ q.open = TRUE
    BY <1>1, <1>2, <1>3, <1>4, <1>5, <1>6 DEF Mark
<1>8. n = [off |-> off, size |-> TAGSIZE, tag |-> FDT_END_NODE, len |-> 0, name |-> 0,
           depth |-> before.depth, open |-> FALSE]
    BY DEF EndMark
<1>9. /\ n \in Mark /\ n.off = off /\ n.size = TAGSIZE /\ n.tag = FDT_END_NODE
      /\ n.depth = before.depth /\ n.open = FALSE
    BY <1>1, <1>2, <1>3, <1>8 DEF Mark
<1> HIDE DEF q, n
<1>10. Opens(q) BY <1>7, TagsDiffer DEF Opens
<1>11. Opens(n) BY <1>9, TagsDiffer DEF Opens
<1>12. IsBeginMark(q, before, off, len, size) BY <1>4, <1>5, <1>7, <1>10 DEF End, IsBeginMark
<1>13. IsEndMark(n, before, off) BY <1>9, <1>11 DEF End, IsEndMark
<1> QED BY <1>12, <1>13 DEF q, n

(* Two new tags.                                                           *)
LEMMA MarksPutNode ==
    ASSUME NEW b, NEW c, Layout(b), Layout(c), NEW M, Marks(b, M), MoreStrings(b, c),
           NEW x \in Nat, NEW before, NEW after, Site(M, before, after, x, x),
           Follows(before, after), after.tag \notin {FDT_PROP, FDT_NOP, FDT_END},
           Aligned(x), NEW len \in Nat, NEW size \in Nat, Multiple(size), size >= len + 1,
           NEW q, IsBeginMark(q, before, x, len, size), Stands(c, q),
           NEW n, IsEndMark(n, before, End(q)), Stands(c, n),
           Edited(b, c, x, x, TAGSIZE + size + TAGSIZE)
    PROVE  \E N : Marks(c, N)
<1> DEFINE d == TAGSIZE + size + TAGSIZE
           Q == {q, n}
<1>1. TAGSIZE \in Nat /\ TAGSIZE >= 1 BY Constants
<1>2. before \in M /\ End(before) = x /\ after \in M /\ after.off = x /\ before.depth >= 1 BY DEF Site
<1>3. before \in Mark /\ before.depth \in Nat /\ after \in Mark /\ after.depth \in Nat /\ Opens(after)
    BY <1>2, MarkPlace
<1>4. /\ q \in Mark /\ q.off = x /\ q.tag = FDT_BEGIN_NODE /\ q.depth = before.depth + 1 /\ q.open = TRUE
      /\ End(q) = x + (TAGSIZE + size) /\ Opens(q)
    BY DEF IsBeginMark
<1>5. /\ n \in Mark /\ n.off = End(q) /\ n.tag = FDT_END_NODE /\ n.depth = before.depth /\ n.open = FALSE
      /\ End(n) = End(q) + TAGSIZE /\ Opens(n)
    BY DEF IsEndMark
<1>6. d \in Nat /\ x + d = End(n) /\ End(q) > x /\ End(q) <= x + d /\ x <= x + d BY <1>1, <1>4, <1>5
<1>7. Follows(before, q) BY <1>4, TagsDiffer DEF Follows
<1>8. Follows(q, n) BY <1>4, <1>5, TagsDiffer DEF Follows
<1>9. Follows(n, after)
  <2>1. after.tag \in Tags BY <1>3, MarkIs
  <2>2. after.open => after.tag = FDT_BEGIN_NODE BY <1>3, TagsDiffer DEF Opens
  <2>3. after.tag = FDT_BEGIN_NODE \/ after.tag = FDT_END_NODE BY <2>1 DEF Tags
  <2>4. CASE after.tag = FDT_BEGIN_NODE
    <3>1. after.depth = before.depth + 1 BY <2>4, TagsDiffer DEF Follows
    <3> QED BY <1>5, <2>2, <2>4, <3>1, TagsDiffer DEF Follows
  <2>5. CASE after.tag = FDT_END_NODE
    <3>1. before.depth = after.depth + 1 BY <2>5, TagsDiffer DEF Follows
    <3>2. ~after.open BY <2>2, <2>5, TagsDiffer
    <3> QED BY <1>5, <2>5, <3>1, <3>2, TagsDiffer DEF Follows
  <2> QED BY <2>3, <2>4, <2>5
<1>10. NewMarks(c, Q, x, x + d)
  <2>1. Apart(Q)
    <3> SUFFICES ASSUME NEW u \in Q, NEW v \in Q
                 PROVE (u.off < v.off => End(u) <= v.off) /\ (u.off = v.off => u = v)
        BY DEF Apart
    <3>1. q.off < n.off /\ q.off \in Nat /\ n.off \in Nat BY <1>1, <1>4, <1>5, <1>6
    <3>2. End(q) <= n.off BY <1>4, <1>5, <3>1
    <3>3. ~(n.off < q.off) /\ n.off # q.off /\ ~(q.off < q.off) /\ ~(n.off < n.off) BY <3>1
    <3> QED BY <3>2, <3>3
  <2>2. HasName(c, q) /\ HasName(c, n) BY <1>4, <1>5, TagsDiffer DEF HasName
  <2>3. Aligned(n.off)
    <3>1. Multiple(TAGSIZE + size)
      <4>1. Multiple(TAGSIZE) BY <1>1, MultipleAlign
      <4> QED BY <4>1, MultipleMinus
    <3>2. TAGSIZE + size \in Int /\ x + (TAGSIZE + size) >= 0 BY <1>1
    <3>3. Aligned(x + (TAGSIZE + size)) BY <3>1, <3>2, AlignedShift
    <3> QED BY <1>4, <1>5, <3>3
  <2>4. q.depth >= 1 /\ n.depth >= 1 /\ q.tag # FDT_END /\ n.tag # FDT_END
      BY <1>2, <1>3, <1>4, <1>5, TagsDiffer
  <2>5. x <= q.off /\ End(q) <= x + d /\ x <= n.off /\ End(n) <= x + d BY <1>1, <1>4, <1>5, <1>6
  <2> QED BY <1>4, <1>5, <2>1, <2>2, <2>3, <2>4, <2>5 DEF NewMarks
<1>11. Chain(before, Q, after, x + d)
  <2> SUFFICES ASSUME NEW u \in {before} \cup Q
               PROVE \/ \E v \in Q : v.off = End(u) /\ Follows(u, v)
                     \/ End(u) = x + d /\ Follows(u, after)
      BY DEF Chain
  <2>1. CASE u = before BY <1>2, <1>4, <1>7, <2>1
  <2>2. CASE u = q BY <1>5, <1>8, <2>2
  <2>3. CASE u = n BY <1>6, <1>9, <2>3
  <2> QED BY <2>1, <2>2, <2>3
<1>12. Multiple(d)
  <2>1. Multiple(TAGSIZE) BY <1>1, MultipleAlign
  <2>2. Multiple(TAGSIZE + size) BY <2>1, MultipleMinus
  <2> QED BY <2>1, <2>2, MultipleMinus
<1>13. Edited(b, c, x, x, d) /\ d \in Int /\ x <= x BY <1>6
<1> HIDE DEF d, Q
<1>14. Marks(c, Spliced(M, Q, x, x, d)) BY <1>6, <1>10, <1>11, <1>12, <1>13, MarksEdited
<1> QED BY <1>14

(* A name is inside the blob.                                              *)
LEMMA TextInside ==
    ASSUME NEW e, Layout(e), NEW x \in Nat, NEW size \in Nat, x + (TAGSIZE + size) <= e.nstruct,
           NEW l \in Nat, size >= l + 1, NEW p, p = e.struct + x + TAGSIZE
    PROVE  p \in Nat /\ p + l < e.total
<1>1. PICK t : t = TAGSIZE OBVIOUS
<1>2. t \in Nat /\ t >= 1 BY <1>1, Constants
<1>3. PICK a : a = e.struct OBVIOUS
<1>4. PICK n : n = e.nstruct OBVIOUS
<1>5. PICK g : g = e.strings + e.nstrings OBVIOUS
<1>6. PICK w : w = e.total OBVIOUS
<1>7. a \in Nat /\ n \in Nat /\ g \in Nat /\ w \in Nat /\ a + n <= g /\ g <= w
  <2>1. /\ e.struct \in Nat /\ e.nstruct \in Nat /\ e.strings \in Nat /\ e.nstrings \in Nat /\ e.total \in Nat
        /\ e.struct + e.nstruct <= e.strings /\ e.strings + e.nstrings <= e.total
      BY LayoutIs, Fields
  <2> QED BY <1>3, <1>4, <1>5, <1>6, <2>1
<1>8. x + (t + size) <= n /\ p = a + x + t BY <1>1, <1>3, <1>4
<1> QED BY <1>2, <1>6, <1>7, <1>8

(* The two tags stand, and the name is spelt.                              *)
NodeThere(e, x, name, size) ==
    /\ IsWord(e, e.struct + x, FDT_BEGIN_NODE)
    /\ Spells(e, e.struct + x + TAGSIZE, name)
    /\ IsWord(e, e.struct + x + (TAGSIZE + size), FDT_END_NODE)

(* The bytes of a new node are in the structure.                           *)
LEMMA NodeWritten ==
    ASSUME NEW e, e.struct \in Nat, NEW x \in Nat, NEW name \in Names, NEW l, l = Len(name),
           NEW size \in Nat, size >= l + 1, NEW n, n = TAGSIZE + size + TAGSIZE,
           NEW bytes, bytes = NodeBytes(name, size), Wrote(e, x, n, bytes)
    PROVE  NodeThere(e, x, name, size)
<1> DEFINE t == TAGSIZE
<1>1. t \in Nat /\ t >= 1 BY Constants
<1>2. /\ l \in Nat
      /\ \A k \in 1 .. TAGSIZE : bytes[0 + k] = <<FDT_BEGIN_NODE, k>>
      /\ \A k \in 1 .. l : bytes[TAGSIZE + k] = <<name[k], 0>>
      /\ bytes[TAGSIZE + l + 1] = NUL
      /\ \A k \in 1 .. TAGSIZE : bytes[(TAGSIZE + size) + k] = <<FDT_END_NODE, k>>
    BY NodeBytesIs
<1>3. n \in Nat /\ 0 + TAGSIZE <= n /\ (TAGSIZE + size) + TAGSIZE <= n /\ TAGSIZE + size \in Nat /\ 0 \in Nat
      /\ t + l + 1 <= n
    BY <1>1, <1>2
<1>4. IsWord(e, e.struct + x, FDT_BEGIN_NODE)
  <2>1. PICK at : at = 0 OBVIOUS
  <2>2. PICK w : w = FDT_BEGIN_NODE OBVIOUS
  <2>3. at \in Nat /\ at + TAGSIZE <= n /\ e.struct + x = e.struct + x + at BY <1>3, <2>1
  <2>4. \A k \in 1 .. TAGSIZE : bytes[at + k] = <<w, k>> BY <1>2, <2>1, <2>2
  <2>5. IsWord(e, e.struct + x, w) BY <1>3, <2>3, <2>4, WroteWord
  <2> QED BY <2>2, <2>5
<1>5. IsWord(e, e.struct + x + (TAGSIZE + size), FDT_END_NODE)
  <2>1. PICK at : at = TAGSIZE + size OBVIOUS
  <2>2. PICK w : w = FDT_END_NODE OBVIOUS
  <2>3. at \in Nat /\ at + TAGSIZE <= n BY <1>3, <2>1
  <2>4. \A k \in 1 .. TAGSIZE : bytes[at + k] = <<w, k>> BY <1>2, <2>1, <2>2
  <2>5. IsWord(e, e.struct + x + at, w) BY <1>3, <2>3, <2>4, WroteWord
  <2> QED BY <2>1, <2>2, <2>5
<1>6. PICK p : p = e.struct + x + TAGSIZE OBVIOUS
<1>7. p \in Nat BY <1>1, <1>6
<1>8. ASSUME NEW k \in 1 .. l PROVE At(e, p + k - 1) = <<name[k], 0>>
  <2>1. PICK z : z = t + k - 1 OBVIOUS
  <2>a. k \in Nat /\ k >= 1 /\ k <= l BY <1>2
  <2>b. z \in 0 .. n - 1 BY <1>1, <1>2, <1>3, <2>1, <2>a
  <2>c. z + 1 = TAGSIZE + k BY <1>1, <2>1, <2>a
  <2>d. p + k - 1 = e.struct + (x + z)
    <3>1. PICK g : g = e.struct OBVIOUS
    <3>2. g \in Nat /\ p = g + x + t BY <1>6, <3>1
    <3>3. p + k - 1 = g + (x + z) BY <1>1, <2>1, <2>a, <3>2
    <3> QED BY <3>1, <3>3
  <2>2. z \in 0 .. n - 1 /\ z + 1 = TAGSIZE + k /\ p + k - 1 = e.struct + (x + z)
      BY <2>b, <2>c, <2>d
  <2>3. StructAt(e, x + z) = bytes[z + 1] BY <2>2 DEF Wrote
  <2> QED BY <1>2, <2>2, <2>3 DEF StructAt
<1>9. At(e, p + l) = NUL
  <2>1. PICK z : z = t + l OBVIOUS
  <2>a. z \in 0 .. n - 1 BY <1>1, <1>2, <1>3, <2>1
  <2>b. z + 1 = TAGSIZE + l + 1 BY <1>1, <1>2, <2>1
  <2>c. p + l = e.struct + (x + z)
    <3>1. PICK g : g = e.struct OBVIOUS
    <3>2. g \in Nat /\ p = g + x + t BY <1>6, <3>1
    <3>3. p + l = g + (x + z) BY <1>1, <1>2, <2>1, <3>2
    <3> QED BY <3>1, <3>3
  <2>2. z \in 0 .. n - 1 /\ z + 1 = TAGSIZE + l + 1 /\ p + l = e.struct + (x + z)
      BY <2>a, <2>b, <2>c
  <2>3. StructAt(e, x + z) = bytes[z + 1] BY <2>2 DEF Wrote
  <2> QED BY <1>2, <2>2, <2>3 DEF StructAt
<1>10. Spells(e, p, name) BY <1>8, <1>9 DEF Spells
<1> QED BY <1>4, <1>5, <1>6, <1>10 DEF NodeThere

(* Its marks stand on them.                                                *)
LEMMA NodeStands ==
    ASSUME NEW e, Layout(e), NEW x \in Nat, NEW name \in Names, NEW l, l = Len(name),
           NEW size, size = FDT_TAGALIGN(l + 1), NodeThere(e, x, name, size),
           x + (TAGSIZE + size) <= e.nstruct,
           NEW before, NEW q, IsBeginMark(q, before, x, l, size),
           NEW n, IsEndMark(n, before, End(q))
    PROVE  Stands(e, q) /\ Stands(e, n)
<1>1. TAGSIZE \in Nat BY Constants
<1>2. l \in Nat BY NameBytes
<1>3. size \in Nat /\ size >= l + 1 BY <1>2, AlignIs
<1>4. /\ Whole(e) /\ e.struct \in Nat /\ e.nstruct \in Nat /\ e.strings \in Nat /\ e.nstrings \in Nat /\ e.total \in Nat
      /\ e.struct + e.nstruct <= e.strings /\ e.strings + e.nstrings <= e.total
    BY LayoutIs, Fields
<1>5. IsText(e, e.struct + x + TAGSIZE, l)
  <2>1. PICK p : p = e.struct + x + TAGSIZE OBVIOUS
  <2>2. p \in Nat /\ p + l < e.total
    <3>1. x + (TAGSIZE + size) <= e.nstruct OBVIOUS
    <3> QED BY <1>2, <1>3, <2>1, <3>1, TextInside
  <2>3. Spells(e, p, name) /\ p + Len(name) < e.total BY <2>1, <2>2 DEF NodeThere
  <2>4. IsText(e, p, Len(name)) BY <1>4, <2>2, <2>3, NameIs
  <2> QED BY <2>1, <2>4
<1>6. Stands(e, q)
  <2>1. q.off = x /\ q.tag = FDT_BEGIN_NODE /\ q.size = TAGSIZE + size /\ q.len = l BY DEF IsBeginMark
  <2>2. IsWord(e, e.struct + x, FDT_BEGIN_NODE) BY DEF NodeThere
  <2>3. FDT_BEGIN_NODE \notin {FDT_END_NODE, FDT_NOP, FDT_END} /\ FDT_BEGIN_NODE # FDT_PROP BY TagsDiffer
  <2> QED BY <1>5, <2>1, <2>2, <2>3 DEF Stands
<1>7. Stands(e, n)
  <2>1. n.off = x + (TAGSIZE + size) /\ n.tag = FDT_END_NODE /\ n.size = TAGSIZE BY DEF IsEndMark, IsBeginMark
  <2>2. IsWord(e, e.struct + (x + (TAGSIZE + size)), FDT_END_NODE)
    <3>1. e.struct + (x + (TAGSIZE + size)) = e.struct + x + (TAGSIZE + size) BY <1>1, <1>3, <1>4
    <3> QED BY <3>1 DEF NodeThere
  <2>3. FDT_END_NODE # FDT_BEGIN_NODE /\ FDT_END_NODE # FDT_PROP BY TagsDiffer
  <2> QED BY <2>1, <2>2, <2>3 DEF Stands
<1> QED BY <1>6, <1>7

(* The reader finds the new node behind what was there before.             *)
LEMMA NewPathRead ==
    ASSUME NEW b, NEW M, NEW r, Reading(b, M, r), NEW k \in 1 .. Len(r) - 1,
           NEW x, x = End(MarkFor(M, r[k])),
           NEW e, NEW N, NEW s, Reading(e, N, s),
           NEW size \in Nat, Edited(b, e, x, x, TAGSIZE + size + TAGSIZE),
           NEW name \in Names, size >= Len(name) + 1, NodeThere(e, x, name, size),
           x <= b.nstruct, x + (TAGSIZE + size) <= e.nstruct
    PROVE  Append(r[k].path, name) \in PathsOf(s)
<1> DEFINE m == MarkFor(M, r[k])
           u == s[k + 1]
           n == MarkFor(N, u)
<1>1. TAGSIZE \in Nat /\ TAGSIZE >= 1 BY Constants
<1>2. Len(name) \in Nat BY NameBytes
<1>3. Layout(b) /\ Marks(b, M) /\ Len(r) \in Nat /\ Layout(e) /\ Marks(e, N) /\ Len(s) \in Nat /\ DOMAIN s = 1 .. Len(s)
    BY ReadingIs
<1>4. k \in 1 .. Len(r) BY <1>3
<1>5. m \in M /\ m.tag # FDT_END /\ r[k].tag # FDT_END /\ r[k].next = NextOf(m)
    BY <1>4, WalkIs, WalkNext
<1>6. x \in Nat /\ r[k].next = x BY <1>3, <1>5, MarkPlace DEF NextOf
<1>7. /\ Whole(e) /\ e.struct \in Nat /\ e.nstruct \in Nat /\ e.strings \in Nat /\ e.nstrings \in Nat /\ e.total \in Nat
      /\ e.struct + e.nstruct <= e.strings /\ e.strings + e.nstrings <= e.total
    BY <1>3, LayoutIs, Fields
<1>8. k \in 1 .. Len(s) /\ s[k] = r[k]
  <2>1. \A z \in 0 .. x - 1 : StructAt(e, z) = StructAt(b, z) BY DEF Edited
  <2>2. x <= e.nstruct BY <1>1, <1>6, <1>7
  <2>3. End(MarkFor(M, r[k])) <= x BY <1>6
  <2> QED BY <1>4, <1>6, <2>1, <2>2, <2>3, SamePrefixRead
<1>9. k # Len(s) BY <1>5, <1>8, LastTag
<1>10. k \in 1 .. Len(s) - 1 /\ k + 1 \in 1 .. Len(s)
  <2>1. PICK l : l = Len(s) OBVIOUS
  <2>2. l \in Nat /\ k \in 1 .. l /\ k # l BY <1>3, <1>8, <1>9, <2>1
  <2>3. k \in 1 .. l - 1 /\ k + 1 \in 1 .. l BY <2>2
  <2> QED BY <2>1, <2>3
<1>11. n \in N /\ n.off = End(MarkFor(N, s[k])) /\ u = SeenAs(e, n, s[k], k) /\ MarkFor(N, s[k]).tag # FDT_END
    BY <1>10, WalkNext
<1>12. s[k].next = NextOf(MarkFor(N, s[k])) BY <1>8, WalkIs
<1>13. n.off = x BY <1>6, <1>8, <1>11, <1>12 DEF NextOf
<1> HIDE DEF n, u
<1>14. n \in Mark /\ Stands(e, n) BY <1>3, <1>11, MarkPlace
<1>15. n.tag = FDT_BEGIN_NODE
  <2>1. IsWord(e, e.struct + x, n.tag) BY <1>13, <1>14 DEF Stands
  <2>2. IsWord(e, e.struct + x, FDT_BEGIN_NODE) BY DEF NodeThere
  <2>3. 1 \in 1 .. TAGSIZE BY <1>1
  <2>4. <<n.tag, 1>> = <<FDT_BEGIN_NODE, 1>> BY <2>1, <2>2, <2>3 DEF IsWord
  <2> QED BY <2>4
<1>16. NameText(e, n) = name
  <2>1. PICK p : p = e.struct + x + TAGSIZE OBVIOUS
  <2>2. p \in Nat /\ p + Len(name) < e.total
    <3>1. PICK l : l = Len(name) OBVIOUS
    <3>2. l \in Nat /\ size >= l + 1 BY <1>2, <3>1
    <3>3. x \in Nat BY <1>6
    <3>4. p \in Nat /\ p + l < e.total BY <1>3, <2>1, <3>2, <3>3, TextInside
    <3> QED BY <3>1, <3>4
  <2>3. Spells(e, p, name) BY <2>1 DEF NodeThere
  <2>4. StringAt(e, p) = name BY <1>7, <2>2, <2>3, NameIs
  <2> QED BY <1>13, <2>1, <2>4 DEF NameText
<1>17. u.tag = FDT_BEGIN_NODE /\ u.path = Append(r[k].path, name)
  <2>1. u.tag = n.tag /\ (n.tag = FDT_BEGIN_NODE => u.path = Append(s[k].path, NameText(e, n)))
      BY <1>11, SeenAsIs
  <2> QED BY <1>8, <1>15, <1>16, <2>1
<1>18. k + 1 \in Begins(s) BY <1>3, <1>10, <1>17 DEF Begins, u
<1> QED BY <1>17, <1>18 DEF PathsOf, u

(* Where a subnode is added.                                               *)
NodeSize(l) == TAGSIZE + FDT_TAGALIGN(l + 1) + TAGSIZE

NextPlace(r, i) == Least({j \in i + 1 .. Len(r) : r[j].tag \notin {FDT_PROP, FDT_NOP}})
NodePlace(M, r, k) ==
    /\ k \in 1 .. Len(r) - 1
    /\ MarkFor(M, r[k]).depth \in Nat /\ MarkFor(M, r[k]).depth >= 1
    /\ MarkFor(M, r[k + 1]).tag \notin {FDT_PROP, FDT_NOP, FDT_END}

(* Behind the properties of the parent some other tag follows.             *)
LEMMA NewNodeSite ==
    ASSUME NEW b, NEW M, NEW r, Reading(b, M, r), NEW path \in PathsOf(r), NEW i, i = NodeAt(r, path),
           NEW next, next = NextPlace(r, i)
    PROVE  \E k : NodePlace(M, r, k) /\ next = k + 1 /\ r[k].path = path
<1>1. PICK mi : mi = MarkFor(M, r[i]) OBVIOUS
<1>2. i \in 1 .. Len(r) - 1 /\ r[i].tag = FDT_BEGIN_NODE /\ r[i].path = path /\ mi.depth = Len(path)
      /\ mi.depth >= 1 /\ mi.depth \in Nat
    BY <1>1, PathIs
<1>3. next \in i + 1 .. Len(r) /\ r[next].tag \notin {FDT_PROP, FDT_NOP} /\ r[next - 1].path = r[i].path
  <2>1. next = Least({j \in i + 1 .. Len(r) : r[j].tag \notin {FDT_PROP, FDT_NOP}}) BY DEF NextPlace
  <2> QED BY <1>2, <2>1, PlaceIs
<1>4. Layout(b) /\ Marks(b, M) /\ Len(r) \in Nat BY ReadingIs
<1>5. PICK k : k = next - 1 OBVIOUS
<1>6. k \in 1 .. Len(r) - 1 /\ next = k + 1 /\ k \in 1 .. Len(r) /\ k + 1 \in 1 .. Len(r)
  <2>1. PICK n : n = Len(r) OBVIOUS
  <2>2. n \in Nat /\ i \in 1 .. n - 1 /\ next \in i + 1 .. n BY <1>2, <1>3, <1>4, <2>1
  <2>3. k \in 1 .. n - 1 /\ next = k + 1 /\ k \in 1 .. n /\ k + 1 \in 1 .. n BY <1>5, <2>2
  <2> QED BY <2>1, <2>3
<1>7. r[k].path = path BY <1>2, <1>3, <1>5
<1>8. PICK m : m = MarkFor(M, r[k]) OBVIOUS
<1>9. PICK n : n = MarkFor(M, r[k + 1]) OBVIOUS
<1>10. m \in M /\ n \in M /\ Follows(m, n) BY <1>6, <1>8, <1>9, WalkNext
<1>11. m.depth = Len(r[k].path) BY <1>6, <1>8, WalkIs
<1>12. m.depth \in Nat /\ m.depth >= 1 BY <1>2, <1>7, <1>11
<1>13. n.tag = r[k + 1].tag BY <1>6, <1>9, WalkIs
<1>14. n.tag # FDT_END
  <2> SUFFICES ASSUME n.tag = FDT_END PROVE FALSE OBVIOUS
  <2>1. n.depth = 0 BY <1>4, <1>10, MarkPlace
  <2>2. n.depth = m.depth BY <1>10, TagsDiffer DEF Follows
  <2> QED BY <1>12, <2>1, <2>2
<1> QED BY <1>3, <1>6, <1>7, <1>8, <1>9, <1>12, <1>13, <1>14 DEF NodePlace

(* A node is put there.                                                    *)
PutNode(b, x, name, e) ==
    LET size == FDT_TAGALIGN(Len(name) + 1)
    IN  e = Write(SpliceStruct(b, b.struct + x, 0, NodeSize(Len(name))).blob, b.struct + x, NodeBytes(name, size))

(* The blob is read with the new node in it.                               *)
LEMMA PutNodeIs ==
    ASSUME NEW b, Good(b), NEW M, NEW r, Reading(b, M, r), NEW k, NodePlace(M, r, k),
           NEW x, x = r[k + 1].off, NEW name \in Names, Fits(b, NodeSize(Len(name))),
           NEW e, PutNode(b, x, name, e)
    PROVE  /\ SpliceStruct(b, b.struct + x, 0, NodeSize(Len(name))).err = "ok"
           /\ Good(e) /\ Append(r[k].path, name) \in PathsOf(Read(e))
<1>1. Layout(b) /\ Marks(b, M) /\ Len(r) \in Nat BY ReadingIs
<1>0. /\ k \in 1 .. Len(r) - 1 /\ MarkFor(M, r[k]).depth >= 1
      /\ MarkFor(M, r[k + 1]).tag \notin {FDT_PROP, FDT_NOP, FDT_END}
    BY DEF NodePlace
<1>2. PICK m : m = MarkFor(M, r[k]) OBVIOUS
<1>3. PICK after : after = MarkFor(M, r[k + 1]) OBVIOUS
<1>4. m \in M /\ after \in M /\ m.tag # FDT_END /\ after.off = End(m) /\ Follows(m, after)
    BY <1>0, <1>2, <1>3, WalkNext
<1>5. x = after.off
  <2>1. k + 1 \in 1 .. Len(r)
    <3>1. PICK n : n = Len(r) OBVIOUS
    <3>2. k + 1 \in 1 .. n BY <1>0, <1>1, <3>1
    <3> QED BY <3>1, <3>2
  <2> QED BY <1>3, <2>1, WalkIs
<1>6. m \in Mark /\ End(m) \in Nat /\ End(m) <= b.nstruct BY <1>1, <1>4, MarkPlace
<1>7. x \in Nat /\ x <= b.nstruct /\ x = End(m) BY <1>4, <1>5, <1>6
<1>8. Aligned(x) BY <1>1, <1>4, <1>7, AlignedEnd
<1>9. PICK l : l = Len(name) OBVIOUS
<1>10. l \in Nat /\ l + 1 \in Nat BY <1>9, NameBytes
<1>11. PICK size : size = FDT_TAGALIGN(l + 1) OBVIOUS
<1>12. size \in Nat /\ size >= l + 1 BY <1>10, <1>11, AlignIs
<1>13. PICK new : new = TAGSIZE + size + TAGSIZE OBVIOUS
<1>14. TAGSIZE \in Nat /\ new \in Nat BY <1>12, <1>13, Constants
<1>15. new = NodeSize(Len(name)) BY <1>9, <1>11, <1>13 DEF NodeSize
<1>16. Fits(b, new) BY <1>15
<1>17. PICK s : s = SpliceStruct(b, b.struct + x, 0, new).blob OBVIOUS
<1>18. SpliceStruct(b, b.struct + x, 0, new) = Ok(s) /\ s.struct = b.struct
    BY <1>1, <1>7, <1>14, <1>16, <1>17, SpliceNewIs
<1>19. PICK bytes : bytes = NodeBytes(name, size) OBVIOUS
<1>20. bytes \in [1 .. new -> Byte] BY <1>9, <1>12, <1>13, <1>19, NodeBytesIs
<1>21. e = Write(s, s.struct + x, bytes) BY <1>9, <1>11, <1>15, <1>17, <1>18, <1>19 DEF PutNode
<1>22. Made(b, x, new, new, bytes, e)
  <2>1. new <= new BY <1>14
  <2> QED BY <1>17, <1>20, <1>21, <2>1 DEF Made, Written
<1>23. /\ Layout(e) /\ SameFront(b, e) /\ MoreStrings(b, e)
       /\ Edited(b, e, x, x, new) /\ Wrote(e, x, new, bytes) /\ x + new <= e.nstruct
    BY <1>1, <1>7, <1>14, <1>16, <1>22, MadeIs
<1>24. e.struct \in Nat /\ e.nstruct \in Nat BY <1>23, LayoutIs, Fields
<1>25. NodeThere(e, x, name, size)
    BY <1>7, <1>9, <1>12, <1>13, <1>19, <1>23, <1>24, NodeWritten
<1>26. x + (TAGSIZE + size) <= e.nstruct BY <1>7, <1>12, <1>13, <1>14, <1>23, <1>24
<1>27. PICK q : q = BeginMark(m, x, l, size) OBVIOUS
<1>28. IsBeginMark(q, m, x, l, size) BY <1>6, <1>7, <1>10, <1>12, <1>27, NodeMarksAre
<1>29. PICK n : n = EndMark(m, End(q)) OBVIOUS
<1>30. IsEndMark(n, m, End(q))
  <2>1. End(q) = x + (TAGSIZE + size) BY <1>28 DEF IsBeginMark
  <2>2. End(q) \in Nat BY <1>7, <1>12, <1>14, <2>1
  <2> QED BY <1>6, <1>10, <1>12, <1>29, <2>2, NodeMarksAre
<1>31. Stands(e, q) /\ Stands(e, n)
    BY <1>7, <1>9, <1>11, <1>23, <1>25, <1>26, <1>28, <1>30, NodeStands
<1>32. Site(M, m, after, x, x) BY <1>0, <1>2, <1>4, <1>5, <1>7 DEF Site
<1>33. Multiple(size) BY <1>10, <1>11, MultipleAlign
<1>34. PICK N : Marks(e, N)
  <2>1. Edited(b, e, x, x, TAGSIZE + size + TAGSIZE) BY <1>13, <1>23
  <2>2. after.tag \notin {FDT_PROP, FDT_NOP, FDT_END} BY <1>0, <1>3
  <2> QED BY <1>1, <1>4, <1>7, <1>8, <1>10, <1>12, <1>23, <1>28, <1>30, <1>31, <1>32, <1>33, <2>1, <2>2,
             MarksPutNode
<1>35. Good(e) BY <1>23, <1>34, GoodEdited
<1>36. Append(r[k].path, name) \in PathsOf(Read(e))
  <2>1. PICK t : t = Read(e) OBVIOUS
  <2>2. Reading(e, N, t) BY <1>23, <1>34, <2>1 DEF Reading
  <2>3. Edited(b, e, x, x, TAGSIZE + size + TAGSIZE) /\ size >= Len(name) + 1 /\ x = End(MarkFor(M, r[k]))
      BY <1>2, <1>7, <1>9, <1>12, <1>13, <1>23
  <2>4. Append(r[k].path, name) \in PathsOf(t)
      BY <1>0, <1>7, <1>12, <1>25, <1>26, <2>2, <2>3, NewPathRead
  <2> QED BY <2>1, <2>4
<1>37. Ok(s).err = "ok" BY OkIs
<1> QED BY <1>15, <1>18, <1>35, <1>36, <1>37

(* fdt_add_subnode_namelen.                                                *)
LEMMA AddSubNodeIs ==
    ASSUME NEW b, Good(b), NEW M, NEW r, Reading(b, M, r), NEW path \in PathsOf(r),
           NEW name \in Names, NEW s, s = AddSubNode(b, r, path, name)
    PROVE  /\ Fine(s)
           /\ Fits(b, NodeSize(Len(name))) => s.err # "nospace"
           /\ s.err = "ok" => Append(path, name) \in PathsOf(Read(s.blob))
           /\ Fits(b, NodeSize(Len(name))) /\ Append(path, name) \notin PathsOf(r) => s.err = "ok"
<1>1. PICK i : i = NodeAt(r, path) OBVIOUS
<1>2. PICK next : next = NextPlace(r, i) OBVIOUS
<1>3. PICK k : NodePlace(M, r, k) /\ next = k + 1 /\ r[k].path = path
    BY <1>1, <1>2, NewNodeSite
<1>4. PICK x : x = r[k + 1].off OBVIOUS
<1>5. PICK new : new = NodeSize(Len(name)) OBVIOUS
<1>6. PICK u : u = SpliceStruct(b, b.struct + x, 0, new) OBVIOUS
<1>7. PICK e : e = Write(u.blob, b.struct + x, NodeBytes(name, FDT_TAGALIGN(Len(name) + 1))) OBVIOUS
<1>8. s = IF Append(path, name) \in PathsOf(r) THEN Error(b, "exists")
          ELSE IF u.err # "ok" THEN u ELSE Ok(e)
    BY <1>1, <1>2, <1>3, <1>4, <1>5, <1>6, <1>7 DEF AddSubNode, NodeSize, NodeBytes, NextPlace
<1>9. CASE Append(path, name) \in PathsOf(r)
  <2>1. s.blob = b /\ s.err = "exists" BY <1>8, <1>9, ErrorIs DEF Answers
  <2> QED BY <1>9, <2>1 DEF Fine, Answers
<1>10. CASE Append(path, name) \notin PathsOf(r) /\ Fits(b, new)
  <2>1. PutNode(b, x, name, e) BY <1>5, <1>6, <1>7 DEF PutNode
  <2>2. /\ SpliceStruct(b, b.struct + x, 0, NodeSize(Len(name))).err = "ok"
        /\ Good(e) /\ Append(r[k].path, name) \in PathsOf(Read(e))
      BY <1>3, <1>4, <1>5, <1>10, <2>1, PutNodeIs
  <2>3. s = Ok(e) BY <1>5, <1>6, <1>8, <1>10, <2>2
  <2>4. s.err = "ok" /\ s.blob = e BY <2>3, OkIs
  <2> QED BY <1>3, <2>2, <2>4 DEF Fine, Answers
<1>11. CASE Append(path, name) \notin PathsOf(r) /\ ~Fits(b, new)
  <2>1. new - 0 = new
    <3>1. PICK l : l = Len(name) + 1 OBVIOUS
    <3>2. l \in Nat
      <4>1. Len(name) \in Nat BY NameBytes
      <4> QED BY <3>1, <4>1
    <3>3. FDT_TAGALIGN(l) \in Nat BY <3>2, AlignIs
    <3>4. new = TAGSIZE + FDT_TAGALIGN(l) + TAGSIZE BY <1>5, <3>1 DEF NodeSize
    <3> QED BY <3>3, <3>4, Constants
  <2>2. ~Fits(b, new - 0) BY <1>11, <2>1
  <2>3. u = Error(b, "nospace") BY <1>6, <2>2 DEF SpliceStruct
  <2>4. u.blob = b /\ u.err = "nospace" BY <2>3, ErrorIs DEF Answers
  <2>5. s = u BY <1>8, <1>11, <2>4
  <2> QED BY <1>5, <1>11, <2>4, <2>5 DEF Fine, Answers
<1> QED BY <1>9, <1>10, <1>11

-----------------------------------------------------------------------------
(* The name of a node is the last of its path.                             *)
LEMMA LastName ==
    ASSUME NEW b, NEW M, NEW r, Reading(b, M, r), NEW path \in PathsOf(r) \ {Root},
           NEW i, i = NodeAt(r, path), NEW m, m = MarkFor(M, r[i])
    PROVE  Len(path[Len(path)]) = m.len
<1>1. /\ i \in 1 .. Len(r) - 1 /\ r[i].path = path /\ m \in M /\ m.tag = FDT_BEGIN_NODE /\ i >= 2
    BY PathIs
<1>2. Layout(b) /\ Marks(b, M) /\ Len(r) \in Nat BY ReadingIs
<1>3. PICK k : k = i - 1 OBVIOUS
<1>4. k \in 1 .. Len(r) - 1 /\ k + 1 = i /\ k \in 1 .. Len(r)
  <2>1. PICK n : n = Len(r) OBVIOUS
  <2>2. k \in 1 .. n - 1 /\ k + 1 = i /\ k \in 1 .. n BY <1>1, <1>2, <1>3, <2>1
  <2> QED BY <2>1, <2>2
<1>5. path = Append(r[k].path, NameText(b, m))
  <2>1. r[k + 1].path = PathAfter(b, m, r[k].path) BY <1>4, WalkNext
  <2>2. PICK p : p = r[k].path OBVIOUS
  <2>3. PathAfter(b, m, p) = Append(p, NameText(b, m)) BY <1>1, TagsDiffer DEF PathAfter
  <2> QED BY <1>1, <1>4, <2>1, <2>2, <2>3
<1>6. Len(NameText(b, m)) = m.len
  <2>1. m \in Mark /\ Stands(b, m) /\ End(m) <= b.nstruct BY <1>1, <1>2, MarkPlace
  <2> QED BY <1>1, <1>2, <2>1, MarkWords
<1>7. r[k].path \in Seq(Seq(Int)) BY <1>4, WalkIs
<1>8. path[Len(path)] = NameText(b, m)
  <2>1. PICK s : s = r[k].path OBVIOUS
  <2>2. PICK e : e = NameText(b, m) OBVIOUS
  <2>3. s \in Seq(Seq(Int)) /\ path = Append(s, e) BY <1>5, <1>7, <2>1, <2>2
  <2>4. path[Len(path)] = e BY <2>3
  <2> QED BY <2>2, <2>4
<1> QED BY <1>6, <1>8

(* The structure with new bytes at x instead of old ones.                  *)
Rewritten(b, x, old, new, n, bytes, c) ==
    /\ Layout(c) /\ SameFront(b, c) /\ MoreStrings(b, c) /\ c.struct = b.struct
    /\ Edited(b, c, x, x + old, new - old)
    /\ \A z \in 0 .. n - 1 : StructAt(c, x + z) = bytes[z + 1]
    /\ x + new <= c.nstruct

(* A name written over the old one.                                        *)
LEMMA RewrittenIs ==
    ASSUME NEW b, Layout(b), NEW x \in Nat, NEW old \in Nat, NEW new \in Nat,
           x + old <= b.nstruct, Fits(b, new - old), NEW n \in Nat,
           NEW bytes, NEW c, SpliceWritten(b, x, old, new, n, bytes, c)
    PROVE  Rewritten(b, x, old, new, n, bytes, c)
<1>1. /\ Layout(c) /\ SameFront(b, c) /\ c.total = b.total
      /\ c.nstrings = b.nstrings /\ MoreStrings(b, c) /\ c.struct = b.struct
      /\ Edited(b, c, x, x + old, new - old)
      /\ \A z \in 0 .. n - 1 : StructAt(c, x + z) = bytes[z + 1]
      /\ x + new <= c.nstruct
    BY SpliceWrittenIs
<1> QED BY <1>1 DEF Rewritten

(* The bytes of a node that gets another name.                             *)
Renamed(b, off, old, new, name, e) ==
    LET p == b.struct + off + TAGSIZE
    IN  e = Write(SpliceStruct(b, p, old, new).blob, p, StringBytes(name))

(* The room of the old name made that of the new one.                      *)
LEMMA RenamedIs ==
    ASSUME NEW b, Layout(b), NEW off \in Nat, NEW old \in Nat, NEW new \in Nat, NEW name \in Names,
           Len(name) + 1 <= new, off + TAGSIZE + old <= b.nstruct, Fits(b, new - old),
           NEW e, Renamed(b, off, old, new, name, e)
    PROVE  /\ Layout(e) /\ SameFront(b, e) /\ MoreStrings(b, e) /\ e.struct = b.struct
           /\ SpliceStruct(b, b.struct + off + TAGSIZE, old, new).err = "ok"
           /\ Edited(b, e, off, off + TAGSIZE + old, new - old)
           /\ \A z \in off .. off + TAGSIZE - 1 : StructAt(e, z) = StructAt(b, z)
           /\ IsText(e, e.struct + off + TAGSIZE, Len(name))
<1>1. TAGSIZE \in Nat /\ TAGSIZE >= 1 BY Constants
<1>2. PICK x : x = off + TAGSIZE OBVIOUS
<1>3. PICK y : y = x + old OBVIOUS
<1>4. PICK l : l = Len(name) OBVIOUS
<1>5. PICK n : n = l + 1 OBVIOUS
<1>6. b.struct \in Nat /\ b.nstruct \in Nat BY LayoutIs, Fields
<1>7. l \in Nat /\ n \in Nat /\ StringBytes(name) \in [1 .. n -> Byte] BY <1>4, <1>5, StringBytesIs
<1>8. x \in Nat /\ y \in Nat /\ off <= x /\ y <= b.nstruct /\ n <= new /\ new - old \in Int /\ x + old = y /\ x + old <= b.nstruct
    BY <1>1, <1>2, <1>3, <1>4, <1>5
<1>9. b.struct + off + TAGSIZE = b.struct + x BY <1>1, <1>2, <1>6
<1>10. PICK s : s = SpliceStruct(b, b.struct + x, old, new).blob OBVIOUS
<1>11. SpliceStruct(b, b.struct + x, old, new) = Ok(s) /\ SameFront(b, s)
    BY <1>8, <1>10, SpliceStructIs
<1>12. PICK bytes : bytes = StringBytes(name) OBVIOUS
<1>13. e = Write(s, s.struct + x, bytes)
  <2>1. s.struct = b.struct BY <1>11 DEF SameFront
  <2>2. e = Write(SpliceStruct(b, b.struct + off + TAGSIZE, old, new).blob, b.struct + off + TAGSIZE, StringBytes(name))
      BY DEF Renamed
  <2> QED BY <1>9, <1>10, <1>12, <2>1, <2>2
<1>14. SpliceWritten(b, x, old, new, n, bytes, e)
  <2>1. bytes \in [1 .. n -> Byte] BY <1>7, <1>12
  <2> QED BY <1>8, <1>10, <1>13, <2>1 DEF SpliceWritten, Written
<1>15. /\ Layout(e) /\ SameFront(b, e) /\ MoreStrings(b, e) /\ e.struct = b.struct
       /\ Edited(b, e, x, x + old, new - old)
       /\ \A z \in 0 .. n - 1 : StructAt(e, x + z) = bytes[z + 1]
       /\ x + new <= e.nstruct
  <2>1. x \in Nat /\ n \in Nat /\ x + old <= b.nstruct BY <1>7, <1>8
  <2>2. Rewritten(b, x, old, new, n, bytes, e) BY <1>14, <2>1, RewrittenIs
  <2> QED BY <2>2 DEF Rewritten
<1>16. Edited(b, e, off, y, new - old)
  <2>1. PICK d : d = new - old OBVIOUS
  <2>2. Edited(b, e, x, y, d) /\ d \in Int /\ y <= y BY <1>8, <1>15, <2>1
  <2>3. Edited(b, e, off, y, d) BY <1>6, <1>8, <2>2, EditedLess
  <2> QED BY <2>1, <2>3
<1>17. \A z \in off .. off + TAGSIZE - 1 : StructAt(e, z) = StructAt(b, z)
  <2>1. \A z \in off .. off + TAGSIZE - 1 : z \in 0 .. x - 1 BY <1>1, <1>2
  <2>2. \A z \in 0 .. x - 1 : StructAt(e, z) = StructAt(b, z) BY <1>15 DEF Edited
  <2> QED BY <2>1, <2>2
<1>18. PICK p : p = e.struct + off + TAGSIZE OBVIOUS
<1>19. Whole(e) /\ e.struct \in Nat /\ e.nstruct \in Nat BY <1>15, LayoutIs, Fields
<1>20. p \in Nat /\ p + l < e.total
  <2>1. PICK size : size = new OBVIOUS
  <2>2. off + (TAGSIZE + size) <= e.nstruct /\ size \in Nat /\ size >= l + 1 BY <1>1, <1>2, <1>5, <1>8, <1>15, <1>19, <2>1
  <2> QED BY <1>7, <1>15, <1>18, <2>2, TextInside
<1>21. Spells(e, p, name)
  <2>1. ASSUME NEW k \in 1 .. l + 1 PROVE At(e, p + k - 1) = StringBytes(name)[k]
    <3>1. PICK z : z = k - 1 OBVIOUS
    <3>2. z \in 0 .. n - 1 /\ z + 1 = k BY <1>5, <1>7, <3>1
    <3>3. StructAt(e, x + z) = StringBytes(name)[k] BY <1>12, <1>15, <3>2
    <3>4. p + k - 1 = e.struct + (x + z)
      <4>1. PICK g : g = e.struct OBVIOUS
      <4>2. PICK t : t = TAGSIZE OBVIOUS
      <4>3. g \in Nat /\ t \in Nat /\ k \in Int /\ p = g + off + t /\ x = off + t
          BY <1>1, <1>2, <1>7, <1>18, <1>19, <4>1, <4>2
      <4>4. p + k - 1 = g + (x + z) BY <3>1, <4>3
      <4> QED BY <4>1, <4>4
    <3> QED BY <3>3, <3>4 DEF StructAt
  <2> QED BY <1>4, <1>20, <2>1, SpellsIs
<1>22. IsText(e, p, Len(name))
  <2>1. p + Len(name) < e.total BY <1>4, <1>20
  <2> QED BY <1>19, <1>20, <1>21, <2>1, NameIs
<1>23. Ok(s).err = "ok" BY OkIs
<1>24. off + TAGSIZE + old = y BY <1>2, <1>3
<1> QED BY <1>9, <1>11, <1>15, <1>16, <1>17, <1>18, <1>22, <1>23, <1>24

(* The node begins with its new name.                                      *)
LEMMA RenamedStands ==
    ASSUME NEW b, NEW e, b.struct \in Nat, e.struct = b.struct,
           NEW m \in Mark, Stands(b, m), m.tag = FDT_BEGIN_NODE, NEW l \in Nat,
           NEW before, NEW q, IsBeginMark(q, before, m.off, l, FDT_TAGALIGN(l + 1)),
           \A z \in m.off .. m.off + TAGSIZE - 1 : StructAt(e, z) = StructAt(b, z),
           IsText(e, e.struct + m.off + TAGSIZE, l)
    PROVE  Stands(e, q)
<1> DEFINE p == b.struct + m.off
<1>1. q.off = m.off /\ q.tag = FDT_BEGIN_NODE /\ q.size = TAGSIZE + FDT_TAGALIGN(l + 1) /\ q.len = l
    BY DEF IsBeginMark
<1>2. m.off \in Nat /\ TAGSIZE \in Nat BY MarkIs, Constants
<1>3. IsWord(b, p, FDT_BEGIN_NODE) BY DEF Stands
<1>4. SameBytes(b, p, e, p, TAGSIZE)
  <2> SUFFICES ASSUME NEW k \in 0 .. TAGSIZE - 1 PROVE At(e, p + k) = At(b, p + k) BY DEF SameBytes
  <2>1. PICK z : z = m.off + k OBVIOUS
  <2>2. z \in m.off .. m.off + TAGSIZE - 1 /\ p + k = b.struct + z BY <1>2, <2>1
  <2>3. StructAt(e, z) = StructAt(b, z) BY <2>2
  <2> QED BY <2>2, <2>3 DEF StructAt
<1>5. p \in Int BY <1>2
<1>6. IsWord(e, p, FDT_BEGIN_NODE) BY <1>3, <1>4, <1>5, SameIsWord
<1>7. FDT_BEGIN_NODE \notin {FDT_END_NODE, FDT_NOP, FDT_END} /\ FDT_BEGIN_NODE # FDT_PROP BY TagsDiffer
<1> QED BY <1>1, <1>6, <1>7 DEF Stands

(* fdt_set_name.                                                           *)
LEMMA RenameFits ==
    ASSUME NEW b, Good(b), NEW M, NEW r, Reading(b, M, r), NEW path \in PathsOf(r) \ {Root},
           NEW i, i = NodeAt(r, path), NEW m, m = MarkFor(M, r[i]), NEW name \in Names,
           NEW old, old = FDT_TAGALIGN(m.len + 1), NEW new, new = FDT_TAGALIGN(Len(name) + 1),
           Fits(b, new - old), NEW e, Renamed(b, m.off, old, new, name, e)
    PROVE  SpliceStruct(b, b.struct + m.off + TAGSIZE, old, new).err = "ok" /\ Good(e) /\ m.off = r[i].off
<1>1. Layout(b) /\ Marks(b, M) BY ReadingIs
<1>2. PICK y : y = NodeEnd(r, i) OBVIOUS
<1>3. PICK before, after, next :
          /\ Bridged(b, M, before, after, m.off, y)
          /\ Follows(before, m) /\ Follows(m, next) /\ next \in M /\ End(m) = next.off
          /\ m \in M /\ m.off = r[i].off /\ m.tag = FDT_BEGIN_NODE /\ m.depth \in Nat /\ m.depth >= 1
    BY <1>2, NodeSite
<1>4. /\ m \in Mark /\ Stands(b, m) /\ Opens(m) /\ End(m) <= b.nstruct
      /\ m.off \in Nat /\ End(m) = m.off + m.size /\ m.len \in Nat
    BY <1>1, <1>3, MarkPlace
<1>5. before \in M /\ before.depth >= 1 /\ End(before) = m.off BY <1>3 DEF Bridged, Site
<1>6. before \in Mark /\ before.depth \in Nat BY <1>1, <1>5, MarkPlace
<1>7. m.size = TAGSIZE + old BY <1>3, <1>4 DEF Stands
<1>8. m.depth = before.depth + 1 /\ m.open BY <1>3, <1>4, TagsDiffer DEF Follows, Opens
<1>9. PICK l : l = Len(name) OBVIOUS
<1>10. l \in Nat /\ l + 1 \in Nat /\ m.len + 1 \in Nat BY <1>4, <1>9, NameBytes
<1>11. new = FDT_TAGALIGN(l + 1) BY <1>9
<1>12. new \in Nat /\ l + 1 <= new /\ Multiple(new) BY <1>10, <1>11, AlignIs, MultipleAlign
<1>13. old \in Nat /\ Multiple(old) BY <1>10, AlignIs, MultipleAlign
<1>14. TAGSIZE \in Nat BY Constants
<1>15. PICK off : off = m.off OBVIOUS
<1>16. PICK end : end = off + TAGSIZE + old OBVIOUS
<1>17. off \in Nat /\ end \in Nat /\ end = End(m) /\ end <= b.nstruct /\ off <= end
    BY <1>4, <1>7, <1>13, <1>14, <1>15, <1>16
<1>18. /\ Layout(e) /\ SameFront(b, e) /\ MoreStrings(b, e) /\ e.struct = b.struct
       /\ SpliceStruct(b, b.struct + off + TAGSIZE, old, new).err = "ok"
       /\ Edited(b, e, off, off + TAGSIZE + old, new - old)
       /\ \A z \in off .. off + TAGSIZE - 1 : StructAt(e, z) = StructAt(b, z)
       /\ IsText(e, e.struct + off + TAGSIZE, Len(name))
  <2>1. Renamed(b, off, old, new, name, e) BY <1>15
  <2>2. Len(name) + 1 <= new /\ off + TAGSIZE + old <= b.nstruct BY <1>9, <1>12, <1>16, <1>17
  <2> QED BY <1>1, <1>12, <1>13, <1>17, <2>1, <2>2, RenamedIs
<1>19. PICK q : q = BeginMark(before, off, l, new) OBVIOUS
<1>20. IsBeginMark(q, before, off, l, new) BY <1>6, <1>10, <1>12, <1>17, <1>19, NodeMarksAre
<1>21. /\ q \in Mark /\ q.off = off /\ q.tag = FDT_BEGIN_NODE /\ q.depth = m.depth /\ q.open = TRUE
       /\ End(q) = off + (TAGSIZE + new) /\ Opens(q)
    BY <1>8, <1>20 DEF IsBeginMark
<1>22. b.struct \in Nat BY <1>1, LayoutIs, Fields
<1>23. Stands(e, q)
  <2>1. IsBeginMark(q, before, m.off, l, FDT_TAGALIGN(l + 1)) BY <1>11, <1>15, <1>20
  <2>2. \A z \in m.off .. m.off + TAGSIZE - 1 : StructAt(e, z) = StructAt(b, z) BY <1>15, <1>18
  <2>3. IsText(e, e.struct + m.off + TAGSIZE, l) BY <1>9, <1>15, <1>18
  <2>4. e.struct = b.struct BY <1>18
  <2> QED BY <1>3, <1>4, <1>10, <1>22, <2>1, <2>2, <2>3, <2>4, RenamedStands
<1>24. HasName(e, q) BY <1>21, TagsDiffer DEF HasName
<1>25. Follows(before, q) BY <1>3, <1>8, <1>21, FollowedLike
<1>26. Follows(q, next) BY <1>3, <1>8, <1>21, FollowsLike
<1>27. End(q) - end = new - old BY <1>12, <1>13, <1>14, <1>16, <1>17, <1>21
<1>28. Multiple(new - old) BY <1>12, <1>13, MultipleMinus
<1>29. Aligned(off) BY <1>1, <1>3, <1>15, AlignedEnd
<1>30. Site(M, before, next, off, end) BY <1>3, <1>5, <1>15, <1>17 DEF Site
<1>31. \E N : Marks(e, N)
  <2>1. q.depth >= 1 /\ q.tag # FDT_END BY <1>3, <1>21, TagsDiffer
  <2>2. Multiple(End(q) - end) /\ Edited(b, e, off, end, End(q) - end) BY <1>16, <1>18, <1>27, <1>28
  <2> QED BY <1>1, <1>17, <1>18, <1>21, <1>23, <1>24, <1>25, <1>26, <1>29, <1>30, <2>1, <2>2, MarksPut
<1>32. Good(e) BY <1>18, <1>31, GoodEdited
<1> QED BY <1>3, <1>15, <1>18, <1>32

(* fdt_set_name, to a longer name or a shorter one.                        *)
LEMMA GoodSetNodeName ==
    ASSUME NEW b, Good(b), NEW M, NEW r, Reading(b, M, r), NEW path \in PathsOf(r) \ {Root},
           NEW name \in Names
    PROVE  Fine(SetNodeName(b, r, path, name))
<1>1. PICK i : i = NodeAt(r, path) OBVIOUS
<1>2. PICK m : m = MarkFor(M, r[i]) OBVIOUS
<1>3. PICK s : s = SetNodeName(b, r, path, name) OBVIOUS
<1>4. PICK old : old = FDT_TAGALIGN(m.len + 1) OBVIOUS
<1>5. PICK new : new = FDT_TAGALIGN(Len(name) + 1) OBVIOUS
<1>6. PICK p : p = b.struct + r[i].off + TAGSIZE OBVIOUS
<1>7. PICK u : u = SpliceStruct(b, p, old, new) OBVIOUS
<1>8. PICK e : e = Write(u.blob, p, StringBytes(name)) OBVIOUS
<1>9. s = IF u.err # "ok" THEN u ELSE Ok(e)
  <2>1. PICK l : l = Len(path[Len(path)]) OBVIOUS
  <2>2. l = m.len BY <1>1, <1>2, <2>1, LastName
  <2>3. old = FDT_TAGALIGN(l + 1) BY <1>4, <2>2
  <2> QED BY <1>1, <1>3, <1>5, <1>6, <1>7, <1>8, <2>1, <2>3 DEF SetNodeName, StringBytes
<1>10. CASE Fits(b, new - old)
  <2>1. m.off = r[i].off
    <3>1. path \in PathsOf(r) OBVIOUS
    <3>2. i \in 1 .. Len(r) - 1 BY <1>1, <1>2, <3>1, PathIs
    <3>3. Len(r) \in Nat BY ReadingIs
    <3>4. i \in 1 .. Len(r) BY <3>2, <3>3
    <3> QED BY <1>2, <3>4, WalkIs
  <2>2. Renamed(b, m.off, old, new, name, e) BY <1>6, <1>7, <1>8, <2>1 DEF Renamed
  <2>3. SpliceStruct(b, b.struct + m.off + TAGSIZE, old, new).err = "ok" /\ Good(e)
      BY <1>1, <1>2, <1>4, <1>5, <1>10, <2>2, RenameFits
  <2>4. s = Ok(e) BY <1>6, <1>7, <1>9, <2>1, <2>3
  <2>5. s.blob = e /\ s.err = "ok" BY <2>4, OkIs
  <2> QED BY <1>3, <2>3, <2>5 DEF Fine, Answers
<1>11. CASE ~Fits(b, new - old)
  <2>1. u = Error(b, "nospace") BY <1>7, <1>11 DEF SpliceStruct
  <2>2. u.blob = b /\ u.err = "nospace" BY <2>1, ErrorIs DEF Answers
  <2>3. s = u BY <1>9, <2>2
  <2> QED BY <1>3, <2>2, <2>3 DEF Fine, Answers
<1> QED BY <1>10, <1>11

-----------------------------------------------------------------------------
(* The characters and slashes of the rest of a path are as many as those   *)
(* of its first name, or more.                                             *)
LEMMA RestLenIs ==
    ASSUME NEW path, NEW n \in Nat, n = Len(path), NEW k \in 1 .. n,
           \A i \in 1 .. n : Len(path[i]) \in Nat
    PROVE  RestLen(path, k) \in Nat /\ RestLen(path, k) >= Len(path[k])
<1> DEFINE T == {{i} \X (0 .. Len(path[i])) : i \in k .. n}
           f == [i \in k .. n |-> {i} \X (0 .. Len(path[i]))]
           own == {k} \X (0 .. Len(path[k]))
<1>1. \A i \in k .. n : Len(path[i]) \in Nat OBVIOUS
<1>2. IsFiniteSet(T)
  <2>1. IsFiniteSet(k .. n) BY FS_Interval
  <2>2. f \in Surjection(k .. n, T) BY DEF Surjection
  <2> HIDE DEF f, T
  <2> QED BY <2>1, <2>2, FS_Surjection
<1>3. \A i \in k .. n : IsFiniteSet({i} \X (0 .. Len(path[i])))
  <2> SUFFICES ASSUME NEW i \in k .. n PROVE IsFiniteSet({i} \X (0 .. Len(path[i]))) OBVIOUS
  <2>1. IsFiniteSet({i}) BY FS_Singleton
  <2>2. IsFiniteSet(0 .. Len(path[i])) BY <1>1, FS_Interval
  <2> QED BY <2>1, <2>2, FS_Product
<1>4. IsFiniteSet(UNION T)
  <2>1. \A S \in T : IsFiniteSet(S) BY <1>3
  <2> HIDE DEF T
  <2> QED BY <1>2, <2>1, FS_UNION
<1>5. Cardinality(own) = Len(path[k]) + 1
  <2>1. PICK l : l = Len(path[k]) OBVIOUS
  <2>2. l \in Nat BY <1>1, <2>1
  <2>3. IsFiniteSet({k}) /\ Cardinality({k}) = 1 BY FS_Singleton
  <2>4. IsFiniteSet(0 .. l) /\ Cardinality(0 .. l) = l + 1
    <3>1. 0 \in Int /\ l \in Int /\ ~(0 > l) /\ l - 0 + 1 = l + 1 BY <2>2
    <3> QED BY <3>1, FS_Interval
  <2>5. Cardinality({k} \X (0 .. l)) = 1 * (l + 1)
    <3>1. PICK S : S = {k} OBVIOUS
    <3>2. PICK U : U = 0 .. l OBVIOUS
    <3>3. IsFiniteSet(S) /\ IsFiniteSet(U) BY <2>3, <2>4, <3>1, <3>2
    <3>4. Cardinality(S \X U) = Cardinality(S) * Cardinality(U) BY <3>3, FS_Product
    <3>5. Cardinality(S) = 1 /\ Cardinality(U) = l + 1 BY <2>3, <2>4, <3>1, <3>2
    <3> QED BY <3>1, <3>2, <3>4, <3>5
  <2>6. 1 * (l + 1) = l + 1 BY <2>2
  <2> QED BY <2>1, <2>5, <2>6
<1>6. own \in SUBSET UNION T
  <2>1. own \in T OBVIOUS
  <2> HIDE DEF own, T
  <2> QED BY <2>1
<1>7. Cardinality(UNION T) \in Nat /\ Cardinality(own) <= Cardinality(UNION T)
  <2> HIDE DEF own, T
  <2> QED BY <1>4, <1>6, FS_Subset, FS_CardinalityType
<1>8. RestLen(path, k) = Cardinality(UNION T) - 1 BY DEF RestLen
<1>9. Len(path[k]) \in Nat BY <1>1
<1> HIDE DEF T, own
<1> QED BY <1>5, <1>7, <1>8, <1>9

(* What realloc_node makes room for.                                       *)
LEMMA ReallocNodeFits ==
    ASSUME NEW b, Good(b), NEW M, NEW r, Reading(b, M, r), NEW n \in Nat, NEW l \in Nat, l <= n,
           NEW c, c = ReallocNode(b, n)
    PROVE  Good(c) /\ Reading(c, M, r) /\ Fits(c, NodeSize(l))
<1>1. PICK d : d = TAGSIZE + FDT_TAGALIGN(n + 1) + TAGSIZE OBVIOUS
<1>2. FDT_TAGALIGN(n + 1) \in Nat BY AlignIs
<1>3. FDT_TAGALIGN(l + 1) \in Nat /\ FDT_TAGALIGN(l + 1) <= FDT_TAGALIGN(n + 1)
  <2>1. n + 1 \in Nat /\ l + 1 \in Nat /\ l + 1 <= n + 1 OBVIOUS
  <2> QED BY <2>1, AlignIs, AlignMonotonic
<1>4. d \in Nat BY <1>1, <1>2, Constants
<1>5. NodeSize(l) \in Int /\ NodeSize(l) <= d BY <1>1, <1>2, <1>3, Constants DEF NodeSize
<1>6. c = ReallocFdt(b, d) BY <1>1 DEF ReallocNode
<1>7. /\ Good(c) /\ Reading(c, M, r) /\ Read(c) = r /\ Layout(c) /\ SameStruct(b, c) /\ MoreStrings(b, c)
      /\ DataSize(c) = DataSize(b) /\ c.total = b.total + d /\ \A need \in Int : need <= d => Fits(c, need)
    BY <1>4, <1>6, LargerIs
<1> QED BY <1>5, <1>7

(* fdtput create_node.                                                     *)
LEMMA CreateNodeIs ==
    ASSUME NEW b, Good(b), NEW M, NEW r, Reading(b, M, r), NEW path \in PathsOf(r), NEW name \in Names,
           NEW s, s = CreateNode(b, r, path, name)
    PROVE  Fine(s) /\ s.err # "nospace"
<1>1. PICK c : c = ReallocNode(b, Len(name)) OBVIOUS
<1>2. PICK l : l = Len(name) OBVIOUS
<1>3. l \in Nat
  <2>1. Len(name) \in Nat BY NameBytes
  <2> QED BY <1>2, <2>1
<1>4. Good(c) /\ Reading(c, M, r) /\ Fits(c, NodeSize(l)) BY <1>1, <1>2, <1>3, ReallocNodeFits
<1>5. s = AddSubNode(c, r, path, name) BY <1>1 DEF CreateNode
<1>6. /\ Fine(s)
      /\ Fits(c, NodeSize(Len(name))) => s.err # "nospace"
      /\ s.err = "ok" => Append(path, name) \in PathsOf(Read(s.blob))
      /\ Fits(c, NodeSize(Len(name))) /\ Append(path, name) \notin PathsOf(r) => s.err = "ok"
    BY <1>4, <1>5, AddSubNodeIs
<1> QED BY <1>2, <1>4, <1>6

-----------------------------------------------------------------------------
(* The first names of a path that has one more, or one less.               *)
LEMMA AppendPrefix ==
    ASSUME NEW S, NEW p \in Seq(S), NEW e \in S, NEW q, q = Append(p, e), NEW j \in 1 .. Len(q)
    PROVE  IF j = Len(p) + 1 THEN SubSeq(q, 1, j) = q
           ELSE j \in 1 .. Len(p) /\ SubSeq(q, 1, j) = SubSeq(p, 1, j)
<1>1. q \in Seq(S) /\ Len(q) = Len(p) + 1 /\ Len(p) \in Nat /\ q = p \o <<e>> /\ <<e>> \in Seq(S)
  <2>1. q = p \o <<e>> BY AppendIsConcat
  <2> QED BY <2>1
<1>2. CASE j = Len(p) + 1
  <2>1. SubSeq(q, 1, Len(q)) = q BY <1>1, SubSeqFull
  <2> QED BY <1>1, <1>2, <2>1
<1>3. CASE j # Len(p) + 1
  <2>1. j \in 1 .. Len(p) BY <1>1, <1>3
  <2>2. SubSeq(p \o <<e>>, 1, j) = SubSeq(p, 1, j) BY <1>1, <2>1, SubSeqOfConcat1
  <2> QED BY <1>1, <1>3, <2>1, <2>2
<1> QED BY <1>2, <1>3

(* Those of a path with one name less.                                     *)
LEMMA FrontPrefix ==
    ASSUME NEW S, NEW p \in Seq(S), p # <<>>, NEW q, q = Front(p), NEW j \in 1 .. Len(q)
    PROVE  j \in 1 .. Len(p) /\ SubSeq(q, 1, j) = SubSeq(p, 1, j)
<1>1. PICK l : l = Len(p) OBVIOUS
<1>2. l \in Nat /\ l >= 1 BY <1>1
<1>3. q = SubSeq(p, 1, l - 1) BY <1>1 DEF Front
<1>4. Len(q) = l - 1
  <2>1. l - 1 \in 0 .. l BY <1>2
  <2>2. \A i \in 1 .. l - 1 : p[i] \in S
    <3>1. \A i \in 1 .. l - 1 : i \in 1 .. Len(p) BY <1>1, <1>2
    <3> QED BY <3>1, ElementOfSeq
  <2>3. Len(SubSeq(p, 1, l - 1)) = IF 1 <= l - 1 THEN (l - 1) - 1 + 1 ELSE 0
    <3>1. 1 \in Int /\ l - 1 \in Int BY <1>2
    <3> QED BY <2>2, <3>1, SubSeqProperties
  <2> QED BY <1>2, <1>3, <2>3
<1>5. j \in 1 .. l - 1 BY <1>4
<1>6. SubSeq(SubSeq(p, 1, l - 1), 1, j) = SubSeq(p, 1, j)
  <2>1. 1 \in Int /\ l - 1 \in Int /\ 1 + 1 - 1 = 1 /\ 1 + j - 1 = j BY <1>2
  <2>2. 1 \in 1 .. Len(p) + 1 /\ l - 1 \in 0 .. Len(p) BY <1>1, <1>2
  <2>3. 1 \in 1 .. 2 + (l - 1) - 1 /\ j \in 0 .. 1 + (l - 1) - 1 BY <1>2, <1>5
  <2> QED BY <2>1, <2>2, <2>3, <1>5, SubSeqOfSubSeq
<1> QED BY <1>1, <1>2, <1>3, <1>5, <1>6

(* The nodes of a path are there, from the root on.                        *)
LEMMA PathPrefixes ==
    ASSUME NEW b, NEW M, NEW r, Reading(b, M, r), NEW k \in 1 .. Len(r), NEW x \in 1 .. Len(r[k].path)
    PROVE  SubSeq(r[k].path, 1, x) \in PathsOf(r)
<1>1. Len(r) \in Nat /\ Len(r) >= 1 /\ DOMAIN r = 1 .. Len(r) /\ Layout(b) /\ Marks(b, M) BY ReadingIs
<1> DEFINE last == Len(r) - 1
           Held(n) == \A j \in 1 .. Len(r[n].path) : SubSeq(r[n].path, 1, j) \in PathsOf(r)
           Q == {n \in 0 .. last : Held(n + 1)}
<1>2. \A n \in 1 .. Len(r) : r[n].tag = FDT_BEGIN_NODE => r[n].path \in PathsOf(r)
    BY <1>1 DEF PathsOf, Begins
<1>3. 0 \in Q
  <2>1. PICK q : q = r[1].path OBVIOUS
  <2>2. q = Root /\ q \in PathsOf(r)
    <3>1. r[1].tag = FDT_BEGIN_NODE /\ r[1].path = Root /\ r[1].off = 0 BY FirstTag
    <3>2. 1 \in 1 .. Len(r) BY <1>1
    <3> QED BY <1>2, <2>1, <3>1, <3>2
  <2>3. q \in Seq({<<>>}) /\ Len(q) = 1 BY <2>2 DEF Root
  <2>4. SubSeq(q, 1, Len(q)) = q BY <2>3, SubSeqFull
  <2>5. ASSUME NEW j \in 1 .. Len(q) PROVE SubSeq(q, 1, j) \in PathsOf(r)
    <3>1. j = Len(q) BY <2>3
    <3>2. SubSeq(q, 1, j) = q BY <2>4, <3>1
    <3> QED BY <2>2, <3>2
  <2> QED BY <1>1, <2>1, <2>5
<1>4. ASSUME NEW n \in 0 .. last - 1, n \in Q PROVE n + 1 \in Q
  <2>1. PICK j : j = n + 1 OBVIOUS
  <2>2. j \in 1 .. Len(r) - 1 /\ j \in 1 .. Len(r) /\ j + 1 \in 1 .. Len(r) /\ j \in 0 .. last BY <1>1, <2>1
  <2>3. Held(j) BY <1>4, <2>1
  <2>4. PICK m : m = MarkFor(M, r[j]) OBVIOUS
  <2>5. PICK i : i = MarkFor(M, r[j + 1]) OBVIOUS
  <2>6. PICK p : p = r[j].path OBVIOUS
  <2>7. PICK q : q = r[j + 1].path OBVIOUS
  <2>8. p \in Seq(Seq(Int)) /\ Len(p) = m.depth BY <2>2, <2>4, <2>6, WalkIs
  <2>9. q \in Seq(Seq(Int)) /\ Len(q) = i.depth /\ r[j + 1].tag = i.tag BY <2>2, <2>5, <2>7, WalkIs
  <2>10. i \in M /\ Follows(m, i) /\ q = PathAfter(b, i, p) BY <2>2, <2>4, <2>5, <2>6, <2>7, WalkNext
  <2>11. i \in Mark /\ Stands(b, i) /\ End(i) <= b.nstruct /\ i.depth \in Nat BY <1>1, <2>10, MarkPlace
  <2>12. \A y \in 1 .. Len(p) : SubSeq(p, 1, y) \in PathsOf(r) BY <2>3, <2>6
  <2>13. ASSUME NEW y \in 1 .. Len(q) PROVE SubSeq(q, 1, y) \in PathsOf(r)
    <3>1. CASE i.tag = FDT_BEGIN_NODE
      <4>0. PICK e : e = NameText(b, i) OBVIOUS
      <4>1. q = Append(p, e) BY <2>10, <3>1, <4>0, TagsDiffer, Zenon DEF PathAfter
      <4>2. e \in Seq(Int) BY <1>1, <2>11, <3>1, <4>0, MarkWords
      <4>3. q \in PathsOf(r) BY <1>2, <2>2, <2>7, <2>9, <3>1
      <4>4. IF y = Len(p) + 1 THEN SubSeq(q, 1, y) = q
            ELSE y \in 1 .. Len(p) /\ SubSeq(q, 1, y) = SubSeq(p, 1, y)
        <5>1. PICK S : S = Seq(Int) OBVIOUS
        <5>2. p \in Seq(S) /\ e \in S BY <2>8, <4>2, <5>1
        <5> QED BY <4>1, <5>2, AppendPrefix
      <4> QED BY <2>12, <4>3, <4>4
    <3>2. CASE i.tag = FDT_END_NODE
      <4>1. q = Front(p) BY <2>10, <3>2, TagsDiffer, Zenon DEF PathAfter
      <4>2. m.depth = i.depth + 1 BY <2>10, <3>2, TagsDiffer DEF Follows
      <4>3. p # <<>>
        <5>1. Len(p) # 0 BY <2>8, <2>11, <4>2
        <5> QED BY <5>1
      <4>4. y \in 1 .. Len(p) /\ SubSeq(q, 1, y) = SubSeq(p, 1, y) BY <2>8, <2>13, <4>1, <4>3, FrontPrefix
      <4> QED BY <2>12, <4>4
    <3>3. CASE i.tag # FDT_BEGIN_NODE /\ i.tag # FDT_END_NODE
      <4>1. q = p BY <2>10, <3>3, Zenon DEF PathAfter
      <4> QED BY <2>12, <2>13, <4>1
    <3> QED BY <3>1, <3>2, <3>3
  <2>14. Held(j + 1) BY <2>7, <2>13
  <2> QED BY <2>1, <2>2, <2>14
<1>5. 0 .. last \subseteq Q
  <2>1. last \in Nat BY <1>1
  <2> HIDE DEF Q, last
  <2> QED BY <1>3, <1>4, <2>1, PrefixInduction
<1>6. k - 1 \in 0 .. last /\ (k - 1) + 1 = k BY <1>1
<1>7. k - 1 \in Q BY <1>5, <1>6
<1>8. Held(k) BY <1>6, <1>7
<1> QED BY <1>8

-----------------------------------------------------------------------------
(* The recursion of create_paths, and that there is such a function.       *)
CreateStep(path, before, k) ==
    IF before.err # "ok" \/ SubSeq(path, 1, k) \in PathsOf(Read(before.blob)) THEN before
    ELSE AddSubNode(ReallocNode(before.blob, RestLen(path, k)), Read(before.blob),
                    SubSeq(path, 1, k - 1), path[k])
Creating(b, path, f, last) ==
    f = [k \in 1 .. last |-> IF k = 1 THEN Ok(b) ELSE CreateStep(path, f[k - 1], k)]

(* The results so far, for every number of names.                          *)
LEMMA CreatingExists ==
    ASSUME NEW b, NEW path, NEW last \in Nat, last >= 1
    PROVE  \E f : Creating(b, path, f, last)
<1> DEFINE Q == {n \in 0 .. last - 1 : \E f : Creating(b, path, f, n + 1)}
<1>1. 0 \in Q
  <2> DEFINE f == [n \in 1 .. 1 |-> Ok(b)]
  <2>1. Creating(b, path, f, 0 + 1) BY DEF Creating
  <2> HIDE DEF f
  <2> QED BY <2>1
<1>2. ASSUME NEW n \in 0 .. (last - 1) - 1, n \in Q PROVE n + 1 \in Q
  <2>1. PICK m : m = n + 1 OBVIOUS
  <2>2. m \in Nat /\ m >= 1 BY <2>1
  <2>3. PICK f : Creating(b, path, f, m) BY <1>2, <2>1
  <2> DEFINE new == CreateStep(path, f[m], m + 1)
             g == [k \in 1 .. m + 1 |-> IF k = m + 1 THEN new ELSE f[k]]
             body == [k \in 1 .. m + 1 |-> IF k = 1 THEN Ok(b) ELSE CreateStep(path, g[k - 1], k)]
  <2>4. \A k \in 1 .. m : f[k] = IF k = 1 THEN Ok(b) ELSE CreateStep(path, f[k - 1], k)
      BY <2>3 DEF Creating
  <2>5. \A k \in 1 .. m : g[k] = f[k] BY <2>2
  <2>6. ASSUME NEW k \in 1 .. m + 1 PROVE g[k] = body[k]
    <3>1. CASE k = m + 1
      <4>1. m \in 1 .. m /\ k - 1 = m /\ k # 1 BY <2>2, <3>1
      <4> QED BY <2>5, <3>1, <4>1
    <3>2. CASE k \in 1 .. m /\ k # 1
      <4>1. k - 1 \in 1 .. m BY <2>2, <3>2
      <4> QED BY <2>4, <2>5, <3>2, <4>1
    <3>3. CASE k = 1
      <4>1. 1 \in 1 .. m BY <2>2
      <4> QED BY <2>4, <2>5, <3>3, <4>1
    <3>4. k = m + 1 \/ k \in 1 .. m BY <2>2
    <3> QED BY <3>1, <3>2, <3>3, <3>4
  <2>7. g = body
    <3>1. DOMAIN g = 1 .. m + 1 /\ DOMAIN body = 1 .. m + 1 OBVIOUS
    <3> QED BY <2>6, <3>1
  <2>8. Creating(b, path, g, m + 1) BY <2>7 DEF Creating
  <2>9. n + 1 \in 0 .. last - 1 OBVIOUS
  <2> HIDE DEF g
  <2> QED BY <2>1, <2>8, <2>9
<1>3. last - 1 \in Q
  <2>1. last - 1 \in Nat OBVIOUS
  <2> HIDE DEF Q
  <2>2. 0 .. last - 1 \subseteq Q BY <1>1, <1>2, <2>1, PrefixInduction
  <2> QED BY <2>1, <2>2
<1>4. (last - 1) + 1 = last OBVIOUS
<1> QED BY <1>3, <1>4

Created(b, path, n, v) ==
    /\ CreatePaths(b, path) = v[n] /\ v[1] = Ok(b)
    /\ \A k \in 1 .. n - 1 : v[k + 1] = CreateStep(path, v[k], k + 1)

(* CreatePaths makes its steps one after the other.                        *)
LEMMA CreatePathsIs ==
    ASSUME NEW b, NEW path, NEW n \in Nat, n = Len(path), n >= 1
    PROVE  \E v : Created(b, path, n, v)
<1> DEFINE v == CHOOSE f : Creating(b, path, f, Len(path))
<1>1. Creating(b, path, v, Len(path)) BY CreatingExists
<1>2. CreatePaths(b, path) = v[Len(path)] BY Zenon DEF CreatePaths, Creating, CreateStep
<1> HIDE DEF v
<1>3. \A k \in 1 .. n : v[k] = IF k = 1 THEN Ok(b) ELSE CreateStep(path, v[k - 1], k)
    BY <1>1 DEF Creating
<1>4. v[1] = Ok(b)
  <2>1. 1 \in 1 .. n OBVIOUS
  <2> QED BY <1>3, <2>1
<1>5. ASSUME NEW k \in 1 .. n - 1 PROVE v[k + 1] = CreateStep(path, v[k], k + 1)
  <2>1. k + 1 \in 1 .. n /\ k + 1 # 1 /\ (k + 1) - 1 = k OBVIOUS
  <2> QED BY <1>3, <2>1
<1> QED BY <1>2, <1>4, <1>5 DEF Created

(* One node of the path, which has room.                                   *)
LEMMA CreateStepIs ==
    ASSUME NEW path \in Seq(Seq(Int)), NEW n \in Nat, n = Len(path), NEW k \in 1 .. n - 1,
           NEW before, before.err = "ok", Good(before.blob),
           SubSeq(path, 1, k) \in PathsOf(Read(before.blob)),
           path[k + 1] \in Names, NEW s, s = CreateStep(path, before, k + 1)
    PROVE  s.err = "ok" /\ Good(s.blob) /\ SubSeq(path, 1, k + 1) \in PathsOf(Read(s.blob))
<1>1. PICK b : b = before.blob OBVIOUS
<1>2. PICK r : r = Read(b) OBVIOUS
<1>3. PICK M : Marks(b, M) /\ Reading(b, M, r) BY <1>1, <1>2, GoodIs
<1>4. PICK top : top = SubSeq(path, 1, k) OBVIOUS
<1>5. PICK whole : whole = SubSeq(path, 1, k + 1) OBVIOUS
<1>6. PICK name : name = path[k + 1] OBVIOUS
<1>7. whole = Append(top, name)
  <2>1. 1 \in 1 .. Len(path) /\ k + 1 \in 1 .. Len(path) /\ (k + 1) - 1 = k OBVIOUS
  <2>2. SubSeq(path, 1, k + 1) = SubSeq(path, 1, (k + 1) - 1) \o <<path[k + 1]>>
    <3>1. k + 1 \in 1 .. Len(path) BY <2>1
    <3> QED BY <2>1, <3>1, SubSeqRecursiveSecond
  <2>3. top \in Seq(Seq(Int))
    <3>1. \A i \in 1 .. k : path[i] \in Seq(Int)
      <4>1. \A i \in 1 .. k : i \in 1 .. Len(path) OBVIOUS
      <4> QED BY <4>1, ElementOfSeq
    <3>2. 1 \in Int /\ k \in Int OBVIOUS
    <3> QED BY <1>4, <3>1, <3>2, SubSeqProperties
  <2>4. name \in Seq(Int) BY <1>6, <2>1, ElementOfSeq
  <2>5. Append(top, name) = top \o <<name>> BY <2>3, <2>4, AppendIsConcat
  <2> QED BY <1>4, <1>5, <1>6, <2>1, <2>2, <2>5
<1>8. CASE whole \in PathsOf(r)
  <2>1. s = before BY <1>1, <1>2, <1>5, <1>8 DEF CreateStep
  <2> QED BY <1>1, <1>2, <1>5, <1>8, <2>1
<1>9. CASE whole \notin PathsOf(r)
  <2>1. PICK m : m = RestLen(path, k + 1) OBVIOUS
  <2>2. PICK l : l = Len(name) OBVIOUS
  <2>3. PICK more : more = ReallocNode(b, m) OBVIOUS
  <2>4. l \in Nat
    <3>1. Len(name) \in Nat BY <1>6, NameBytes
    <3> QED BY <2>2, <3>1
  <2>5. m \in Nat /\ m >= Len(path[k + 1])
    <3>1. PICK y : y = k + 1 OBVIOUS
    <3>2. y \in 1 .. n BY <3>1
    <3>3. \A i \in 1 .. n : Len(path[i]) \in Nat
      <4>1. \A i \in 1 .. n : path[i] \in Seq(Int) BY ElementOfSeq
      <4> QED BY <4>1
    <3>4. RestLen(path, y) \in Nat /\ RestLen(path, y) >= Len(path[y]) BY <3>2, <3>3, RestLenIs
    <3> QED BY <2>1, <3>1, <3>4
  <2>6. l <= m BY <1>6, <2>2, <2>4, <2>5
  <2>7. Good(more) /\ Reading(more, M, r) /\ Fits(more, NodeSize(l))
    <3>1. Good(b) BY <1>1
    <3> QED BY <1>3, <2>3, <2>4, <2>5, <2>6, <3>1, ReallocNodeFits
  <2>8. s = AddSubNode(more, r, top, name)
    <3>1. (k + 1) - 1 = k OBVIOUS
    <3> QED BY <1>1, <1>2, <1>4, <1>5, <1>6, <1>9, <2>1, <2>3, <3>1 DEF CreateStep
  <2>9. top \in PathsOf(r) /\ name \in Names BY <1>1, <1>2, <1>4, <1>6
  <2>10. /\ Fine(s)
         /\ Fits(more, NodeSize(Len(name))) => s.err # "nospace"
         /\ s.err = "ok" => Append(top, name) \in PathsOf(Read(s.blob))
         /\ Fits(more, NodeSize(Len(name))) /\ Append(top, name) \notin PathsOf(r) => s.err = "ok"
      BY <2>7, <2>8, <2>9, AddSubNodeIs
  <2>11. s.err = "ok" BY <1>7, <1>9, <2>2, <2>7, <2>10
  <2>12. Good(s.blob) BY <2>10 DEF Fine
  <2> QED BY <1>5, <1>7, <2>10, <2>11, <2>12
<1> QED BY <1>8, <1>9

(* fdtput create_paths, with up to two nodes missing: it has room for all. *)
LEMMA TwoMore ==
    ASSUME NEW S, NEW parent \in Seq(S), NEW x \in S, NEW y \in S, NEW path, path = parent \o <<x, y>>
    PROVE  /\ path \in Seq(S) /\ Len(path) = Len(parent) + 2
           /\ \A k \in 1 .. Len(parent) : SubSeq(path, 1, k) = SubSeq(parent, 1, k)
           /\ \A k \in Len(parent) + 1 .. Len(path) : path[k] \in {x, y}
<1>1. <<x, y>> \in Seq(S) OBVIOUS
<1>2. path \in Seq(S) /\ Len(path) = Len(parent) + 2 BY <1>1
<1>3. ASSUME NEW k \in 1 .. Len(parent) PROVE SubSeq(path, 1, k) = SubSeq(parent, 1, k)
  <2>1. 1 \in 1 .. Len(parent) OBVIOUS
  <2> QED BY <1>1, <1>3, <2>1, SubSeqOfConcat1
<1>4. ASSUME NEW k \in Len(parent) + 1 .. Len(path) PROVE path[k] \in {x, y}
  <2>1. k = Len(parent) + 1 \/ k = Len(parent) + 2 BY <1>2
  <2>2. path[Len(parent) + 1] = x /\ path[Len(parent) + 2] = y BY <1>1
  <2> QED BY <2>1, <2>2
<1> QED BY <1>2, <1>3, <1>4

(* Every node of the path is there in the end.                             *)
LEMMA CreatePathsFine ==
    ASSUME NEW b, Good(b), NEW M, NEW r, Reading(b, M, r), NEW parent \in PathsOf(r),
           NEW x \in Names, NEW y \in Names, NEW path, path = parent \o <<x, y>>,
           NEW c, c = CreatePaths(b, path)
    PROVE  c.err = "ok" /\ Good(c.blob) /\ path \in PathsOf(Read(c.blob))
<1>1. PICK n : n = Len(path) OBVIOUS
<1>2. PICK l : l = Len(parent) OBVIOUS
<1>3. PICK i : i = NodeAt(r, parent) OBVIOUS
<1>4. PICK m : m = MarkFor(M, r[i]) OBVIOUS
<1>5. i \in 1 .. Len(r) - 1 /\ r[i].path = parent /\ parent \in Seq(Seq(Int)) /\ Len(parent) >= 1
    BY <1>3, <1>4, PathIs
<1>6. Len(r) \in Nat BY ReadingIs
<1>7. x \in Seq(Int) /\ y \in Seq(Int)
  <2>1. Names \subseteq Seq(Nat \ {0}) BY Constants
  <2>2. Seq(Nat \ {0}) \subseteq Seq(Int) OBVIOUS
  <2> QED BY <2>1, <2>2
<1>8. /\ path \in Seq(Seq(Int)) /\ Len(path) = Len(parent) + 2
      /\ \A k \in 1 .. Len(parent) : SubSeq(path, 1, k) = SubSeq(parent, 1, k)
      /\ \A k \in Len(parent) + 1 .. Len(path) : path[k] \in {x, y}
  <2>1. PICK S : S = Seq(Int) OBVIOUS
  <2>2. parent \in Seq(S) /\ x \in S /\ y \in S BY <1>5, <1>7, <2>1
  <2>3. /\ path \in Seq(S) /\ Len(path) = Len(parent) + 2
        /\ \A k \in 1 .. Len(parent) : SubSeq(path, 1, k) = SubSeq(parent, 1, k)
        /\ \A k \in Len(parent) + 1 .. Len(path) : path[k] \in {x, y}
      BY <2>2, TwoMore
  <2> QED BY <2>1, <2>3
<1>9. l \in Nat /\ l >= 1 /\ n = l + 2 BY <1>1, <1>2, <1>5, <1>8
<1>10. \A k \in 1 .. l : SubSeq(path, 1, k) \in PathsOf(r)
  <2> SUFFICES ASSUME NEW k \in 1 .. l PROVE SubSeq(path, 1, k) \in PathsOf(r) OBVIOUS
  <2>1. i \in 1 .. Len(r) BY <1>5, <1>6
  <2>2. k \in 1 .. Len(r[i].path) BY <1>2, <1>5
  <2>3. SubSeq(r[i].path, 1, k) \in PathsOf(r) BY <2>1, <2>2, PathPrefixes
  <2> QED BY <1>2, <1>5, <1>8, <2>3
<1>10a. PICK v : Created(b, path, n, v)
  <2>1. n \in Nat /\ n >= 1 BY <1>9
  <2> QED BY <1>1, <2>1, CreatePathsIs
<1>11. /\ CreatePaths(b, path) = v[n] /\ v[1] = Ok(b)
       /\ \A k \in 1 .. n - 1 : v[k + 1] = CreateStep(path, v[k], k + 1)
    BY <1>10a DEF Created
<1> DEFINE Held(k) == /\ v[k].err = "ok" /\ Good(v[k].blob)
                      /\ SubSeq(path, 1, k) \in PathsOf(Read(v[k].blob))
                      /\ k <= l => v[k].blob = b
           Q == {k \in 0 .. n - 1 : Held(k + 1)}
<1>12. r = Read(b) BY DEF Reading
<1>13. 0 \in Q
  <2>1. v[1].err = "ok" /\ v[1].blob = b BY <1>11, OkIs
  <2>2. SubSeq(path, 1, 1) \in PathsOf(r) BY <1>9, <1>10
  <2>3. Held(1) BY <1>12, <2>1, <2>2
  <2> HIDE DEF Held
  <2> QED BY <1>9, <2>3
<1>14. ASSUME NEW j \in 0 .. (n - 1) - 1, j \in Q PROVE j + 1 \in Q
  <2>1. PICK k : k = j + 1 OBVIOUS
  <2>2. k \in 1 .. n - 1 /\ k + 1 \in 1 .. n BY <1>9, <2>1
  <2>3. Held(k) BY <1>14, <2>1
  <2>4. PICK s : s = v[k + 1] OBVIOUS
  <2>5. s = CreateStep(path, v[k], k + 1) BY <1>11, <2>2, <2>4
  <2>6. Held(k + 1)
    <3>1. CASE k + 1 <= l
      <4>1. k + 1 \in 1 .. l /\ k <= l BY <1>9, <2>2, <3>1
      <4>2. v[k].blob = b BY <2>3, <4>1
      <4>3. SubSeq(path, 1, k + 1) \in PathsOf(Read(v[k].blob)) BY <1>10, <1>12, <4>1, <4>2
      <4>4. s = v[k] BY <2>5, <4>3 DEF CreateStep
      <4>5. Held(k + 1) BY <2>3, <2>4, <4>2, <4>3, <4>4
      <4> QED BY <4>5
    <3>2. CASE ~(k + 1 <= l)
      <4>1. k + 1 \in l + 1 .. n BY <1>9, <2>2, <3>2
      <4>2. path[k + 1] \in Names BY <1>1, <1>2, <1>8, <4>1
      <4>3. PICK before : before = v[k] OBVIOUS
      <4>4. before.err = "ok" /\ Good(before.blob) /\ SubSeq(path, 1, k) \in PathsOf(Read(before.blob))
          BY <2>3, <4>3
      <4>5. s = CreateStep(path, before, k + 1) BY <2>5, <4>3
      <4>6. n \in Nat BY <1>9
      <4>7. s.err = "ok" /\ Good(s.blob) /\ SubSeq(path, 1, k + 1) \in PathsOf(Read(s.blob))
          BY <1>1, <1>8, <2>2, <4>2, <4>4, <4>5, <4>6, CreateStepIs
      <4> QED BY <2>4, <3>2, <4>7
    <3> QED BY <3>1, <3>2
  <2>9. j + 1 \in 0 .. n - 1 BY <1>9
  <2> HIDE DEF Held
  <2> QED BY <2>1, <2>6, <2>9
<1>15. 0 .. n - 1 \subseteq Q
  <2>1. n - 1 \in Nat BY <1>9
  <2> HIDE DEF Q
  <2> QED BY <1>13, <1>14, <2>1, PrefixInduction
<1>16. Held(n)
  <2>1. n - 1 \in 0 .. n - 1 /\ (n - 1) + 1 = n BY <1>9
  <2>2. n - 1 \in Q BY <1>15, <2>1
  <2> HIDE DEF Held
  <2> QED BY <2>1, <2>2
<1>17. SubSeq(path, 1, n) = path BY <1>1, <1>8, SubSeqFull
<1> QED BY <1>11, <1>16, <1>17

-----------------------------------------------------------------------------
(* Such a blob is well formed.                                             *)
LEMMA LastPlace ==
    ASSUME NEW b, NEW M, NEW r, Reading(b, M, r)
    PROVE  /\ r[Len(r)].tag = FDT_END /\ r[Len(r)].off + TAGSIZE = b.nstruct
           /\ \A i \in 1 .. Len(r) - 1 : r[i].path = <<>> => i = Len(r) - 1
<1>1. Len(r) \in Nat /\ Len(r) >= 1 /\ Marks(b, M) /\ r[Len(r)].tag = FDT_END BY ReadingIs
<1>2. r[Len(r)].off + TAGSIZE = b.nstruct
  <2>1. PICK k : k = Len(r) OBVIOUS
  <2>2. k \in 1 .. Len(r) BY <1>1, <2>1
  <2>3. PICK m : m = MarkFor(M, r[k]) OBVIOUS
  <2>4. m \in M /\ r[k].off = m.off /\ r[k].tag = m.tag BY <2>2, <2>3, WalkIs
  <2>5. m.tag = FDT_END BY <1>1, <2>1, <2>4
  <2>6. Stands(b, m) /\ End(m) = b.nstruct /\ End(m) = m.off + m.size BY <1>1, <2>4, <2>5, MarkPlace
  <2>7. m.size = TAGSIZE BY <2>5, <2>6 DEF Stands
  <2> QED BY <2>1, <2>4, <2>6, <2>7
<1>3. ASSUME NEW i \in 1 .. Len(r) - 1, r[i].path = <<>> PROVE i = Len(r) - 1
  <2> SUFFICES ASSUME i # Len(r) - 1 PROVE FALSE OBVIOUS
  <2>1. i \in 1 .. Len(r) /\ i + 1 \in 1 .. Len(r) - 1 /\ i + 1 \in 1 .. Len(r) BY <1>1
  <2>2. PICK m : m = MarkFor(M, r[i]) OBVIOUS
  <2>3. PICK n : n = MarkFor(M, r[i + 1]) OBVIOUS
  <2>4. PICK z : z = MarkFor(M, r[(i + 1) + 1]) OBVIOUS
  <2>5. m \in M /\ n \in M /\ m.tag # FDT_END /\ n.off = End(m) BY <2>2, <2>3, WalkNext
  <2>6. n \in M /\ z \in M /\ z.off = End(n)
    <3>1. PICK j : j = i + 1 OBVIOUS
    <3>2. j \in 1 .. Len(r) - 1 BY <2>1, <3>1
    <3>3. n = MarkFor(M, r[j]) /\ z = MarkFor(M, r[j + 1]) BY <2>3, <2>4, <3>1
    <3> QED BY <3>2, <3>3, WalkNext
  <2>7. m.depth = 0
    <3>1. Len(r[i].path) = m.depth BY <2>1, <2>2, WalkIs
    <3> QED BY <1>3, <3>1
  <2>8. End(m) + TAGSIZE = b.nstruct /\ End(m) \in Nat BY <1>1, <2>5, <2>7, MarkPlace
  <2>9. End(n) = n.off + n.size /\ n.size >= TAGSIZE /\ n.size \in Nat /\ End(n) \in Nat BY <1>1, <2>6, MarkPlace
  <2>10. End(z) = z.off + z.size /\ z.size >= 1 /\ z.size \in Nat /\ End(z) <= b.nstruct
      BY <1>1, <2>6, MarkPlace
  <2> QED BY <2>5, <2>6, <2>8, <2>9, <2>10, Constants
<1> QED BY <1>1, <1>2, <1>3

(* What every call needs is what WellFormed says, and more.                *)
LEMMA GoodIsWellFormed ==
    ASSUME Good(blob)
    PROVE  WellFormed
<1>1. PICK r : r = Read(blob) OBVIOUS
<1>2. PICK M : Reading(blob, M, r) BY <1>1, GoodIs
<1>3. PICK n \in Nat : RsvEnds(blob, n) BY DEF Good
<1>4. Layout(blob) BY DEF Good
<1>5. /\ blob.rsv \in Nat /\ blob.struct + blob.nstruct <= blob.strings
      /\ Len(blob.mem) = blob.total /\ DataSize(blob) <= blob.total
    BY <1>4, LayoutIs, Fields
<1>6. blob.rsv + (NumMemRsv(blob) + 1) * RsvSize <= blob.struct
  <2>1. NumMemRsv(blob) = n BY <1>3, <1>4, NumMemRsvIs
  <2> QED BY <1>3, <2>1 DEF RsvEnds
<1>7. /\ r[Len(r)].tag = FDT_END /\ r[Len(r)].off + TAGSIZE = blob.nstruct
      /\ \A i \in 1 .. Len(r) - 1 : r[i].path = <<>> => i = Len(r) - 1
    BY <1>2, LastPlace
<1>8. ASSUME NEW i \in 1 .. Len(r), r[i].tag = FDT_PROP
      PROVE  /\ r[i].node # 0
             /\ NulFrom(blob, blob.strings + WordAt(blob, blob.struct + r[i].off + 2 * TAGSIZE))
                    < DataSize(blob)
             /\ PropName(blob, r, i) \in Names
  <2>1. PICK m : m = MarkFor(M, r[i]) OBVIOUS
  <2> QED BY <1>2, <1>8, <2>1, PropIs
<1>9. blob.rsv >= 0 BY <1>5
<1> QED BY <1>1, <1>5, <1>6, <1>7, <1>8, <1>9 DEF WellFormed

-----------------------------------------------------------------------------
(* The inductive invariant: what the next call needs, the nodes that the   *)
(* readers find in it, and no answer of fdtput that there is no room.      *)
FdtInv ==
    /\ Good(blob)
    /\ seen.nodes = PathsOf(Read(blob))
    /\ answer \in Answers

(* A step to a blob that is fine.                                          *)
LEMMA BecomesKeeps ==
    ASSUME FdtInv, NEW b, Good(b), NEW because \in Answers, Becomes(b, because)
    PROVE  FdtInv'
<1>1. blob' = b /\ answer' = because /\ seen' = IF b = blob THEN seen ELSE TreeIn(b) BY DEF Becomes
<1>2. TreeIn(b).nodes = PathsOf(Read(b)) BY DEF TreeIn
<1>3. seen'.nodes = PathsOf(Read(b)) BY <1>1, <1>2 DEF FdtInv
<1>4. Good(blob') /\ seen'.nodes = PathsOf(Read(blob')) BY <1>1, <1>3
<1> QED BY <1>1, <1>4 DEF FdtInv

(* A call of a client, whether it succeeds or not.                         *)
LEMMA ClientKeeps ==
    ASSUME FdtInv, NEW result, Fine(result), Client(result)
    PROVE  FdtInv'
<1>1. Good(Tidy(result.blob)) /\ result.err \in Answers BY GoodTidy DEF Fine
<1> QED BY <1>1, BecomesKeeps DEF Client

(* fdtput, which writes what it has packed or leaves the file.             *)
LEMMA FdtputKeeps ==
    ASSUME FdtInv, NEW result, Fine(result), result.err # "nospace", Fdtput(result)
    PROVE  FdtInv'
<1>1. Good(Pack(result.blob)) /\ Good(blob) /\ result.err \in Answers BY GoodPack DEF Fine, FdtInv
<1>2. CASE result.err = "ok"
  <2>1. Becomes(Pack(result.blob), "ok") BY <1>2 DEF Fdtput
  <2> QED BY <1>1, <1>2, <2>1, BecomesKeeps
<1>3. CASE result.err # "ok"
  <2>1. Becomes(blob, result.err) BY <1>3 DEF Fdtput
  <2> QED BY <1>1, <2>1, BecomesKeeps
<1> QED BY <1>2, <1>3

-----------------------------------------------------------------------------
(* Every call of libfdt by a client.                                       *)
LEMMA InvReading ==
    ASSUME FdtInv, NEW r, r = Read(blob)
    PROVE  Good(blob) /\ Paths = PathsOf(r) /\ \E M : Reading(blob, M, r)
<1>1. Good(blob) /\ Paths = PathsOf(r) BY DEF FdtInv, Paths
<1>2. \E M : Marks(blob, M) /\ Reading(blob, M, r) BY <1>1, GoodIs
<1> QED BY <1>1, <1>2

(* fdt_setprop, fdt_appendprop, fdt_delprop and fdt_nop_property.          *)
LEMMA ClientChangesProperties ==
    ASSUME FdtInv, ClientSetsProperty \/ ClientDropsProperty
    PROVE  FdtInv'
<1>1. PICK r : r = Read(blob) OBVIOUS
<1>2. Good(blob) /\ Paths = PathsOf(r) BY <1>1, InvReading
<1>3. PICK M : Reading(blob, M, r) BY <1>1, InvReading
<1>4. CASE ClientSetsProperty
  <2>1. PICK path \in Paths, name \in Names, value \in Values :
            \/ Client(SetProp(blob, r, path, name, value))
            \/ Client(AppendProp(blob, r, path, name, value))
      BY <1>1, <1>4 DEF ClientSetsProperty
  <2>2. path \in PathsOf(r) BY <1>2
  <2>3. CASE Client(SetProp(blob, r, path, name, value))
    <3>1. PICK s : s = SetProp(blob, r, path, name, value) OBVIOUS
    <3>2. PICK need : need = SetNeed(blob, r, path, name, value) OBVIOUS
    <3>3. Tries(blob, s, need) BY <1>2, <1>3, <2>2, <3>1, <3>2, SetPropTries
    <3>4. Fine(s) BY <3>3, TriesIsFine
    <3> QED BY <2>3, <3>1, <3>4, ClientKeeps
  <2>4. CASE Client(AppendProp(blob, r, path, name, value))
    <3>1. Fine(AppendProp(blob, r, path, name, value)) BY <1>2, <1>3, <2>2, GoodAppendProp
    <3> QED BY <2>4, <3>1, ClientKeeps
  <2> QED BY <2>1, <2>3, <2>4
<1>5. CASE ClientDropsProperty
  <2>1. PICK path \in Paths, name \in Names :
            Client(DelProp(blob, r, path, name)) \/ Client(NopProperty(blob, r, path, name))
      BY <1>1, <1>5 DEF ClientDropsProperty
  <2>2. Fine(DelProp(blob, r, path, name)) /\ DelProp(blob, r, path, name).err # "nospace"
      BY <1>2, <1>3, GoodDelProp
  <2>3. Fine(NopProperty(blob, r, path, name)) BY <1>2, <1>3, GoodNopProperty
  <2> QED BY <2>1, <2>2, <2>3, ClientKeeps
<1> QED BY <1>4, <1>5

(* fdt_add_subnode, fdt_del_node, fdt_nop_node and fdt_set_name.           *)
LEMMA ClientChangesNodes ==
    ASSUME FdtInv, ClientAddsNode \/ ClientDropsNode \/ ClientRenames
    PROVE  FdtInv'
<1>1. PICK r : r = Read(blob) OBVIOUS
<1>2. Good(blob) /\ Paths = PathsOf(r) BY <1>1, InvReading
<1>3. PICK M : Reading(blob, M, r) BY <1>1, InvReading
<1>4. CASE ClientAddsNode
  <2>1. PICK path \in Paths, name \in Names : Client(AddSubNode(blob, r, path, name))
      BY <1>1, <1>4 DEF ClientAddsNode
  <2>2. path \in PathsOf(r) BY <1>2
  <2>3. PICK s : s = AddSubNode(blob, r, path, name) OBVIOUS
  <2>4. /\ Fine(s)
        /\ Fits(blob, NodeSize(Len(name))) => s.err # "nospace"
        /\ s.err = "ok" => Append(path, name) \in PathsOf(Read(s.blob))
        /\ Fits(blob, NodeSize(Len(name))) /\ Append(path, name) \notin PathsOf(r) => s.err = "ok"
      BY <1>2, <1>3, <2>2, <2>3, AddSubNodeIs
  <2> QED BY <2>1, <2>3, <2>4, ClientKeeps
<1>5. CASE ClientDropsNode
  <2>1. PICK path \in Paths \ {Root} : Client(DelSubNode(blob, r, path)) \/ Client(NopNode(blob, r, path))
      BY <1>1, <1>5 DEF ClientDropsNode
  <2>2. path \in PathsOf(r) \ {Root} BY <1>2
  <2>3. Fine(DelSubNode(blob, r, path)) /\ DelSubNode(blob, r, path).err # "nospace"
      BY <1>2, <1>3, <2>2, GoodDelSubNode
  <2>4. Fine(NopNode(blob, r, path)) BY <1>2, <1>3, <2>2, GoodNopNode
  <2> QED BY <2>1, <2>3, <2>4, ClientKeeps
<1>6. CASE ClientRenames
  <2>1. PICK path \in Paths \ {Root}, name \in Names : Client(SetNodeName(blob, r, path, name))
      BY <1>1, <1>6 DEF ClientRenames
  <2>2. path \in PathsOf(r) \ {Root} BY <1>2
  <2>3. Fine(SetNodeName(blob, r, path, name)) BY <1>2, <1>3, <2>2, GoodSetNodeName
  <2> QED BY <2>1, <2>3, ClientKeeps
<1> QED BY <1>4, <1>5, <1>6

(* fdt_add_mem_rsv, fdt_del_mem_rsv, fdt_pack and fdt_open_into.           *)
LEMMA ClientChangesSpace ==
    ASSUME FdtInv, ClientReserves \/ ClientResizes
    PROVE  FdtInv'
<1>1. Good(blob) BY DEF FdtInv
<1>2. CASE ClientReserves
  <2>1. ASSUME NEW size \in Sizes, Client(AddRsv(blob, size)) PROVE FdtInv'
    <3>1. size \in Nat BY Constants
    <3>2. Fine(AddRsv(blob, size)) BY <1>1, <3>1, GoodAddRsv
    <3> QED BY <2>1, <3>2, ClientKeeps
  <2>2. ASSUME NEW n \in 1 .. NumMemRsv(blob), Client(DelRsv(blob, n)) PROVE FdtInv'
    <3>1. Fine(DelRsv(blob, n)) BY <1>1, GoodDelRsv
    <3> QED BY <2>2, <3>1, ClientKeeps
  <2> QED BY <1>2, <2>1, <2>2 DEF ClientReserves
<1>3. CASE ClientResizes
  <2>1. ASSUME NEW b, Good(b), Client([Ok(b) EXCEPT !.err = "resized"]) PROVE FdtInv'
    <3>1. PICK s : s = [Ok(b) EXCEPT !.err = "resized"] OBVIOUS
    <3>2. s.blob = b /\ s.err = "resized" BY <3>1 DEF Ok
    <3>3. Fine(s) BY <2>1, <3>2 DEF Fine, Answers
    <3> QED BY <2>1, <3>1, <3>3, ClientKeeps
  <2>2. Good(Pack(blob)) BY <1>1, GoodPack
  <2>3. ASSUME NEW more \in Growths PROVE Good(OpenInto(blob, blob.total + more))
    <3>1. more \in Nat BY Constants
    <3>2. blob.total \in Nat BY <1>1, LayoutIs, Fields DEF Good
    <3>3. blob.total + more \in Nat /\ blob.total + more >= blob.total BY <3>1, <3>2
    <3> QED BY <1>1, <3>3, GoodOpenInto
  <2>4. \/ Client([Ok(Pack(blob)) EXCEPT !.err = "resized"])
        \/ \E more \in Growths : Client([Ok(OpenInto(blob, blob.total + more)) EXCEPT !.err = "resized"])
      BY <1>3 DEF ClientResizes
  <2>5. CASE Client([Ok(Pack(blob)) EXCEPT !.err = "resized"])
    <3>1. PICK b : b = Pack(blob) OBVIOUS
    <3> QED BY <2>1, <2>2, <2>5, <3>1
  <2>6. CASE \E more \in Growths : Client([Ok(OpenInto(blob, blob.total + more)) EXCEPT !.err = "resized"])
    <3>1. PICK more \in Growths : Client([Ok(OpenInto(blob, blob.total + more)) EXCEPT !.err = "resized"])
        BY <2>6
    <3>2. PICK b : b = OpenInto(blob, blob.total + more) OBVIOUS
    <3>3. Good(b) BY <2>3, <3>2
    <3> QED BY <2>1, <3>1, <3>2, <3>3
  <2> QED BY <2>4, <2>5, <2>6
<1> QED BY <1>2, <1>3

-----------------------------------------------------------------------------
(* Every way that fdtput is called.                                        *)
LEMMA FdtputKeepsInv ==
    ASSUME FdtInv, FdtputWrites \/ FdtputCreates \/ FdtputDrops
    PROVE  FdtInv'
<1>1. PICK r : r = Read(blob) OBVIOUS
<1>2. Good(blob) /\ Paths = PathsOf(r) BY <1>1, InvReading
<1>3. PICK M : Reading(blob, M, r) BY <1>1, InvReading
<1>4. CASE FdtputWrites
  <2>1. PICK path \in Paths, name \in Names, value \in Values :
            Fdtput(StoreKeyValue(blob, r, path, name, value))
      BY <1>1, <1>4 DEF FdtputWrites
  <2>2. path \in PathsOf(r) BY <1>2
  <2>3. PICK s : s = StoreKeyValue(blob, r, path, name, value) OBVIOUS
  <2>4. s.err = "ok" /\ Good(s.blob) BY <1>2, <1>3, <2>2, <2>3, StoreKeyValueIs
  <2>5. Fine(s) /\ s.err # "nospace" BY <2>4 DEF Fine, Answers
  <2> QED BY <2>1, <2>3, <2>5, FdtputKeeps
<1>5. CASE FdtputCreates
  <2>1. PICK path \in Paths, name \in Names : Fdtput(CreateNode(blob, r, path, name))
      BY <1>1, <1>5 DEF FdtputCreates
  <2>2. path \in PathsOf(r) BY <1>2
  <2>3. PICK s : s = CreateNode(blob, r, path, name) OBVIOUS
  <2>4. Fine(s) /\ s.err # "nospace" BY <1>2, <1>3, <2>2, <2>3, CreateNodeIs
  <2> QED BY <2>1, <2>3, <2>4, FdtputKeeps
<1>6. CASE FdtputDrops
  <2>1. PICK path \in Paths \ {Root} :
            \/ Fdtput(DelSubNode(blob, r, path))
            \/ \E name \in Names : Fdtput(DelProp(blob, r, path, name))
      BY <1>1, <1>6 DEF FdtputDrops
  <2>2. path \in PathsOf(r) \ {Root} BY <1>2
  <2>3. Fine(DelSubNode(blob, r, path)) /\ DelSubNode(blob, r, path).err # "nospace"
      BY <1>2, <1>3, <2>2, GoodDelSubNode
  <2>4. \A name : Fine(DelProp(blob, r, path, name)) /\ DelProp(blob, r, path, name).err # "nospace"
      BY <1>2, <1>3, GoodDelProp
  <2> QED BY <2>1, <2>3, <2>4, FdtputKeeps
<1> QED BY <1>4, <1>5, <1>6

(* With -p: the nodes of the path first, then the property.                *)
StoredAt(c, path, name, value) ==
    IF c.err # "ok" THEN c ELSE StoreKeyValue(c.blob, Read(c.blob), path, name, value)

(* create_paths and then store_key_value never want for room.              *)
LEMMA PathCreated ==
    ASSUME FdtInv, NEW parent \in Paths, NEW x \in Names, NEW y \in Names,
           NEW path, path = parent \o <<x, y>>, NEW c, c = CreatePaths(blob, path),
           NEW name \in Names, NEW value \in Values, NEW s,
           s = StoredAt(c, path, name, value)
    PROVE  Fine(s) /\ s.err # "nospace"
<1>1. PICK r : r = Read(blob) OBVIOUS
<1>2. Good(blob) /\ Paths = PathsOf(r) BY <1>1, InvReading
<1>3. PICK M : Reading(blob, M, r) BY <1>1, InvReading
<1>4. parent \in PathsOf(r) BY <1>2
<1>5. c.err = "ok" /\ Good(c.blob) /\ path \in PathsOf(Read(c.blob))
    BY <1>2, <1>3, <1>4, CreatePathsFine
<1>6. PICK b : b = c.blob OBVIOUS
<1>7. PICK q : q = Read(b) OBVIOUS
<1>8. Good(b) /\ path \in PathsOf(q) BY <1>5, <1>6, <1>7
<1>9. PICK M1 : Marks(b, M1) /\ Reading(b, M1, q) BY <1>7, <1>8, GoodIs
<1>10. s = StoreKeyValue(b, q, path, name, value) BY <1>5, <1>6, <1>7 DEF StoredAt
<1>11. s.err = "ok" /\ Good(s.blob) BY <1>8, <1>9, <1>10, StoreKeyValueIs
<1> QED BY <1>11 DEF Fine, Answers

(* fdtput -p.                                                              *)
LEMMA FdtputCreatesPathKeepsInv ==
    ASSUME FdtInv, FdtputCreatesPath
    PROVE  FdtInv'
<1> DEFINE Built(parent, rest, name, value) ==
               LET path == parent \o rest
                   c == CreatePaths(blob, path)
                   q == Read(c.blob)
               IN  IF c.err # "ok" THEN c ELSE StoreKeyValue(c.blob, q, path, name, value)
<1>1. \E parent \in Paths, x \in Names, y \in Names, name \in Names, value \in Values :
          Fdtput(Built(parent, <<x, y>>, name, value))
  <2>1. PICK parent \in Paths, rest \in {<<x, y>> : x, y \in Names} :
            \E name \in Names, value \in Values : Fdtput(Built(parent, rest, name, value))
      BY DEF FdtputCreatesPath, Asked
  <2>2. PICK name \in Names, value \in Values : Fdtput(Built(parent, rest, name, value)) BY <2>1
  <2>3. PICK x \in Names, y \in Names : rest = <<x, y>> BY <2>1
  <2> HIDE DEF Built
  <2> QED BY <2>2, <2>3
<1>2. PICK parent \in Paths, x \in Names, y \in Names, name \in Names, value \in Values :
          Fdtput(Built(parent, <<x, y>>, name, value))
    BY <1>1
<1>3. PICK s : s = Built(parent, <<x, y>>, name, value) OBVIOUS
<1>4. PICK path : path = parent \o <<x, y>> OBVIOUS
<1>5. PICK c : c = CreatePaths(blob, path) OBVIOUS
<1>6. s = StoredAt(c, path, name, value) BY <1>3, <1>4, <1>5 DEF StoredAt
<1> HIDE DEF Built
<1>7. Fine(s) /\ s.err # "nospace" BY <1>4, <1>5, <1>6, PathCreated
<1>8. Fdtput(s) BY <1>2, <1>3
<1> QED BY <1>7, <1>8, FdtputKeeps

-----------------------------------------------------------------------------
(* The blobs to start from are sound.                                      *)
LEMMA InitInv ==
    ASSUME Init
    PROVE  FdtInv
<1>1. Good(blob)
  <2>1. Sound(blob) BY FdtAssumption DEF Init, FdtAssumption
  <2>2. Layout(blob) /\ \E M : Marks(blob, M) BY <2>1 DEF Sound
  <2>3. blob.total \in Nat BY <2>2, LayoutIs, Fields
  <2>4. \E n \in Nat : RsvEnds(blob, n) BY <2>1, <2>3 DEF Sound
  <2> QED BY <2>2, <2>4 DEF Good
<1>2. seen.nodes = PathsOf(Read(blob)) BY DEF Init, TreeIn
<1>3. answer \in Answers BY DEF Init, Answers
<1> QED BY <1>1, <1>2, <1>3 DEF FdtInv

(* Every call keeps the invariant.                                         *)
LEMMA StepInv ==
    ASSUME FdtInv, [Next]_vars
    PROVE  FdtInv'
<1>1. CASE UNCHANGED vars BY <1>1 DEF FdtInv, vars
<1>2. CASE ClientSetsProperty \/ ClientDropsProperty BY <1>2, ClientChangesProperties
<1>3. CASE ClientAddsNode \/ ClientDropsNode \/ ClientRenames BY <1>3, ClientChangesNodes
<1>4. CASE ClientReserves \/ ClientResizes BY <1>4, ClientChangesSpace
<1>5. CASE FdtputWrites \/ FdtputCreates \/ FdtputDrops BY <1>5, FdtputKeepsInv
<1>6. CASE FdtputCreatesPath BY <1>6, FdtputCreatesPathKeepsInv
<1> QED BY <1>1, <1>2, <1>3, <1>4, <1>5, <1>6 DEF Next

(* After any calls, in any order, and failures among them.                 *)
THEOREM AlwaysFdtInv == Spec => []FdtInv
<1>1. Init => FdtInv BY InitInv
<1>2. FdtInv /\ [Next]_vars => FdtInv' BY StepInv
<1> QED BY <1>1, <1>2, PTL DEF Spec

(* Whatever is called, the blob stays one that libfdt can work on.         *)
THEOREM BlobStaysWellFormed == Spec => []WellFormed
<1>1. FdtInv => WellFormed BY GoodIsWellFormed DEF FdtInv
<1> QED BY <1>1, AlwaysFdtInv, PTL

(* The room that fdtput makes is always enough.                            *)
THEOREM FdtputAlwaysHasRoom == Spec => []FdtputHasRoom
<1>1. FdtInv => FdtputHasRoom BY DEF FdtInv, FdtputHasRoom, Answers
<1> QED BY <1>1, AlwaysFdtInv, PTL

=============================================================================

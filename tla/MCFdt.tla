------------------------------- MODULE MCFdt -------------------------------
(* Instances of Fdt: a tree of a root only and no space to spare, and one  *)
(* with a property and a subnode and gaps between its blocks.              *)
EXTENDS FdtMarks

a == <<1>>
ba == <<2, 1>>      \* ends in the other name
Zeros(n) == Times(NUL, n)

PropertyAndNode ==
    Word(FDT_PROP) \o Word(1) \o Word(0) \o Bytes(<<7>>) \o Zeros(TAGSIZE - 1)
    \o Word(FDT_BEGIN_NODE) \o Bytes(a) \o Zeros(FDT_TAGALIGN(2) - 1) \o Word(FDT_END_NODE)

Blob(gap, inside, strings) ==
    LET rsvmap == Word(0) \o Word(0) \o Word(0) \o Word(0)
        structure == Word(FDT_BEGIN_NODE) \o Zeros(TAGSIZE) \o inside
                     \o Word(FDT_END_NODE) \o Word(FDT_END)
        mem == Zeros(gap) \o rsvmap \o Zeros(gap) \o structure \o Zeros(gap) \o strings
    IN  [mem |-> mem,
         rsv |-> gap,
         struct |-> gap + Len(rsvmap) + gap, nstruct |-> Len(structure),
         strings |-> Len(mem) - Len(strings), nstrings |-> Len(strings),
         total |-> Len(mem)]

MCNames == {a, ba}
MCValues == {<<>>, <<7, 8, 9>>}
MCBlobs == {Blob(0, <<>>, <<>>), Blob(1, PropertyAndNode, Bytes(ba) \o <<NUL>>)}

(* No step reads which call was the last, so that states which differ in   *)
(* it alone are one; every step is still compared with its own call.       *)
Told == <<blob, seen, answer>>

=============================================================================

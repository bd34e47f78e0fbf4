------------------------------ MODULE FdtMarks ------------------------------
(***************************************************************************)
(* What a blob must be for the calls of libfdt to do what they promise, in *)
(* terms of its bytes alone: the structure block is covered by marks, one  *)
(* for each tag with what follows it, and the readers of Fdt find just     *)
(* these.  Stated for a set of marks, so that a splice takes some away,    *)
(* adds some, and moves the rest.                                          *)
(***************************************************************************)
EXTENDS Fdt

Byte == Int \X Int
BlobType == [mem : Seq(Byte), rsv : Nat, struct : Nat, nstruct : Nat,
             strings : Nat, nstrings : Nat, total : Nat]

Layout(b) ==
    /\ b \in BlobType /\ Len(b.mem) = b.total
    /\ b.rsv <= b.struct
    /\ b.struct + b.nstruct <= b.strings
    /\ DataSize(b) <= b.total

(* The first reserved region of size 0 is the one after the n-th.          *)
RsvEnds(b, n) ==
    /\ b.rsv + (n + 1) * RsvSize <= b.struct
    /\ RsvAt(b, n) = 0
    /\ \A k \in 0 .. n - 1 : RsvAt(b, k) # 0

-----------------------------------------------------------------------------
(* A mark: where a tag is, and how many bytes are its own.  len is of the  *)
(* name of a node or the value of a property, name where the name of a     *)
(* property is among the strings; depth is of the node the tag is in, and  *)
(* open says that no subnode has been before it.                           *)
Tags == {FDT_BEGIN_NODE, FDT_END_NODE, FDT_PROP, FDT_NOP, FDT_END}
Mark == [off : Nat, size : Nat, tag : Tags, len : Nat, name : Nat, depth : Nat, open : BOOLEAN]

IsWord(b, at, w) == \A k \in 1 .. TAGSIZE : At(b, at + k - 1) = <<w, k>>
IsText(b, at, n) == At(b, at + n) = NUL /\ \A k \in 0 .. n - 1 : At(b, at + k) # NUL
Spells(b, at, s) == (\A k \in 1 .. Len(s) : At(b, at + k - 1) = <<s[k], 0>>) /\ At(b, at + Len(s)) = NUL

(* The bytes of the mark are those of such a tag.                          *)
Stands(b, m) ==
    LET p == b.struct + m.off
    IN  /\ IsWord(b, p, m.tag)
        /\ m.tag = FDT_BEGIN_NODE => /\ m.size = TAGSIZE + FDT_TAGALIGN(m.len + 1)
                                     /\ IsText(b, p + TAGSIZE, m.len)
        /\ m.tag = FDT_PROP => /\ m.size = PropSize + FDT_TAGALIGN(m.len)
                               /\ IsWord(b, p + TAGSIZE, m.len)
                               /\ IsWord(b, p + 2 * TAGSIZE, m.name)
        /\ m.tag \in {FDT_END_NODE, FDT_NOP, FDT_END} => m.size = TAGSIZE
HasName(b, m) ==
    m.tag = FDT_PROP =>
        \E name \in Names : /\ m.name + Len(name) + 1 <= b.nstrings
                            /\ Spells(b, b.strings + m.name, name)

Aligned(x) == \E q \in 0 .. x : x = q * TAGSIZE
Opens(m) ==
    /\ m.tag \in {FDT_BEGIN_NODE, FDT_PROP} => m.open
    /\ m.open => m.tag \in {FDT_BEGIN_NODE, FDT_PROP, FDT_NOP}

(* From a tag to the next one.                                             *)
Follows(m, next) ==
    /\ CASE next.tag = FDT_BEGIN_NODE -> next.depth = m.depth + 1
         [] next.tag = FDT_END_NODE -> m.depth = next.depth + 1
         [] OTHER -> next.depth = m.depth
    /\ next.open => next.tag = FDT_BEGIN_NODE \/ m.open

End(m) == m.off + m.size
Apart(M) ==
    \A m, n \in M : /\ m.off < n.off => End(m) <= n.off
                    /\ m.off = n.off => m = n

(* Only the end of the root and FDT_END are outside the root.              *)
Within(b, m) ==
    /\ Aligned(m.off) /\ End(m) <= b.nstruct
    /\ m.tag = FDT_END => End(m) = b.nstruct /\ m.depth = 0
    /\ m.depth = 0 => \/ m.tag = FDT_END
                      \/ m.tag = FDT_END_NODE /\ End(m) + TAGSIZE = b.nstruct

IsRoot(m) == m.off = 0 /\ m.tag = FDT_BEGIN_NODE /\ m.len = 0 /\ m.depth = 1

Marks(b, M) ==
    /\ M \subseteq Mark /\ Apart(M)
    /\ \A m \in M : Stands(b, m) /\ HasName(b, m) /\ Opens(m) /\ Within(b, m)
    /\ \E m \in M : IsRoot(m)
    /\ \A m \in M : m.tag # FDT_END => \E n \in M : n.off = End(m) /\ Follows(m, n)

-----------------------------------------------------------------------------
(* The marks of the tags that a reader goes over.                          *)
MarksOf(b) ==
    LET r == Read(b)
        mark(k) ==
            LET tag == r[k].tag
            IN  [off |-> r[k].off, tag |-> tag,
                 size |-> IF tag = FDT_END THEN TAGSIZE ELSE r[k].next - r[k].off,
                 len |-> CASE tag = FDT_BEGIN_NODE -> Len(Last(r[k].path))
                           [] tag = FDT_PROP -> PropLen(b, r, k)
                           [] OTHER -> 0,
                 name |-> IF tag = FDT_PROP THEN WordAt(b, b.struct + r[k].off + 2 * TAGSIZE) ELSE 0,
                 depth |-> Len(r[k].path), open |-> r[k].node # 0]
    IN  {mark(k) : k \in DOMAIN r}

Sound(b) ==
    /\ Layout(b)
    /\ \E n \in 0 .. b.total : RsvEnds(b, n)
    /\ Marks(b, MarksOf(b))

(* The blobs to start from are ones that a client may hand to libfdt; a    *)
(* name has no NUL in it.                                                  *)
FdtAssumption ==
    /\ TAGSIZE \in Nat \ {0}
    /\ Names \subseteq Seq(Nat \ {0}) /\ Values \subseteq Seq(Nat)
    /\ Sizes \subseteq Nat /\ Growths \subseteq Nat /\ MaxTotal \in Nat
    /\ \A b \in Blobs : Sound(b)
ASSUME FdtAssumption

=============================================================================

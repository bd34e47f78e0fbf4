-------------------------------- MODULE Fdt --------------------------------
(***************************************************************************)
(* The flattened device tree of libfdt as it lies in memory: reserved      *)
(* regions, structure, strings, and free space up to the total size, each  *)
(* block where its offset in the header says.  A change moves everything   *)
(* behind it.  The calls of fdt_rw.c and fdt_wip.c, by any client, and     *)
(* fdtput, which makes room when a call finds none, and packs what it      *)
(* writes.  FdtTree says what the calls promise.                           *)
(***************************************************************************)
EXTENDS Integers, Sequences, SequencesExt

CONSTANTS
    TAGSIZE,    \* the bytes of a word, 4 in the code
    Blobs,      \* the blobs to start from
    Names,      \* of nodes and properties: sequences of numbers above 0
    Values,     \* of properties: sequences of numbers
    Sizes,      \* of reserved regions
    Growths,    \* the bytes a client adds with fdt_open_into
    MaxTotal    \* bound: the total size of a blob

(* The k-th byte of a word w is <<w, k>>, a character or a byte of a value *)
(* is the first byte of itself; fresh memory is Junk.                      *)
Bytes(s) == [i \in 1 .. Len(s) |-> <<s[i], 0>>]
NUL == <<0, 0>>
Junk == <<0, -1>>
Word(w) == [k \in 1 .. TAGSIZE |-> <<w, k>>]
Times(byte, n) == [k \in 1 .. n |-> byte]

FDT_BEGIN_NODE == 1
FDT_END_NODE == 2
FDT_PROP == 3
FDT_NOP == 4
FDT_END == 9
FDT_TAGALIGN(x) == ((x + TAGSIZE - 1) \div TAGSIZE) * TAGSIZE
PropSize == 3 * TAGSIZE         \* sizeof(struct fdt_property)
RsvSize == 4 * TAGSIZE          \* sizeof(struct fdt_reserve_entry)

VARIABLES
    blob,       \* memory from behind the header, and the fields of the header
    seen,            \* the tree that the readers of fdt_ro.c find in it
    call,            \* the last one: what was asked, and with which arguments
    answer           \* to it
vars == <<blob, seen, call, answer>>

-----------------------------------------------------------------------------
(* Reading: fdt.c and fdt_ro.c.  Offsets are from the start of a block.    *)

At(b, at) == b.mem[at + 1]
Has(b, at, bytes) == SubSeq(b.mem, at + 1, at + Len(bytes)) = bytes
WordAt(b, at) ==
    IF at >= 0 /\ at + TAGSIZE <= b.total /\ Has(b, at, Word(At(b, at)[1])) THEN At(b, at)[1] ELSE -1

(* The first NUL from there, or the end of the blob.                       *)
NulFrom(b, at) ==
    CHOOSE i \in at .. b.total :
        /\ i = b.total \/ At(b, i) = NUL
        /\ \A k \in at .. i - 1 : At(b, k) # NUL
StringAt(b, at) == [i \in 1 .. NulFrom(b, at) - at |-> At(b, at + i - 1)[1]]

(* fdt_next_tag: where the tag behind this one is.                         *)
NextTag(b, tag, off) ==
    CASE tag = FDT_BEGIN_NODE ->
           FDT_TAGALIGN(NulFrom(b, b.struct + off + TAGSIZE) + 1 - b.struct)
      [] tag = FDT_PROP ->
           off + PropSize + FDT_TAGALIGN(WordAt(b, b.struct + off + TAGSIZE))
      [] tag \in {FDT_END_NODE, FDT_NOP} -> off + TAGSIZE
      [] OTHER -> -1

(* The tags up to FDT_END, as fdt_next_node goes over them: each with the  *)
(* path of the node it is in, or of the parent of the node it ends, and a  *)
(* property with the index of its node when no subnode is before it.       *)
NoTag == [off |-> 0, tag |-> -1, next |-> 0, path |-> <<>>, node |-> 0]
ReadTag(b, read) ==
    LET before == IF read = <<>> THEN NoTag ELSE Last(read)
        off == before.next
        tag == WordAt(b, b.struct + off)
    IN  [off |-> off, tag |-> tag, next |-> NextTag(b, tag, off),
         path |-> CASE tag = FDT_BEGIN_NODE ->
                         Append(before.path, StringAt(b, b.struct + off + TAGSIZE))
                    [] tag = FDT_END_NODE /\ before.path # <<>> -> Front(before.path)
                    [] OTHER -> before.path,
         node |-> CASE tag = FDT_BEGIN_NODE -> Len(read) + 1
                    [] tag \in {FDT_PROP, FDT_NOP} -> before.node
                    [] OTHER -> 0]
ReadsOn(b, read) == read = <<>> \/ Last(read).next \in 0 .. b.nstruct - TAGSIZE
Read(b) ==
    LET tags[n \in 0 .. b.nstruct] ==
            IF n = 0 THEN <<>>
            ELSE LET read == tags[n - 1]
                 IN  IF ReadsOn(b, read) THEN Append(read, ReadTag(b, read)) ELSE read
    IN  tags[b.nstruct]

Least(S) == CHOOSE i \in S : \A k \in S : i <= k

Begins(r) == {i \in DOMAIN r : r[i].tag = FDT_BEGIN_NODE}
PathsOf(r) == {r[i].path : i \in Begins(r)}
NodeAt(r, path) == Least({i \in Begins(r) : r[i].path = path})

PropLen(b, r, j) == WordAt(b, b.struct + r[j].off + TAGSIZE)
PropName(b, r, j) == StringAt(b, b.strings + WordAt(b, b.struct + r[j].off + 2 * TAGSIZE))
PropValue(b, r, j) ==
    [k \in 1 .. PropLen(b, r, j) |-> At(b, b.struct + r[j].off + PropSize + k - 1)[1]]

(* The properties of a node stand before its subnodes.                     *)
Props(r) == {j \in DOMAIN r : r[j].tag = FDT_PROP /\ r[j].node # 0}
NamedFrom(b, r, i, name) == {j \in Props(r) : j > i /\ PropName(b, r, j) = name}
Named(b, r, i, name) == {j \in Props(r) : r[j].node = i /\ PropName(b, r, j) = name}

(* fdt_node_end_offset_.                                                   *)
NodeEnd(r, i) ==
    r[Least({j \in i .. Len(r) : Len(r[j].path) < Len(r[i].path)})].off + TAGSIZE

(* fdt_num_mem_rsv: the entries before the one of size 0.                  *)
RsvAt(b, n) == WordAt(b, b.rsv + n * RsvSize)
NumMemRsv(b) == Least({n \in 0 .. b.total \div RsvSize : RsvAt(b, n) = 0})

(* What a reader finds.                                                    *)
TreeIn(b) ==
    LET r == Read(b)
        key(j) == <<r[j].path, PropName(b, r, j)>>
    IN  [nodes |-> PathsOf(r),
         props |-> [k \in {key(j) : j \in Props(r)} |->
                       PropValue(b, r, Least({j \in Props(r) : key(j) = k}))],
         rsv |-> [n \in 1 .. NumMemRsv(b) |-> RsvAt(b, n - 1)]]

-----------------------------------------------------------------------------
(* Writing: fdt_rw.c.                                                      *)

Ok(b) == [blob |-> b, err |-> "ok"]
Error(b, because) == [blob |-> b, err |-> because]

memcpy(mem, to, bytes) ==
    SubSeq(mem, 1, to) \o bytes \o SubSeq(mem, to + Len(bytes) + 1, Len(mem))
memmove(mem, to, from, n) == memcpy(mem, to, SubSeq(mem, from + 1, from + n))
Write(b, at, bytes) == [b EXCEPT !.mem = memcpy(@, at, bytes)]

DataSize(b) == b.strings + b.nstrings
Fits(b, delta) == DataSize(b) + delta <= b.total

Splice(b, p, old, new) == memmove(b.mem, p + new, p + old, DataSize(b) - (p + old))

SpliceMemRsv(b, p, old, new) ==
    IF ~Fits(b, (new - old) * RsvSize) THEN Error(b, "nospace")
    ELSE Ok([b EXCEPT !.mem = Splice(b, p, old * RsvSize, new * RsvSize),
                      !.struct = @ + (new - old) * RsvSize,
                      !.strings = @ + (new - old) * RsvSize])

SpliceStructOnly(b, p, old, new) ==
    IF ~Fits(b, new - old) THEN Error(b, "nospace")
    ELSE Ok([b EXCEPT !.mem = Splice(b, p, old, new), !.nstruct = @ + new - old])

SpliceStruct(b, p, old, new) ==
    IF ~Fits(b, new - old) THEN Error(b, "nospace")
    ELSE Ok([b EXCEPT !.mem = Splice(b, p, old, new),
                      !.nstruct = @ + new - old,
                      !.strings = @ + new - old])

(* fdt_find_string_len_: the end of a longer string will do.               *)
FindString(b, s) ==
    {p \in 0 .. b.nstrings - (Len(s) + 1) : Has(b, b.strings + p, Append(Bytes(s), NUL))}

(* fdt_add_property_: the name first, which is taken back when there is no *)
(* room for the rest: of name, although the first n characters were added. *)
AddProperty(b, r, i, name, n, value) ==
    LET key == SubSeq(name, 1, n)
        found == FindString(b, key)
        nameoff == IF found # {} THEN Least(found) ELSE b.nstrings
        c == IF found # {} THEN b
             ELSE [b EXCEPT !.mem = memcpy(@, DataSize(b), Append(Bytes(key), NUL)),
                            !.nstrings = @ + n + 1]
        p == c.struct + r[i].next
        s == SpliceStruct(c, p, 0, PropSize + FDT_TAGALIGN(Len(value)))
    IN  IF found = {} /\ ~Fits(b, n + 1) THEN Error(b, "nospace")
        ELSE IF s.err # "ok"
        THEN Error(IF found = {} THEN [c EXCEPT !.nstrings = @ - (Len(name) + 1)] ELSE c, s.err)
        ELSE Ok(Write(s.blob, p, Word(FDT_PROP) \o Word(Len(value)) \o Word(nameoff) \o Bytes(value)))

(* fdt_resize_property_ to a length, then its data.                        *)
ResizeProperty(b, r, j, len, at, value) ==
    LET p == b.struct + r[j].off
        s == SpliceStruct(b, p + PropSize, FDT_TAGALIGN(PropLen(b, r, j)), FDT_TAGALIGN(len))
    IN  IF s.err # "ok" THEN s
        ELSE Ok(Write(Write(s.blob, p + TAGSIZE, Word(len)), p + PropSize + at, Bytes(value)))

(* fdt_setprop_namelen.                                                    *)
SetpropNamelen(b, r, path, name, n, value) ==
    LET i == NodeAt(r, path)
        old == Named(b, r, i, SubSeq(name, 1, n))
    IN  IF old = {} THEN AddProperty(b, r, i, name, n, value)
        ELSE ResizeProperty(b, r, Least(old), Len(value), 0, value)

SetProp(b, r, path, name, value) == SetpropNamelen(b, r, path, name, Len(name), value)

AppendProp(b, r, path, name, value) ==
    LET i == NodeAt(r, path)
        old == Named(b, r, i, name)
        oldlen == PropLen(b, r, Least(old))
    IN  IF old = {} THEN AddProperty(b, r, i, name, Len(name), value)
        ELSE ResizeProperty(b, r, Least(old), oldlen + Len(value), oldlen, value)

DelProp(b, r, path, name) ==
    LET old == Named(b, r, NodeAt(r, path), name)
        j == Least(old)
    IN  IF old = {} THEN Error(b, "notfound")
        ELSE SpliceStruct(b, b.struct + r[j].off, PropSize + FDT_TAGALIGN(PropLen(b, r, j)), 0)

(* fdt_add_subnode: behind the properties of the parent and the FDT_NOPs.  *)
AddSubNode(b, r, path, name) ==
    LET i == NodeAt(r, path)
        next == Least({j \in i + 1 .. Len(r) : r[j].tag \notin {FDT_PROP, FDT_NOP}})
        p == b.struct + r[next].off
        namelen == FDT_TAGALIGN(Len(name) + 1)
        s == SpliceStruct(b, p, 0, TAGSIZE + namelen + TAGSIZE)
    IN  IF Append(path, name) \in PathsOf(r) THEN Error(b, "exists")
        ELSE IF s.err # "ok" THEN s
        ELSE Ok(Write(s.blob, p,
                      Word(FDT_BEGIN_NODE)
                      \o Bytes(name) \o Times(NUL, namelen - Len(name))
                      \o Word(FDT_END_NODE)))

DelSubNode(b, r, path) ==
    LET i == NodeAt(r, path)
    IN  SpliceStruct(b, b.struct + r[i].off, NodeEnd(r, i) - r[i].off, 0)

SetNodeName(b, r, path, name) ==
    LET p == b.struct + r[NodeAt(r, path)].off + TAGSIZE
        s == SpliceStruct(b, p, FDT_TAGALIGN(Len(path[Len(path)]) + 1), FDT_TAGALIGN(Len(name) + 1))
    IN  IF s.err # "ok" THEN s ELSE Ok(Write(s.blob, p, Append(Bytes(name), NUL)))

(* fdt_nop_property and fdt_nop_node, which move nothing.                  *)
Nop(b, off, len) ==
    Write(b, b.struct + off,
          [k \in 1 .. FDT_TAGALIGN(len) |-> <<FDT_NOP, ((k - 1) % TAGSIZE) + 1>>])

NopProperty(b, r, path, name) ==
    LET old == Named(b, r, NodeAt(r, path), name)
        j == Least(old)
    IN  IF old = {} THEN Error(b, "notfound")
        ELSE Ok(Nop(b, r[j].off, PropSize + PropLen(b, r, j)))

NopNode(b, r, path) ==
    LET i == NodeAt(r, path)
    IN  Ok(Nop(b, r[i].off, NodeEnd(r, i) - r[i].off))

AddRsv(b, size) ==
    LET p == b.rsv + NumMemRsv(b) * RsvSize
        s == SpliceMemRsv(b, p, 0, 1)
    IN  IF s.err # "ok" THEN s
        ELSE Ok(Write(s.blob, p, Word(size) \o Word(size) \o Word(size) \o Word(size)))

DelRsv(b, n) == SpliceMemRsv(b, b.rsv + (n - 1) * RsvSize, 1, 0)

(* fdt_pack: the three blocks moved down one after the other.              *)
Pack(b) ==
    LET nrsv == (NumMemRsv(b) + 1) * RsvSize
        m == memmove(memmove(memmove(b.mem, 0, b.rsv, nrsv),
                             nrsv, b.struct, b.nstruct),
                     nrsv + b.nstruct, b.strings, b.nstrings)
        size == nrsv + b.nstruct + b.nstrings
    IN  [b EXCEPT !.mem = SubSeq(m, 1, size),
                  !.rsv = 0, !.struct = nrsv, !.strings = nrsv + b.nstruct, !.total = size]

(* fdt_open_into a larger buffer, blocks in order.                         *)
OpenInto(b, size) ==
    [b EXCEPT !.mem = @ \o Times(Junk, size - b.total),
              !.total = size]

-----------------------------------------------------------------------------
(* fdtput.c: every call works on a blob with no space to spare, or little. *)

ReallocFdt(b, delta) == OpenInto(b, b.total + delta)

ReallocNode(b, namelen) == ReallocFdt(b, TAGSIZE + FDT_TAGALIGN(namelen + 1) + TAGSIZE)

ReallocPropertyValue(b, r, path, name, newlen) ==
    LET old == Named(b, r, NodeAt(r, path), name)
    IN  ReallocFdt(b, IF old = {} THEN PropSize + FDT_TAGALIGN(newlen)
                      ELSE FDT_TAGALIGN(newlen) - FDT_TAGALIGN(PropLen(b, r, Least(old))))

ReallocProperty(b, r, path, name, newlen) ==
    LET old == Named(b, r, NodeAt(r, path), name)
        oldlen == PropLen(b, r, Least(old))
    IN  ReallocFdt(b, IF old = {} THEN PropSize + Len(name) + 1 + FDT_TAGALIGN(newlen)
                      ELSE IF newlen > oldlen THEN FDT_TAGALIGN(newlen) - FDT_TAGALIGN(oldlen)
                      ELSE 0)

(* The reader is asked again after the failure.                            *)
StoreKeyValue(b, r, path, name, value) ==
    LET s == SetProp(b, r, path, name, value)
        again == ReallocProperty(s.blob, Read(s.blob), path, name, Len(value))
    IN  IF s.err # "nospace" THEN s
        ELSE SetProp(again, Read(again), path, name, value)

(* create_paths makes room for the rest of the path each time: a byte for  *)
(* every character and every slash.  The root is there.                    *)
RestLen(path, k) ==
    Cardinality(UNION {{i} \X (0 .. Len(path[i])) : i \in k .. Len(path)}) - 1
CreatePaths(b, path) ==
    LET created[k \in 1 .. Len(path)] ==
            IF k = 1 THEN Ok(b)
            ELSE LET before == created[k - 1]
                     r == Read(before.blob)
                     more == ReallocNode(before.blob, RestLen(path, k))
                 IN  IF before.err # "ok" \/ SubSeq(path, 1, k) \in PathsOf(r) THEN before
                     ELSE AddSubNode(more, r, SubSeq(path, 1, k - 1), path[k])
    IN  created[Len(path)]

CreateNode(b, r, path, name) == AddSubNode(ReallocNode(b, Len(name)), r, path, name)

-----------------------------------------------------------------------------
Paths == seen.nodes
Root == << <<>> >>

(* The bytes of the free space are not told apart.                         *)
Tidy(b) == [b EXCEPT !.mem = SubSeq(@, 1, DataSize(b)) \o Times(Junk, b.total - DataSize(b))]

Asked(what) == call' = what

Becomes(b, because) ==
    /\ b.total <= MaxTotal
    /\ blob' = b
    /\ seen' = IF b = blob THEN seen ELSE TreeIn(b)
    /\ answer' = because

Client(result) == Becomes(Tidy(result.blob), result.err)

(* do_fdtput: packs and writes the file, or leaves it.                     *)
Fdtput(result) ==
    CASE result.err = "ok" -> Becomes(Pack(result.blob), "ok")
      [] result.err = "nospace" -> Becomes(blob, "fdtput: nospace")
      [] OTHER -> Becomes(blob, result.err)

Init ==
    /\ blob \in Blobs /\ seen = TreeIn(blob)
    /\ call = <<"resize">> /\ answer = "resized"

ClientSetsProperty ==
    LET r == Read(blob)
    IN  \E path \in Paths, name \in Names, value \in Values :
            \/ /\ Asked(<<"setprop", path, name, value>>)
               /\ Client(SetProp(blob, r, path, name, value))
            \/ /\ Asked(<<"appendprop", path, name, value>>)
               /\ Client(AppendProp(blob, r, path, name, value))

ClientDropsProperty ==
    LET r == Read(blob)
    IN  \E path \in Paths, name \in Names :
            /\ Asked(<<"delprop", path, name>>)
            /\ \/ Client(DelProp(blob, r, path, name))
               \/ Client(NopProperty(blob, r, path, name))

ClientAddsNode ==
    LET r == Read(blob)
    IN  \E path \in Paths, name \in Names :
            /\ Asked(<<"add_subnode", path, name>>)
            /\ Client(AddSubNode(blob, r, path, name))

ClientDropsNode ==
    LET r == Read(blob)
    IN  \E path \in Paths \ {Root} :
            /\ Asked(<<"del_node", path>>)
            /\ \/ Client(DelSubNode(blob, r, path))
               \/ Client(NopNode(blob, r, path))

(* fdt_set_name does not look for another node of that name.               *)
ClientRenames ==
    LET r == Read(blob)
    IN  \E path \in Paths \ {Root}, name \in Names :
            /\ Append(Front(path), name) \notin Paths
            /\ Asked(<<"set_name", path, name>>)
            /\ Client(SetNodeName(blob, r, path, name))

ClientReserves ==
    \/ \E size \in Sizes : Asked(<<"add_mem_rsv", size>>) /\ Client(AddRsv(blob, size))
    \/ \E n \in 1 .. NumMemRsv(blob) : Asked(<<"del_mem_rsv", n>>) /\ Client(DelRsv(blob, n))

ClientResizes ==
    /\ Asked(<<"resize">>)
    /\ \/ Client([Ok(Pack(blob)) EXCEPT !.err = "resized"])
       \/ \E more \in Growths :
              Client([Ok(OpenInto(blob, blob.total + more)) EXCEPT !.err = "resized"])

FdtputWrites ==
    LET r == Read(blob)
    IN  \E path \in Paths, name \in Names, value \in Values :
            /\ Asked(<<"setprop", path, name, value>>)
            /\ Fdtput(StoreKeyValue(blob, r, path, name, value))

(* With -p, for a path of which up to two nodes are missing.               *)
FdtputCreatesPath ==
    \E parent \in Paths, rest \in {<<x, y>> : x, y \in Names} :
        LET path == parent \o rest
            c == CreatePaths(blob, path)
            r == Read(c.blob)
        IN  /\ path \notin Paths /\ Pack(c.blob).total <= MaxTotal
            /\ \E name \in Names, value \in Values :
                   /\ Asked(<<"create_path", path, name, value>>)
                   /\ Fdtput(IF c.err # "ok" THEN c
                             ELSE StoreKeyValue(c.blob, r, path, name, value))

FdtputCreates ==
    LET r == Read(blob)
    IN  \E path \in Paths, name \in Names :
            /\ Asked(<<"add_subnode", path, name>>)
            /\ Fdtput(CreateNode(blob, r, path, name))

FdtputDrops ==
    LET r == Read(blob)
    IN  \E path \in Paths \ {Root} :
            \/ Asked(<<"del_node", path>>) /\ Fdtput(DelSubNode(blob, r, path))
            \/ \E name \in Names :
                   Asked(<<"delprop", path, name>>) /\ Fdtput(DelProp(blob, r, path, name))

Next ==
    \/ ClientSetsProperty \/ ClientDropsProperty \/ ClientAddsNode \/ ClientDropsNode
    \/ ClientRenames \/ ClientReserves \/ ClientResizes
    \/ FdtputWrites \/ FdtputCreatesPath \/ FdtputCreates \/ FdtputDrops

Spec == Init /\ [][Next]_vars

-----------------------------------------------------------------------------
(* What every call of libfdt needs to find: the blocks in order, apart     *)
(* from each other and inside the blob; in the structure one root node,    *)
(* closed, up to its FDT_END; every property before the subnodes, with its *)
(* name, whole, among the strings.                                         *)
WellFormed ==
    LET r == Read(blob)
        last == Len(r)
    IN  /\ Len(blob.mem) = blob.total
        /\ blob.rsv >= 0
        /\ blob.rsv + (NumMemRsv(blob) + 1) * RsvSize <= blob.struct
        /\ blob.struct + blob.nstruct <= blob.strings
        /\ DataSize(blob) <= blob.total
        /\ r[last].tag = FDT_END /\ r[last].off + TAGSIZE = blob.nstruct
        /\ \A i \in 1 .. last - 1 : r[i].path = <<>> => i = last - 1
        /\ \A i \in 1 .. last : r[i].tag = FDT_PROP =>
              /\ r[i].node # 0
              /\ NulFrom(blob, blob.strings + WordAt(blob, blob.struct + r[i].off + 2 * TAGSIZE))
                     < DataSize(blob)
              /\ PropName(blob, r, i) \in Names

(* fdtput never gives up for want of room: what realloc_property adds      *)
(* after fdt_setprop found too little, and realloc_node before a node is   *)
(* added, is enough, whatever the file holds and where its gaps are.       *)
FdtputHasRoom == answer # "fdtput: nospace"

Tree == INSTANCE FdtTree WITH
    nodes <- seen.nodes, props <- seen.props, rsv <- seen.rsv, call <- call, answer <- answer

(* Whatever fdt_splice_ and fdt_pack move in memory, each call changes in  *)
(* the tree the node and the property it was asked for, to the value it    *)
(* was given, and nothing else; and a call that fails changes nothing.     *)
KeepsTree == Tree!Spec

=============================================================================

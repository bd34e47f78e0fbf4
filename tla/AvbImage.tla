------------------------------ MODULE AvbImage ------------------------------
(***************************************************************************)
(* An image file with an AVB footer, as a sequence of blocks.  The payload *)
(* comes first: the header of a vendor_boot image and the device tree it   *)
(* carries.  avbtool appends a vbmeta block that holds the digest of the   *)
(* payload, a hole up to the last block of the partition, and the footer,  *)
(* which says where the payload ends and where the vbmeta block is.        *)
(* Block 1 is the first.                                                   *)
(***************************************************************************)
EXTENDS Integers, Sequences

CONSTANTS
    PartitionSize,  \* of the input image, in blocks
    MetadataSize    \* MAX_VBMETA_SIZE + MAX_FOOTER_SIZE, in blocks

ASSUME SizesAssumption ==
    /\ PartitionSize \in Nat
    /\ MetadataSize \in 3 .. PartitionSize

Absent == <<[kind |-> "absent"]>>   \* in place of a file that does not exist
Hole == [kind |-> "hole"]
Header == [kind |-> "header"]
Dtb(dt) == [kind |-> "dtb", dt |-> dt]
Vbmeta(payload) == [kind |-> "vbmeta", digest |-> payload]
Footer(original, offset) ==
    [kind |-> "footer", original_image_size |-> original, vbmeta_offset |-> offset]

Payload(dt) == <<Header, Dtb(dt)>>

HasFooter(file) == file # <<>> /\ file[Len(file)].kind = "footer"
FooterOf(file) == file[Len(file)]

(* truncate(2): cut the file, or lengthen it with a hole. *)
Truncate(file, size) ==
    [i \in 1 .. size |-> IF i <= Len(file) THEN file[i] ELSE Hole]

(* A write at a position of its own, as cp makes it. *)
WriteAt(file, i, block) ==
    [Truncate(file, IF i > Len(file) THEN i ELSE Len(file)) EXCEPT ![i] = block]

(* What a verifier reads of a file: the footer leads to a vbmeta block     *)
(* whose digest is that of the payload.                                    *)
Sealed(file) ==
    /\ file # Absent
    /\ HasFooter(file)
    /\ FooterOf(file).vbmeta_offset + 1 \in DOMAIN file
    /\ file[FooterOf(file).vbmeta_offset + 1]
         = Vbmeta(Truncate(file, FooterOf(file).original_image_size))

=============================================================================

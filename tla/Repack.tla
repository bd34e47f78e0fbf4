------------------------------- MODULE Repack -------------------------------
(***************************************************************************)
(* A vendor_boot image taken apart and put together again by the builder:  *)
(* unpack_bootimg prints the options of mkbootimg as one line quoted for a *)
(* shell, the builder puts the path of the new device tree into the line,  *)
(* and bash splits it into words.  Quotes that come out of a variable are  *)
(* characters like any other.  A text is a sequence of characters, and an  *)
(* option, a path or a number is one character of its own.                 *)
(***************************************************************************)
EXTENDS Integers, Sequences, FiniteSets, SequencesExt

CONSTANTS
    Images,         \* stock images: version, cmdline, board, names, pages
    NewPages,       \* the pages of the rebuilt tree
    CmdlineSize, BoardSize, NameSize    \* of the fields, with their NUL

Unsafe == {" ", "'", "("}      \* characters that need quotes
Options == {"--header_version", "--vendor_cmdline", "--board", "--dtb",
            "--vendor_ramdisk", "--ramdisk_name", "--vendor_ramdisk_fragment"}

(* Among the words of a command line no option of mkbootimg, which would   *)
(* be taken for one once the line is split.                                *)
Texts(image) == {image.cmdline, image.board} \cup Range(image.names)
ASSUME TextsAssumption ==
    \A image \in Images : \A text \in Texts(image) : Range(text) \cap Options = {}

VARIABLES
    pc,         \* the next step of the builder
    stock,      \* the image it was given
    line,       \* mkbootimg_args.txt, then $ARGS
    payload     \* vendor_boot_payload.img
vars == <<pc, stock, line, payload>>

(* shlex.quote and shlex.join.                                             *)
Quote(s) ==
    IF s # <<>> /\ \A i \in 1 .. Len(s) : s[i] \notin Unsafe THEN s
    ELSE LET Escaped == [i \in 1 .. Len(s) |->
                            IF s[i] = "'" THEN <<"'", "\"", "'", "\"", "'">> ELSE <<s[i]>>]
         IN  <<"'">> \o FlattenSeq(Escaped) \o <<"'">>
JoinWords(words) == Tail(FlattenSeq([i \in 1 .. Len(words) |-> <<" ">> \o words[i]]))

(* format_mkbootimg_argument of VendorBootImageInfoFormatter.              *)
Arguments(image) ==
    <<<<"--header_version">>, <<image.version>>,
      <<"--vendor_cmdline">>, image.cmdline,
      <<"--board">>, image.board,
      <<"--dtb">>, <<"unpack/dtb">>>>
    \o IF image.version = "3" THEN <<<<"--vendor_ramdisk">>, <<"unpack/vendor_ramdisk">>>>
       ELSE FlattenSeq([k \in 1 .. Len(image.names) |->
                <<<<"--ramdisk_name">>, image.names[k],
                  <<"--vendor_ramdisk_fragment">>, <<"unpack/vendor_ramdisk0">>>>])

InOrder(S) ==
    [k \in 1 .. Cardinality(S) |-> CHOOSE i \in S : Cardinality({j \in S : j < i}) = k - 1]

(* The words of an unquoted variable: between spaces, none of them empty.  *)
Split(text) ==
    LET spaces == {i \in 1 .. Len(text) : text[i] = " "} \cup {0, Len(text) + 1}
        starts == {i \in 0 .. Len(text) - 1 : i \in spaces /\ i + 1 \notin spaces}
        end(i) == CHOOSE j \in spaces : j > i /\ \A k \in i + 1 .. j - 1 : k \notin spaces
        sorted == InOrder(starts)
    IN  [k \in 1 .. Len(sorted) |-> SubSeq(text, sorted[k] + 1, end(sorted[k]) - 1)]

-----------------------------------------------------------------------------
(* mkbootimg: parse_cmdline and parse_vendor_ramdisk_args.                 *)

IsOption(words, i) == i \in 1 .. Len(words) /\ Len(words[i]) = 1 /\ words[i][1] \in Options
Extra(words) == {i \in 1 .. Len(words) : ~IsOption(words, i) /\ ~IsOption(words, i - 1)}
Given(words, option) ==
    LET at == InOrder({i \in 1 .. Len(words) : words[i] = <<option>>})
    IN  [k \in 1 .. Len(at) |-> words[at[k] + 1]]

Read(words) ==
    [version |-> Last(Given(words, "--header_version"))[1],
     cmdline |-> Last(Given(words, "--vendor_cmdline")),
     board |-> Last(Given(words, "--board")),
     names |-> Given(words, "--ramdisk_name")]

(* Mutant of Accepted: words that belong to no option are let pass.        *)
AcceptedWithExtra(words) ==
    /\ Len(Read(words).cmdline) + 1 <= CmdlineSize
    /\ Len(Read(words).board) + 1 <= BoardSize
    /\ \A k \in DOMAIN Read(words).names : Len(Read(words).names[k]) + 1 <= NameSize
    /\ IsInjective(Read(words).names)

(* AsciizBytes, and add_entry of the vendor ramdisk table.                 *)
Accepted(words) ==
    /\ Extra(words) = {}
    /\ Len(Read(words).cmdline) + 1 <= CmdlineSize
    /\ Len(Read(words).board) + 1 <= BoardSize
    /\ \A k \in DOMAIN Read(words).names : Len(Read(words).names[k]) + 1 <= NameSize
    /\ IsInjective(Read(words).names)

-----------------------------------------------------------------------------
NoImage == [version |-> "none"]

Init ==
    /\ stock \in Images
    /\ pc = "unpack" /\ line = <<>> /\ payload = NoImage

Unpack ==
    /\ pc = "unpack" /\ pc' = "substitute"
    /\ line' = JoinWords([k \in 1 .. Len(Arguments(stock)) |-> Quote(Arguments(stock)[k])])
    /\ UNCHANGED <<stock, payload>>

(* sed "s|--dtb [^ ]*|--dtb $WORK/dtb_oc|": the first one, and there is.   *)
SubstituteDtb ==
    LET first == CHOOSE i \in DOMAIN line :
                     line[i] = "--dtb" /\ \A j \in 1 .. i - 1 : line[j] # "--dtb"
    IN  /\ pc = "substitute" /\ pc' = "make"
        /\ line' = [line EXCEPT ![first + 2] = "dtb_oc"]
    /\ UNCHANGED <<stock, payload>>

(* An error of mkbootimg ends the builder, which runs under set -e.        *)
Mkbootimg ==
    /\ pc = "make"
    /\ IF Accepted(Split(line))
       THEN \E pages \in NewPages :
                /\ payload' = Read(Split(line)) @@ [pages |-> pages]
                /\ pc' = "size"
       ELSE pc' = "failed" /\ UNCHANGED payload
    /\ UNCHANGED <<stock, line>>

(* Only the tree can change the size; every text has its fixed field.      *)
CheckSize ==
    /\ pc = "size"
    /\ pc' = IF payload.pages = stock.pages THEN "repacked" ELSE "failed"
    /\ UNCHANGED <<stock, line, payload>>

Next == Unpack \/ SubstituteDtb \/ Mkbootimg \/ CheckSize
Spec == Init /\ [][Next]_vars

HasSpace(text) == \E i \in DOMAIN text : text[i] = " "

(* What the size check lets through is the stock image but for the tree    *)
(* and for quotes that stayed: no text is lost, cut or moved to another    *)
(* option or fragment, and one with a space never gets this far.           *)
OnlyQuotesStay ==
    pc = "repacked" =>
        /\ \A text \in Texts(stock) : ~HasSpace(text)
        /\ payload = [stock EXCEPT
               !.cmdline = Quote(@), !.board = Quote(@),
               !.names = [k \in DOMAIN @ |-> Quote(@[k])]]

=============================================================================

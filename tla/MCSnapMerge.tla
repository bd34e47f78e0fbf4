---------------------------- MODULE MCSnapMerge ----------------------------
(* Instances of SnapMerge: a chain of copies, each to the source of the    *)
(* one before, with an xor of a block onto itself and blocks to replace,   *)
(* so that every window depends on the scratch space.                      *)
EXTENDS SnapMerge

Copy(to, from) == [new |-> to, src |-> from, xor |-> FALSE]
Xor(to, from) == [new |-> to, src |-> from, xor |-> TRUE]

Chain == <<Copy(4, 3), Xor(3, 2), Copy(2, 1), Xor(1, 1), Copy(5, 6)>>
ChainReplaces == <<6, 7>>
ShortChain == <<Copy(3, 2), Copy(2, 1), Xor(1, 1)>>
ShortReplaces == <<4>>

IoFaults == {"raRead", "write", "sync", "scratchSync", "workerRead",
             "mergeInit", "terminate"}
AllFaults == FaultNames

=============================================================================

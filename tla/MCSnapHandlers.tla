--------------------------- MODULE MCSnapHandlers ---------------------------
(* Instances of SnapHandlers with every fault.                             *)
EXTENDS SnapHandlers

AllFaults == FaultNames

=============================================================================

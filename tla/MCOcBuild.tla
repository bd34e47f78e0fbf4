----------------------------- MODULE MCOcBuild -----------------------------
(***************************************************************************)
(* Builds in two terminals, images of five blocks, a cell of 12 bits and   *)
(* frequencies counted in units of 10 MHz.                                 *)
(***************************************************************************)
EXTENDS OcBuild, TLC

CONSTANTS b1, b2

Both(little, big) == "opp_table0" :> little @@ "opp_table1" :> big

MCStockHz == Both(180, 200)
MCStockVoltage == Both("1006250", "1087500")
MCCellValue ==
    "1006250" :> 100 @@ "1087500" :> 108 @@ "1010000" :> 101 @@
    "08" :> Unreadable

Config(mhz, add, voltage) == [mhz |-> mhz, add |-> add, voltage |-> voltage]

Stock100 == Config("100", 10, MCStockVoltage)
BigRaised100 == Config("100", 10, Both("1006250", "1010000"))
Octal100 == Config("100", 10, Both("1010000", "08"))
Stock200 == Config("200", 20, MCStockVoltage)
Huge == Config("9223372036854775807", 5000, MCStockVoltage)

Good == [partition |-> "vendor_boot", dt_entry_count |-> 1,
         tables |-> {"opp_table0", "opp_table1"}]
TwoTrees == [Good EXCEPT !.dt_entry_count = 2]
OneTable == [Good EXCEPT !.tables = {"opp_table0"}]
BootImage == [Good EXCEPT !.partition = "boot"]

AllInputs == {Good, TwoTrees, OneTable, BootImage}

NamesApart ==
    b1 :> {Stock100, BigRaised100, Octal100, Huge} @@ b2 :> {Stock200}
TwoAndOne == b1 :> 2 @@ b2 :> 1

=============================================================================

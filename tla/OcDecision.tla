---------------------------- MODULE OcDecision ----------------------------
(***************************************************************************)
(* What the menus of the builder promise: one frequency offer and one pair *)
(* of voltages, each replaced as a whole, built as they stand when the     *)
(* user accepts them, or nothing at all.                                   *)
(***************************************************************************)
CONSTANTS
    Offers,         \* the frequency offers the user may settle on
    NoOffer,        \* before the first one
    VoltagePairs,   \* the pairs the user may settle on, the stock pair included
    StockPair

VARIABLES
    phase,      \* "open", then "built", "cancelled" or "failed"
    offer,
    voltages

vars == <<phase, offer, voltages>>

TypeOK ==
    /\ phase \in {"open", "built", "cancelled", "failed"}
    /\ offer \in Offers \cup {NoOffer}
    /\ voltages \in VoltagePairs

Init ==
    /\ phase = "open"
    /\ offer = NoOffer
    /\ voltages = StockPair

SettleFrequency ==
    /\ phase = "open"
    /\ offer' \in Offers
    /\ UNCHANGED <<phase, voltages>>

SettleVoltages ==
    /\ phase = "open"
    /\ offer # NoOffer
    /\ voltages' \in VoltagePairs
    /\ UNCHANGED <<phase, offer>>

Build ==
    /\ phase = "open"
    /\ offer # NoOffer
    /\ phase' = "built"
    /\ UNCHANGED <<offer, voltages>>

(* The user can only call the whole thing off before settling anything. *)
Cancel ==
    /\ phase = "open"
    /\ offer = NoOffer
    /\ phase' = "cancelled"
    /\ UNCHANGED <<offer, voltages>>

Fail ==
    /\ phase = "open"
    /\ phase' = "failed"
    /\ UNCHANGED <<offer, voltages>>

Next == SettleFrequency \/ SettleVoltages \/ Build \/ Cancel \/ Fail

Spec == Init /\ [][Next]_vars

===========================================================================

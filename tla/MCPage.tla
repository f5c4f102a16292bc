------------------------------- MODULE MCPage -------------------------------
(***************************************************************************)
(* One page at a desk with a profile of its own or at one without, three   *)
(* layout names of which two differ by case, two commands.                 *)
(***************************************************************************)
EXTENDS SettingsPage, TLC

CONSTANTS garbage, noprofile, none, notread, failed, done, blank, unusable

TheDefaults == "snap" :> "k1"
TheNames    == {"desk", "Desk", "desk copy"}
TheFolding  == "desk" :> "desk" @@ "Desk" :> "desk" @@ "desk copy" :> "desk copy"
TheCopies   == "desk" :> "desk copy"
TheDraft    == [name |-> "Desk", cells |-> "tall"]

Fresh   == [base |-> [hotkeys |-> TheDefaults, layouts |-> EmptyTable], profile |-> noprofile]
WithOne == [Fresh EXCEPT !.base.layouts = "desk" :> "wide"]
OwnDesk ==
    [base |-> [hotkeys |-> TheDefaults, layouts |-> EmptyTable],
     profile |-> [hotkeys |-> "snap" :> "k2", layouts |-> "desk" :> "wide", tiling |-> FALSE]]

Budget(numbers) == [acts |-> numbers[1], hands |-> numbers[2], mishaps |-> numbers[3]]

\* Drawing and saving, one thing done after the other.
Drawing ==
    [pair |-> OwnDesk, hands |-> {Fresh}, doing |-> {"draw", "layouts"},
     calm |-> TRUE, told |-> FALSE, left |-> Budget(<<4, 1, 0>>)]
\* Clicking on before the answers are there, while another hand edits.
Hurried ==
    [pair |-> OwnDesk, hands |-> {WithOne}, doing |-> {"layouts"},
     calm |-> FALSE, told |-> TRUE, left |-> Budget(<<2, 1, 0>>)]
\* Pressing keys faster than they are judged.
Capturing ==
    [pair |-> OwnDesk, hands |-> {Fresh}, doing |-> {"hotkeys"},
     calm |-> FALSE, told |-> TRUE, left |-> Budget(<<4, 0, 0>>)]
\* Rebinding at leisure, with another hand and an agent that goes away.
Rebinding ==
    [pair |-> OwnDesk, hands |-> {Fresh}, doing |-> {"hotkeys"},
     calm |-> TRUE, told |-> FALSE, left |-> Budget(<<4, 1, 1>>)]

Pages == {Drawing, Hurried, Capturing, Rebinding}
=============================================================================

----------------------------- MODULE MCControl -----------------------------
(***************************************************************************)
(* One desk, two settings applications and the tiling page, three commands *)
(* and four combinations, the last of them without a virtual-key code, two *)
(* layout names that differ by case.                                       *)
(***************************************************************************)
EXTENDS ControlPlane, TLC

CONSTANTS p, q, page, garbage, noprofile, none, empty, nofile

TheCommands == {"snap", "rearrange", "apply"}
TheDefaults == "snap" :> "k1" @@ "rearrange" :> "k2"
TheManual   == {"snap", "apply"}
TheApplies  == "apply" :> "desk"
TheNames    == {"desk", "Desk", "grid"}
TheFolding  == "desk" :> "desk" @@ "Desk" :> "desk" @@ "grid" :> "grid"

Bind(command, combo, everywhere) ==
    [kind |-> "set", command |-> command, combo |-> combo, everywhere |-> everywhere]
Reset(command)                == [kind |-> "reset", command |-> command]
Save(name, cells, everywhere) == [kind |-> "save", name |-> name, cells |-> cells, everywhere |-> everywhere]
Rename(name, to)              == [kind |-> "rename", name |-> name, to |-> to]
Duplicate(name, to)           == [kind |-> "duplicate", name |-> name, to |-> to]
Delete(name)                  == [kind |-> "delete", name |-> name]
Tile(on)                      == [kind |-> "tiling", on |-> on]

\* A fresh install, and a desk with a profile of its own.
Fresh   == [base |-> [hotkeys |-> TheDefaults, layouts |-> "desk" :> "wide"], profile |-> noprofile]
OwnDesk ==
    [base |-> [hotkeys |-> TheDefaults, layouts |-> EmptyTable],
     profile |-> [hotkeys |-> "snap" :> "k3", layouts |-> "desk" :> "wide", tiling |-> FALSE]]

Broken(file) == [file |-> file, content |-> garbage]
Swapped      == [file |-> "base", content |-> [Fresh.base EXCEPT !.hotkeys = "snap" :> "k2" @@ "rearrange" :> "k1"]]
Doubled      == [file |-> "base", content |-> [Fresh.base EXCEPT !.hotkeys = "snap" :> "k1" @@ "rearrange" :> "k1"]]

Budget(numbers) ==
    [edits |-> numbers[1], hands |-> numbers[2], opens |-> numbers[3], takes |-> numbers[4],
     mishaps |-> numbers[5]]

\* Every edit, one after the other, or one and a mishap.
OneByOne ==
    [pair |-> OwnDesk, calm |-> TRUE, left |-> Budget(<<2, 0, 0, 0, 0>>),
     asks |-> {Bind("snap", "k1", TRUE), Bind("rearrange", "k3", TRUE), Bind("apply", "k3", FALSE),
               Reset("snap"), Save("desk", "tall", TRUE), Save("Desk", "tall", FALSE),
               Rename("desk", "Desk"), Duplicate("desk", "grid"), Delete("desk"), Tile(TRUE)},
     hands |-> {}]

Failing == [OneByOne EXCEPT !.left = Budget(<<1, 0, 0, 0, 1>>)]

\* Two writers of the same files at once.
Racing ==
    [pair |-> OwnDesk, calm |-> FALSE, left |-> Budget(<<2, 0, 0, 0, 0>>),
     asks |-> {Bind("snap", "k1", TRUE), Tile(TRUE)}, hands |-> {}]

\* A hand that leaves half a file, and a crash.
ByHand ==
    [pair |-> Fresh, calm |-> FALSE, left |-> Budget(<<1, 1, 0, 0, 1>>),
     asks |-> {Bind("apply", "k3", FALSE)}, hands |-> {Broken("base"), Swapped}]

\* Somebody who saves what is no configuration, and puts it right.
Mending ==
    [ByHand EXCEPT !.left = Budget(<<1, 2, 0, 0, 0>>), !.hands = {Broken("base"), Doubled, Swapped}]

Capturing ==
    [pair |-> Fresh, calm |-> FALSE, left |-> Budget(<<0, 0, 2, 0, 2>>), asks |-> {}, hands |-> {}]
Editing ==
    [pair |-> OwnDesk, calm |-> FALSE, left |-> Budget(<<1, 0, 1, 0, 0>>),
     asks |-> {Bind("snap", "k1", TRUE)}, hands |-> {}]
Crowded ==
    [pair |-> Fresh, calm |-> FALSE, left |-> Budget(<<1, 0, 1, 2, 0>>),
     asks |-> {Tile(TRUE), Bind("snap", "k4", FALSE)}, hands |-> {}]

Scenes == {OneByOne, Failing, Racing, ByHand, Mending, Capturing, Editing, Crowded}
=============================================================================

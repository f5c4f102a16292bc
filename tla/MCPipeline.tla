----------------------------- MODULE MCPipeline -----------------------------
(***************************************************************************)
(* Small instances of ParkingPipeline: two workspaces a and b (a third, c, *)
(* where displays come and go), two or three windows, one or two displays. *)
(***************************************************************************)
EXTENDS ParkingPipeline

CONSTANTS a, b, c, w1, w2, w3, d1, d2

(* A profile for `topology` that asks for switching, unless its mapping is *)
(* empty.                                                                  *)
Profile(base, additions, topology, on1, on2) ==
    [base |-> base, additions |-> additions, topology |-> topology,
     experimental |-> on1 # None,
     mapping |-> [d \in Display |-> IF d = d1 THEN on1 ELSE on2]]

(* One display, and switching on it. *)
OneDisplay == {Profile({a, b}, {}, {d1}, a, None)}

(* A desk with two displays and a mapping, and a reload that takes both    *)
(* the mapping and workspace b away, and one that adds c for the desk only.*)
Desk == {Profile({a, b}, {}, {d1, d2}, a, b),
         Profile({a}, {c}, {d1, d2}, None, None)}

(* No profile asks for switching. *)
Plain == {Profile({a, b}, {}, {d1}, None, None)}

(* Rules that send one window, or two, to workspace b. *)
OneRuled == [w \in Window |-> IF w = w2 THEN b ELSE None]
TwoRuled == [w \in Window |-> IF w = w1 THEN None ELSE b]

Desktops(open, plugged) ==
    {[open |-> open, plugged |-> plugged, seat |-> [w \in Window |-> d1]]}

AllOpen  == Desktops(Window, {d1})
OneOpen  == Desktops({w2}, {d1})
DeskOpen == Desktops(Window, {d1, d2})

(* What the database remembers: nothing, or that b was shown on d1 or d2.  *)
Nothing == {}
Rows(d) == {[names |-> {b}, where |-> [n \in Workspace |-> IF n = b THEN d ELSE None]]}
BOnFirst  == Rows(d1)
BOnSecond == Rows(d2)
=============================================================================

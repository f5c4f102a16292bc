------------------------------ MODULE MCTiling ------------------------------
(***************************************************************************)
(* Scenarios for TilingAgent: up to three windows, one display wider than  *)
(* high and a second one, and for each scenario the few things that may    *)
(* happen in it.                                                           *)
(***************************************************************************)
EXTENDS TilingAgent

Areas == [d \in {1, 2} |-> IF d = 1 THEN Rect(0, 0, 12, 6) ELSE Rect(12, 0, 6, 8)]

Size(width, height) == [width |-> width, height |-> height]

\* Windows 2 and 3 are of one application; 3 needs a third of the width.
Kinds == [w \in {1, 2, 3} |->
    [app |-> IF w = 1 THEN "mail" ELSE "edit", path |-> "path", class |-> "class", role |-> "main",
     tileable |-> TRUE, elevated |-> FALSE, minimum |-> IF w = 3 THEN Size(4, 1) ELSE Size(1, 1)]]

AllTile == [w \in Window |-> "tile"]
TwoFloats == [w \in Window |-> IF w = 2 THEN "float" ELSE "tile"]
Always(profile) == [base |-> profile, profile |-> profile, topology |-> {}]

NoLayouts == [n \in {} |-> <<>>]
Halves == [n \in {"halves"} |-> <<Rect(0, 0, 30, 60), Rect(30, 0, 30, 60)>>]
Tree == Profile(TRUE, "tree", NoGaps, NoLayouts, AllTile)
Grid == Profile(TRUE, "balanced", NoGaps, Halves, AllTile)
Narrow == [outer |-> 1, inner |-> 1]
Manual == Profile(FALSE, "balanced", Narrow, Halves, TwoFloats)

Spots == <<Rect(0, 0, 4, 4), Rect(6, 0, 4, 4), Rect(2, 2, 4, 4)>>
Windows2 == [w \in {1, 2} |-> Shown(Spots[w], "active")]

\* The executor is slow and everybody waits for rest, unless said otherwise.
Scenario(set, topology, allowed, budget) ==
    [set |-> set, sets |-> {set}, displays |-> topology, topologies |-> {topology},
     desktop |-> Windows2, foreground |-> 1, opens |-> [w \in {2, 3} |-> Shown(Spots[w], "active")],
     stubborn |-> {}, allowed |-> allowed, budget |-> budget, patient |-> TRUE, slow |-> TRUE,
     stored |-> FALSE, slots |-> 0]

\* One display and a tree; everything is stored and may be undone.
TreeEditing ==
    [Scenario(Always(Tree), {1}, {"Open", "Close", "Swap", "Resize", "Undo", "Forget"}, 4)
        EXCEPT !.stored = TRUE]

\* The agent dies, the disk fails, days pass.
Mortality ==
    [Scenario(Always(Tree), {1}, {"Restart", "Close", "Open", "NextDay", "Swap"}, 3)
        EXCEPT !.stored = TRUE]
BadDisk ==
    [Scenario(Always(Tree), {1}, {"DiskFails", "Swap", "Undo"}, 3) EXCEPT !.stored = TRUE]

\* A grid, and a window that refuses to move.
Refusals ==
    [Scenario(Always(Grid), {1}, {"Float", "Rearrange", "Snap", "Open", "Relife", "Toggle"}, 2)
        EXCEPT !.stubborn = {2}, !.patient = FALSE]

\* Two displays that come and go.
Desk == [base |-> Tree, profile |-> Grid, topology |-> {1, 2}]
Displays ==
    [Scenario(Desk, {1, 2}, {"Plug", "Wake", "Reload", "FocusIt"}, 4)
        EXCEPT !.topologies = {{1}, {2}, {1, 2}}, !.sets = {Desk, Always(Tree)}]

\* A window alone is thrown from one display to the other.
Traveller ==
    [Scenario(Always([Grid EXCEPT !.gaps = Narrow]), {1, 2}, {"Throw", "Undo"}, 3)
        EXCEPT !.stored = TRUE, !.desktop = [w \in {1} |-> Windows2[1]]]

\* A window is dragged while others come and go; it is carried from one display
\* to the other by somebody who pauses, and by somebody who does not.
Dragging ==
    [Scenario(Always(Tree), {1}, {"Drag", "Carry", "Open", "Close"}, 2) EXCEPT !.patient = FALSE]
Crossing == Scenario(Always(Tree), {1, 2}, {"Drag", "Carry", "Swap"}, 4)
Rushing  == [Crossing EXCEPT !.budget = 2, !.patient = FALSE, !.slots = 5]
ThereAndBack ==
    [Rushing EXCEPT !.budget = 3, !.desktop = [w \in {1} |-> Windows2[1]]]

\* No automatic tiling.
ByHand ==
    [Scenario(Always(Manual), {1, 2}, {"Snap", "Restore", "Throw", "Layout", "Pause", "FocusNext", "FocusDisplay", "Undo"}, 3)
        EXCEPT !.stored = TRUE]

\* The same editing with an executor that may be slower or quicker than anyone.
Hurried == [TreeEditing EXCEPT !.budget = 2, !.slow = FALSE]

\* A window is floated for the session and then thrown.
FloatAndThrow ==
    {[Scenario(Always([Grid EXCEPT !.gaps = Narrow]), {1, 2}, {"Float", "Throw"}, 2)
        EXCEPT !.desktop = [w \in {1} |-> Windows2[1]]]}

Scenes == {TreeEditing, Hurried, Mortality, BadDisk, Refusals, Displays, Traveller, ByHand,
           Dragging, Crossing, Rushing, ThereAndBack}
=============================================================================

--------------------------- MODULE ContainerTree ---------------------------
(***************************************************************************)
(* The container tree of one display (mosaix-domain/tree.rs) and the       *)
(* planner that turns it into placements (mosaix-layout/tree.rs).          *)
(*                                                                         *)
(* A node is a leaf or a split.  A leaf carries its insertion number and   *)
(* its occupant, a live window or the evidence of one that is gone.        *)
(* Weights, doubles in the code, are whole parts of WeightUnit (1.0)       *)
(* rounded down.  An optional node is a sequence of at most one.           *)
(***************************************************************************)
EXTENDS Geometry
LOCAL INSTANCE FiniteSetsExt
LOCAL INSTANCE SequencesExt

WeightUnit == 1000
MinWeight  == WeightUnit \div 100

Live(who)           == [live |-> TRUE, who |-> who]
Dormant(who, since) == [live |-> FALSE, who |-> who, since |-> since]

Leaf(inserted, occupant) == [inserted |-> inserted, occupant |-> occupant]
Split(axis, children)    == [axis |-> axis, children |-> children]
Child(weight, node)      == [weight |-> weight, node |-> node]
IsLeaf(node)             == "inserted" \in DOMAIN node

EmptyTree == [root |-> <<>>, next |-> 0]

RECURSIVE LeavesOf(_)
LeavesOf(node) ==
    IF IsLeaf(node) THEN <<node>>
    ELSE FlattenSeq([i \in 1..Len(node.children) |-> LeavesOf(node.children[i].node)])

\* Every leaf in visual order, and the live windows among them.
Leaves(tree)   == FlattenSeq([i \in 1..Len(tree.root) |-> LeavesOf(tree.root[i])])
LiveLeaves(leaves) == SelectSeq(leaves, LAMBDA leaf : leaf.occupant.live)
WindowsIn(node) == {leaf.occupant.who : leaf \in ToSet(LiveLeaves(LeavesOf(node)))}
Windows(tree)  == {leaf.occupant.who : leaf \in ToSet(LiveLeaves(Leaves(tree)))}
DormantSlots(tree) == SelectSeq(Leaves(tree), LAMBDA leaf : ~leaf.occupant.live)
HasWindow(node) == WindowsIn(node) # {}

SumWeights(children) == FoldSeq(LAMBDA c, sum : c.weight + sum, 0, children)

(***************************************************************************)
(* Rebuilding.  fate maps an insertion number to <<occupant>> or to <<>>,  *)
(* a dropped leaf; the result is normalized on the way up: no empty split, *)
(* no split of one child, no split nested in its own axis, no weight below *)
(* MinWeight.                                                              *)
(***************************************************************************)
Hoisted(axis, child) ==
    IF IsLeaf(child.node) \/ child.node.axis # axis THEN <<child>>
    ELSE LET inner == child.node.children
         IN  [i \in 1..Len(inner) |->
                Child((child.weight * inner[i].weight) \div SumWeights(inner), inner[i].node)]

RECURSIVE Rebuilt(_, _)
Rebuilt(node, fate) ==
    IF IsLeaf(node)
    THEN [i \in 1..Len(fate[node.inserted]) |-> Leaf(node.inserted, fate[node.inserted][i])]
    ELSE LET Below(child) ==
               LET kept == Rebuilt(child.node, fate)
               IN  IF kept = <<>> THEN <<>>
                   ELSE Hoisted(node.axis, Child(Max({child.weight, MinWeight}), kept[1]))
             kept == FlattenSeq([i \in 1..Len(node.children) |-> Below(node.children[i])])
         IN  CASE Len(kept) = 0 -> <<>>
               [] Len(kept) = 1 -> <<kept[1].node>>
               [] OTHER         -> <<Split(node.axis, kept)>>

Numbers(tree) == {leaf.inserted : leaf \in ToSet(Leaves(tree))}
FateOf(tree, Fate(_)) ==
    [n \in Numbers(tree) |->
        Fate((CHOOSE leaf \in ToSet(Leaves(tree)) : leaf.inserted = n).occupant)]

ConvertWith(tree, fate) ==
    [tree EXCEPT !.root = IF tree.root = <<>> THEN <<>> ELSE Rebuilt(tree.root[1], fate)]
ConvertLeaves(tree, Fate(_)) == ConvertWith(tree, FateOf(tree, Fate))

Keep(occupant) == <<occupant>>
LiveProjection(tree) ==
    ConvertLeaves(tree, LAMBDA o : IF o.live THEN Keep(o) ELSE <<>>)
FilterWindows(tree, Kept(_)) ==
    ConvertLeaves(tree, LAMBDA o : IF o.live /\ ~Kept(o.who) THEN <<>> ELSE Keep(o))
PruneDormant(tree, Expired(_)) ==
    ConvertLeaves(tree, LAMBDA o : IF ~o.live /\ Expired(o.since) THEN <<>> ELSE Keep(o))
RemoveWindow(tree, window) == FilterWindows(tree, LAMBDA w : w # window)
MakeDormant(tree, window, evidence, now) ==
    ConvertLeaves(tree, LAMBDA o : IF o.live /\ o.who = window THEN <<Dormant(evidence, now)>> ELSE Keep(o))

\* The dormant slot numbered `position` dropped, or given to a window.
RemovePosition(tree, position) ==
    ConvertWith(tree, [FateOf(tree, Keep) EXCEPT ![position] = <<>>])
Reclaim(tree, position, window) ==
    ConvertWith(tree, [FateOf(tree, Keep) EXCEPT ![position] = <<Live(window)>>])

\* Two windows trade places; numbers, weights and dormant slots stay.
SwapLeaves(tree, first, second) ==
    LET partner(w) == IF w = first THEN second ELSE IF w = second THEN first ELSE w
    IN  IF first = second \/ {first, second} \cap Windows(tree) # {first, second} THEN tree
        ELSE ConvertLeaves(tree, LAMBDA o : IF o.live THEN <<Live(partner(o.who))>> ELSE Keep(o))

(***************************************************************************)
(* Insertion.                                                              *)
(***************************************************************************)
Pair(axis, node, leaf) == Split(axis, <<Child(WeightUnit, node), Child(WeightUnit, leaf)>>)

\* The tree with this root, normalized.
Normalized(root, next) ==
    LET tree == [root |-> <<root>>, next |-> next]
    IN  ConvertLeaves(tree, Keep)

InsertFirst(tree, window) ==
    [root |-> <<Leaf(tree.next, Live(window))>>, next |-> tree.next + 1]

SplitRoot(tree, axis, window) ==
    Normalized(Pair(axis, tree.root[1], Leaf(tree.next, Live(window))), tree.next + 1)

RECURSIVE SplitWithin(_, _, _, _)
SplitWithin(node, target, axis, leaf) ==
    IF IsLeaf(node)
    THEN IF node.occupant.live /\ node.occupant.who = target THEN Pair(axis, node, leaf) ELSE node
    ELSE [node EXCEPT !.children =
            [i \in 1..Len(@) |-> [@[i] EXCEPT !.node = SplitWithin(@, target, axis, leaf)]]]

SplitLeaf(tree, target, axis, window) ==
    Normalized(SplitWithin(tree.root[1], target, axis, Leaf(tree.next, Live(window))), tree.next + 1)

(***************************************************************************)
(* Dividers.  The one that moves is in the nearest ancestor on the axis    *)
(* whose child holding the window has a sibling with a window toward the   *)
(* given end; nothing is tried farther out once one is found.              *)
(***************************************************************************)
SiblingToward(children, i, toward) ==
    LET visible == {j \in 1..Len(children) : HasWindow(children[j].node)}
        side    == IF toward = "start" THEN {j \in visible : j < i} ELSE {j \in visible : j > i}
    IN  IF side = {} THEN {}
        ELSE IF toward = "start" THEN {Max(side)} ELSE {Min(side)}

\* The divider moved by percent/100 of the visible extent; {} when the
\* sibling would fall below MinWeight of the container.
MovedDivider(node, i, sibling, percent) ==
    LET children == node.children
        visible  == SumWeights(SelectSeq(children, LAMBDA c : HasWindow(c.node)))
        total    == SumWeights(children)
        delta    == (percent * visible) \div 100
        moved    == [children EXCEPT ![i].weight = @ + delta, ![sibling].weight = @ - delta]
    IN  IF 100 * (children[sibling].weight - delta) < total THEN {}
        ELSE {[node EXCEPT !.children =
                 [j \in 1..Len(moved) |->
                    Child((moved[j].weight * WeightUnit) \div SumWeights(moved), moved[j].node)]]}

\* Whether a divider faces that way, and the node with it moved, if it could be:
\* below child i, whose own answer is inner, or in this node.
NoDivider == [found |-> FALSE, into |-> {}]
ResizedAt(node, i, inner, sibling, axis, percent) ==
    CASE inner.found ->
           [inner EXCEPT !.into = {[node EXCEPT !.children[i].node = n] : n \in @}]
      [] ~inner.found /\ node.axis = axis /\ sibling # {} ->
           [found |-> TRUE,
            into  |-> MovedDivider(node, i, CHOOSE s \in sibling : TRUE, percent)]
      [] OTHER -> NoDivider

ChildHolding(node, window) ==
    CHOOSE j \in 1..Len(node.children) : window \in WindowsIn(node.children[j].node)

RECURSIVE ResizedWithin(_, _, _, _, _), ResizedBelow(_, _, _, _, _, _)
ResizedBelow(node, i, window, axis, toward, percent) ==
    ResizedAt(node, i, ResizedWithin(node.children[i].node, window, axis, toward, percent),
              SiblingToward(node.children, i, toward), axis, percent)
ResizedWithin(node, window, axis, toward, percent) ==
    IF IsLeaf(node) THEN NoDivider
    ELSE ResizedBelow(node, ChildHolding(node, window), window, axis, toward, percent)

ResizeToward(tree, window, axis, toward, percent) ==
    IF window \notin Windows(tree) THEN NoDivider
    ELSE LET r == ResizedWithin(tree.root[1], window, axis, toward, percent)
         IN  [r EXCEPT !.into = {[tree EXCEPT !.root = <<n>>] : n \in @}]

(***************************************************************************)
(* Planning.  A placement is [window, rect]; placements come in visual     *)
(* order.                                                                  *)
(***************************************************************************)
RECURSIVE Tile(_, _)
Tile(node, area) ==
    IF IsLeaf(node)
    THEN IF node.occupant.live THEN <<[window |-> node.occupant.who, rect |-> area]>> ELSE <<>>
    ELSE LET weights == [i \in 1..Len(node.children) |-> node.children[i].weight]
             across  == node.axis = "horizontal"
             edges   == AllocateEdges(IF across THEN area.width ELSE area.height, weights)
             Part(i) == LET s == edges[i][1]
                            n == edges[i][2] - edges[i][1]
                        IN  IF across THEN Rect(area.x + s, area.y, n, area.height)
                                      ELSE Rect(area.x, area.y + s, area.width, n)
         IN  FlattenSeq([i \in 1..Len(weights) |-> Tile(node.children[i].node, Part(i))])

PlanTreeRaw(tree, area) ==
    LET projection == LiveProjection(tree)
    IN  IF area.width <= 0 \/ area.height <= 0 \/ projection.root = <<>> THEN <<>>
        ELSE Tile(projection.root[1], area)

GapSteps == 8
\* The largest eighths of the gaps that leave every window its minimum size.
Eighths(gaps, step) ==
    [outer |-> (gaps.outer * step) \div GapSteps, inner |-> (gaps.inner * step) \div GapSteps]
GapsThatFit(raw, area, gaps, sizes) ==
    {step \in 0..GapSteps : \A i \in 1..Len(raw) :
        FitsWithin(sizes[raw[i].window], ApplyGaps(raw[i].rect, area, Eighths(gaps, step)))}

\* The window of the slot inserted last leaves first; a tie goes to the later
\* in visual order.
Newest(leaves) ==
    leaves[CHOOSE j \in 1..Len(leaves) : \A k \in 1..Len(leaves) :
               leaves[k].inserted < leaves[j].inserted
               \/ (leaves[k].inserted = leaves[j].inserted /\ k <= j)].occupant.who

TreePlan(raw, area, gaps, overflow) ==
    [placements |-> [i \in 1..Len(raw) |-> [raw[i] EXCEPT !.rect = ApplyGaps(@, area, gaps)]],
     overflow |-> overflow, gaps |-> gaps]

RECURSIVE Constrained(_, _, _, _, _)
Constrained(arranged, area, gaps, sizes, overflow) ==
    LET Without(w) == Constrained(RemoveWindow(arranged, w), area, gaps, sizes, Append(overflow, w))
        Fitted(raw, steps) ==
            CASE raw = <<>>    -> TreePlan(raw, area, Eighths(gaps, 0), overflow)
              [] raw # <<>> /\ steps # {} -> TreePlan(raw, area, Eighths(gaps, Max(steps)), overflow)
              [] OTHER         -> Without(Newest(Leaves(arranged)))
        Tried(raw) == Fitted(raw, GapsThatFit(raw, area, gaps, sizes))
    IN  Tried(PlanTreeRaw(arranged, area))

\* sizes gives each window its minimum size; an unknown one is one by one.
PlanTreeConstrained(tree, area, gaps, sizes) ==
    Constrained(LiveProjection(tree), area, gaps, sizes, <<>>)

LongerAxis(r) == IF r.width >= r.height THEN "horizontal" ELSE "vertical"

\* The focused window's leaf when it is arranged, else the largest, the first
\* of equals in visual order.
InsertionTarget(placements, focused) ==
    LET wanted  == {i \in 1..Len(placements) : placements[i].window = focused}
        largest == {i \in 1..Len(placements) : \A k \in 1..Len(placements) :
                      Area(placements[k].rect) <= Area(placements[i].rect)}
    IN  placements[Min(IF wanted # {} THEN wanted ELSE largest)]

(***************************************************************************)
(* What a tree promises.                                                   *)
(***************************************************************************)
RECURSIVE NormalNode(_)
NormalNode(node) ==
    \/ IsLeaf(node)
    \/ /\ Len(node.children) >= 2
       /\ \A i \in 1..Len(node.children) :
            LET child == node.children[i] IN
            /\ child.weight > 0
            /\ IsLeaf(child.node) \/ child.node.axis # node.axis
            /\ NormalNode(child.node)

\* Normalized, every slot with a number of its own below the next one, no
\* window in two slots.
WellFormed(tree) ==
    /\ \A i \in 1..Len(tree.root) : NormalNode(tree.root[i])
    /\ Cardinality(Numbers(tree)) = Len(Leaves(tree))
    /\ \A n \in Numbers(tree) : n < tree.next
    /\ Cardinality(Windows(tree)) = Len(LiveLeaves(Leaves(tree)))

\* Placements that lie in the area, never overlap, and cover it.
Tiles(placements, area) ==
    /\ \A i \in 1..Len(placements) : Encloses(area, placements[i].rect)
    /\ \A i, j \in 1..Len(placements) :
         i # j => ~Overlap(placements[i].rect, placements[j].rect)
    /\ FoldSeq(LAMBDA p, sum : Area(p.rect) + sum, 0, placements) = Area(area)
=============================================================================

------------------------------ MODULE Geometry ------------------------------
(***************************************************************************)
(* Rectangles, edge allocation, zones, gaps, grids and saved layouts: the  *)
(* pure planners of mosaix-layout over the geometry of mosaix-domain.      *)
(*                                                                         *)
(* Pixels are integers as in the code.  A fraction of a work area is a     *)
(* whole number of parts of Unit, and every rounding is the code's one     *)
(* rule, half away from zero, on exact quotients instead of doubles.       *)
(***************************************************************************)
EXTENDS Integers, Sequences, FiniteSets
LOCAL INSTANCE FiniteSetsExt
LOCAL INSTANCE SequencesExt

Unit == 60          \* 1.0 of a normalized fraction; halves and thirds are whole

Rect(x, y, width, height) ==
    [x |-> x, y |-> y, width |-> width, height |-> height]

Right(r)  == r.x + r.width
Bottom(r) == r.y + r.height
Area(r)   == r.width * r.height
Encloses(outer, inner) ==
    /\ inner.x >= outer.x /\ Right(inner) <= Right(outer)
    /\ inner.y >= outer.y /\ Bottom(inner) <= Bottom(outer)
Overlap(r, s) ==
    /\ r.x < Right(s) /\ s.x < Right(r)
    /\ r.y < Bottom(s) /\ s.y < Bottom(r)
FitsWithin(size, r) == r.width >= size.width /\ r.height >= size.height

\* part / whole rounded, ties away from zero.
Rounded(part, whole) ==
    IF part >= 0 THEN (2 * part + whole) \div (2 * whole)
                 ELSE -((2 * (-part) + whole) \div (2 * whole))

\* A rectangle from its two rounded corners.
FromCorners(x1, y1, x2, y2) == Rect(x1, y1, Max({x2 - x1, 0}), Max({y2 - y1, 0}))

\* A normalized rectangle resolved against a container: corners are rounded,
\* never widths.
ToRect(cell, container) ==
    LET X(part) == container.x + Rounded(part * container.width, Unit)
        Y(part) == container.y + Rounded(part * container.height, Unit)
    IN  FromCorners(X(cell.x), Y(cell.y), X(cell.x + cell.width), Y(cell.y + cell.height))

\* The same share of another work area.
ThrowPreservingRatio(bounds, from, to) ==
    LET X(x) == to.x + Rounded((x - from.x) * to.width, from.width)
        Y(y) == to.y + Rounded((y - from.y) * to.height, from.height)
    IN  FromCorners(X(bounds.x), Y(bounds.y), X(Right(bounds)), Y(Bottom(bounds)))

\* Segments [start, end) of total, cut where the cumulative weight rounds to.
AllocateEdges(total, weights) ==
    LET sum == FoldSeq(LAMBDA w, acc : w + acc, 0, weights)
        upto[i \in 0..Len(weights)] == IF i = 0 THEN 0 ELSE upto[i - 1] + weights[i]
        edge(i) == IF i = Len(weights) THEN total ELSE Rounded(upto[i] * total, sum)
    IN  [i \in 1..Len(weights) |-> <<edge(i - 1), edge(i)>>]

Even(n) == [i \in 1..n |-> 1]

(***************************************************************************)
(* Zones.                                                                  *)
(***************************************************************************)
Half == Unit \div 2

HalfZone ==
    [left   |-> Rect(0, 0, Half, Unit),    right  |-> Rect(Half, 0, Half, Unit),
     top    |-> Rect(0, 0, Unit, Half),    bottom |-> Rect(0, Half, Unit, Half)]

QuarterZone ==
    [topLeft    |-> Rect(0, 0, Half, Half),    topRight    |-> Rect(Half, 0, Half, Half),
     bottomLeft |-> Rect(0, Half, Half, Half), bottomRight |-> Rect(Half, Half, Half, Half)]

SnapToHalf(container, zone)    == ToRect(HalfZone[zone], container)
SnapToQuarter(container, zone) == ToRect(QuarterZone[zone], container)

\* A third is one of three columns, two thirds are two adjacent ones.
SnapToThird(container, first, last) ==
    LET columns == AllocateEdges(container.width, Even(3))
    IN  Rect(container.x + columns[first][1], container.y,
             columns[last][2] - columns[first][1], container.height)

NextStep == [half |-> "third", third |-> "twoThirds", twoThirds |-> "half"]

ResolveZoneCycle(container, direction, step) ==
    CASE step = "half"      -> SnapToHalf(container, direction)
      [] step = "third"     -> IF direction = "left" THEN SnapToThird(container, 1, 1)
                                                     ELSE SnapToThird(container, 3, 3)
      [] step = "twoThirds" -> IF direction = "left" THEN SnapToThird(container, 1, 2)
                                                     ELSE SnapToThird(container, 2, 3)

\* The half zone a drag picks when the pointer is within threshold of an edge
\* of the work area: left, right, top, bottom, in that order.
NoZone == "none"
HalfZoneAtEdge(area, x, y, threshold) ==
    LET reach  == Max({threshold, 0})
        inside == /\ x >= area.x /\ x < Right(area)
                  /\ y >= area.y /\ y < Bottom(area)
    IN  CASE ~inside                     -> NoZone
          [] x - area.x <= reach         -> "left"
          [] Right(area) - 1 - x <= reach  -> "right"
          [] y - area.y <= reach         -> "top"
          [] Bottom(area) - 1 - y <= reach -> "bottom"
          [] OTHER                       -> NoZone

\* Edges on the container's boundary take the outer gap, the others the inner.
ApplyGaps(zone, container, gaps) ==
    LET gap(onBoundary) == IF onBoundary THEN gaps.outer ELSE gaps.inner
        left   == zone.x + gap(zone.x = container.x)
        top    == zone.y + gap(zone.y = container.y)
        right  == Right(zone) - gap(Right(zone) = Right(container))
        bottom == Bottom(zone) - gap(Bottom(zone) = Bottom(container))
    IN  Rect(left, top, right - left, bottom - top)

(***************************************************************************)
(* The balanced grid, saved layouts and the order of displays.             *)
(***************************************************************************)
\* How many cells row i of rows holds.
RowCount(members, rows, i) == members \div rows + (IF i <= members % rows THEN 1 ELSE 0)

\* |ln(width / height)| of row i's cells, compared as the ratio >= 1 it is the
\* logarithm of: a pair <<numerator, denominator>>.
Distortion(area, members, rows, i) ==
    LET wide == area.width * rows
        tall == area.height * RowCount(members, rows, i)
    IN  <<Max({wide, tall}), Min({wide, tall})>>

RatioLess(p, q) == p[1] * q[2] < q[1] * p[2]
RatioSame(p, q) == p[1] * q[2] = q[1] * p[2]

Worst(area, members, rows) ==
    LET all == {Distortion(area, members, rows, i) : i \in 1..rows}
    IN  CHOOSE p \in all : \A q \in all : ~RatioLess(p, q)

\* The sum of every cell's logarithm is the logarithm of the product.
Total(area, members, rows) ==
    LET cellsAbove(i) == FoldSet(LAMBDA j, n : n + RowCount(members, rows, j), 0, 1..(i - 1))
        rowOf(k) == CHOOSE i \in 1..rows : cellsAbove(i) < k /\ k <= cellsAbove(i) + RowCount(members, rows, i)
        product[k \in 0..members] ==
            IF k = 0 THEN <<1, 1>>
            ELSE LET d == Distortion(area, members, rows, rowOf(k))
                 IN  <<product[k - 1][1] * d[1], product[k - 1][2] * d[2]>>
    IN  product[members]

\* rows is better than other: worst distortion, then total, then fewer rows.
BetterRows(area, members, rows, other) ==
    LET w == Worst(area, members, rows)
        v == Worst(area, members, other)
    IN  \/ RatioLess(w, v)
        \/ /\ RatioSame(w, v)
           /\ LET t == Total(area, members, rows)
                  u == Total(area, members, other)
              IN  RatioLess(t, u) \/ (RatioSame(t, u) /\ rows < other)

\* The cells of one band, given where each column starts and ends.
RowCells(area, band, columns) ==
    [k \in 1..Len(columns) |-> Rect(area.x + columns[k][1], area.y + band[1],
                                    columns[k][2] - columns[k][1], band[2] - band[1])]

CellsInRows(area, members, rows) ==
    FlattenSeq([i \in 1..rows |->
        RowCells(area, AllocateEdges(area.height, Even(rows))[i],
                 AllocateEdges(area.width, Even(RowCount(members, rows, i))))])

PlanBalancedGrid(area, members) ==
    IF members = 0 \/ area.width <= 0 \/ area.height <= 0 THEN <<>>
    ELSE CellsInRows(area, members, CHOOSE r \in 1..members :
                \A s \in (1..members) \ {r} : BetterRows(area, members, r, s))

ResolveSavedLayout(area, cells) == [i \in 1..Len(cells) |-> ToRect(cells[i], area)]

\* The display before or after `current` in reading order, around the end.
CycleDisplay(order, current, step) ==
    IF Len(order) < 2 \/ current \notin ToSet(order) THEN {}
    ELSE LET i == CHOOSE j \in 1..Len(order) : order[j] = current
             shift == IF step = "next" THEN 1 ELSE Len(order) - 1
         IN  {order[((i - 1 + shift) % Len(order)) + 1]}
=============================================================================

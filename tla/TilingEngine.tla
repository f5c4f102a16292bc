---------------------------- MODULE TilingEngine ----------------------------
(***************************************************************************)
(* The placement half of the reducer (mosaix-engine/src/lib.rs): which     *)
(* windows are tiled, where each arrangement puts them, and the commands   *)
(* and observations that change either.  An event arm is an operator from  *)
(* the engine's state, a record s, to the next one.                        *)
(*                                                                         *)
(* No workspace is declared here, so a window is arranged on the display   *)
(* it is on; WorkspacePool and SwitchEngine have the other half.  Window   *)
(* and display identifiers are numbers, as the native handles that break   *)
(* ties are; displays are numbered in reading order and a display's        *)
(* fingerprint is its number.                                              *)
(***************************************************************************)
EXTENDS ContainerTree, WindowIdentity
LOCAL INSTANCE FiniteSetsExt
LOCAL INSTANCE SequencesExt
LOCAL INSTANCE Functions

CONSTANTS
    None,
    Window, Display,
    WorkArea,       \* [Display -> rectangle]
    Traits,         \* [Window -> what never changes about it]
    Retention       \* days a dormant slot is kept

ASSUME NumbersAssumption == Window \subseteq Nat /\ Display \subseteq Nat
ASSUME AreaAssumption ==
    \A d \in Display : WorkArea[d].width > 0 /\ WorkArea[d].height > 0

CircuitThreshold == 3
ResizeStep       == 5       \* per cent

(***************************************************************************)
(* A configuration: a profile for one topology and a base for the others.  *)
(* rules gives each window the action the rule evaluator decides.          *)
(***************************************************************************)
Profile(auto, mode, gaps, layouts, rules) ==
    [auto |-> auto, mode |-> mode, gaps |-> gaps, layouts |-> layouts, rules |-> rules]

SelectProfile(set, displays) == IF displays = set.topology THEN set.profile ELSE set.base

(***************************************************************************)
(* The state.                                                              *)
(*   windows    what the engine last decided about each window it tracks   *)
(*   inventory  what it last observed of each window it manages            *)
(*   order      the visual window order of each display                    *)
(*   floating, tiled   the session's exceptions to the rules               *)
(*   saved      the tree last written of each display, if any              *)
(*   pending    a tree the database held for a display, until its reflow   *)
(*   evidence   what would recognise a window that closes                  *)
(*   drag       the interactive placement, scope the open undo scope       *)
(*   newest     the undo transaction the database last published           *)
(***************************************************************************)
NoDrag  == [window |-> None, display |-> None]
NoCycle == <<>>
NoGaps  == [outer |-> 0, inner |-> 0]

EngineStart(set, displays) ==
    LET config == SelectProfile(set, displays) IN
    [displays |-> displays, set |-> set, config |-> config, rules |-> config.rules,
     paused |-> FALSE, suspended |-> FALSE, active |-> config.auto, day |-> 0,
     windows |-> <<>>, inventory |-> <<>>, order |-> [d \in Display |-> <<>>],
     floating |-> {}, tiled |-> {}, focused |-> None, focusedDisplay |-> None,
     trees |-> [d \in Display |-> EmptyTree], saved |-> [d \in Display |-> <<>>],
     pending |-> [d \in Display |-> <<>>], evidence |-> <<>>,
     overflow |-> [d \in Display |-> {}], drag |-> NoDrag, applied |-> [d \in Display |-> None],
     scope |-> <<>>, newest |-> <<>>, healthy |-> TRUE, effects |-> <<>>, intents |-> <<>>]

Placed(display, bounds) ==
    [display |-> display, bounds |-> bounds, observed |-> bounds,
     previous |-> <<>>, cycle |-> NoCycle, rejections |-> 0]

Tracked(s) == DOMAIN s.windows
Managed(s) == DOMAIN s.inventory
CircuitOpen(s, w) == w \in Tracked(s) /\ s.windows[w].rejections >= CircuitThreshold

\* Every setting of one key, and the keys kept.
With(f, key, value) == [x \in DOMAIN f \cup {key} |-> IF x = key THEN value ELSE f[x]]
Emit(s, effect)     == [s EXCEPT !.effects = Append(@, effect)]
Intend(s, intent)   == [s EXCEPT !.intents = Append(@, intent)]

Place(w, display, bounds) == [kind |-> "place", window |-> w, display |-> display, bounds |-> bounds]
FocusOn(w)                == [kind |-> "focus", window |-> w]
Reconcile                 == [kind |-> "reconcile"]

(***************************************************************************)
(* Evidence.                                                               *)
(***************************************************************************)
FingerprintOf(s, d) == IF d \in s.displays THEN d ELSE None

Described(s, w) ==
    [id |-> w, app |-> Traits[w].app, path |-> Traits[w].path, class |-> Traits[w].class,
     role |-> Traits[w].role, display |-> FingerprintOf(s, s.inventory[w].display),
     bounds |-> s.inventory[w].bounds]

LaunchOrder(s, w) ==
    Cardinality({v \in Managed(s) : Traits[v].app = Traits[w].app /\ v < w})

\* At most one: a window not managed, or on a display that is gone, has none.
EvidenceFor(s, w) ==
    IF w \notin Managed(s) \/ s.inventory[w].display \notin s.displays THEN <<>>
    ELSE <<CaptureEvidence(Described(s, w), LaunchOrder(s, w))>>

Recognised(s, evidence, among) ==
    MatchWindow(evidence, {Described(s, w) : w \in among}, LAMBDA v : LaunchOrder(s, v.id))

DurableTree(s, tree) ==
    ConvertLeaves(tree, LAMBDA o :
        IF ~o.live THEN Keep(o)
        ELSE LET e == EvidenceFor(s, o.who) IN [i \in 1..Len(e) |-> Live(e[i])])

Expired(s, since) == s.day - since >= Retention

(* Mutant: two leaves may be given to one window. *)
RestoreTreeTwice(s, stored, active) ==
    LET named(o) == ConfidentWindow(Recognised(s, o.who, active))
        slept(o) == IF o.live THEN Dormant(o.who, s.day) ELSE o
    IN  ConvertLeaves(stored, LAMBDA o :
            <<IF named(o) # {} THEN Live(CHOOSE w \in named(o) : TRUE) ELSE slept(o)>>)

\* What becomes of the leaf with each number.
Restored(s, leaves, named) ==
    LET own(i) == {w \in named[leaves[i]] : \A j \in 1..(i - 1) : w \notin named[leaves[j]]}
        slept(o) == IF o.live THEN Dormant(o.who, s.day) ELSE o
        fate(i) == IF own(i) # {} THEN Live(CHOOSE w \in own(i) : TRUE) ELSE slept(leaves[i].occupant)
        position(n) == CHOOSE i \in 1..Len(leaves) : leaves[i].inserted = n
    IN  [n \in {leaves[i].inserted : i \in 1..Len(leaves)} |-> <<fate(position(n))>>]

\* A stored tree with each leaf given to the window its evidence confidently
\* names, the first leaf in visual order when two name one, and the others
\* dormant.
RestoreTree(s, stored, active) ==
    LET named(leaf) == ConfidentWindow(Recognised(s, leaf.occupant.who, active))
    IN  PruneDormant(ConvertWith(stored, Restored(s, Leaves(stored), [leaf \in ToSet(Leaves(stored)) |-> named(leaf)])),
                     LAMBDA since : Expired(s, since))

(***************************************************************************)
(* The undo scope and the placement of one window.                         *)
(***************************************************************************)
OpenScope(s, command) ==
    [s EXCEPT !.scope = <<[command |-> command, members |-> <<>>, trees |-> <<>>]>>]

CaptureTree(s, d) ==
    IF s.scope = <<>> \/ \E i \in 1..Len(s.scope[1].trees) : s.scope[1].trees[i].display = d THEN s
    ELSE [s EXCEPT !.scope[1].trees = Append(@, [display |-> d, tree |-> s.trees[d]])]

(* Mutant: a move is recorded with where it went. *)
RecordMemberAfter(s, w, prior) ==
    IF s.scope = <<>> \/ EvidenceFor(s, w) = <<>> THEN s
    ELSE [s EXCEPT !.scope[1].members = Append(@,
            [window |-> w, evidence |-> EvidenceFor(s, w)[1],
             display |-> s.windows[w].display, bounds |-> s.windows[w].bounds])]

\* A window's first move in the scope is what undo will reverse.
RecordMember(s, w, prior) ==
    IF \/ s.scope = <<>> \/ prior = <<>> \/ EvidenceFor(s, w) = <<>>
       \/ prior[1].display \notin s.displays
       \/ \E i \in 1..Len(s.scope[1].members) : s.scope[1].members[i].window = w
    THEN s
    ELSE [s EXCEPT !.scope[1].members = Append(@,
            [window |-> w, evidence |-> EvidenceFor(s, w)[1],
             display |-> prior[1].display, bounds |-> prior[1].bounds])]

\* A scope that moved and reshaped nothing records nothing.
CloseScope(s) ==
    LET scope  == s.scope[1]
        shaped == SelectSeq(scope.trees, LAMBDA t : s.trees[t.display] # t.tree /\ t.display \in s.displays)
        transaction ==
            [id |-> 0, command |-> scope.command, topology |-> s.displays,
             members |-> [i \in 1..Len(scope.members) |->
                            [m \in {"evidence", "display", "bounds"} |-> scope.members[i][m]]],
             trees   |-> [i \in 1..Len(shaped) |->
                            [display |-> shaped[i].display, tree |-> DurableTree(s, shaped[i].tree)]]]
        closed == [s EXCEPT !.scope = <<>>]
    IN  IF s.scope = <<>> \/ (scope.members = <<>> /\ shaped = <<>>) THEN closed
        ELSE Intend(closed, [kind |-> "recordUndo", transaction |-> transaction])

Moved(s, w, d, bounds) ==
    IF w \notin Managed(s) THEN s
    ELSE [s EXCEPT !.inventory[w].display = d, !.inventory[w].bounds = bounds]

Whereabouts(s, w) ==
    IF w \in Tracked(s)
    THEN <<[display |-> s.windows[w].display, bounds |-> s.windows[w].bounds]>> ELSE <<>>

\* An open circuit suppresses the placement.  A cycle of NoCycle carries over
\* the one the window has.
PlaceWindow(s, w, d, bounds, cycle) ==
    LET prior == Whereabouts(s, w)
        old   == IF w \in Tracked(s) THEN s.windows[w] ELSE Placed(d, bounds)
        new   == [Placed(d, bounds) EXCEPT !.previous = prior, !.rejections = old.rejections,
                                           !.cycle = IF cycle = NoCycle THEN old.cycle ELSE cycle]
        placed == Moved([s EXCEPT !.windows = With(@, w, new)], w, d, bounds)
    IN  IF CircuitOpen(s, w) THEN s
        ELSE Emit(RecordMember(placed, w, prior), Place(w, d, bounds))

\* The placements of one display's plan that are not where they should be.
PlaceChanged(s, d, placements) ==
    FoldLeft(LAMBDA acc, p :
                LET at == acc.windows[p.window]
                IN  IF at.display = d /\ at.bounds = p.rect THEN acc
                    ELSE PlaceWindow(acc, p.window, d, p.rect, NoCycle),
             s, placements)

(***************************************************************************)
(* Who is tiled.                                                           *)
(***************************************************************************)
EligibilityFor(w, lifecycle, action, circuitOpen) ==
    CASE action = "float"          -> "floatingRule"
      [] ~Traits[w].tileable       -> "notTileable"
      [] Traits[w].elevated        -> "elevated"
      [] circuitOpen               -> "circuitOpen"
      [] lifecycle = "active"      -> "eligible"
      [] OTHER                     -> lifecycle

MayTile(s, w) == s.inventory[w].action = "tile" \/ w \in s.tiled

SetFloating(s, w, floating) ==
    LET m == s.inventory[w]
        t == [s EXCEPT !.floating = IF floating THEN @ \cup {w} ELSE @ \ {w}]
    IN  IF w \notin Managed(s) THEN t
        ELSE [t EXCEPT !.inventory[w].eligibility =
                IF floating THEN "sessionFloating"
                ELSE EligibilityFor(w, m.lifecycle, m.action, CircuitOpen(s, w))]

\* Top to bottom, left to right, the handle last.
SeededOrder(s, windows) ==
    SetToSortSeq(windows, LAMBDA v, w :
        LET p == s.inventory[v].bounds
            q == s.inventory[w].bounds
        IN  \/ p.y < q.y
            \/ p.y = q.y /\ p.x < q.x
            \/ p.y = q.y /\ p.x = q.x /\ v < w)

RefreshOrder(s) ==
    LET belongs(w, d) == w \in Managed(s) /\ MayTile(s, w) /\ s.inventory[w].display = d
        kept(d) == SelectSeq(s.order[d], LAMBDA w : belongs(w, d))
        new(d)  == {w \in Managed(s) : belongs(w, d)} \ ToSet(kept(d))
    IN  [s EXCEPT !.order = [d \in Display |-> kept(d) \o SeededOrder(s, new(d))]]

Active(s, d) == SelectSeq(s.order[d], LAMBDA w : s.inventory[w].eligibility = "eligible")

InOrder(displays) == SetToSortSeq(displays, <)
(* Mutant: the display under the drag is rearranged while the drag lasts. *)
DeferredNever(s, d) == FALSE

Deferred(s, d)    == s.drag.window # None /\ s.drag.display = d

(***************************************************************************)
(* The two arrangements.                                                   *)
(***************************************************************************)
InCells(s, d, windows, cells) ==
    [i \in 1..Len(windows) |->
        [window |-> windows[i], rect |-> ApplyGaps(cells[i], WorkArea[d], s.config.gaps)]]

BalancedOn(s, d) ==
    IF Deferred(s, d) THEN s
    ELSE PlaceChanged(s, d, InCells(s, d, Active(s, d), PlanBalancedGrid(WorkArea[d], Len(Active(s, d)))))

ReconcileBalanced(s) ==
    FoldLeft(BalancedOn, [RefreshOrder(s) EXCEPT !.overflow = [d \in Display |-> {}]],
             InOrder(s.displays))

(* Mutant: the slot of a window that closed is removed. *)
LetGoForgets(s, tree, gone) == FoldSeq(LAMBDA w, t : RemoveWindow(t, w), tree, gone)

\* A window that left: its slot sleeps when it closed and something could
\* recognise it, and goes when it is only no longer tiled here.
LetGo(s, tree, gone) ==
    FoldSeq(LAMBDA w, t :
                IF w \in DOMAIN s.evidence /\ w \notin Managed(s)
                THEN MakeDormant(t, w, s.evidence[w], s.day) ELSE RemoveWindow(t, w),
            tree, gone)

\* Slots are offered in visual order to the windows without one.
ReclaimSlots(s, tree, wanting) ==
    LET Claimed(acc, slot, found) ==
            IF found = {} THEN acc ELSE Reclaim(acc, slot.inserted, CHOOSE w \in found : TRUE)
    IN  FoldLeft(LAMBDA acc, slot :
                    Claimed(acc, slot, ConfidentWindow(Recognised(s, slot.occupant.who, wanting \ Windows(acc)))),
                 tree, DormantSlots(tree))

InsertNew(s, d, tree, w) ==
    LET SplitAt(target) == SplitLeaf(tree, target.window, LongerAxis(target.rect), w)
    IN  CASE tree.root = <<>>         -> InsertFirst(tree, w)
          [] tree.root # <<>> /\ Windows(tree) = {} -> SplitRoot(tree, LongerAxis(WorkArea[d]), w)
          [] OTHER                    -> SplitAt(InsertionTarget(PlanTreeRaw(tree, WorkArea[d]), s.focused))

(* Mutant: what the database held is ignored. *)
StartTreeAnew(s, d) == s.trees[d]

\* A stored tree replaces whatever the display had, once.
StartTree(s, d) ==
    IF s.pending[d] = <<>> THEN s.trees[d]
    ELSE RestoreTree(s, s.pending[d][1], ToSet(Active(s, d)))
Departed(s, d, start) == Windows(start) \ ToSet(Active(s, d))

InsertMissing(s, d, tree) ==
    FoldLeft(LAMBDA t, w : InsertNew(s, d, t, w), tree,
             SelectSeq(Active(s, d), LAMBDA w : w \notin Windows(tree)))

GrownTree(s, d, start) ==
    LET kept == PruneDormant(LetGo(s, start, SetToSeq(Departed(s, d, start))), LAMBDA since : Expired(s, since))
    IN  InsertMissing(s, d, ReclaimSlots(s, kept, ToSet(Active(s, d))))

MinimumSizes == [w \in Window |-> Traits[w].minimum]
PlanTree(s, d, tree) == PlanTreeConstrained(tree, WorkArea[d], s.config.gaps, MinimumSizes)

(* Mutant: a tree is written when its windows change, not when their places do. *)
AdoptedByWindows(s, d, departed, tree, plan) ==
    LET fresh  == {w \in Windows(tree) : EvidenceFor(s, w) # <<>>}
        known  == (DOMAIN s.evidence \ departed) \cup fresh
        grown  == [s EXCEPT !.trees[d] = tree, !.pending[d] = <<>>, !.saved[d] = <<tree>>,
                            !.overflow[d] = ToSet(plan.overflow),
                            !.evidence = [w \in known |->
                                IF w \in fresh THEN EvidenceFor(s, w)[1] ELSE s.evidence[w]]]
        stored == IF s.saved[d] # <<>> /\ Windows(s.saved[d][1]) = Windows(tree) THEN grown
                  ELSE Intend(grown, [kind |-> "saveTree", display |-> d, tree |-> DurableTree(s, tree)])
    IN  PlaceChanged(stored, d, plan.placements)

\* Evidence is refreshed for the windows the tree holds, and a changed tree is
\* written.
Adopted(s, d, departed, tree, plan) ==
    LET fresh  == {w \in Windows(tree) : EvidenceFor(s, w) # <<>>}
        known  == (DOMAIN s.evidence \ departed) \cup fresh
        grown  == [s EXCEPT !.trees[d] = tree, !.pending[d] = <<>>, !.saved[d] = <<tree>>,
                            !.overflow[d] = ToSet(plan.overflow),
                            !.evidence = [w \in known |->
                                IF w \in fresh THEN EvidenceFor(s, w)[1] ELSE s.evidence[w]]]
        stored == IF s.saved[d] = <<tree>> THEN grown
                  ELSE Intend(grown, [kind |-> "saveTree", display |-> d, tree |-> DurableTree(s, tree)])
    IN  PlaceChanged(stored, d, plan.placements)

Replanned(s, d, departed, tree) == Adopted(s, d, departed, tree, PlanTree(s, d, tree))
TreeFrom(s, d, start) == Replanned(s, d, Departed(s, d, start), GrownTree(s, d, start))

TreeOn(s, d) == IF Deferred(s, d) THEN s ELSE TreeFrom(s, d, StartTree(s, d))

WithoutAbsent(s) ==
    [s EXCEPT !.trees    = [d \in Display |-> IF d \in s.displays THEN @[d] ELSE EmptyTree],
              !.overflow = [d \in Display |-> IF d \in s.displays THEN @[d] ELSE {}]]

ReconcileTrees(s) ==
    [FoldLeft(TreeOn, WithoutAbsent(RefreshOrder(s)), InOrder(s.displays)) EXCEPT
        !.evidence = [w \in DOMAIN @ \cap Managed(s) |-> @[w]]]

ReconcileArrangements(s) ==
    CASE ~s.active \/ s.paused   -> s
      [] s.active /\ ~s.paused /\ s.config.mode = "balanced" -> ReconcileBalanced(s)
      [] OTHER                   -> ReconcileTrees(s)

(***************************************************************************)
(* Observations.  A batch is the set of open windows, each a record [id,   *)
(* display, bounds, lifecycle].                                            *)
(***************************************************************************)
(* Mutant: an observation knows nothing of what the session floated. *)
ObservedAnew(s, o) ==
    LET action == s.rules[o.id] IN
    [display |-> o.display, bounds |-> o.bounds, lifecycle |-> o.lifecycle, action |-> action,
     eligibility |-> EligibilityFor(o.id, o.lifecycle, action, CircuitOpen(s, o.id))]

Observed(s, o) ==
    LET action == s.rules[o.id]
        judged == IF o.id \in s.tiled THEN "tile" ELSE action
    IN  [display |-> o.display, bounds |-> o.bounds, lifecycle |-> o.lifecycle, action |-> action,
         eligibility |-> IF o.id \in s.floating \ s.tiled THEN "sessionFloating"
                         ELSE EligibilityFor(o.id, o.lifecycle, judged, CircuitOpen(s, o.id))]

\* The inventory is rebuilt from the batch, and what is not in it forgotten.
ReplaceInventory(s, batch) ==
    LET kept == {o \in batch : s.rules[o.id] # "exclude"}
        ids  == {o.id : o \in kept}
        of(w) == CHOOSE o \in kept : o.id = w
    IN  [s EXCEPT
            !.inventory = [w \in ids |-> Observed(s, of(w))],
            !.windows   = [w \in ids |-> IF w \in Tracked(s) THEN @[w]
                                         ELSE Placed(of(w).display, of(w).bounds)],
            !.floating  = @ \cap ids, !.tiled = @ \cap ids,
            !.focused   = IF @ \in ids THEN @ ELSE None]

(* Mutant: only a window that comes or goes counts as a change. *)
InventoryChangedInNumber(s, t) == Managed(t) # Managed(s)

InventoryChanged(s, t) == t.inventory # s.inventory \/ ~(Tracked(s) \subseteq Managed(t))

\* Maximizing a tiled window takes it out of the tiling for the session.
WindowsObserved(s, batch) ==
    LET maximized == {o.id : o \in {p \in batch :
                        /\ p.lifecycle = "maximized" /\ p.id \in Managed(s)
                        /\ s.inventory[p.id].action = "tile"
                        /\ s.inventory[p.id].lifecycle # "maximized"}}
        noted == [s EXCEPT !.floating = IF s.active THEN @ \cup maximized ELSE @]
        t     == ReplaceInventory(noted, batch)
    IN  IF InventoryChanged(s, t) THEN ReconcileArrangements(t) ELSE t

WindowBoundsObserved(s, w, d, bounds) ==
    IF w \notin Tracked(s) THEN s
    ELSE [s EXCEPT !.windows[w].observed = bounds,
                   !.windows[w].cycle =
                        IF s.windows[w].display = d /\ s.windows[w].bounds = bounds THEN @ ELSE NoCycle]

WindowFocused(s, w, d, bounds) ==
    [s EXCEPT !.windows = IF w \in DOMAIN @ THEN @ ELSE With(@, w, Placed(d, bounds)),
              !.focused = w,
              !.focusedDisplay = IF d \in s.displays THEN d ELSE @]

FocusDisplayRequested(s, d) == IF d \in s.displays THEN [s EXCEPT !.focusedDisplay = d] ELSE s

(***************************************************************************)
(* Displays.                                                               *)
(***************************************************************************)
Centre(d) == <<WorkArea[d].x + WorkArea[d].width \div 2, WorkArea[d].y + WorkArea[d].height \div 2>>
Distance(d, e) ==
    LET square(n) == n * n IN square(Centre(d)[1] - Centre(e)[1]) + square(Centre(d)[2] - Centre(e)[2])
Nearest(d, displays) ==
    CHOOSE e \in displays : \A f \in displays : Distance(d, e) < Distance(d, f)
                                              \/ (Distance(d, e) = Distance(d, f) /\ e <= f)

\* The windows of a display that went, thrown to the nearest that stayed.  A
\* circuit does not stop this move, and no undo records it.
MigrateOrphanedWindows(s, displays) ==
    LET orphans == {w \in Tracked(s) : s.windows[w].display \in s.displays \ displays}
        Move(w, t) ==
            LET from == s.windows[w].display
                to   == Nearest(from, displays)
                at   == ThrowPreservingRatio(s.windows[w].bounds, WorkArea[from], WorkArea[to])
            IN  Emit(Moved([t EXCEPT !.windows[w].display = to, !.windows[w].bounds = at], w, to, at),
                     Place(w, to, at))
    IN  FoldSeq(Move, s, SetToSortSeq(orphans, <))

SelectConfig(s, displays) ==
    LET config == SelectProfile(s.set, displays) IN
    [s EXCEPT !.displays = displays, !.config = config, !.suspended = FALSE, !.active = config.auto]

OnlyConnected(f, displays, absent) == [d \in Display |-> IF d \in displays THEN f[d] ELSE absent]

\* The display nearest to the one that went; none when that one was not there.
MigrateFocusedDisplay(s, displays) ==
    [s EXCEPT !.focusedDisplay = CASE @ = None \/ @ \in displays                  -> @
                                   [] @ \notin displays /\ @ \in s.displays \ {None} -> Nearest(@, displays)
                                   [] OTHER                                       -> None]

OnlyOf(s, displays) ==
    [s EXCEPT !.applied = OnlyConnected(@, displays, None),
              !.trees   = OnlyConnected(@, displays, EmptyTree),
              !.saved   = OnlyConnected(@, displays, <<>>)]

DisplayTopologyChanged(s, displays) ==
    LET moved == MigrateOrphanedWindows([s EXCEPT !.drag = NoDrag], displays)
    IN  IF displays = {} \/ displays = s.displays THEN s
        ELSE ReconcileArrangements(
               OnlyOf(SelectConfig(MigrateFocusedDisplay(moved, displays), displays), displays))

\* A wake keeps the trees, the drag and the focused display as they were; the
\* batch is missing when the windows could not be listed.
WakeReconciliation(s, displays, batches) ==
    LET topology == IF displays = {} \/ displays = s.displays THEN s
                    ELSE SelectConfig(MigrateOrphanedWindows(s, displays), displays)
    IN  ReconcileArrangements(FoldLeft(ReplaceInventory, topology, batches))

(***************************************************************************)
(* Configuration, pause and the session's tiling switch.                   *)
(***************************************************************************)
ConfigChanged(s, set) ==
    LET config == SelectProfile(set, s.displays)
        asked  == s.suspended /\ config.auto
    IN  IF set = s.set THEN s
        ELSE ReconcileArrangements([s EXCEPT !.set = set, !.config = config, !.rules = config.rules,
                                             !.suspended = asked, !.active = config.auto /\ ~asked])

Pause(s)  == [s EXCEPT !.paused = TRUE]
Resume(s) == IF s.paused THEN ReconcileArrangements([s EXCEPT !.paused = FALSE]) ELSE s

ToggleAutomaticTiling(s) ==
    LET t == [s EXCEPT !.suspended = ~@, !.active = s.suspended] IN
    IF ~s.config.auto THEN s
    ELSE CloseScope(ReconcileArrangements(OpenScope(t, "toggle")))

ContainerTreesLoaded(s, rows) ==
    IF \A d \in Display : rows[d] = <<>> THEN s
    ELSE ReconcileArrangements([s EXCEPT !.pending = rows])

(***************************************************************************)
(* Commands that place one window.                                         *)
(***************************************************************************)
WindowPlaced(s, w, d, bounds) ==
    LET floated == IF s.active THEN SetFloating(s, w, TRUE) ELSE s IN
    IF s.paused THEN s ELSE ReconcileArrangements(PlaceWindow(floated, w, d, bounds, NoCycle))

\* One remembered placement, consumed when used.  Neither pause nor an open
\* circuit stops it.
WindowRestoreRequested(s, w) ==
    LET back == s.windows[w].previous[1]
        was  == Whereabouts(s, w)
        t    == Moved([s EXCEPT !.windows[w].previous = <<>>, !.windows[w].display = back.display,
                                !.windows[w].bounds = back.bounds], w, back.display, back.bounds)
    IN  IF w \notin Tracked(s) \/ (w \in Tracked(s) /\ s.windows[w].previous = <<>>) THEN s
        ELSE CloseScope(Emit(RecordMember(OpenScope(t, "restore"), w, was),
                             Place(w, back.display, back.bounds)))

Carried(s, w, from, to, at) ==
    [Moved(s, w, to, at) EXCEPT
        !.windows[w].display = to, !.windows[w].bounds = at,
        !.order[from] = SelectSeq(@, LAMBDA v : v # w),
        !.order[to]   = IF w \in ToSet(@) THEN @ ELSE Append(@, w)]

\* Under automatic tiling the window changes display in the books and the
\* reflow places it.
ThrowWindow(s, w, to, at) ==
    IF s.active /\ w \in Managed(s)
    THEN ReconcileArrangements(RecordMember(Carried(s, w, s.windows[w].display, to, at), w, Whereabouts(s, w)))
    ELSE PlaceWindow(s, w, to, at, NoCycle)

ThrowTo(s, w, to) ==
    CloseScope(ThrowWindow(OpenScope(s, "throw"), w, to,
        ThrowPreservingRatio(s.windows[w].bounds, WorkArea[s.windows[w].display], WorkArea[to])))

ThrowToAny(s, w, target) == IF target = {} THEN s ELSE ThrowTo(s, w, CHOOSE to \in target : TRUE)

WindowThrowToDisplayRequested(s, w, step) ==
    IF s.paused \/ w \notin Tracked(s) THEN s
    ELSE ThrowToAny(s, w, CycleDisplay(InOrder(s.displays), s.windows[w].display, step))

Cycle(direction, step) == <<direction, step>>
NextCycle(cycle, direction) ==
    IF cycle # NoCycle /\ cycle[1] = direction THEN NextStep[cycle[2]] ELSE "half"

Sideways(direction) == direction \in {"left", "right"}

\* Where the zone is, on the display the window is on, and the cycle it leaves.
ZoneFor(s, w, direction) ==
    IF Sideways(direction)
    THEN ResolveZoneCycle(WorkArea[s.windows[w].display], direction, NextCycle(s.windows[w].cycle, direction))
    ELSE SnapToHalf(WorkArea[s.windows[w].display], direction)
CycleAfter(s, w, direction) ==
    IF Sideways(direction) THEN Cycle(direction, NextCycle(s.windows[w].cycle, direction)) ELSE NoCycle

SnapTo(s, w, zone, cycle) ==
    PlaceWindow([s EXCEPT !.windows[w].rejections = 0], w, s.windows[w].display,
                ApplyGaps(zone, WorkArea[s.windows[w].display], s.config.gaps), cycle)

FloatAndReflow(s, w) == IF s.active THEN ReconcileArrangements(SetFloating(s, w, TRUE)) ELSE s

\* A snap resets the circuit, places, and under automatic tiling floats the
\* window and reflows the rest.
ZoneSnapRequested(s, direction) ==
    LET w == s.focused IN
    IF s.paused \/ w = None \/ w \notin Tracked(s) THEN s
    ELSE IF s.windows[w].display \notin s.displays THEN s
    ELSE CloseScope(FloatAndReflow(SnapTo(OpenScope(s, "snap"), w, ZoneFor(s, w, direction),
                                          CycleAfter(s, w, direction)), w))

ToggleFloating(s) ==
    LET w == s.focused
        force == w \notin s.tiled
        byRule == [s EXCEPT !.tiled = IF force THEN @ \cup {w} ELSE @ \ {w},
                            !.floating = IF force THEN @ \ {w} ELSE @,
                            !.inventory[w].eligibility = IF force THEN "eligible" ELSE "floatingRule"]
        toggled == IF s.inventory[w].action = "float" THEN byRule
                   ELSE SetFloating(s, w, w \notin s.floating)
    IN  IF w \notin Managed(s) THEN s
        ELSE CloseScope(ReconcileArrangements(OpenScope(toggled, "float")))

(***************************************************************************)
(* Saved layouts.                                                          *)
(***************************************************************************)
DisplayWindowOrder(s, d) ==
    LET placeable == {w \in Managed(s) : s.inventory[w].display = d
                                         /\ s.inventory[w].lifecycle \in {"active", "maximized"}}
        ordered   == SelectSeq(s.order[d], LAMBDA w : w \in placeable)
    IN  ordered \o SeededOrder(s, placeable \ ToSet(ordered))

LayoutDisplay(s) ==
    IF s.focusedDisplay # None THEN s.focusedDisplay
    ELSE IF s.focused \in Managed(s) THEN s.inventory[s.focused].display ELSE None

\* The surplus of windows stays where it is, and a window whose circuit is
\* open is not floated, for it was not placed.
SavedLayoutApplyRequested(s, name) ==
    LET d == LayoutDisplay(s)
        windows == DisplayWindowOrder(s, d)
        cells == ResolveSavedLayout(WorkArea[d], s.config.layouts[name])
        given == 1..Min({Len(windows), Len(cells)})
        placed == {windows[i] : i \in {j \in given : ~CircuitOpen(s, windows[j])}}
        PlaceCell(acc, i) ==
            PlaceWindow(acc, windows[i], d, ApplyGaps(cells[i], WorkArea[d], s.config.gaps), NoCycle)
        applied == FoldLeft(PlaceCell, OpenScope(s, "layout"), SetToSortSeq(given, <))
        noted == [applied EXCEPT !.applied[d] = IF placed = {} THEN @ ELSE name]
        floated == FoldSet(LAMBDA w, acc : SetFloating(acc, w, TRUE), noted, placed)
    IN  IF s.paused \/ name \notin DOMAIN s.config.layouts \/ d \notin s.displays THEN s
        ELSE CloseScope(IF s.active /\ placed # {} THEN ReconcileArrangements(floated) ELSE noted)

(***************************************************************************)
(* Directions, and the commands on the tree.                               *)
(***************************************************************************)
Arranged(s, d, w) == w \in Windows(s.trees[d]) \ s.overflow[d]

Endpoint(s, d, w) ==
    /\ w \in Managed(s)
    /\ s.inventory[w].eligibility = "eligible" /\ s.inventory[w].display = d
    /\ s.config.mode = "tree" /\ s.active => Arranged(s, d, w)

\* Nearest along the direction, then across it, then in visual order.
Neighbor(s, direction) ==
    LET me == s.focused
        d  == s.inventory[me].display
        mid(w) == LET r == s.windows[w].bounds IN <<2 * r.x + r.width, 2 * r.y + r.height>>
        along  == IF direction \in {"left", "right"} THEN 1 ELSE 2
        ahead(w) == (mid(w)[along] - mid(me)[along]) * (IF direction \in {"left", "up"} THEN -1 ELSE 1)
        aside(w) == LET n == mid(w)[3 - along] - mid(me)[3 - along] IN IF n < 0 THEN -n ELSE n
        place(w) == CHOOSE i \in 1..Len(s.order[d]) : s.order[d][i] = w
        others == {w \in ToSet(s.order[d]) \ {me} : Endpoint(s, d, w) /\ ahead(w) > 0}
        nearer(v, w) == \/ ahead(v) < ahead(w)
                        \/ ahead(v) = ahead(w) /\ aside(v) < aside(w)
                        \/ ahead(v) = ahead(w) /\ aside(v) = aside(w) /\ place(v) <= place(w)
    IN  IF me \notin Managed(s) THEN {}
        ELSE IF ~Endpoint(s, d, me) THEN {}
        ELSE {w \in others : \A v \in others : nearer(w, v)}

DirectionalFocusRequested(s, direction) ==
    FoldSet(LAMBDA w, acc : Emit(acc, FocusOn(w)), s, Neighbor(s, direction))

PartnerOf(v, me, w) == IF v = me THEN w ELSE IF v = w THEN me ELSE v

\* In a tree the two change places in it as well as in the order.
Swapped(s, d, me, w) ==
    LET ordered == OpenScope([s EXCEPT !.order[d] = [i \in 1..Len(@) |-> PartnerOf(@[i], me, w)]], "swap")
    IN  IF s.config.mode # "tree" THEN ordered
        ELSE [CaptureTree(ordered, d) EXCEPT !.trees[d] = SwapLeaves(@, me, w)]

SwapWith(s, me, target) ==
    LET d == s.inventory[me].display
    IN  IF s.paused \/ target = {} THEN s
        ELSE IF d \notin s.displays \/ me \notin ToSet(s.order[d]) THEN s
        ELSE CloseScope(ReconcileArrangements(Swapped(s, d, me, CHOOSE w \in target : TRUE)))

DirectionalSwapRequested(s, direction) == SwapWith(s, s.focused, Neighbor(s, direction))

TreeModeActive(s) == s.config.mode = "tree" /\ s.active

TreePositionRemoveRequested(s, d, position) ==
    LET removed == [CaptureTree(OpenScope(s, "removePosition"), d) EXCEPT !.trees[d] = RemovePosition(@, position)]
    IN  IF \/ s.paused \/ ~TreeModeActive(s) \/ d \notin s.displays
           \/ \A slot \in ToSet(DormantSlots(s.trees[d])) : slot.inserted # position
        THEN s
        ELSE CloseScope(ReconcileArrangements(removed))

DividerFor == [left  |-> <<"horizontal", "start">>, right |-> <<"horizontal", "end">>,
               up    |-> <<"vertical", "start">>,   down  |-> <<"vertical", "end">>]

\* A step is legal when it overflows no window that was arranged and costs no
\* gap; the largest of at most ResizeStep per cent is taken.
LegalStep(now, then) ==
    /\ ToSet(then.overflow) \subseteq ToSet(now.overflow)
    /\ then.gaps.outer >= now.gaps.outer /\ then.gaps.inner >= now.gaps.inner

LegalSteps(s, d, moved, now) ==
    {points \in DOMAIN moved : \E tree \in moved[points] : LegalStep(now, PlanTree(s, d, tree))}

Largest(moved, legal) == IF legal = {} THEN {} ELSE moved[Max(legal)]

ByEachStep(tree, w, divider) ==
    [points \in 1..ResizeStep |-> ResizeToward(tree, w, divider[1], divider[2], points).into]

LargestLegal(s, d, moved) == Largest(moved, LegalSteps(s, d, moved, PlanTree(s, d, s.trees[d])))

\* No divider that way, no step.
ResizedTrees(s, d, w, direction) ==
    LargestLegal(s, d, ByEachStep(s.trees[d], w, DividerFor[direction]))

AdoptResized(s, d, resized) ==
    IF resized = {} THEN s
    ELSE CloseScope(ReconcileArrangements(
            [CaptureTree(OpenScope(s, "resize"), d) EXCEPT !.trees[d] = CHOOSE t \in resized : TRUE]))

TreeResizeRequested(s, direction) ==
    LET w == s.focused
        d == s.inventory[w].display
    IN  IF s.paused \/ ~TreeModeActive(s) \/ w \notin Managed(s) THEN s
        ELSE IF d \notin s.displays \/ ~Arranged(s, d, w) THEN s
        ELSE AdoptResized(s, d, ResizedTrees(s, d, w, direction))

(***************************************************************************)
(* The drag, the answers of the executor and the rearrange command.        *)
(***************************************************************************)
InteractivePlacementStarted(s, w) ==
    IF w \in Managed(s) THEN [s EXCEPT !.drag = [window |-> w, display |-> s.inventory[w].display]]
    ELSE IF w \in Tracked(s) THEN [s EXCEPT !.drag = [window |-> w, display |-> s.windows[w].display]]
    ELSE s

(* Mutant: a window that is dropped nowhere stays where it was dropped. *)
InteractivePlacementEndedThere(s, w, committed) ==
    IF s.drag.window # w THEN s ELSE ReconcileArrangements([s EXCEPT !.drag = NoDrag])

(* Mutant: the drag is over only when the drop placed the window. *)
InteractivePlacementEndedHalf(s, w, committed) ==
    IF s.drag.window # w THEN s
    ELSE ReconcileArrangements([s EXCEPT !.drag = IF committed THEN NoDrag ELSE @])

\* Unless the drop placed the window or the reflow does, it goes back.
InteractivePlacementEnded(s, w, committed) ==
    LET placed(t) == \E i \in (Len(s.effects) + 1)..Len(t.effects) :
                       t.effects[i].kind = "place" /\ t.effects[i].window = w
        PutBack(t) == IF committed \/ placed(t) \/ w \notin Tracked(t) THEN t
                      ELSE Emit(t, Place(w, t.windows[w].display, t.windows[w].bounds))
    IN  IF s.drag.window # w THEN s ELSE PutBack(ReconcileArrangements([s EXCEPT !.drag = NoDrag]))

SetEligibility(s, w, eligibility) ==
    IF w \in Managed(s) THEN [s EXCEPT !.inventory[w].eligibility = eligibility] ELSE s

(* Mutant: a refused placement is tried again, however often it is refused. *)
PlacementRejectedRetries(s, w) ==
    IF w \notin Tracked(s) THEN s
    ELSE Emit([s EXCEPT !.windows[w].rejections = Min({@ + 1, CircuitThreshold})],
              Place(w, s.windows[w].display, s.windows[w].bounds))

RejectionCap == CircuitThreshold + 1
PlacementRejected(s, w) ==
    LET t == [s EXCEPT !.windows[w].rejections = Min({@ + 1, RejectionCap})] IN
    IF w \notin Tracked(s) THEN s
    ELSE IF s.windows[w].rejections + 1 = CircuitThreshold
         THEN ReconcileArrangements(SetEligibility(t, w, "circuitOpen")) ELSE t

\* What the window is eligible for without the circuit, whatever the session
\* decided about it.
ClosedCircuit(s, w) ==
    EligibilityFor(w, s.inventory[w].lifecycle, s.inventory[w].action, FALSE)

PlacementAccepted(s, w) ==
    IF w \notin Tracked(s) THEN s
    ELSE IF s.windows[w].rejections = 0 THEN s
    ELSE LET t == [s EXCEPT !.windows[w].rejections = 0]
         IN  IF w \in Managed(s) THEN SetEligibility(t, w, ClosedCircuit(s, w)) ELSE t

RearrangeRequested(s) == Emit(s, Reconcile)

RearrangeReconciliationComplete(s, batch) ==
    LET t == ReplaceInventory(s, batch)
        closed == [t EXCEPT
            !.windows = [w \in DOMAIN @ |-> IF CircuitOpen(t, w) THEN [@[w] EXCEPT !.rejections = 0] ELSE @[w]],
            !.inventory = [w \in DOMAIN @ |->
                IF @[w].eligibility = "circuitOpen" THEN [@[w] EXCEPT !.eligibility = ClosedCircuit(t, w)] ELSE @[w]]]
    IN  CloseScope(ReconcileArrangements(OpenScope(closed, "rearrange")))

(***************************************************************************)
(* Undo.                                                                   *)
(***************************************************************************)
UndoHistoryLoaded(s, newest) == [s EXCEPT !.newest = newest]

ActiveTiledOn(s, d) ==
    {w \in Managed(s) : s.inventory[w].display = d /\ MayTile(s, w) /\ s.inventory[w].eligibility = "eligible"}

\* Refusal first: every member found, by no two of them, and no slot of the
\* structure that could be either of two windows.
UndoTargets(s) ==
    [i \in 1..Len(s.newest[1].members) |->
        ConfidentWindow(Recognised(s, s.newest[1].members[i].evidence, Managed(s)))]

UndoRefusal(s) ==
    LET t == s.newest[1]
        targets == UndoTargets(s)
        unclear(snapshot) == \E leaf \in ToSet(LiveLeaves(Leaves(snapshot.tree))) :
            Recognised(s, leaf.occupant.who, ActiveTiledOn(s, snapshot.display)).code = "ambiguous"
    IN  CASE s.newest = <<>>                          -> "nothing_to_undo"
          [] s.newest # <<>> /\ ~s.healthy            -> "persistence_degraded"
          [] s.newest # <<>> /\ s.healthy /\ t.topology # s.displays -> "topology_changed"
          [] OTHER ->
               IF \/ \E i \in 1..Len(targets) : targets[i] = {}
                  \/ \E i \in 1..Len(t.trees) : unclear(t.trees[i])
               THEN "targets_unresolved"
               ELSE IF \E i, j \in 1..Len(targets) : i # j /\ targets[i] = targets[j]
               THEN "targets_collide" ELSE "none"

\* Structure first, then the windows, then a reflow that has no scope; the
\* transaction is consumed.
Reshaped(s, snapshots) ==
    FoldLeft(LAMBDA acc, snapshot :
                [acc EXCEPT !.trees[snapshot.display] =
                    RestoreTree(acc, snapshot.tree, ActiveTiledOn(acc, snapshot.display))],
             s, snapshots)

Returned(s, members, targets) ==
    FoldLeft(LAMBDA acc, i :
                PlaceWindow(acc, CHOOSE w \in targets[i] : TRUE, members[i].display, members[i].bounds, NoCycle),
             s, [i \in 1..Len(members) |-> i])

UndoSettled(s, t) == IF t.trees = <<>> THEN s ELSE ReconcileArrangements(s)

UndoRequested(s) ==
    LET t == s.newest[1] IN
    IF s.paused THEN s
    ELSE IF UndoRefusal(s) # "none" THEN s
    ELSE Intend([UndoSettled(Returned(Reshaped(s, t.trees), t.members, UndoTargets(s)), t) EXCEPT !.newest = <<>>],
                [kind |-> "consumeUndo", id |-> t.id])
=============================================================================

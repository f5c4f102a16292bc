---------------------------- MODULE TilingAgent -----------------------------
(***************************************************************************)
(* The agent around TilingEngine (mosaix-agent/src/main.rs, overlay.rs):   *)
(* the reducer with its queue of events, the thread that carries out its   *)
(* effects on the desktop and answers for them, the one that lists the     *)
(* windows again after a change, the one that follows a drag, and the      *)
(* bridge to the state database.  The desktop is the environment.          *)
(*                                                                         *)
(* A scenario says which configuration, windows and displays there are and *)
(* what the user, the windows and the machine may do, budget times in all. *)
(***************************************************************************)
EXTENDS TilingEngine, StateStore, TLC
LOCAL INSTANCE FiniteSetsExt
LOCAL INSTANCE SequencesExt

CONSTANTS
    Scenarios

VARIABLES
    scenario,   \* never changes
    left,       \* what is left of the budget
    past,       \* the last two things that were done at rest, for the properties
    engine,     \* the reducer's state
    mail,       \* events sent to the reducer and not handled, oldest first
    batch,      \* effects of the snapshot the executor is working through
    desktop,    \* the open windows, where and how they are
    plugged,    \* the displays that are connected
    stale,      \* whether a listing of the windows is due
    dragged,    \* the window the overlay follows
    db,         \* the state database
    due         \* whether a revision is to be committed

vars == <<scenario, left, past, engine, mail, batch, desktop, plugged, stale, dragged, db, due>>

(***************************************************************************)
(* The desktop.                                                            *)
(***************************************************************************)
Shown(bounds, lifecycle) == [bounds |-> bounds, lifecycle |-> lifecycle]

Shared(r, s) ==
    LET wide == Min({Right(r), Right(s)}) - Max({r.x, s.x})
        tall == Min({Bottom(r), Bottom(s)}) - Max({r.y, s.y})
    IN  IF wide > 0 /\ tall > 0 THEN wide * tall ELSE 0

\* The connected display that shows most of a window.
Where(bounds) ==
    CHOOSE d \in plugged : \A e \in plugged :
        \/ Shared(bounds, WorkArea[e]) < Shared(bounds, WorkArea[d])
        \/ Shared(bounds, WorkArea[e]) = Shared(bounds, WorkArea[d]) /\ d <= e

Listing == {[id |-> w, display |-> Where(desktop[w].bounds), bounds |-> desktop[w].bounds,
             lifecycle |-> desktop[w].lifecycle] : w \in DOMAIN desktop}

(***************************************************************************)
(* The events that are queued.                                             *)
(***************************************************************************)
BoundsSeen(w, bounds) ==
    [kind |-> "bounds", window |-> w, display |-> Where(bounds), bounds |-> bounds]
Focused(w) ==
    [kind |-> "focused", window |-> w, display |-> Where(desktop[w].bounds), bounds |-> desktop[w].bounds]
Answer(w, accepted) == [kind |-> IF accepted THEN "accepted" ELSE "rejected", window |-> w]
StoreUpdate(store)  ==
    [kind |-> "store", healthy |-> ~store.degraded,
     newest |-> SetToSeq({[row.entry EXCEPT !.id = row.id] : row \in NewestRows(store)})]

\* The reducer's next state is published: without a database nobody reads its
\* intents, and with one a new revision is to be committed.
Publish(s) ==
    /\ engine' = IF scenario.stored THEN s ELSE [s EXCEPT !.intents = <<>>]
    /\ due' = (due \/ (scenario.stored /\ s # engine))

Send(messages) == mail' = mail \o messages

Receive == mail # <<>> /\ mail' = Tail(mail)

Handle(kind, s) ==
    /\ Receive /\ Head(mail).kind = kind
    /\ Publish(s)
    /\ UNCHANGED <<scenario, left, past, batch, desktop, plugged, stale, dragged, db>>

SeeWindows    == Handle("windows", WindowsObserved(engine, Head(mail).windows))
SeeBounds     == Handle("bounds", WindowBoundsObserved(engine, Head(mail).window, Head(mail).display, Head(mail).bounds))
SeeFocus      == Handle("focused", WindowFocused(engine, Head(mail).window, Head(mail).display, Head(mail).bounds))
SeeAccepted   == Handle("accepted", PlacementAccepted(engine, Head(mail).window))
SeeRejected   == Handle("rejected", PlacementRejected(engine, Head(mail).window))
SeeRearranged == Handle("rearranged", RearrangeReconciliationComplete(engine, Head(mail).windows))
SeeTopology   == Handle("topology", DisplayTopologyChanged(engine, Head(mail).displays))
SeeWake       == Handle("wake", WakeReconciliation(engine, Head(mail).displays, Head(mail).windows))
SeeConfig     == Handle("config", ConfigChanged(engine, Head(mail).set))
SeeDrag       == Handle("dragStart", InteractivePlacementStarted(engine, Head(mail).window))
SeePlaced     == Handle("placed", WindowPlaced(engine, Head(mail).window, Head(mail).display, Head(mail).bounds))
SeeDrop       == Handle("dragEnd", InteractivePlacementEnded(engine, Head(mail).window, Head(mail).committed))
SeeStore      == Handle("store", UndoHistoryLoaded([engine EXCEPT !.healthy = Head(mail).healthy], Head(mail).newest))
SeeTrees      == Handle("trees", ContainerTreesLoaded(engine, Head(mail).trees))

(***************************************************************************)
(* The executor: a snapshot of the effects at a time, none while paused.   *)
(***************************************************************************)
Take == batch = <<>> /\ engine.effects # <<>> /\ ~engine.paused /\ batch' = engine.effects

TakeEffects ==
    /\ Take
    /\ engine' = [engine EXCEPT !.effects = <<>>]
    /\ UNCHANGED <<scenario, left, past, mail, desktop, plugged, stale, dragged, db, due>>

\* A window that is gone, or that will not be moved, refuses its placement.
PerformPlacement(e) ==
    LET w == e.window
        obeys == w \in DOMAIN desktop \ scenario.stubborn
        moves == obeys /\ desktop[w].bounds # e.bounds
    IN  /\ e.kind = "place"
        /\ desktop' = IF obeys THEN [desktop EXCEPT ![w].bounds = e.bounds] ELSE desktop
        /\ Send((IF moves THEN <<BoundsSeen(w, e.bounds)>> ELSE <<>>) \o <<Answer(w, obeys)>>)
        /\ stale' = (stale \/ moves)

PerformFocus(e) ==
    /\ e.kind = "focus"
    /\ Send(IF e.window \in DOMAIN desktop THEN <<Focused(e.window)>> ELSE <<>>)
    /\ UNCHANGED <<desktop, stale>>

PerformReconcile(e) ==
    /\ e.kind = "reconcile"
    /\ Send(<<[kind |-> "rearranged", windows |-> Listing]>>)
    /\ UNCHANGED <<desktop, stale>>

\* The half second it waits after a placement outlasts everyone else's work;
\* in a scenario that is not slow they may be slower still.
Advance ==
    /\ batch # <<>> /\ batch' = Tail(batch)
    /\ scenario.slow => mail = <<>> /\ ~stale /\ ~due /\ engine.intents = <<>>

Perform ==
    /\ Advance
    /\ PerformPlacement(Head(batch)) \/ PerformFocus(Head(batch)) \/ PerformReconcile(Head(batch))
    /\ UNCHANGED <<scenario, left, past, engine, plugged, dragged, db, due>>

\* The refresher sends one complete listing for a burst of changes.
\* A bound on slots, where a scenario has one, stops the listings.
Bounded == scenario.slots # 0
List ==
    /\ stale /\ stale' = FALSE
    /\ Bounded => \A d \in Display : engine.trees[d].next < scenario.slots

Refresh ==
    /\ List
    /\ Send(<<[kind |-> "windows", windows |-> Listing]>>)
    /\ UNCHANGED <<scenario, left, past, engine, batch, desktop, plugged, dragged, db, due>>

(***************************************************************************)
(* The bridge and the worker: intents in order, then the revision; every   *)
(* request is answered with the store's health and its newest transaction. *)
(* A revision is always newer than the last one here, and has no number.   *)
(***************************************************************************)
Written(store, intent) ==
    CASE intent.kind = "recordUndo"  -> RecordTransaction(store, intent.transaction, engine.day)
      [] intent.kind = "consumeUndo" -> ConsumeTransaction(store, intent.id)
      [] intent.kind = "saveTree"    -> SaveTree(store, intent.display, intent.tree)

Request == engine.intents # <<>> /\ engine' = [engine EXCEPT !.intents = Tail(@)]

Persist ==
    /\ Request
    /\ \/ db' = Written(db, Head(engine.intents)) /\ UNCHANGED left
       \/ /\ "DiskFails" \in scenario.allowed /\ left > 0
          /\ db' = Failed(db) /\ left' = left - 1
    /\ Send(<<StoreUpdate(db')>>)
    /\ UNCHANGED <<scenario, past, batch, desktop, plugged, stale, dragged, due>>

Flush == due /\ due' = FALSE /\ engine.intents = <<>>

Commit ==
    /\ Flush
    /\ db' = Landed(db)
    /\ Send(<<StoreUpdate(db')>>)
    /\ UNCHANGED <<scenario, left, past, engine, batch, desktop, plugged, stale, dragged>>

(***************************************************************************)
(* At rest: nothing is on its way from anyone to anyone.                   *)
(***************************************************************************)
Quiet ==
    /\ mail = <<>> /\ batch = <<>> /\ ~stale /\ ~due /\ engine.intents = <<>>
    /\ engine.effects = <<>> \/ engine.paused
AtRest == Quiet /\ dragged = None

Spend(what) ==
    /\ what \in scenario.allowed /\ left > 0
    /\ scenario.patient => Quiet /\ (dragged = None \/ what = "Carry")
    /\ left' = left - 1
    /\ past' = IF scenario.patient
               THEN SubSeq(<<[what |-> what, desktop |-> desktop, issued |-> db.issued]>> \o past, 1, Min({Len(past) + 1, 2}))
               ELSE past
    /\ UNCHANGED scenario

(***************************************************************************)
(* The user.  A command is an event of its own; when it is handled before  *)
(* what is queued, it was sent before it.                                  *)
(***************************************************************************)
Directions == DOMAIN DividerFor
Zones      == {"left", "right", "top", "bottom"}

Command(s) ==
    /\ Publish(s)
    /\ UNCHANGED <<mail, batch, desktop, plugged, stale, dragged, db>>

Snap      == Spend("Snap") /\ \E z \in Zones : Command(ZoneSnapRequested(engine, z))
Throw     == Spend("Throw") /\ \E w \in DOMAIN desktop, step \in {"next", "prev"} :
                 Command(WindowThrowToDisplayRequested(engine, w, step))
RestoreIt == Spend("Restore") /\ \E w \in DOMAIN desktop : Command(WindowRestoreRequested(engine, w))
Float     == Spend("Float") /\ Command(ToggleFloating(engine))
Swap      == Spend("Swap") /\ \E d \in Directions : Command(DirectionalSwapRequested(engine, d))
Resize    == Spend("Resize") /\ \E d \in Directions : Command(TreeResizeRequested(engine, d))
FocusNext == Spend("FocusNext") /\ \E d \in Directions : Command(DirectionalFocusRequested(engine, d))
FocusDisplay == Spend("FocusDisplay") /\ \E d \in Display : Command(FocusDisplayRequested(engine, d))
Forget    == /\ Spend("Forget")
             /\ \E d \in plugged : \E slot \in ToSet(DormantSlots(engine.trees[d])) :
                  Command(TreePositionRemoveRequested(engine, d, slot.inserted))
Layout    == Spend("Layout") /\ \E n \in DOMAIN engine.config.layouts :
                 Command(SavedLayoutApplyRequested(engine, n))
Rearrange == Spend("Rearrange") /\ Command(RearrangeRequested(engine))
Toggle    == Spend("Toggle") /\ Command(ToggleAutomaticTiling(engine))
PauseIt   == Spend("Pause") /\ ~engine.paused /\ Command(Pause(engine))
ResumeIt  == Spend("Pause") /\ engine.paused /\ Command(Resume(engine))
Undo      == Spend("Undo") /\ Command(UndoRequested(engine))

(***************************************************************************)
(* The windows and the drag.                                               *)
(***************************************************************************)
Change(to) ==
    /\ desktop' = to /\ stale' = TRUE
    /\ UNCHANGED <<engine, mail, batch, plugged, dragged, db, due>>

\* A window's handle is not given to another one while the agent knows it.
Forgotten(w) ==
    /\ w \notin Tracked(engine) \cup DOMAIN desktop
    /\ \A e \in ToSet(batch) \cup ToSet(engine.effects) : e.kind # "reconcile" => e.window # w

Open     == Spend("Open") /\ \E w \in {v \in DOMAIN scenario.opens : Forgotten(v)} :
                Change(With(desktop, w, scenario.opens[w]))
Close    == Spend("Close") /\ \E w \in DOMAIN desktop \ {dragged} :
                Change([v \in DOMAIN desktop \ {w} |-> desktop[v]])
Relife   == Spend("Relife") /\ \E w \in DOMAIN desktop, l \in {"active", "minimized", "maximized"} :
                l # desktop[w].lifecycle /\ Change([desktop EXCEPT ![w].lifecycle = l])

FocusIt ==
    /\ Spend("FocusIt")
    /\ \E w \in DOMAIN desktop : Send(<<Focused(w)>>)
    /\ UNCHANGED <<engine, batch, desktop, plugged, stale, dragged, db, due>>

\* Only a window the agent knows is dragged here: the start of another drag is
\* ignored, and nothing puts that window back.
Drag ==
    /\ Spend("Drag") /\ dragged = None
    /\ \E w \in DOMAIN desktop \cap Tracked(engine) : dragged' = w /\ Send(<<[kind |-> "dragStart", window |-> w]>>)
    /\ UNCHANGED <<engine, batch, desktop, plugged, stale, db, due>>

\* Each time the dragged window has moved, its place is reported and a listing
\* is due, the drag notwithstanding.
Corner(d) == Rect(WorkArea[d].x, WorkArea[d].y, 2, 2)

Carry ==
    /\ Spend("Carry") /\ dragged # None
    /\ \E d \in {e \in plugged : desktop[dragged].bounds # Corner(e)} :
         /\ desktop' = [desktop EXCEPT ![dragged].bounds = Corner(d)]
         /\ Send(<<BoundsSeen(dragged, Corner(d))>>)
    /\ stale' = TRUE
    /\ UNCHANGED <<engine, batch, plugged, dragged, db, due>>

\* The window is let go where it is; the overlay places it in the zone under
\* the cursor, when there is one.
Drop ==
    /\ dragged # None /\ (scenario.patient => Quiet)
    /\ \E d \in plugged, zone \in {"left", NoZone} :
         LET snapped == ApplyGaps(SnapToHalf(WorkArea[d], zone), WorkArea[d], engine.config.gaps)
             placed  == [kind |-> "placed", window |-> dragged, display |-> d, bounds |-> snapped]
             ended   == [kind |-> "dragEnd", window |-> dragged, committed |-> zone # NoZone]
         IN  Send((IF zone = NoZone THEN <<>> ELSE <<placed>>) \o <<ended>>)
    /\ dragged' = None
    /\ UNCHANGED <<scenario, left, past, engine, batch, desktop, plugged, stale, db, due>>

(***************************************************************************)
(* The machine: displays, sleep, configuration, time and death.            *)
(***************************************************************************)
Plug ==
    /\ Spend("Plug")
    /\ \E displays \in scenario.topologies \ {plugged} :
         plugged' = displays /\ Send(<<[kind |-> "topology", displays |-> displays]>>)
    /\ UNCHANGED <<engine, batch, desktop, stale, dragged, db, due>>

Wake ==
    /\ Spend("Wake")
    /\ UNCHANGED <<engine, batch, desktop, stale, dragged, db, due>>
    /\ plugged' \in scenario.topologies
    /\ \E listed \in BOOLEAN :
         Send(<<[kind |-> "wake", displays |-> plugged',
                 windows |-> IF listed THEN <<Listing'>> ELSE <<>>]>>)

Reload ==
    /\ Spend("Reload")
    /\ \E set \in scenario.sets \ {engine.set} : Send(<<[kind |-> "config", set |-> set]>>)
    /\ UNCHANGED <<engine, batch, desktop, plugged, stale, dragged, db, due>>

NextDay ==
    /\ Spend("NextDay")
    /\ engine' = [engine EXCEPT !.day = @ + 1]
    /\ UNCHANGED <<mail, batch, desktop, plugged, stale, dragged, db, due>>

\* The agent dies with its queue, its intents and its trees, and starts over
\* from the windows that are open and what the database holds.
Start(set, displays, day) == [EngineStart(set, displays) EXCEPT !.day = day]
Startup(store) ==
    <<StoreUpdate(store), [kind |-> "trees", trees |-> store.trees],
      [kind |-> "windows", windows |-> Listing]>>

Restart ==
    /\ Spend("Restart")
    /\ engine' = Start(engine.set, plugged, engine.day)
    /\ db' = PruneHistory(db, engine.day)
    /\ \E late \in BOOLEAN :
         mail' = IF late THEN <<Startup(db')[3], Startup(db')[1], Startup(db')[2]>> ELSE Startup(db')
    /\ batch' = <<>> /\ stale' = FALSE /\ dragged' = None /\ due' = FALSE
    /\ UNCHANGED <<desktop, plugged>>

(***************************************************************************)
(* The specification.                                                      *)
(***************************************************************************)
Init ==
    /\ scenario \in Scenarios
    /\ left = scenario.budget /\ past = <<>>
    /\ plugged = scenario.displays
    /\ desktop = scenario.desktop
    /\ engine = Start(scenario.set, plugged, 0)
    /\ db = EmptyStore([d \in Display |-> <<>>])
    /\ mail = <<[kind |-> "windows", windows |-> Listing]>>
                \o SetToSeq({Focused(w) : w \in {v \in DOMAIN desktop : v = scenario.foreground}})
    /\ batch = <<>> /\ stale = FALSE /\ dragged = None /\ due = FALSE

Reducer == \/ SeeWindows \/ SeeBounds \/ SeeFocus \/ SeeAccepted \/ SeeRejected \/ SeeRearranged
           \/ SeeTopology \/ SeeWake \/ SeeConfig \/ SeeDrag \/ SeePlaced \/ SeeDrop
           \/ SeeStore \/ SeeTrees
Threads == Reducer \/ TakeEffects \/ Perform \/ Refresh \/ Persist \/ Commit
Commands == \/ Snap \/ Throw \/ RestoreIt \/ Float \/ Swap \/ Resize \/ FocusNext \/ FocusDisplay \/ Forget
            \/ Layout \/ Rearrange \/ Toggle \/ PauseIt \/ ResumeIt \/ Undo
World == \/ Open \/ Close \/ Relife \/ FocusIt \/ Drag \/ Carry \/ Drop
         \/ Plug \/ Wake \/ Reload \/ NextDay \/ Restart

Next == Threads \/ Commands \/ World

\* Each thread goes on taking what is there for it; nobody is made to use the
\* computer.
Fairness ==
    /\ WF_mail(Receive) /\ WF_batch(Take) /\ WF_batch(Advance)
    /\ WF_stale(List) /\ WF_engine(Request) /\ WF_due(Flush)

Spec == Init /\ [][Next]_vars /\ Fairness

(***************************************************************************)
(* Properties.                                                             *)
(***************************************************************************)
Working == AtRest /\ ~engine.paused
Tiling  == Working /\ engine.active
Obedient(w) == w \in DOMAIN desktop \ scenario.stubborn

\* Once everything has been delivered the reducer and the screen agree: on the
\* displays there are, and for every window on where it is.
BooksMatchScreen ==
    Working =>
        /\ engine.displays = plugged
        /\ \A w \in Tracked(engine) : Obedient(w) =>
             /\ engine.windows[w].display \in plugged
             /\ engine.windows[w].bounds = desktop[w].bounds

\* What automatic tiling arranges lies inside the work area, one window beside
\* the other, on the screen and not only in the plan.
ArrangedApart ==
    Tiling => \A d \in plugged :
        LET shown == {w \in ActiveTiledOn(engine, d) \ engine.overflow[d] : Obedient(w)}
        IN  \A v, w \in shown :
              /\ Encloses(WorkArea[d], desktop[w].bounds)
              /\ v # w => ~Overlap(desktop[v].bounds, desktop[w].bounds)

\* A reflow that nobody asked for, at rest, would move nothing.
ReflowSettles == Tiling => ReconcileArrangements(engine).effects = engine.effects

\* Every tree is normalized with a number for each slot; and no window has a
\* slot on two displays, but that the display under a drag keeps the slots it
\* had while one of its windows is carried over another display.
UnderDrag(d) == engine.drag.display = d
TreesWellFormed ==
    /\ \A d \in Display : WellFormed(engine.trees[d])
    /\ engine.active /\ ~engine.paused => \A d, e \in {f \in Display : ~UnderDrag(f)} :
         d # e => Windows(engine.trees[d]) \cap Windows(engine.trees[e]) = {}

\* A window floated for the session is not tiled, unless it has refused a
\* placement in the meantime.
FloatedStaysOut ==
    \A w \in engine.floating \cap Managed(engine) :
        engine.inventory[w].eligibility = "eligible" => ~Obedient(w)

\* The desktop is what it was, but for windows the arrangement has no room for.
AsBefore(then) ==
    /\ DOMAIN desktop = DOMAIN then
    /\ \A w \in DOMAIN desktop :
         desktop[w] = then[w] \/ \E d \in Display : w \in engine.overflow[d]

\* A sleeping slot of an application can be taken for the place of any of its
\* windows; what follows is promised where none is left asleep.
NoneAsleep == \A d \in plugged : DormantSlots(engine.trees[d]) = <<>>

\* Undo brings back the desktop from before the command it undoes.
Undone == /\ Len(past) = 2 /\ past[1].what = "Undo" /\ past[1].issued = past[2].issued + 1
          /\ \A row \in db.undo : row.id # past[1].issued
UndoBringsBack == Working /\ Undone /\ NoneAsleep => AsBefore(past[2].desktop)

\* A window that is closed and opened again gets its place back, and so does
\* everybody else.
Reopened == /\ Len(past) = 2 /\ past[1].what = "Open" /\ past[2].what = "Close"
            /\ DOMAIN desktop = DOMAIN past[2].desktop
ReopenedReturns ==
    Tiling /\ engine.config.mode = "tree" /\ Reopened /\ NoneAsleep => AsBefore(past[2].desktop)

\* An agent that dies and starts over arranges the windows as they were.
Restarted == past # <<>> /\ past[1].what = "Restart"
RestartKeepsPlaces ==
    Tiling /\ Restarted /\ NoneAsleep =>
        AsBefore(past[1].desktop)

\* What the database holds of a display's tree is the tree: the same slots, and
\* in each the window its evidence speaks of, by application and by its place
\* among that application's windows.
Identity(o) == [app |-> o.app, order |-> o.order]
Sits(w)     == [app |-> Traits[w].app, order |-> LaunchOrder(engine, w)]
StoredTreeIsCurrent ==
    Tiling /\ scenario.stored /\ engine.config.mode = "tree" /\ "DiskFails" \notin scenario.allowed =>
        \A d \in plugged : db.trees[d] # <<>> \/ Leaves(engine.trees[d]) # <<>> =>
            /\ db.trees[d] # <<>>
            /\ ConvertLeaves(db.trees[d][1], LAMBDA o : IF o.live THEN <<Live(Identity(o.who))>> ELSE <<o>>)
             = ConvertLeaves(engine.trees[d], LAMBDA o : IF o.live THEN <<Live(Sits(o.who))>> ELSE <<o>>)

\* While a window is dragged, wherever it is carried, no observation rearranges
\* the display the drag began on.  Another display takes the window in.
NewEffects == {engine'.effects[i] : i \in (Len(engine.effects) + 1)..Len(engine'.effects)}
DragIsUndisturbed ==
    [][ /\ engine.drag # NoDrag /\ engine'.drag = engine.drag
        /\ mail # <<>> /\ mail' = Tail(mail) /\ Head(mail).kind \notin {"placed", "wake"}
        => \A e \in NewEffects : e.kind = "place" => e.display # engine.drag.display ]_vars

\* An undo reverses the newest command, and no other undo is on its way.
UndoApplied == \E i \in (Len(engine.intents) + 1)..Len(engine'.intents) :
                  engine'.intents[i].kind = "consumeUndo"
UndoTakesNewest ==
    [][ UndoApplied =>
        /\ \A i \in 1..Len(engine.intents) : engine.intents[i].kind = "saveTree"
        /\ \A row \in db.undo : row.id <= engine.newest[1].id
        /\ \E row \in db.undo : row.id = engine.newest[1].id ]_vars

\* A thrown window is shown on another display: "mosaix throw next  # move the
\* focused window to the next display" (README.md).
ThrowMoves ==
    Working /\ past # <<>> /\ past[1].what = "Throw" /\ Cardinality(plugged) > 1 =>
        \E w \in DOMAIN desktop \cap DOMAIN past[1].desktop :
            Where(desktop[w].bounds) # Where(past[1].desktop[w].bounds)

\* Whatever happens, the agent and the desktop come to rest.
Settles == ~Bounded => []<>Quiet
=============================================================================

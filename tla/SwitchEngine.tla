---------------------------- MODULE SwitchEngine ----------------------------
(***************************************************************************)
(* The part of the reducer (crates/mosaix-engine/src/lib.rs) that decides  *)
(* which workspace each display shows and which windows are parked off the *)
(* screen: the all-or-nothing switch transaction, the recovery requests    *)
(* that must be durable before a window leaves the screen, and the         *)
(* commands, observations and topology changes that touch either.          *)
(*                                                                         *)
(* The reducer is one thread that owns one state and applies one event at  *)
(* a time, so its state is one record, `engine`, and each function of the  *)
(* source that takes `&mut EngineState` is an operator from record to      *)
(* record.  An action of this module is one arm of `apply`.                *)
(*                                                                         *)
(* Simplifications:                                                        *)
(*  - A request the source refuses changes nothing but the published       *)
(*    answer, so refusals are guards and the answer is left out.           *)
(*  - Window lists are sets.  Requests and moves one event emits form one  *)
(*    batch, whose members the consumers may take in any order.            *)
(*  - A recovery token is the batch number with the window it is for.      *)
(*  - Container trees, bounds, undo records and the focused window are     *)
(*    left out: no guard below reads them.  The focused display is any     *)
(*    display the user may have focused.                                   *)
(*  - Maximized counts as Normal: both are parked and restored alike.      *)
(***************************************************************************)
EXTENDS WorkspacePool, Sequences

CONSTANTS
    Configs,     \* the configuration sets a reload may resolve to
    RuleTarget   \* the workspace a rule sends a new window to, or None

(* One resolved configuration set.  Every profile declares base's names    *)
(* and its own additions; only the profile whose fingerprint is the        *)
(* connected topology may ask for switching, with a display mapping.       *)
Config == [base         : SUBSET Workspace,
           additions    : SUBSET Workspace,
           topology     : SUBSET Display,
           experimental : BOOLEAN,
           mapping      : [Display -> Workspace \cup {None}]]

(* Two displays never map to one workspace: a configuration that does so   *)
(* is rejected (validate.rs, DuplicateWorkspaceMapping).                   *)
ASSUME ConfigsAssumption ==
    /\ Configs \subseteq Config
    /\ \A c \in Configs : \A d, e \in Display :
         c.mapping[d] # None /\ c.mapping[d] = c.mapping[e] => d = e

ASSUME DisplayAssumption == Display # {}

ASSUME RuleTargetAssumption == RuleTarget \in [Window -> Workspace \cup {None}]

VARIABLE engine

-----------------------------------------------------------------------------
(* State *)

Lifecycle  == {"Gone", "Normal", "Minimized", "Fullscreen"}
Capability == {"Unverified", "Verified", "Refused"}
Health     == {"Healthy", "Degraded"}

ForwardPhase      == {"Recording", "Parking", "Restoring"}
CompensatingPhase == {"CompensatingPark", "CompensatingRestore"}
Phase             == {"Idle"} \cup ForwardPhase \cup CompensatingPhase

Token == Nat \X Window

(* PendingParking; switch is 0 for a parking outside any transaction.      *)
Request == [batch : Nat, window : Window, switch : Nat]

(* EngineEffect::{ParkWindow, RestoreWindow}                               *)
Move == [kind : {"Park", "Restore"}, window : Window, entry : Nat]

(* PersistenceIntent::{RecordRecovery, MarkParked, MarkRestored}; number   *)
(* is the batch of the token for the first and the entry for the others.   *)
Intent == [kind : {"Record", "MarkParked", "MarkRestored"},
           window : Window, number : Nat]

Transaction ==
    [id : Nat, phase : Phase,
     display  : Display \cup {None},
     target   : Workspace \cup {None},
     outgoing : Workspace \cup {None},
     recording : SUBSET Token,
     inFlight  : SUBSET Window, queued   : SUBSET Window,
     parked    : SUBSET Window, restored : SUBSET Window,
     stranded  : SUBSET Window]

(* `switch: None`                                                          *)
NoSwitch ==
    [id |-> 0, phase |-> "Idle", display |-> None, target |-> None,
     outgoing |-> None, recording |-> {}, inFlight |-> {}, queued |-> {},
     parked |-> {}, restored |-> {}, stranded |-> {}]

(* The fields of EngineState this module is about.  An empty `degraded` is *)
(* switch_degraded = None; entry 0 in `parked` is a window not parked.     *)
EngineState ==
    [pool : Pool, displays : SUBSET Display, config : Configs,
     unavailable : BOOLEAN,
     remembered  : [Workspace -> Display \cup {None}],
     life : [Window -> Lifecycle], seat : [Window -> Display],
     parked    : [Window -> Nat],
     pending   : SUBSET Request,
     switch    : Transaction,
     degraded  : SUBSET Window,
     site : Capability, health : Health, paused : BOOLEAN,
     lastBatch : Nat, lastSwitch : Nat,
     effects : Seq(SUBSET Move), intents : Seq(SUBSET Intent)]

Managed(s)    == {w \in Window : s.life[w] # "Gone"}
Hidden(s, w)  == /\ s.pool.member[w] # None
                 /\ ~IsDisplayed(s.pool, s.pool.member[w])
Parked(s)     == {w \in Window : s.parked[w] # 0}
Waiting(s, w) == \E r \in s.pending : r.window = w
SwitchOpen(s) == s.switch.phase # "Idle"
Compensating(s) == s.switch.phase \in CompensatingPhase

(* Queues that consumers read by index: nothing is appended for nothing.   *)
Push(queue, batch) == IF batch = {} THEN queue ELSE Append(queue, batch)

-----------------------------------------------------------------------------
(* Authorisation and recovery requests *)

(* Mutant: does not ask whether a request for the window is pending. *)
ParkableAgain(s, w) ==
    /\ s.life[w] = "Normal" /\ s.health = "Healthy" /\ s.site = "Verified"
    /\ s.seat[w] \in s.displays

(* plan_parking_authorization *)
Parkable(s, w) ==
    /\ s.life[w] = "Normal"
    /\ s.health = "Healthy"
    /\ s.site = "Verified"
    /\ ~Waiting(s, w)
    /\ s.seat[w] \in s.displays

(* Mutant: the windows leave before their entries are durable. *)
RequestRecoveryEntriesParking(s, W, id) ==
    LET batch == s.lastBatch + 1 IN
    IF W = {} THEN s ELSE
    [s EXCEPT
        !.lastBatch = batch,
        !.pending = @ \cup {[batch |-> batch, window |-> w, switch |-> id] : w \in W},
        !.intents = Append(@, {[kind |-> "Record", window |-> w, number |-> batch]
                                 : w \in W}),
        !.effects = Append(@, {[kind |-> "Park", window |-> w, entry |-> 0]
                                 : w \in W})]

(* request_recovery_entry, for each of W *)
RequestRecoveryEntries(s, W, id) ==
    LET batch == s.lastBatch + 1 IN
    IF W = {} THEN s ELSE
    [s EXCEPT
        !.lastBatch = batch,
        !.pending = @ \cup {[batch |-> batch, window |-> w, switch |-> id] : w \in W},
        !.intents = Append(@, {[kind |-> "Record", window |-> w, number |-> batch]
                                 : w \in W})]

RestoreMoves(s, W) ==
    {[kind |-> "Restore", window |-> w, entry |-> s.parked[w]] : w \in W}

-----------------------------------------------------------------------------
(* The switch transaction *)

(* commit_switch: the displayed assignment moves. *)
CommitSwitch(s) ==
    [s EXCEPT !.pool   = Show(@, s.switch.target, s.switch.display),
              !.switch = NoSwitch]

(* finish_compensation: clean, or degraded by the windows it lost. *)
FinishCompensation(s) ==
    [s EXCEPT !.degraded = IF s.switch.stranded = {} THEN @ ELSE s.switch.stranded,
              !.switch   = NoSwitch]

(* emit_switch_restores for the windows in flight, in phase Restoring or   *)
(* CompensatingRestore.  A window that is not parked after all settles at  *)
(* once, and the last of those to settle closes the transaction.           *)
EmitSwitchRestores(s) ==
    LET here == s.switch.inFlight \ Parked(s)
        away == s.switch.inFlight \cap Parked(s)
        forward == s.switch.phase = "Restoring"
        t == [s EXCEPT
                !.effects = Push(@, RestoreMoves(s, away)),
                !.switch.inFlight = away,
                !.switch.restored = IF forward THEN @ \cup here ELSE @,
                !.switch.parked   = IF forward THEN @ ELSE @ \ here]
    IN  IF away # {} THEN t
        ELSE IF forward THEN CommitSwitch(t) ELSE FinishCompensation(t)

(* Mutant: the windows in flight are not waited for. *)
PhaseIsSettledEarly(s) == s.switch.recording = {}

(* phase_is_settled *)
PhaseIsSettled(s) == s.switch.recording = {} /\ s.switch.inFlight = {}

(* advance_switch *)
AdvanceSwitch(s) ==
    LET sw == s.switch IN
    CASE ~SwitchOpen(s) \/ ~PhaseIsSettled(s) -> s
      [] PhaseIsSettled(s) /\ sw.phase \in {"Recording", "Parking"} ->
           IF sw.queued = {} THEN CommitSwitch(s)
           ELSE EmitSwitchRestores(
                  [s EXCEPT !.switch.phase = "Restoring", !.switch.queued = {},
                            !.switch.inFlight = sw.queued])
      [] PhaseIsSettled(s) /\ sw.phase = "Restoring" -> CommitSwitch(s)
      [] PhaseIsSettled(s) /\ sw.phase = "CompensatingPark" ->
           EmitSwitchRestores(
             [s EXCEPT !.switch.phase = "CompensatingRestore",
                       !.switch.inFlight = sw.parked])
      [] PhaseIsSettled(s) /\ sw.phase = "CompensatingRestore" ->
           FinishCompensation(s)

(* request_switch_reparks: fresh entries for the windows to park again; a  *)
(* window that may not be parked any more is stranded.                     *)
RequestSwitchReparks(s, W) ==
    LET able == {w \in W : Parkable(s, w)}
        lost == W \ able
        t == RequestRecoveryEntries(s, able, s.switch.id)
        u == [t EXCEPT
                !.switch.recording = {<<t.lastBatch, w>> : w \in able},
                !.switch.inFlight  = able,
                !.switch.stranded  = @ \cup lost,
                !.switch.restored  = @ \ lost,
                !.switch.parked    = @ \ lost]
    IN  AdvanceSwitch(u)

(* Mutant: requests of the cancelled switch stay pending. *)
BeginSwitchCompensationLeaky(s) ==
    LET t == [s EXCEPT
                !.switch.phase     = "CompensatingPark",
                !.switch.queued    = {},
                !.switch.recording = {},
                !.switch.inFlight  = {}]
    IN  IF ~SwitchOpen(s) \/ Compensating(s) THEN s
        ELSE RequestSwitchReparks(t, s.switch.restored)

(* Mutant: what was parked comes back before what was restored has left. *)
BeginSwitchCompensationSwapped(s) ==
    LET t == [s EXCEPT
                !.pending = {r \in @ : r.switch = 0},
                !.switch.phase     = "CompensatingRestore",
                !.switch.queued    = {},
                !.switch.recording = {},
                !.switch.inFlight  = s.switch.parked]
    IN  IF ~SwitchOpen(s) \/ Compensating(s) THEN s ELSE EmitSwitchRestores(t)

(* begin_switch_compensation: what never moved is dropped, what was        *)
(* brought back is parked again before what was parked comes back.         *)
BeginSwitchCompensation(s) ==
    LET t == [s EXCEPT
                !.pending = {r \in @ : r.switch = 0},
                !.switch.phase     = "CompensatingPark",
                !.switch.queued    = {},
                !.switch.recording = {},
                !.switch.inFlight  = {}]
    IN  IF ~SwitchOpen(s) \/ Compensating(s) THEN s
        ELSE RequestSwitchReparks(t, s.switch.restored)

(* Mutant: a window parked again still counts as brought back. *)
SwitchWindowSettledForgetful(s, w, ok) ==
    LET phase == s.switch.phase
        t == [s EXCEPT !.switch.inFlight = @ \ {w}]
    IN  CASE w \notin s.switch.inFlight -> s
          [] w \in s.switch.inFlight /\ ok ->
               AdvanceSwitch(
                 [t EXCEPT
                    !.switch.parked =
                       IF phase \in {"Recording", "Parking"} THEN @ \cup {w}
                       ELSE IF phase = "CompensatingRestore" THEN @ \ {w} ELSE @,
                    !.switch.restored =
                       IF phase = "Restoring" THEN @ \cup {w} ELSE @])
          [] w \in s.switch.inFlight /\ ~ok /\ Compensating(s) ->
               AdvanceSwitch(
                 [t EXCEPT !.switch.stranded = @ \cup {w},
                           !.switch.restored = @ \ {w},
                           !.switch.parked   = @ \ {w}])
          [] w \in s.switch.inFlight /\ ~ok /\ ~Compensating(s) ->
               BeginSwitchCompensation(t)

(* switch_window_settled: the adapter answered for a window in flight. *)
SwitchWindowSettled(s, w, ok) ==
    LET phase == s.switch.phase
        t == [s EXCEPT !.switch.inFlight = @ \ {w}]
    IN  CASE w \notin s.switch.inFlight -> s
          [] w \in s.switch.inFlight /\ ok ->
               AdvanceSwitch(
                 [t EXCEPT
                    !.switch.parked =
                       IF phase \in {"Recording", "Parking"} THEN @ \cup {w}
                       ELSE IF phase = "CompensatingRestore" THEN @ \ {w} ELSE @,
                    !.switch.restored =
                       IF phase = "Restoring" THEN @ \cup {w}
                       ELSE IF phase = "CompensatingPark" THEN @ \ {w} ELSE @])
          [] w \in s.switch.inFlight /\ ~ok /\ Compensating(s) ->
               AdvanceSwitch(
                 [t EXCEPT !.switch.stranded = @ \cup {w},
                           !.switch.restored = @ \ {w},
                           !.switch.parked   = @ \ {w}])
          [] w \in s.switch.inFlight /\ ~ok /\ ~Compensating(s) ->
               BeginSwitchCompensation(t)

-----------------------------------------------------------------------------
(* Planning and opening a switch *)

(* workspace_switching_status = Experimental *)
ProfileMatches(s) == s.config.topology = s.displays

SwitchingAuthorised(s) ==
    /\ ProfileMatches(s) /\ s.config.experimental
    /\ ~s.unavailable
    /\ s.health = "Healthy"
    /\ s.site = "Verified"

(* plan_workspace_switch_on: what leaves display d and what comes back.    *)
OnScreenMembers(s, d) ==
    {w \in Managed(s) : /\ s.pool.displayed[d] # None
                        /\ s.pool.member[w] = s.pool.displayed[d]
                        /\ s.parked[w] = 0}

ToPark(s, d)    == {w \in OnScreenMembers(s, d) : s.life[w] # "Minimized"}
ToRestore(s, n) == MembersOf(s.pool, n) \cap Parked(s)

CanSwitch(s, n, d) ==
    /\ n \in Names(s.pool)
    /\ ~s.paused
    /\ s.degraded = {}
    /\ ~SwitchOpen(s)
    /\ d \in s.displays
    /\ \A w \in OnScreenMembers(s, d) : s.life[w] # "Fullscreen"
    /\ ToPark(s, d) \cup ToRestore(s, n) # {} =>
         /\ SwitchingAuthorised(s)
         /\ \A w \in ToPark(s, d) : Parkable(s, w)

(* begin_workspace_switch and request_switch_parks.  The plan was made     *)
(* from this same state, so every window still is managed and parkable.    *)
BeginWorkspaceSwitch(s, n, d) ==
    LET id == s.lastSwitch + 1
        park == ToPark(s, d)
        t == RequestRecoveryEntries(s, park, id)
    IN  AdvanceSwitch(
          [t EXCEPT
             !.lastSwitch = id,
             !.switch = [NoSwitch EXCEPT
                           !.id = id, !.phase = "Recording", !.display = d,
                           !.target = n, !.outgoing = s.pool.displayed[d],
                           !.queued = ToRestore(s, n),
                           !.recording = {<<t.lastBatch, w>> : w \in park}]])

-----------------------------------------------------------------------------
(* Keeping the parking site in agreement with the displayed assignment *)

(* assign_unassigned_windows *)
AssignUnassignedWindows(s) ==
    [s EXCEPT !.pool = Assign(@,
        [w \in Window |->
            IF w \in Managed(s) /\ s.pool.member[w] = None
            THEN s.pool.displayed[s.seat[w]] ELSE None])]

(* Mutant: parks what is hidden, brings nothing back. *)
ReconcileHiddenWorkspaceWindowsParks(s) ==
    LET toPark == {w \in Managed(s) : Hidden(s, w) /\ w \notin Parked(s)
                                      /\ Parkable(s, w)}
    IN  IF SwitchOpen(s) \/ s.degraded # {} THEN s
        ELSE RequestRecoveryEntries(s, toPark, 0)

(* reconcile_hidden_workspace_windows stands aside while a switch is open  *)
(* or a failed one is unreconciled.                                        *)
ReconcileHiddenWorkspaceWindows(s) ==
    LET toPark == {w \in Managed(s) : Hidden(s, w) /\ w \notin Parked(s)
                                      /\ Parkable(s, w)}
        toRestore == {w \in Managed(s) : ~Hidden(s, w) /\ w \in Parked(s)}
        t == RequestRecoveryEntries(s, toPark, 0)
    IN  IF SwitchOpen(s) \/ s.degraded # {} THEN s
        ELSE [t EXCEPT !.effects = Push(@, RestoreMoves(s, toRestore))]

(* stranded_move_for(w).is_some() *)
OwesMove(s, w) ==
    /\ w \in Managed(s)
    /\ Hidden(s, w) # (w \in Parked(s))

(* settle_stranded_window *)
SettleStrandedWindow(s, w) ==
    IF OwesMove(s, w) THEN s ELSE [s EXCEPT !.degraded = @ \ {w}]

(* strand_window *)
StrandWindow(s, w) ==
    IF Hidden(s, w) /\ w \in Managed(s)
    THEN [s EXCEPT !.degraded = @ \cup {w}] ELSE s

(* replace_inventory_from_observations: `life` and `seat` are what one     *)
(* enumeration of the desktop saw.                                         *)
ReplaceInventory(s, life, seat) ==
    LET seen   == {w \in Window : life[w] # "Gone"}
        closed == Parked(s) \ seen
        t == [s EXCEPT
                !.life = life,
                !.seat = seat,
                !.parked = [w \in Window |-> IF w \in seen THEN @[w] ELSE 0],
                !.intents = Push(@, {[kind |-> "MarkRestored", window |-> w,
                                      number |-> s.parked[w]] : w \in closed}),
                !.pool = Assign(RetainMembers(@, seen),
                    [w \in Window |->
                        IF w \in seen \ Managed(s) /\ RuleTarget[w] \in Names(s.pool)
                        THEN RuleTarget[w] ELSE None])]
    IN  ReconcileHiddenWorkspaceWindows(AssignUnassignedWindows(t))

-----------------------------------------------------------------------------
(* What configuration and topology do to the displayed assignment *)

Declared(s) ==
    s.config.base \cup (IF ProfileMatches(s) THEN s.config.additions ELSE {})

(* sync_workspaces_from_config *)
SyncWorkspacesFromConfig(s) ==
    [s EXCEPT !.pool.origin =
        [n \in Workspace |-> IF n \in Declared(s) THEN "Configuration"
                             ELSE IF n \in Names(s.pool) THEN "Command"
                             ELSE "Absent"]]

(* fill_empty_displays goes through the displays in order, giving each     *)
(* empty one the hidden workspace remembered for it, or else a hidden one  *)
(* with no member.  The order, and the order among the empty ones, are     *)
(* abstracted: `fill` is any assignment some order produces.               *)
RememberedFor(s, d) ==
    {n \in Names(s.pool) : s.remembered[n] = d /\ ~IsDisplayed(s.pool, n)}

Fills(s) ==
    LET empty == {d \in s.displays : s.pool.displayed[d] = None}
        spare == HiddenAndEmpty(s.pool)
    IN  {fill \in [Display -> Workspace \cup {None}] :
           LET taken == {fill[d] : d \in Display} \ {None} IN
           /\ \A d \in Display \ empty : fill[d] = None
           /\ \A d, e \in empty : fill[d] = fill[e] /\ fill[d] # None => d = e
           /\ \A d \in empty :
                \/ fill[d] \in RememberedFor(s, d)
                \/ fill[d] \in spare /\ RememberedFor(s, d) \subseteq taken
                \/ fill[d] = None /\ RememberedFor(s, d) \cup spare \subseteq taken}

FillEmptyDisplays(s) ==
    {[s EXCEPT
        !.pool.displayed =
            [d \in Display |-> IF fill[d] = None THEN @[d] ELSE fill[d]],
        !.remembered =
            [n \in Workspace |-> IF \E d \in Display : fill[d] = n
                                 THEN None ELSE @[n]]] : fill \in Fills(s)}

(* apply_switching_mapping: every display and every name resolves, or      *)
(* nothing changes and switching is unavailable.                           *)
ApplySwitchingMapping(s) ==
    LET m == s.config.mapping
        asked == ProfileMatches(s) /\ s.config.experimental
        complete == \A d \in Display : IF d \in s.displays
                                       THEN m[d] \in Names(s.pool) ELSE m[d] = None
    IN  IF asked /\ complete
        THEN [s EXCEPT
                !.unavailable = FALSE,
                !.pool.displayed =
                    [d \in Display |->
                        IF d \in s.displays THEN m[d]
                        ELSE IF \E e \in s.displays : @[d] = m[e] THEN None
                        ELSE @[d]]]
        ELSE [s EXCEPT !.unavailable = asked]

(* The tail that ConfigChanged and DisplayTopologyChanged share. *)
Resettle(s) ==
    {ReconcileHiddenWorkspaceWindows(AssignUnassignedWindows(
        ApplySwitchingMapping(t))) : t \in FillEmptyDisplays(SyncWorkspacesFromConfig(s))}

(* migrate_orphaned_windows, then hide_workspaces_on_vanished_displays.    *)
(* `nearest` is the surviving display closest to a vanished one.           *)
LeaveVanishedDisplays(s, new, nearest) ==
    [s EXCEPT
        !.seat = [w \in Window |-> IF w \in Managed(s) /\ @[w] \in s.displays \ new
                                   THEN nearest ELSE @[w]],
        !.pool = RetainDisplays(@, new),
        !.displays = new]

(* WorkspacesLoaded, for one stored name whose display is connected: it    *)
(* goes back there unless a workspace with windows already took the place. *)
LoadDisplayed(s, n) ==
    LET d == s.remembered[n]
        shown == s.pool.displayed[d]
        forget == [s.remembered EXCEPT ![n] = None]
    IN  IF IsDisplayed(s.pool, n) THEN [s EXCEPT !.remembered = forget]
        ELSE IF shown # None /\ MembersOf(s.pool, shown) # {} THEN s
        ELSE [s EXCEPT !.pool = Show(@, n, d), !.remembered = forget]

(* The stored names are created where missing, then those of connected     *)
(* displays are handled in the order of a hash map, which is any order.    *)
(* At most two names go back at once: a bound of this model.               *)
LoadWorkspaces(s, stored, where) ==
    LET t == [s EXCEPT
                !.pool.origin = [n \in Workspace |->
                    IF n \in stored \ Names(s.pool) THEN "Command" ELSE @[n]],
                !.remembered = [n \in Workspace |->
                    IF n \in stored /\ where[n] # None THEN where[n] ELSE @[n]]]
        back == {n \in Workspace : t.remembered[n] \in s.displays}
        orders == {p \in back \X back : {p[1], p[2]} = back}
        loaded == IF back = {} THEN {t}
                  ELSE {IF p[1] = p[2] THEN LoadDisplayed(t, p[1])
                        ELSE LoadDisplayed(LoadDisplayed(t, p[1]), p[2]) : p \in orders}
    IN  {ReconcileHiddenWorkspaceWindows(AssignUnassignedWindows(
            ApplySwitchingMapping(u))) : u \in UNION {FillEmptyDisplays(l) : l \in loaded}}

(* spawn_engine *)
BlankState(c, displays) ==
    [pool |-> [origin    |-> [n \in Workspace |-> "Absent"],
               displayed |-> [d \in Display |-> None],
               member    |-> [w \in Window |-> None]],
     displays |-> displays, config |-> c, unavailable |-> FALSE,
     remembered |-> [n \in Workspace |-> None],
     life |-> [w \in Window |-> "Gone"],
     seat |-> [w \in Window |-> CHOOSE d \in Display : TRUE],
     parked |-> [w \in Window |-> 0], pending |-> {}, switch |-> NoSwitch,
     degraded |-> {}, site |-> "Unverified", health |-> "Healthy",
     paused |-> FALSE, lastBatch |-> 0, lastSwitch |-> 0,
     effects |-> << >>, intents |-> << >>]

BootStates(c, displays) ==
    {ApplySwitchingMapping(t) :
        t \in FillEmptyDisplays(SyncWorkspacesFromConfig(BlankState(c, displays)))}

-----------------------------------------------------------------------------
(* Commands.  Each is one arm of `apply`; a refused request is disabled.   *)

(* WorkspaceFocusRequested for a hidden workspace, with d focused (or the  *)
(* switch back of UndoRequested, which names the display it undoes).       *)
WorkspaceFocusRequested(n, d) ==
    /\ ~IsDisplayed(engine.pool, n)
    /\ CanSwitch(engine, n, d)
    /\ engine' = IF ToPark(engine, d) \cup ToRestore(engine, n) = {}
                 THEN [engine EXCEPT !.pool = Show(@, n, d)]
                 ELSE BeginWorkspaceSwitch(engine, n, d)

(* plan_workspace_move does not look at switch_degraded. *)
WorkspaceMoveRequested(n, d) ==
    /\ ~engine.paused
    /\ ~SwitchOpen(engine)
    /\ d \in engine.displays
    /\ \E from \in Display \ {d} :
         /\ engine.pool.displayed[from] = n
         /\ engine' = [engine EXCEPT !.pool = SwapDisplays(@, from, d)]

WorkspaceCreateRequested(n) ==
    /\ n \notin Names(engine.pool)
    /\ engine' = [engine EXCEPT !.pool = Create(@, n, "Command")]

WorkspaceDeleteRequested(n) ==
    /\ CanDelete(engine.pool, n)
    /\ engine' = [engine EXCEPT !.pool = Delete(@, n), !.remembered[n] = None]

ParkingAuthorizationRequested(w) ==
    /\ Parkable(engine, w)
    /\ engine' = RequestRecoveryEntries(engine, {w}, 0)

(* Mutant: takes the windows for restored before the adapter answers. *)
RestoreParkedWindowsRequestedEarly ==
    engine' = [engine EXCEPT !.effects = Push(@, RestoreMoves(engine, Parked(engine))),
                             !.parked = [w \in Window |-> 0]]

RestoreParkedWindowsRequested ==
    engine' = [engine EXCEPT !.effects = Push(@, RestoreMoves(engine, Parked(engine)))]

(* Restores what is parked and should not be, asks to park what is on      *)
(* screen and should not be, or clears a condition nothing is left of.     *)
WorkspaceSwitchRestoreRequested ==
    LET owing == {w \in engine.degraded : OwesMove(engine, w)}
        back  == owing \cap Parked(engine)
        away  == {w \in owing \ back : Parkable(engine, w)}
        asked == RequestRecoveryEntries(engine, away, 0)
    IN  /\ engine.degraded # {}
        /\ engine' = IF owing = {} THEN [engine EXCEPT !.degraded = {}]
                     ELSE [asked EXCEPT !.effects = Push(@, RestoreMoves(engine, back))]

PauseRequested  == ~engine.paused /\ engine' = [engine EXCEPT !.paused = TRUE]
ResumeRequested == engine.paused /\ engine' = [engine EXCEPT !.paused = FALSE]

-----------------------------------------------------------------------------
(* Facts about the desktop, the configuration and the database             *)

WindowsObserved(life, seat) ==
    engine' = ReplaceInventory(engine, life, seat)

DisplayTopologyChanged(new, nearest) ==
    /\ new # {} /\ new # engine.displays
    /\ nearest \in new
    /\ engine' \in Resettle(LeaveVanishedDisplays(engine, new, nearest))

(* Like the last two in one event, except that without an enumeration      *)
(* nothing is assigned or reconciled.                                      *)
WakeReconciliation(new, nearest, enumerated, life, seat) ==
    /\ nearest \in new
    /\ \E t \in IF new = engine.displays THEN {engine}
                ELSE {ApplySwitchingMapping(u) :
                        u \in FillEmptyDisplays(SyncWorkspacesFromConfig(
                                LeaveVanishedDisplays(engine, new, nearest)))} :
         engine' = IF enumerated THEN ReplaceInventory(t, life, seat) ELSE t

ConfigChanged(c) ==
    /\ c # engine.config
    /\ engine' \in Resettle([engine EXCEPT !.config = c])

WorkspacesLoaded(stored, where) ==
    /\ stored # {}
    /\ engine' \in LoadWorkspaces(engine, stored, where)

ParkingCapabilityReported(c) == engine' = [engine EXCEPT !.site = c]
PersistenceHealthChanged(h)  == engine' = [engine EXCEPT !.health = h]

-----------------------------------------------------------------------------
(* Answers of the ledger and of the adapter                                *)

(* RecoveryEntryDurable: the window may leave the screen now, and not      *)
(* before.  A window that left management is not parked at all.            *)
RecoveryEntryDurable(b, w, entry) ==
    \E r \in engine.pending :
        LET ours  == SwitchOpen(engine) /\ r.switch = engine.switch.id
            parks == IF w \in Managed(engine) THEN {w} ELSE {}
            rest  == engine.switch.recording \ {<<b, w>>}
            sw    == [engine.switch EXCEPT
                        !.recording = rest,
                        !.phase = IF @ = "Recording" /\ rest = {} THEN "Parking" ELSE @,
                        !.inFlight = @ \cup parks]
        IN  /\ r.batch = b /\ r.window = w
            /\ engine' = AdvanceSwitch(
                 [engine EXCEPT
                    !.pending = @ \ {r},
                    !.switch  = IF ours THEN sw ELSE @,
                    !.effects = Push(@, {[kind |-> "Park", window |-> v,
                                          entry |-> entry] : v \in parks})])

(* RecoveryEntryRefused: one refused entry cancels the whole switch. *)
RecoveryEntryRefused(b, w) ==
    \E r \in engine.pending :
        LET t == [engine EXCEPT !.pending = @ \ {r}] IN
        /\ r.batch = b /\ r.window = w
        /\ engine' = IF SwitchOpen(engine) /\ r.switch = engine.switch.id
                     THEN BeginSwitchCompensation(
                            [t EXCEPT !.switch.recording = @ \ {<<b, w>>}])
                     ELSE t

(* An answer for a token that is no longer pending changes nothing. *)
UnknownToken(b, w) ==
    /\ ~\E r \in engine.pending : r.batch = b /\ r.window = w
    /\ UNCHANGED engine

WindowParked(w, entry) ==
    engine' = SwitchWindowSettled(
        SettleStrandedWindow(
            [engine EXCEPT
               !.parked[w] = entry,
               !.intents = Append(@, {[kind |-> "MarkParked", window |-> w,
                                       number |-> entry]})], w), w, TRUE)

WindowParkFailed(w) ==
    LET t == SwitchWindowSettled(engine, w, FALSE) IN
    engine' = IF w \in engine.switch.inFlight THEN t ELSE StrandWindow(t, w)

WindowRestored(w) ==
    engine' = SwitchWindowSettled(
        SettleStrandedWindow(
            [engine EXCEPT
               !.parked[w] = 0,
               !.intents = Push(@, {[kind |-> "MarkRestored", window |-> v,
                                     number |-> engine.parked[v]]
                                       : v \in {w} \cap Parked(engine)})], w), w, TRUE)

(* Mutant: the switch is not told. *)
WindowRestoreFailedIgnored(w) == w \in Window /\ UNCHANGED engine

WindowRestoreFailed(w) == engine' = SwitchWindowSettled(engine, w, FALSE)

-----------------------------------------------------------------------------
(* The reducer on its own, in any environment at all: every event may come *)
(* at any time with any argument of its type, and consumers may take       *)
(* anything off the queues.  ParkingPipeline is the real environment.      *)
Init == \E c \in Configs, displays \in SUBSET Display : engine \in BootStates(c, displays)

Command ==
    \/ \E n \in Workspace, d \in Display :
         WorkspaceFocusRequested(n, d) \/ WorkspaceMoveRequested(n, d)
    \/ \E n \in Workspace : WorkspaceCreateRequested(n) \/ WorkspaceDeleteRequested(n)
    \/ \E w \in Window : ParkingAuthorizationRequested(w)
    \/ RestoreParkedWindowsRequested
    \/ WorkspaceSwitchRestoreRequested
    \/ PauseRequested \/ ResumeRequested

Fact ==
    \/ \E life \in [Window -> Lifecycle], seat \in [Window -> Display] :
         \/ WindowsObserved(life, seat)
         \/ \E new \in SUBSET Display, nearest \in Display, enumerated \in BOOLEAN :
              WakeReconciliation(new, nearest, enumerated, life, seat)
    \/ \E new \in SUBSET Display, nearest \in Display : DisplayTopologyChanged(new, nearest)
    \/ \E c \in Configs : ConfigChanged(c)
    \/ \E stored \in SUBSET Workspace, where \in [Workspace -> Display \cup {None}] :
         WorkspacesLoaded(stored, where)
    \/ \E c \in Capability : ParkingCapabilityReported(c)
    \/ \E h \in Health : PersistenceHealthChanged(h)

Reply ==
    \E w \in Window :
        \/ \E b \in Nat, e \in Nat : RecoveryEntryDurable(b, w, e)
        \/ \E b \in Nat : RecoveryEntryRefused(b, w) \/ UnknownToken(b, w)
        \/ \E e \in Nat : WindowParked(w, e)
        \/ WindowParkFailed(w) \/ WindowRestored(w) \/ WindowRestoreFailed(w)

Consumed ==
    \E effects \in Seq(SUBSET Move), intents \in Seq(SUBSET Intent) :
        engine' = [engine EXCEPT !.effects = effects, !.intents = intents]

Next == Command \/ Fact \/ Reply \/ Consumed

Spec == Init /\ [][Next]_engine

-----------------------------------------------------------------------------
(* Every field of the reducer's state holds a value of its type.           *)
EngineTypeOK == engine \in EngineState

(* A switch waits for exactly the ledger writes it asked for: its          *)
(* recording tokens are the pending requests made on its behalf, and no    *)
(* request of a switch that was cancelled or closed is left behind to      *)
(* authorise a park on behalf of a later one (begin_switch_compensation,   *)
(* the Durable and Refused arms, request_switch_reparks).                  *)
RequestsMatch(s) ==
    LET ofSwitch == {r \in s.pending : r.switch # 0} IN
    /\ {<<r.batch, r.window>> : r \in ofSwitch} = s.switch.recording
    /\ \A r \in ofSwitch : r.switch = s.switch.id

RequestsMatchSwitch == RequestsMatch(engine)

(* No window ever has two recovery entries being written at once, so one   *)
(* acknowledgement cannot park it twice.                                   *)
RequestedOnce(s) ==
    \A q, r \in s.pending : q.window = r.window => q = r

OneRequestPerWindow == RequestedOnce(engine)

(* Compensation remembers everything it still owes: while it parks again,  *)
(* each window the switch had brought back is still in flight, and while   *)
(* it restores, each window the switch had parked is.  finish_compensation *)
(* reports a clean switch from `stranded` alone, so a window dropped from  *)
(* flight without either would be lost in silence.                         *)
Owes(s) ==
    LET sw == s.switch IN
    /\ sw.phase = "CompensatingPark" => sw.restored \subseteq sw.inFlight
    /\ sw.phase = "CompensatingRestore" => sw.restored = {} /\ sw.parked \subseteq sw.inFlight

CompensationOwes == Owes(engine)

(* Whatever commands, profiles and topologies do, a workspace is displayed *)
(* on at most one display.                                                 *)
DisplayedAtMostOnce == DisplayedOnce(engine.pool)

(* A display shows, and a window belongs to, only a workspace that exists: *)
(* the debug assertions of WorkspacePool::display and ::assign.            *)
PoolHoldsItsNames == DisplayedExists(engine.pool) /\ MembersExist(engine.pool)
=============================================================================

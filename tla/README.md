# Mosaix in TLA+

Mosaix is a keyboard-driven tiling window manager: an agent process with one
reducer, a handful of threads around it, a state database, a configuration
directory and clients that talk to it over a local connection. The modules here
model the three parts of it in which several actors share state:

- **parking**: logical workspaces are emulated by *parking* the windows of hidden
  workspaces beyond the edge of the virtual screen. A parked window is
  invisible, so the program promises that every one has a way back;
- **tiling**: the reducer keeps books about windows it does not control, asks an
  executor to move them, and corrects itself from answers and observations that
  arrive late, with undo and a database that must bring places back;
- **control**: configuration files are edited by the agent, by another process
  and by hand, watched, validated and reloaded, and decide which hotkeys the
  agent holds, except while an editor has taken the keyboard; the page of the
  settings application shows what is in force and says where a save will go.

Paths are relative to the repository. `engine` below is
`crates/mosaix-engine/src/lib.rs`.

## Layout of this directory

| Module | Models | Extends |
| --- | --- | --- |
| `WorkspacePool` | the workspace pool of `mosaix-domain/src/workspace.rs`, as a value and its operations | |
| `RecoveryLedger` | the ledger of `mosaix-persistence/src/ledger.rs` and the recovery plan of `mosaix-domain/src/recovery.rs`, as a value and its operations | |
| `SwitchEngine` | the reducer `apply` of `engine`: switch transaction, parking books, displayed assignment | `WorkspacePool` |
| `ParkingPipeline` | the agent around that half of the reducer (`mosaix-agent/src/main.rs`, `recovery.rs`): executor, bridge and worker, refresher, topology forwarder, startup and exit recovery, crash, and the desktop itself | `SwitchEngine`, `RecoveryLedger` |
| `MCPipeline` | small configurations and desktops for TLC | `ParkingPipeline` |
| `Geometry` | rectangles, edges shared out by weight, zones and their cycle, gaps, balanced grid, throw (`mosaix-layout`, `mosaix-domain/src/coordinates.rs`) | |
| `ContainerTree` | container trees as values (`mosaix-domain/src/tree.rs`) and their plan (`mosaix-layout/src/tree.rs`) | `Geometry` |
| `WindowIdentity` | evidence, scores and the confident match (`mosaix-domain/src/identity.rs`) | |
| `TilingEngine` | the reducer `apply` of `engine`: placement, arrangements, drag, focus, saved layouts, undo | `ContainerTree`, `WindowIdentity` |
| `StateStore` | undo rows, tree rows and health of the state database (`mosaix-persistence/src/lib.rs`) | |
| `TilingAgent` | the agent around that half: queue, executor, refresher, drag, bridge and database, restarts, and the desktop | `TilingEngine`, `StateStore` |
| `MCTiling` | thirteen scenarios for TLC | `TilingAgent` |
| `ConfigLayers` | base file and profile, their merge, whole-directory validation, the plan of every edit (`mosaix-config`) | |
| `SettingsEdits` | *abstract*: what an edit promises a desk, in terms of the settings in effect only | `ConfigLayers` |
| `ConfigDirectory` | the files and their temporary files, the writers with their reads, writes and renames; implements `SettingsEdits` | `ConfigLayers` |
| `ControlPlane` | watcher, reducer's configuration, rebind poller, operating system's registrations, clients with their connections and the capture hold, crash and restart | `ConfigDirectory` |
| `MCControl` | eight scenarios for TLC | `ControlPlane` |
| `SettingsPage` | the page of the settings application (`layout-editor.ts`, `hotkey-capture.ts`) and the session that serves its calls (`src-tauri/src/editor.rs`), before an agent reduced to what a client sees of `ControlPlane` | `ConfigLayers` |
| `MCPage` | four scenarios for TLC | `SettingsPage` |
| `ParkingFlow_proofs` | lemmas: how an entry of one window travels from the request to the record | `ParkingPipeline_proofs` |
| `ParkingLedger_proofs` | theorems on ledger, desktop and record | `ParkingFlow_proofs` |
| other `*_proofs` | lemmas and theorems, checked by TLAPS | the module each is about |

To check one run: `tlc -workers 2 -config tiling.cfg MCTiling`. To check the
proofs: `tlapm` on each `_proofs` module (about half an hour in all).

## Inventory of the system

**Workspace switch reducer** (`engine`, the arms of `apply` listed under
*Correspondence*). State: the workspace pool, the displays, the resolved
configuration, per window its life cycle and display, `parked_windows` with the
ledger entry of each, `pending_recovery_entries`, the one `switch_transaction`,
`switch_degraded`, the parking capability, database health, the pause flag and
the queues of effects and intents it publishes. It is one thread and applies
one event at a time; what is hard is that a switch is spread over many events.
It asks the ledger to record every outgoing window (Recording), parks each once
its entry is durable (Parking), restores the incoming ones (Restoring) and
commits, or, when any step fails, undoes what it did in two phases
(CompensatingPark, CompensatingRestore). Meanwhile windows close, users park
and pause, displays vanish, and answers to cancelled work arrive. It is correct
when a switch waits for what it asked for and for nothing else, commits only
after its moves, undoes everything it did, ends, and never shows two workspaces
at once. *Modelled.*

**Workspace pool**. Names with their owner (configuration or command), one slot
per display, one workspace per window. Correct when a workspace is on one
display, a display shows and a window belongs to a workspace that exists, and a
display appearing or vanishing reveals nothing. *Modelled.*

**Recovery ledger**. Entries on disk, recorded before a window moves, marked
parked after it moved, marked restored when it is back; pruned at startup.
Correct when no window is off the screen without an entry recovery will act on.
*Modelled.*

**Parking pipeline of the agent**. The executor carries out one effect at a
time and sends an answer event; the bridge hands intents to the persistence
worker, whose acknowledgements become events; the refresher enumerates windows
after the desktop moved; the forwarder reports capability, topology and wake.
All send into one bounded channel. At startup a recovery pass restores what the
ledger says is parked before any thread runs; a clean exit ends with another;
an error of the ledger ends either pass where it is, and the agent goes on.
Hard: an observation is stale when it is applied, two writers race, a pause
does not stop a batch that was already read, the process dies between any two
of these steps. *Modelled.*

**Tiling reducer** (`engine`, the other arms of `apply`). State: per window what
was last decided (display, bounds, previous placement, snap cycle, rejections)
and what was last observed (inventory), the visual order and the container tree
of each display, the session's exceptions to the rules, overflow, the drag, the
focus, the active layouts, the open undo scope. Hard: answers name a window and
not a request; a window may refuse its tile three times before it is left
alone; an observation of a half-moved desktop looks like a user's move; a reflow
must not pull a window from under the cursor and must not be forgotten either,
while every move of the drag is observed, also on another display;
windows leave a display by throw, drag, migration, restore or a stored tree and
must leave their slot behind.
Correct when the books and the screen agree as soon as everything has been
delivered, what is tiled does not overlap, and the exchange ends. *Modelled.*

**Undo history** (`engine`, `mosaix-domain/src/undo.rs`, `mosaix-persistence`). A
command opens a scope, moves record members, the closed scope becomes a row, the
newest row of the database is loaded after each write. Hard: the row an undo
takes may be an older one when people are quick. Correct when an undo takes the
newest row once and the desktop is what it was. *Modelled.*

**Container trees and layouts** (`mosaix-domain/src/tree.rs`, `mosaix-layout`).
Pure: insert, remove, swap, resize, dormant slots, plan with minimum sizes, zones
and grids. Correct when trees stay normalized with every slot numbered once and
plans partition the work area up to gaps. *Modelled*, and checked inside the
agent rather than alone.

**Window identity** (`mosaix-domain/src/identity.rs`). A score over evidence; a
window is recognised only with a margin over the next best. *Modelled.*

**State persistence** (`mosaix-persistence/src/lib.rs`). A worker that carries out
requests in order; rows for the undo history, trees, workspaces; a health derived
from the last failure. Hard: a write that fails in the middle of a session, a
process that dies between two rows. *Partly modelled*: undo and tree rows,
revisions, failures, ledger requests; stored workspaces are an input of
`ParkingPipeline`; opening, migrating and resetting the file are not modelled.

**Configuration files** (`mosaix-config`). A base file and one profile per set of
displays, merged; the whole directory validated; edits that read two files and
write one or, to move a value to the base, two. Hard: there is no lock, and the
writers are threads of the agent, the settings process and a text editor, of
which the first two fill one temporary file per destination and rename it; a
crash between two writes; a reader between two files. Correct when an edit takes
effect at once or not at all, and what does not validate never runs.
*Modelled.*

**Hotkeys and capture** (`mosaix-agent/src/hotkeys.rs`). A poller compares the
published configuration and suspension with the snapshot it acts on, and
registers with the operating system. Capture is a count of holds, each tied to
a connection. Hard: configuration and suspension change while it registers;
connections die in every state; a key may have no virtual-key code, and a
registration may fail as a whole. Correct when every binding is either registered
or reported (which the code does for keys with a code), and capture gives the keyboard back exactly when its last holder is
gone. *Modelled.*

**IPC server and client** (`mosaix-ipc`). A thread per connection. *Partly
modelled*: edits and what they send the reducer, hanging up, the capture hold;
commands reach the reducer as actions of the other two agents; framing, status
documents and the preflight of a request against published state are not.

**Snap overlay** (`mosaix-agent/src/overlay.rs`). *Partly modelled*: the drag it
follows, from its start, over the displays the window is carried across, to the
drop into a zone. Drawing the preview is not.

**Settings application** (`apps/mosaix-settings`). A page with a drawing and its
undo, two lists it polls every two seconds and re-reads after each save, and a
dialog that captures a combination; a session that serves the page's calls one
at a time; a held connection. Hard: people click and press faster than answers
come; a list on the page is older than the agent's; what the page promises
about a save and what the agent does with it are worked out in two places.
Correct when a verdict is about the combination shown, a save lands in the file
named beside the button, and the page comes to show what is in force. *Partly
modelled*: the page in `SettingsPage`, the connection, with the capture it
asserts again, and the page's own save of the tiling settings in
`ControlPlane`. The workspace panel with its repairs, appearance, the choice of
a display, the preview and the arithmetic of zones are not.

**Platform parking** (`mosaix-platform-windows/src/parking.rs`). *Partly modelled*:
what a park or a restore does to the desktop and when it fails. The geometry of
the parking site is not.

**Not modelled**

| Component | Why |
| --- | --- |
| Window rules (`mosaix-rules`) | Pure, ordered matching without state; its results are inputs here (`RuleTarget` of `SwitchEngine`, `rules` of a profile of `TilingEngine`). |
| Command line (`mosaix-cli`) | Parsing of arguments, one request, printing of the answer. |
| Platform adapters (`mosaix-platform-windows`, `-macos`) | Calls into the operating system; what they report is modelled where it is received. |
| Workspace panel of the page (`workspace-status.ts`) | One more list with the same watch, and two buttons whose requests are `UserRestoresWindows` and `UserRestoresSwitch` of `ParkingPipeline`. |
| Status documents (`handler.rs`), logging, tray, focus border | Read the published state and keep none that anything depends on. |
| Opening, migrating and resetting the database | Ends before any thread runs. |

## How the model corresponds to the code

### Parking

`WorkspacePool` has one operator per method of `WorkspacePool`: `Create`,
`Delete`, `CanDelete` (`check_delete`), `Show` (`display`), `SwapDisplays`,
`RetainDisplays`, `RetainMembers`, `Assign`. Stashed trees and the last
focused window are left out.

`SwitchEngine` holds the reducer's state in one record `engine`, because the
source passes one `&mut EngineState` from function to function and each of
those functions is an operator from record to record: `AdvanceSwitch`,
`CommitSwitch`, `BeginSwitchCompensation`, `RequestSwitchReparks`,
`FinishCompensation`, `EmitSwitchRestores`, `SwitchWindowSettled`,
`RequestRecoveryEntries`, `ReconcileHiddenWorkspaceWindows`,
`ReplaceInventory`, `FillEmptyDisplays`, `ApplySwitchingMapping` and so on, under
the names they have there. An action is one arm of `apply`, with everything
the arm calls: `DisplayTopologyChanged` migrates windows, hides workspaces of
vanished displays, syncs names, fills displays, applies the mapping, assigns
and reconciles, in that order, in one step. Requests the source refuses only
answer, so refusals are guards. Data is abstracted: window lists are sets, a
token is its batch number and window, bounds, container trees, undo records and
the focused window are left out because no guard of these arms reads them.

`ParkingPipeline` has one action per step of a thread:

| Code | Actions |
| --- | --- |
| IPC, hotkeys, configuration watcher | `UserFocuses`, `UserMoves`, `UserCreates`, `UserDeletes`, `UserParks`, `UserRestoresWindows`, `UserRestoresSwitch`, `UserPauses`, `UserResumes`, `ConfigReloads`, `HealthChanges`, `DatabaseLoads` |
| the platform, the refresher, the topology forwarder | `WindowChanges`, `Enumerate`, `DisplaysPlugged`, `MachineWakes` |
| executor thread | `ExecutePark`, `ExecuteRestore` |
| persistence bridge and worker | `WriteDraft`, `WriteMark` |
| engine thread taking an event | `ReceiveObservation` ... `ReceiveWake` |
| process | `Crash`, `Quit`, `ExecutorStops`, `StartsAgain`, `RecoverWindow`, `MarkRecovered`, `RecoveryEnds` |

Decisions a reader of both will want to know:

- *Events that carry no observation* (requests, reloads, health) are sent and
  applied in one step: they may have waited in the channel for any time.
  Enumerations, adapter answers and ledger acknowledgements do wait in `inbox`
  while the desktop goes on.
- *Bridge and worker are one step* (`WriteDraft`, `WriteMark`): the delay
  before the write stands for the delay of the acknowledgement too. A draft that
  cannot be written is refused; a mark that cannot be written is only logged.
  The worker itself never stops. When it does (`mosaix-agent/src/main.rs:486`)
  the bridge ends for good, and a switch under way waits as in `refused_repark`.
- *Quit* stops the bridge at the top of its loop, so intents it has not read
  are never written, while the executor may still run (`Stopping`) until it
  is joined.
- *A pause* does not stop the effects the executor had already read:
  `agent.backlog` says how many batches that is.
- *A crash* starts a new process at once. Only the ledger file and the desktop
  survive; sessions number the processes.
- *Recovery* takes the entries of the plan in order: it puts a window back
  (`RecoverWindow`) and then marks the entry (`MarkRecovered`), and either may
  fail. A restore that fails is reported and the pass goes on; a mark that
  cannot be written ends the whole pass, with nothing reported, as
  `mark_restored(entry_id)?` does (`agent.cut`). A ledger that cannot be opened or
  read is a pass cut before its first entry (`Planned`). The agent goes on in every
  case; the ledger may not be pruned.
- *A park* of a minimized window or without a verified site fails; *a restore*
  checks the ledger entry and that the handle lives.
- *Simplified*: handles are not reused; maximized counts as normal; at most two
  stored workspaces return to connected displays when the database loads; the
  order in which displays are filled is any order.

### Tiling

`TilingEngine` is to the other arms of `apply` what `SwitchEngine` is to the
first half: one operator per arm and per function an arm calls, from the record
`s` to the next one, under the names of the source (`WindowsObserved`,
`PlacementRejected`, `ReconcileArrangements`, `WindowThrowToDisplayRequested`,
`InteractivePlacementEnded`, `UndoRequested`, ...). Everything a reflow does
happens in the step that calls for it: departed windows leave their slot, new
ones reclaim or split one, the tree is planned with minimum sizes, what does not
fit overflows, placements that changed are emitted and the tree is intended to
be saved.

`TilingAgent` runs it:

| Code | Actions |
| --- | --- |
| IPC and hotkeys | `Snap`, `Throw`, `RestoreIt`, `Float`, `Swap`, `Resize`, `FocusNext`, `FocusDisplay`, `Forget`, `Layout`, `Rearrange`, `Toggle`, `PauseIt`, `ResumeIt`, `Undo` |
| windows, the overlay thread | `Open`, `Close`, `Relife`, `FocusIt`, `Drag`, `Carry`, `Drop` |
| executor thread | `TakeEffects`, `Perform` |
| refresher | `Refresh` |
| bridge, database worker | `Persist`, `Commit` |
| engine thread taking an event | `SeeWindows` ... `SeeTrees` |
| displays, sleep, files, time, process | `Plug`, `Wake`, `Reload`, `NextDay`, `Restart` |

- *Geometry is computed*, in whole units on two small work areas: edges are
  rounded and shared out as `Rounded` and `AllocateEdges` of the source do, so
  that rounding is part of what `ReflowSettles` and `ArrangedApart` are about.
  A normalized fraction is a multiple of 1/60, a weight a multiple of 1/1000.
- *Trees are values* in `ContainerTree`: a node is a leaf with an insertion
  number, or a split with weighted children; a leaf is live or sleeps with the
  evidence of the window that had it.
- *No workspace is declared* here: what is hidden is the parking half. The
  events `DesktopFocused`, `RulesChanged` and `StartupReconciliation` are sent by
  tests only and have no action.
- *A drag* is its start, the window carried about by the user (`Carry`: each
  time its bounds and display are observed and the inventory is listed again, as for
  every `LocationChanged`), and its end, which leaves the window where it is and
  has the overlay place it in a zone if the cursor is in one. A carried window
  comes to the upper left corner of a display.
- *One row at a time*: a revision is always newer than the last one, so it has
  no number; `UndoTakesNewest` speaks of rows by their identifiers.
- *A scenario* (`MCTiling`) is a record: configuration, windows, displays, which
  actions are allowed, how many steps of them, whether people wait for rest
  (`patient`), whether the executor's half second outlasts everybody else
  (`slow`), whether a database is open (`stored`), which windows refuse
  (`stubborn`).

### Control

`ConfigLayers` keeps of a file its bindings, its saved layouts and whether it
enables automatic tiling: the sections edits touch. `Planned` is the directory an
edit asks for, `Valid` the validation of the whole pair, `Accepted` both with
every refusal of the planners. `ConfigDirectory` gives an edit the steps it has:
`ReadBase`, `ReadProfile`, `Refuse`, `OpenTemp`, `FillTemp`, `ReplaceFile`,
`ReplaceFails`, `WriteFails`, `Confirm`, each of which others may come between. To
replace a file takes three steps, as in `write_atomically`: its temporary file, one for
all writers (`temps`), is emptied, filled and renamed. A writer may fill what another has emptied or filled, so that
the content may come out mixed (`Garbage`); may rename what another has put there, or find nothing to rename; and when a file
it has open is renamed by somebody else, it goes on writing in the file everybody reads (stage
`astray`). `Target` is the destination first and then the profile a redirect empties.

`ControlPlane` adds the rest:

| Code | Actions |
| --- | --- |
| thread of a connection (`pipe.rs`, `handler.rs`) | `AskEdit`, `ReadOn`, `Write`, `Answer`, `Fail`, `HangUp`, `Release` |
| settings process (`src-tauri/src/agent.rs`, `commands.rs`) | `SaveTiling`, `OpenEditor`, `CloseEditor`, `Request`, `Kill`, `Launch` |
| a text editor, other programs | `HandEdit`, `OtherProgram` |
| watcher, forwarder, reducer, poller | `Watch`, `Reload`, `Forward`, `Reduce`, `Poll`, `Register`, `RegistrationFails` |
| process | `Crash`, `Restart`, `StartWatching` |

- *Time* enters in one guard: the watcher reads 300 ms after the last change, and
  a thread that replaces a file, or has written all it had to and is to send it, takes its
  next step within them (`Debounced`).
- *Registration* leaves out keys without a code (`Keyed`), which are not reported, and what
  other programs own (`Free`), which is. One that does not start leaves nothing registered and the
  old report in force, and the poller takes it for done (`RegistrationFails`, `poller.failed`).
- *Auxiliary state*: `raced` (somebody else wrote since an edit began to read),
  `missed` (a write between the load at startup and the start of the watch),
  `stray` (an end of capture from a connection that held none). They restrict
  what the properties promise and no action reads them.
- *Simplified*: a client that was killed is launched again only when the edit its
  old connection was serving is over, and one dead connection per client at most
  still owes its release.

### Settings page

`SettingsPage` keeps the variables of `mountLayoutEditor` under the names they
have there or close to them: `draft`, `past` (`history`), `selected`
(`selectedLayout`), `redirect` (`redirectToBase`), `dialog` (`capture`). `panels`
has for each list what is shown, whether an error is shown in its place, and what
the closure of its watch remembers (`reported`). `calls` is the queue of the page's
calls with their answers: commands of the session are synchronous and so served
in order, and promises resolve in that order too; between any two answers the
page takes clicks, keys and timers.

| Code | Actions |
| --- | --- |
| canvas | `Type`, `Draw`, `Undo`, `Open`, `Redirect` |
| buttons that write | `SaveLayout`, `SaveAndApply`, `RenameLayout`, `DuplicateLayout`, `DeleteLayout`, `SaveBinding`, `ResetBinding` |
| capture dialog | `OpenDialog`, `Press`, `Blur`, `Focus`, `RedirectBinding`, `Cancel` |
| timers of the watches, promises | `Poll`, `Receive` |
| session and IPC handler | `Serve` (`ServeRead`, `ServeProbe`, `ServeWrite`, `ServeApply`) |
| agent, other hands | `Reduce`, `HandEdit`, `Leave`, `Return` |

- *The agent* is what a client sees of `ControlPlane`: a write that is accepted is on
  disk and confirmed (`files`), and on its way to the reducer (`mail`), which
  answers reads from what is in force (`live`). That edits overtake each other on
  the disk and that a reload may be late is the business of `ConfigDirectory` and
  `ControlPlane`, and left out.
- *A drawing* is one of a few, or one that `validate_draft` refuses; every edit of
  a zone remembers the drawing before it and changes it (`Draw`).
- *Modifiers* held when the dialog opens are left out: a press is the
  combination it comes to, or none.

## Runs

`MCPipeline`: `Budget` bounds how often users, windows, displays and failures may
act in one behaviour; the agent's own steps are never bounded. `Allowed` names
the kinds of step, `Patient` those that wait until every queue is empty, so that
a run asks one question at a time. `MCTiling` and `MCControl`: a scenario has the
same in one record, and one run goes through all of them; so it has in `MCPage`. Deadlock is not
checked: an agent whose users have spent the budget and whose queues are empty
is idle.

| Run | Expect | Instance | Shows |
| --- | --- | --- | --- |
| `patient_switch` | pass, 42 k states | 1 display, 2 workspaces, 3 windows (two on the hidden workspace), 4 steps of focus, park, restore and ledger failures; focus waits | `RequestsMatchSwitch`, `CompensationOwes`, `CommitLands`, `NeverMixed`: with no late answers about, a switch keeps its books through both compensation phases, commits after its moves and keeps the two workspaces apart |
| `busy_desktop` | pass, 1 008 k | 1 display, 2 workspaces, 2 windows, 3 steps of anything but a crash, overlapping freely | `TypeOK`, `WayBackKept`, `BooksMatchDesktop`, `OneRequestPerWindow` |
| `displays` | pass, 519 k | 2 displays, 3 workspaces, 2 windows, 3 patient steps of plug, wake, move, create, delete, reload, focus | `DisplayedAtMostOnce`, `PoolHoldsItsNames`, `DisplayedOnlyWhereConnected`, `ConnectRevealsNothing` |
| `recovery` | pass, 75 k | 1 display, 2 windows, 3 steps of focus, crash, quit, marks lost (also by recovery itself, and a prune that fails), a ledger that cannot be read, native failures, closing windows, overlapping, under `FairSpec` | `OpenEntryKept`; `RecoveryComplete`: a startup pass no error of the ledger cut short has acted on or reported every window with one open entry; `SwitchCloses`: a switch ends, or its process does; `DesktopSettles`: also after crashes and failed restores at startup, the desktop comes to show what the books say |
| `tiling` | pass, 287 k | twelve scenarios of up to 3 windows on up to 2 displays, 2 to 4 steps each | twelve properties, below |
| `control_plane` | pass, 103 k | eight scenarios of 2 clients and the tiling page, 3 commands, 4 combinations of which one has no key code, 3 layout names of which two differ by case, up to 4 steps of edits, hands, captures, other programs and mishaps | nine properties, below |
| `settings_page` | pass, 230 k | four scenarios at a desk with a profile, 2 commands, 2 combinations, 3 layout names of which two differ by case, 2 to 4 clicks or keys, one edit by another hand, one absence of the agent | `VerdictFitsCapture`, `LandsWhereShown`, `CatchesUp` |
| `refused_repark` | violation | a failed restore, then a refused ledger write | `SwitchCloses` |
| `late_answer` | violation | failed moves and a second switch | `CommitLands` |
| `crash_before_mark` | violation | one focus, one crash | `WayBackKept` |
| `reconnect_reveals` | violation | one database load, one display plugged in | `ConnectRevealsNothing` |
| `throw_stays` | violation | a window is floated and thrown | `ThrowMoves` |

**`tiling`.** `BooksMatchScreen`: once everything is delivered the reducer and the
screen agree. `ArrangedApart`: what is tiled lies in the work area, side by side,
on the screen and not only in the plan. `ReflowSettles`: a reflow nobody asked
for would move nothing. `TreesWellFormed`: normalized trees, no window with a slot
on two displays, but that the display under a drag keeps the slots it had until the drag is over. `FloatedStaysOut`. `UndoBringsBack`, `ReopenedReturns`,
`RestartKeepsPlaces`: after an undo, after a window was closed and opened again,
after the agent died and started over, the desktop is what it was.
`StoredTreeIsCurrent`: at rest the stored tree has the slots of the tree, and in
each the evidence of the window that is in it, its application and its place among that
application's windows. `DragIsUndisturbed`: no observation rearranges the display a drag
began on, wherever the window is carried. `UndoTakesNewest`. `Settles`: the exchange between reducer and desktop ends,
refusals included.

| Scenario | What it is there for |
| --- | --- |
| `TreeEditing`, `Hurried` | swap, resize, open, close, undo and forgotten slots in a tree, with a slow executor and with one that is slower or quicker than anyone |
| `Mortality`, `BadDisk` | restarts with rows of different ages, days that expire them; writes that fail |
| `Refusals` | a window that never moves, floated, rearranged, snapped, minimized, in a grid, with people who do not wait |
| `Displays` | displays come and go, the machine wakes with or without a listing, profiles change from grid to tree |
| `Traveller` | a lone window is thrown and undone, with gaps |
| `Dragging` | windows open and close while one is dragged, carried and dropped |
| `Crossing` | a window is carried to the other display and back, with pauses, and dropped in a zone or nowhere |
| `Rushing`, `ThereAndBack` | the same without pauses, with two windows and with a lone one |
| `ByHand` | no automatic tiling: snap cycles, restore, throw, saved layouts, pause, focus, undo |

After a quick drag to another display and back the displays may exchange a window for ever (below), each
time with a new slot; so in `Rushing` and `ThereAndBack` the listings stop once a display has
given out five slots (`slots`), and `Settles` is about the other ten scenarios.

**`control_plane`.** `EditsAtOnce`: the directory keeps the promise of
`SettingsEdits` (a refinement, checked as a property and proved).
`DirectoryStaysValid`: no step of writing of an edit nobody overtook, emptying, filling
or renaming, makes a valid directory invalid. `OnlyValidGoesLive`. `LiveIsWritten`: at rest the agent runs
on what is written, in whatever order edits were answered and reloads arrived.
`BindingsAccountedFor`: at rest every binding whose key has a code is registered or
reported and nothing else is, unless the last registration did not start; then nothing is registered.
`HoldsMatchEditors`: the reducer's count of holds is the number of connections
that hold capture or died holding it. `EditorOwnsKeys`. `Settles`.

| Scenario | What it is there for |
| --- | --- |
| `OneByOne`, `Failing` | ten edits of all kinds, two one after the other, or one with a mishap between any two steps |
| `Racing` | two writers of the same files and the same temporary files |
| `ByHand`, `Mending` | a hand that leaves half a file, or a file that does not validate, against an edit and a crash |
| `Capturing` | two editors, two mishaps: hang-ups, kills, crashes of the agent, registrations that fail |
| `Editing` | an edit of a binding while an editor holds the keyboard |
| `Crowded` | other programs take and free combinations while bindings change, also to a key without a code |

**`settings_page`.** `VerdictFitsCapture`: what the dialog says about a combination
is the agent's answer for that command and that combination. `LandsWhereShown`: a
save made when the list was true ends in the file that was named, and is in force
from it, whichever way names are spelt and whatever else was saved in between.
`CatchesUp`: again and again the page shows what is in force, through failures,
returns of the agent, edits of its own and of others.

| Scenario | What it is there for |
| --- | --- |
| `Drawing` | draw, undo, open, redirect, save, rename, duplicate, delete in turn, with another hand |
| `Hurried` | two writes before either is answered, with another hand |
| `Capturing` | keys, dialogs, blurs and saves faster than verdicts |
| `Rebinding` | bindings set, redirected and reset in turn, with another hand and an agent that goes away |

*Why these bounds.* A switch that fails half way needs a window that goes, a
window that comes and one more of either to fail after the first landed: three
windows, and for the switch, its failure and a second switch three or four
steps. The shortest counterexamples of the violation runs take two to five
steps, within the same bounds or, in `late_answer`, one more. Two displays are
needed for anything to vanish and two suffice for a swap; the third workspace is
what a reload or a user adds. The books (`BooksMatchDesktop`, `WayBackKept`) are
about one window at a time, and the second one is there to share the batch. A tree
of three windows has a split within a split, which is what hoisting and
normalization are about; the third one needs a third of the width so that plans
overflow; work areas of twelve by six and six by eight units no longer divide
evenly once gaps are taken off. A lost update and a redirect cut short need two writers; the
third (`page`) writes without answering the reducer. Four combinations are a
duplicate, a swap, a free one and one without a code. Two writers are enough for a temporary file to
be emptied under the other's rename, and for the rename to leave the other with the destination open. On the page two calls under way already
overtake a poll, and a verdict is late after two presses or a press and a second
dialog. `Poll` has at most one reading of a list under way and leaves out those that
would tell the watch nothing new, as the code ignores them; a scenario that begins
`told` has its first readings behind it.

*Fairness.* `FairSpec` assumes the refresher, the executor, the bridge with its
worker and the reducer each keep taking the next thing from their queue: they are
threads in endless loops on channels, stopped only at exit. Fairness is weak
and per thread, never per item. `TilingAgent` states the same, each thread named
by the queue it empties: `Receive` (reducer), `Take` and `Advance` (executor),
`List` (refresher), `Request` and `Flush` (bridge). `ControlPlane` needs less:
`WF_vars(Working)`, some thread with work to do goes on, because no thread there
can keep itself busy. Users, windows, displays, hands, clients and failures owe
nothing; `UserResumes` is free and unfair, so that a pause may last for ever. In
`FairSpec` the plans of startup and exit go through as well
(`RecoverWindow`, `MarkRecovered`, `RecoveryEnds`, `ExecutorStops`): they are loops
over a list. Nobody is bound to start the agent again. `SettingsPage` has the
session, the reducer and the page's promises fair (`Serve`, `Reduce`, `Receive`) and
each watch's timer (`Poll`); clicks, hands and the agent's return are not.

*Preconditions that are really needed*, each found by TLC when a run was made
broader; the finding or hazard it belongs to is in brackets:

- `NeverMixed` and `CommitLands` need focus to be patient: an answer of the
  switch before can settle the one after [`late_answer`].
- `SwitchCloses` needs that no ledger write is refused [`refused_repark`]; a switch
  whose process ends is over too, and what it parked is the ledger's. It needs for
  the same reason that no window closes: one that compensation is to park again
  and that has left management before its entry is durable loses its token
  (`engine:1626`) and stays in `in_flight`, with no park under way.
- `DesktopSettles` is stated for behaviours in which no native move fails, no end
  of the process leaves a window without its way back [`crash_before_mark`] and no
  window closes. A switch whose last outgoing window closes commits at once, and
  with the windows it counted when it began: what was parked since then stays
  parked until the next inventory (hazard at `engine:3073`). Nor does its run open
  or minimize windows: one that appears or is minimized while a switch is open
  is put in place by the next observation only, and nothing enumerates again if
  nothing else changes.
- `WayBackKept` needs that the process does not die between a park and its mark
  [`crash_before_mark`].
- `DisplayedOnlyWhereConnected` and `PoolHoldsItsNames` need topology changes and
  deletions to wait for a switch: a commit shows its target on the display it
  was asked for, even if the display or the name went away meanwhile (hazard
  at `engine:3749`, and `workspace.rs:712`).
- `RecoveryComplete` needs that no mark of the pass is lost and that the ledger opens
  (`~agent.cut`). The first error ends the pass, and the agent logs it and goes on
  (`mark_restored(entry_id)?`, `mosaix-persistence/src/ledger.rs:287`; `main.rs:349`), with verified
  windows still off the screen and nothing reported, although the routine says it "restores every
  open entry whose handle verifies, and reports what happened to each". The entries stay
  open for the next pass (`OpenEntryKept`).
- `RecoveryComplete` speaks of windows with one open entry: two open entries
  for one window, which TLC reaches once ledger writes may be refused, are
  ambiguous to `plan_recovery`, and it touches neither.
- `Settles` of `TilingAgent` needs, where two displays tile, an executor slower
  than the refresher's burst (`slow`). The executor sleeps half a second after
  each placement while the refresher lists 50 ms after the first one: a throw
  whose partner on the destination is placed first is then planned again from a
  desktop half moved, and the two windows can bounce for ever (hazard at
  `mosaix-agent/src/main.rs:1234`). A lone window that is dragged to the other display and back
  while a placement of the first move is still to be carried out does the same: the
  listing that follows shows where the older placement put it, the next one where the newer did.
  So people pause between the steps of a drag in `Crossing`.
- `DragIsUndisturbed` is about the display the drag began on. The one the window is carried over
  takes it in and places it under the cursor (`engine:4521` defers one display only), although ADR 0016
  says automatic placements of the dragged window are suppressed; until the drag is over it may have a slot on both.
- `UndoTakesNewest` and `UndoBringsBack` need people to wait for the database
  between an undo and the next command: an undo before the row of the last
  command has come back reverses an older one, two in a row the same one twice.
- `UndoBringsBack`, `ReopenedReturns` and `RestartKeepsPlaces` need that no slot is
  left asleep (`NoneAsleep`): a sleeping slot can be taken by any window of the same
  application. `RestartKeepsPlaces` needs rest between two deaths: the first
  reflow of a new process replaces the stored row before the trees are loaded.
- `StoredTreeIsCurrent` needs a disk that does not fail: a tree that could not be
  saved is not saved again until it changes.
- `Restore` has no scenario with automatic tiling: the restored window stays out
  of its tile until something else causes a reflow. `Drag` starts only on windows
  the agent has listed: the drag of another one is ignored at its start, and the
  drop does not put it right.
- `EditsAtOnce` promises nothing for an edit that was overtaken: there is no lock,
  and overlapping writers do lose each other's value, and can leave a value
  nowhere, a directory that does not validate or, since they share one temporary
  file per destination (`mosaix-config/src/io.rs:283-291`), half a file, although the comment there says a reader
  never sees one; so `DirectoryStaysValid` speaks of edits nobody overtook as well.
  Nor does it promise anything for settings in which two names differ by case
  only, where a rename makes the other one win.
- `BindingsAccountedFor` makes an exception of keys without a virtual-key code, which
  `bindings_from_resolved` skips and nobody reports (`mosaix-agent/src/hotkeys.rs:254`), and of a registration that
  fails as a whole, which registers and reports nothing (`main.rs:1069`). The status document calls its list
  "the commands whose bindings the last registration pass could not register"; it lacks both.
- `LiveIsWritten` needs `Debounced`: a thread that stalls for longer than the
  watcher waits, while it replaces a file or between its write and its answer, sends an older set last, and
  the agent runs on it until the next change. It also needs `~missed`: clients are
  served before the watch starts, and what is written in between is not noticed.
- `HoldsMatchEditors` and `EditorOwnsKeys` stop at a stray end of capture: the
  handler counts it from any connection, so closing an editor that has silently
  been reconnected takes the keyboard from another one. A page mounted twice on
  one connection, which would leak a hold, is not in the model (`~open`).
- `CatchesUp` makes an exception of a list the watch has reported already. A reading
  after a write of the page's own goes past the watch's memory; when it is answered
  from before the write is in force, or is overtaken by another hand, and the list
  then ends up as it was last polled, the watch stays silent and the page shows the
  outdated one until something changes. The calm scenarios do without the exception.
- `LandsWhereShown` is about *Save* and about bindings. *Save & apply* sends no redirect
  and does not look for a layout of that name that is not open, so it overwrites
  what *Save* would not; and it may be refused right after its own save, because the
  apply is checked against published state (`handler.rs:1475`) before the reducer
  has taken the save.
- Nothing is promised about what is taken for open: the answer to a save that comes after
  another layout was opened selects the saved one again, and `selected` survives an
  undo of *Open*. The clash check of the next save, and *Rename*, then speak of
  a layout that is not on the canvas. A modifier released while the window is in
  the background stays ignored by the dialog (`hotkey-capture.ts:156`).

## Findings

1. **`refused_repark`**: a switch that compensates and has its re-park refused
   never ends. The window is in `recording` and `in_flight`; the refusal removes the
   first, `begin_switch_compensation` returns at once because compensation is
   under way, and nothing ever removes the second. Every later switch is refused
   as in flight and reconciliation stands aside. The doc comment of the
   transaction says exactly one of `commit_switch` or `finish_compensation`
   closes it.
2. **`late_answer`**: answers carry the window, not the switch. One that belongs
   to cancelled work settles the next switch, which may commit, and reveal its
   workspace, before its own move landed.
3. **`crash_before_mark`**: a crash between the native park and the ledger mark
   leaves a window off the screen with an entry that recovery ignores and startup
   prunes. The user's guide says there is always a path to recover, including
   after a crash.
4. **`reconnect_reveals`**: connecting a display does reveal a remembered
   workspace with its windows; a comment and the guide say it does not.
5. **`throw_stays`**: under automatic tiling a throw changes the books and leaves
   the move to the reflow, which does not place a window that floats. Undo then
   holds a move that never happened, and the state names the wrong display.

Seen on the way and not made into findings, because no text of the repository
promises otherwise; the preconditions above have the ones properties depend on:

- an undo is consumed although an open circuit suppresses the placement it asks
  for; the overlay reports a placement as committed that the reducer ignored;
- `previous_placement` is not migrated when a display is unplugged;
- a placement that is accepted, or a finished rearrange, ends the session's float
  of a window that had refused before;
- a crash between the two writes of a redirect of a layout leaves its name in both
  layers, and later edits of it are refused (by design) until a hand removes one;
- a combination another program frees is not registered again until the
  configuration or the capture changes; an editor whose agent has restarted has
  live hotkeys until its next request asserts capture again.

## Proofs

Proved with TLAPS for every set of windows, workspaces and displays, every set of
configurations, writers, clients and scenarios, and every budget:

| Theorem | Module | States |
| --- | --- | --- |
| `GoodAlways` | `SwitchEngine_proofs` | the inductive invariant `Good` of the reducer alone, in any environment: `Spec` of `SwitchEngine` lets any event come at any time with any argument of its type, and lets consumers change the queues at will |
| `InductiveAlways` | `ParkingPipeline_proofs` | the same of the running agent (`PipelineSpec`), crashes and restarts included, with the types of channel, ledger and threads |
| `TypeCorrect` | `ParkingPipeline_proofs` | `PipelineSpec => []TypeOK` |
| `SwitchWaitsForItsOwn` | `ParkingPipeline_proofs` | `PipelineSpec => []RequestsMatchSwitch` |
| `RequestsAreSingle` | `ParkingPipeline_proofs` | `PipelineSpec => []OneRequestPerWindow` |
| `CompensationRemembers` | `ParkingPipeline_proofs` | `PipelineSpec => []CompensationOwes` |
| `WorkspaceHasOneDisplay` | `ParkingPipeline_proofs` | `PipelineSpec => []DisplayedAtMostOnce` |
| `PoolKeepsItsNames` | `ParkingPipeline_proofs` | `PipelineSpec /\ [][TargetSpared]_vars => []PoolHoldsItsNames`: in any environment, as long as no deletion takes the target of an open switch |
| `PoolKeepsItsNamesUndeleted` | `ParkingPipeline_proofs` | `PipelineSpec => []PoolHoldsItsNames` in every environment without deletions |
| `ShownWhereConnected` | `ParkingPipeline_proofs` | `PipelineSpec /\ [][DisplayStays]_vars => []DisplayedOnlyWhereConnected`: as long as the display of an open switch stays |
| `AppearingRevealsNothing` | `ParkingPipeline_proofs` | `PipelineSpec => ConnectRevealsNothing` wherever no stored row names the display of a workspace (or none is loaded); with such a row it fails [`reconnect_reveals`] |
| `LedgeredAlways` | `ParkingLedger_proofs` | the inductive invariant of ledger, queues, record and desktop |
| `WayBackWhileUp` | `ParkingLedger_proofs` | `PipelineSpec => []WayBackKept` in every environment without crash and exit |
| `FirstSessionKeepsWaysBack` | `ParkingLedger_proofs` | `PipelineSpec => [](agent.session = 1 => WayBackKept)`: in any environment, until the first process ends |
| `BooksMatchWhileUp` | `ParkingLedger_proofs` | `PipelineSpec => []BooksMatchDesktop` in every environment without crash and exit |
| `FirstSessionKeepsBooks` | `ParkingLedger_proofs` | `PipelineSpec => [](agent.session = 1 => BooksMatchDesktop)` |
| `RecordAlwaysTrue` | `ParkingLedger_proofs` | in every session, what the record calls parked has its entry, unticked, and is off the screen once its answers are heard |
| `RecoveryCompletes` | `ParkingLedger_proofs` | `PipelineSpec => RecoveryComplete`: unless an error of the ledger cut the pass short |
| `OpenEntriesKept` | `ParkingLedger_proofs` | `PipelineSpec => OpenEntryKept` |
| `OpenSwitchHasWork` | `ParkingLedger_proofs` | `PipelineSpec => []SwitchHasWork` in every environment without refused entries and closing windows: an open switch never waits for nothing |
| `PoolKeepsItsNamesPatiently` | `ParkingLedger_proofs` | `PipelineSpec => []PoolHoldsItsNames` where, besides, deletions wait until nothing is under way |
| `ShownWhereConnectedPatiently` | `ParkingLedger_proofs` | `PipelineSpec => []DisplayedOnlyWhereConnected` where, besides, switches and topologies wait until nothing is under way |
| `CommitsLand` | `ParkingLedger_proofs` | `PipelineSpec => CommitLands` where no parking and no restore is asked for beside the switches and a focus waits until nothing is under way (`SwitchesAlone`); everything else may happen at any time |
| `NeverBoth` | `ParkingLedger_proofs` | `PipelineSpec => NeverMixed` under the same hypothesis |
| `DirectoryInvariant` | `ConfigDirectory_proofs` | whatever writers, hands and crashes do, the directory keeps its type, and what a writer nobody overtook has read, filled or renamed is its own and still there |
| `DirectoryImplements` | `ConfigDirectory_proofs` | `DirectorySpec => Promise!Spec`: the directory implements `SettingsEdits` |
| `ControlInvariant` | `ControlPlane_proofs` | the inductive invariant of the control plane |
| `ControlTypeCorrect` | `ControlPlane_proofs` | `Spec => []TypeOK` |
| `EditsKeepTheirPromise` | `ControlPlane_proofs` | `Spec => EditsAtOnce`, through the shared temporary files |
| `WritesKeepTheDirectoryValid` | `ControlPlane_proofs` | `Spec => DirectoryStaysValid` |
| `AgentRunsOnValid` | `ControlPlane_proofs` | `Spec => OnlyValidGoesLive` |
| `AtRestInvariant` | `ControlPlane_proofs` | the inductive invariant of what is on its way to the reducer and back |
| `AgentFollowsTheDirectory` | `ControlPlane_proofs` | `Spec => []LiveIsWritten` |
| `BindingsAreAccountedFor` | `ControlPlane_proofs` | `Spec => []BindingsAccountedFor` |
| `HoldsInvariant` | `ControlPlane_proofs` | the inductive invariant of the capture hold |
| `HoldsAreCounted` | `ControlPlane_proofs` | `Spec => []HoldsMatchEditors` |
| `EditorsOwnTheKeys` | `ControlPlane_proofs` | `Spec => []EditorOwnsKeys` |
| `PageInvariant` | `SettingsPage_proofs` | every answer in the page's queue of calls is to the question beside it |
| `VerdictsFit` | `SettingsPage_proofs` | `Spec => []VerdictFitsCapture` |
| `TypedInvariant` | `SettingsPage_proofs` | the types of page, desk and calls; a save carries the destination its list promised; calls are answered in turn |
| `SavesLandWhereShown` | `SettingsPage_proofs` | `Spec => LandsWhereShown` |

*Assumptions.* Parking: `NoneAssumption` (`None` names nothing),
`DisplayAssumption`, `RuleTargetAssumption`, `StartAssumption`,
`StoredAssumption`, `EnvironmentAssumption` (the types of the instance) and
`ConfigsAssumption`: no configuration maps two displays to one workspace, which
validation guarantees (`DuplicateWorkspaceMapping` in
`mosaix-config/src/validate.rs`). Control: `LayersAssumption` (the types of the
shipped bindings, of the layouts commands apply and of folding),
`TokensAssumption`, `TempsAssumption`, `NoEditAssumption`, `WritersAssumption` (`Garbage`, `NoProfile`,
`Empty`, `NoFile` and `NoEdit` name nothing else), `ClientsAssumption`, `ScenariosAssumption` (the
types of the instance) and `DefaultsAssumption`: the configuration Mosaix ships
validates. Settings page: `PageAssumption` (the types of the instance, and desks
whose files validate, as an agent keeps them) and `AnswersAssumption` (no answer, a
good one and a bad one differ). TLC evaluates all of them in every run that uses
them.

*Argument, parking.* No property is inductive alone. `RequestsMatchSwitch` says that
the tokens a switch is recording are the pending requests made for it; an answer
removes one of each, which is one and the same token only if no window has two
requests pending (`OneRequestPerWindow`). `CompensationOwes` survives the end of
a switch only if a closed transaction is empty (`Shape`), and the entry into
compensation only if the restored windows it parks again are either requested
or stranded. `Good` is the conjunction, with the type of every field and
`DisplayedAtMostOnce`; `Consistent`, `Good` without `CompensationOwes`, is
what holds in the middle of a handler, between two functions it calls. There is one
lemma per function (`ReparksGood`, `SettledGood`, `FillGood`, ...) saying that it
takes a good state to a good one and one per arm of `apply`; `StepGood` collects
them. The pool has its own lemmas, at the head of the module.

For the agent the argument is that every step is a step of the reducer with
arguments of their types (`ReceiptsKeep`, `ArrivalsKeep`), a step that only takes
from its queues (`ExecuteKeeps`, `WriteKeeps`, `Quit`), a new process that starts
from a state of `GoodAlways` (`ProcessKeeps`), or leaves the reducer alone. That is
also why late answers, lost writes and crashes, which do break other properties
(see *Findings*), cannot break these.

*Argument, names and displays.* Two properties of the pool do not hold in every
environment: a commit shows its target, whatever has happened to it since the switch
was planned. `Placed` says that what displays show, windows belong to and
the memory of displays names exists, and with it the target of an open switch;
`Connected` that displays that show a workspace, and the one an open switch will show its
target on, are connected. One lemma per function says that it `Preserves` both (and `Untold`, below). Two
arms can spoil the half about the switch, the deletion of a workspace
(the guard of `delete_workspace` asks whether the workspace is displayed, not
whether it is about to be) and a topology that takes the display. `TargetSpared` and
`DisplayStays` say that they do not, of one step each; under them the properties hold
whatever else happens, late answers, stored rows and crashes included.

`ConnectRevealsNothing` rests on where a display that appears finds its workspace: among the
hidden ones with no window, in the mapping of the profile, or in what is remembered of it, which may well have
windows. Only rows of the database are ever remembered (`Untold`, preserved by all but
`WorkspacesLoaded`); `TopologyShows` follows the three functions a topology goes
through, and `StepKeepsDisplays` says that nothing else makes a display come or go.

*Argument, open switches.* Whether a deletion or a topology can meet an open switch is a
question of what is under way. `Busy` says: every pending request has its intent in
the worker's queue or its acknowledgement in the channel (`Pends`); every window in
flight has a move in the executor's queue, an answer in the channel, or an entry
the switch still records (`Flies`); an open switch has one or the other
(`Underway`). Beside the transaction a handler only adds work (`Adds`), an answer
takes the window it is about out of flight, and one lemma per arm puts the two
together (`SettledBusy`, `CompensationBusy`, ...). So nothing is under way only
when no switch is open (`QuietIsClosed`), which is `OpenSwitchHasWork`. It fails where
the worker refuses an entry [`refused_repark`], and where a window closes while
compensation writes its entry (`engine:1626`): it stays in flight, and nothing is asked
for it. Neither failing moves nor late answers, crashes, deletions or topologies do that. Where deletions wait for what is under
way, `TargetSpared` follows; for displays it takes `Undivided`, which says that no
topology is in the channel while a switch is open, because no switch is asked for while
one is. Both hypotheses hold in the run `displays`.

*Argument, ledger.* `WayBackKept`, `BooksMatchDesktop`, `OpenEntryKept` and
`RecoveryComplete` relate four things that are never in step: the ledger, the
queues between the threads, the reducer's record of parked windows and the desktop.
`ParkingFlow_proofs` follows one window. Its entries are asked for in a batch,
acknowledged, put into a park, answered, recorded, and at last owed a mark; each
stage has a rank, 4 for an acknowledgement on its way down to 0 for a mark that is
owed, and `Path` says that on this way the entries of a window stand in the order
they were recorded, each later one higher up, and that none is ticked off in the
ledger before its own mark has been taken. `Seen` says that an inventory on its way
leaves out only windows that closed, `Books` that the last answer on its way, or the
record if there is none, is where the desktop has the window. `Flow` is the
three together. Every reducer arm *plans* at most restores and new entries
(`Plans`), which keeps `Flow`; the lemmas about arms are one per function again.

`Ledgered` puts the ledger beside it: entries have distinct numbers (`Keyed`), and in
a process that is starting the plan together with what it failed on covers the open entry of every
window off the screen, unless the pass was cut (`Recoverable`). A window that is away then has a way
back: if the record has it, by `Path` its entry is unticked; if not, the answer that will put it
there is still on its way, with its entry. `OpenEntryKept` comes from the order on
the path: a mark that arrives late carries a lower number than the entry of the
park that came after it, so that it closes the older one. `WayBackKept`
and `BooksMatchDesktop` are stated of the first process: a later one
starts from what the one before left, and that may have lost a mark
[`crash_before_mark`]. What survives every crash is `RecordAlwaysTrue`, of what the
record does contain, and the two promises of the ledger itself.

*Argument, commits.* `CommitLands` and `NeverMixed` compare a switch with the desktop, which
the reducer knows from answers only, and an answer names a window, not the move it answers. With
a late answer of the switch before, both fail [`late_answer`]. Under `SwitchesAlone`
(no parking, restore or discard of a switch asked for from outside, and no focus while something is
under way: what `patient_switch` runs with) they hold, and
`Waited` says why. While a switch is open it is `Orderly`: of each window there is at
most one request, one move or one answer, and not two of them (`Spread`); the windows
queued for the way back are parked and nobody has touched them (`Queued`); those the switch has
done with are still where it left them (`Left`, `Brought`); of those in flight the one
move or answer under way is of the kind the phase waits for (`Flying`). When
compensation restores what was parked, the restores the switch had asked for before it failed
come first in the queue (`Ranked`), and what they bring back is of the target: until the last of them is
carried out, what was parked is away. A new switch starts in order because it
finds nothing under way (`BeginOrderly`), and it does find nothing, because every request of the switch
before was asked for or answered (`Entered`): no request can be left behind
that nobody would ever answer. Handlers that serve something else leave the transaction and its
windows alone (`Aside`), each arm of a receipt keeps the order (`AnswerCommits`, `FailureCommits`,
`RefusalCommits` say besides what a commit finds), and a move that is carried out turns an
entry of the queue into the answer beside it (`ExecuteWaited`). Closing windows are why
all of this speaks of windows that live, and a refused entry is a request answered by
a failure. A process that dies leaves no switch open.

*Argument, control.* The refinement maps the files to the settings in effect
(`Effective`: the merge of the two layers) and a writer to what it was asked and
whether it is done (`Asked`). The invariant that makes it work is `SeenIsCurrent`:
what a writer read of a file is still there, or somebody has marked it as raced;
for one that has written half, what is still to be written; and for one that has opened
or filled the temporary file, that the file is empty or holds its own content. Whoever opens, fills
or renames a temporary file marks every edit under way but its own as raced (`Overtaken`), so an unraced writer is never
`astray` and renames what it has put there. Then the rename of an
unraced edit turns the merge of what is there into the merge of what was planned,
and one lemma per kind of edit (`EffectOf...`, in `ConfigLayers_proofs`) says that this is the effect the
edit names: a binding set in the profile or in the base, a reset that uncovers
the layer below, a layout saved, renamed, copied, deleted. The first rename of a redirect is
the interesting one: the base gains a value the profile still covers, so the
merge reads as before and nobody sees a difference until the profile lets go.
That is also why it keeps a valid directory valid, and why a crash between the
two is harmless. `ControlInv` adds that all that waits in the reducer's queue or
in the watcher's reports validates, so that an agent that started on a valid set
stays on one; every step of the agent is one of the directory's or leaves it
alone.

`LiveIsWritten` and `BindingsAccountedFor` speak of an agent at rest; what makes
them true is about an agent that is not. `Latest` says of a queue that its last event
of a kind carries a value, or, when there is none, that the value is there already;
appending such an event sets it, any other passes it by, and the reducer taking
the head keeps it (`LatestBrought`, `LatestPassed`, `LatestTaken`). `WatchInv` says
that once the watcher has nothing to read, what it read last is *delivered* in this
sense. The delicate case is the thread of an edit, which sends what it planned
without reading the files again: whoever wrote after it has touched the directory, and
the watcher cannot have read it before the thread sent (`Debounced`), so that what
it appends is always followed by a reading. A redirect in two writes, a hand in
between and a reading that started before either are the same case. `DeadInv` is
what lets a restart begin from the directory alone: nothing of the dead process is
in a queue. `RegisteredInv` does the same for the poller: between its stop of the old
registration and the new one nothing is registered, and then what is missing is
the last report in the queue; keys without a code are on neither side,
and a registration that did not start leaves nothing registered and says so in `poller.failed`.

`HoldsMatchEditors` counts; alone it does not survive an end of capture that finds
the count at zero, which the reducer ignores. `HoldsInv` says that this does not happen: for every prefix of the queue, the holds so far with the starts and without the ends
in it are not fewer than none (`Covered`), and with the whole queue they are the
editors that hold and the dying connections that held (`Balanced`). A page holds
exactly when it captures over a live connection (`Honest`); so whoever captures makes
the count positive, and an agent at rest is then suspended with nothing registered.

*Argument, settings page.* `PageInv` puts beside each question in the queue what its
answer is about; an answer that arrives after the dialog has moved on is dropped, one
that fits is about what is shown. For a save, `TypedInv` remembers of each call the
list it was clicked from and the destination that list promised (`Promised`). The
page asks whether any listed layout *like* the name, ignoring case, is the
profile's; the agent asks for the exact name. `SaveLands` shows that they answer alike
whenever the edit is accepted: the directory the save would make validates, so no two of
its names differ only by case (`NamesDistinct`), and the only listed name like
the one saved is that name. Then the layer that is written is the one promised, or, for
a redirect, the base, and the profile's entry goes. The calls are answered in turn, which is what
keeps a confirmation beside its own question when the page takes the first answer
and the others move up.

*Only model-checked.* In the parking half `WayBackKept` and
`BooksMatchDesktop` after a process has ended, where they
do not hold in every environment. All of tiling: its
properties are about geometry and about whole exchanges, its modules use
recursive operators for trees, and the prover has no induction over them.
Liveness under fairness is out of the prover's reach everywhere.

## Plan

1. *Done*: pool, ledger, switch reducer, pipeline, recovery; tiling reducer with
   undo, trees, identity and its database; configuration directory with its
   abstract specification, watcher, hotkeys and capture; the settings page; five findings; the
   refinement of the directory, the agent's invariants in parking and control,
   the promises of the ledger, the capture hold, two of the page's promises, that
   an open switch always has work under way, that a commit follows its moves, that two
   workspaces are never mixed and that a display that appears reveals nothing, proved for every instance.
2. *Left, broader*: the switch and the tiling half in one reducer (hidden windows
   in trees, focus of a hidden workspace); a topology change or a deletion that
   overlaps a switch as a run of its own; degraded switches that unblock; window
   rules against a reference definition; the geometry of the parking site; stored
   workspaces as rows; the page before `ControlPlane` itself instead of what a client
   sees of it.
3. *Left, deeper*: a "one workspace per display, changed atomically" specification
   that a patient pipeline implements, now that `CommitsLand` and `NeverBoth` hold
   for every instance.

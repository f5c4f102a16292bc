-------------------------- MODULE ParkingPipeline --------------------------
(***************************************************************************)
(* The running agent around the reducer (crates/mosaix-agent/src/main.rs): *)
(* the executor thread that carries out park and restore effects on the    *)
(* desktop, the persistence bridge and worker that write the recovery      *)
(* ledger, the refresher that enumerates windows after the desktop moved,  *)
(* the topology forwarder, and the recovery passes at startup and at exit. *)
(* They talk to the reducer through one event channel, `inbox`, and hear   *)
(* from it through the effects and intents it publishes, which each        *)
(* consumes in order.                                                      *)
(*                                                                         *)
(* An event that carries no observation of the desktop (a user's request,  *)
(* a reloaded configuration, a health change) is sent and applied in one   *)
(* step: it may have waited in the channel for any time.  What an          *)
(* enumeration saw, what an adapter answered and what the worker wrote     *)
(* waits in `inbox` while the desktop goes on.                             *)
(*                                                                         *)
(* Bounds: what users, windows, displays and failures do costs `budget`;   *)
(* what the agent does in response is never bounded.                       *)
(***************************************************************************)
EXTENDS SwitchEngine

CONSTANTS
    Start,     \* the desktops the agent may first start on
    Stored,    \* what the state database may hold of the workspaces
    Allowed,   \* the kinds of step the environment may take
    Patient,   \* those of them that wait until nothing is under way
    Budget     \* how many such steps a behaviour may hold

(* A starting desktop: the windows that are open, the displays that are    *)
(* connected and the display each window is, or will be opened, on.        *)
ASSUME StartAssumption ==
    \A start \in Start :
        /\ start.open \subseteq Window
        /\ start.plugged \in (SUBSET Display) \ {{}}
        /\ start.seat \in [Window -> start.plugged]

(* Each member of Stored gives the names with a row, and for each the      *)
(* display the row says it was shown on.                                   *)
ASSUME StoredAssumption ==
    Stored \subseteq [names : SUBSET Workspace,
                      where : [Workspace -> Display \cup {None}]]

ASSUME EnvironmentAssumption == Patient \subseteq Allowed /\ Budget \in Nat

VARIABLES
    desktop,    \* the windows and the displays as the platform has them
    inbox,      \* the event channel into the reducer
    ledger,     \* the recovery ledger file
    lastEntry,  \* its AUTOINCREMENT counter
    agent,      \* the process: what stage it is in, and what it still owes
    dirty,      \* the desktop changed since the last enumeration
    budget

L == INSTANCE RecoveryLedger

outside == <<desktop, inbox, ledger, lastEntry, agent, dirty, budget>>
vars == <<engine, outside>>

(* "Unopened" windows have not been created yet and "Closed" ones are gone *)
(* for good.  `site` is SharedParkingSite: whether one is verified now.    *)
NativeLife == {"Unopened", "Normal", "Minimized", "Fullscreen", "Closed"}

Desktop == [life  : [Window -> NativeLife],
            place : [Window -> {"Screen", "Parked"}],
            seat  : [Window -> Display],
            plugged : SUBSET Display,
            site  : BOOLEAN]

(* mosaix_engine::Event, the events that wait in the channel. *)
Message ==
    [event : {"WindowsObserved"}, life : [Window -> Lifecycle], seat : [Window -> Display]]
    \cup [event : {"RecoveryEntryDurable", "RecoveryEntryRefused"},
          window : Window, batch : Nat, entry : Nat]
    \cup [event : {"WindowParked", "WindowParkFailed", "WindowRestored",
                   "WindowRestoreFailed"}, window : Window, entry : Nat]
    \cup [event : {"ParkingCapabilityReported"}, site : Capability]
    \cup [event : {"Plug", "Wake"}, displays : SUBSET Display, nearest : Display,
          enumerated : BOOLEAN, life : [Window -> Lifecycle], seat : [Window -> Display]]

(* An agent is Recovering before its threads start and Stopping once the   *)
(* bridge has been joined; Exiting is the recovery pass of a clean exit.   *)
(* `plan` holds the entries the pass has still to deal with and `failed`   *)
(* those it reports it could not restore; `cut` says that the last pass    *)
(* ended with an error of the ledger.  `backlog` is how many batches       *)
(* of effects the executor had read when it was paused, and `loaded` says  *)
(* that the state database has reported its workspaces.                    *)
Stage == {"Recovering", "Up", "Stopping", "Exiting"}

Alive == {w \in Window : desktop.life[w] \notin {"Unopened", "Closed"}}
AwayFromScreen == {w \in Alive : desktop.place[w] = "Parked"}

(* Every answer the desktop owes has been heard. *)
Quiet ==
    /\ inbox = << >> /\ engine.effects = << >> /\ engine.intents = << >>
    /\ ~dirty

Spend(kind) ==
    /\ kind \in Allowed
    /\ kind \in Patient => Quiet
    /\ budget > 0
    /\ budget' = budget - 1

Send(message) == inbox' = Append(inbox, message)

-----------------------------------------------------------------------------
(* Requests from the IPC server, the hotkeys, the configuration watcher    *)
(* and the state database, applied by the reducer.                         *)

Arrives(kind, arm) ==
    /\ agent.stage = "Up"
    /\ Spend(kind)
    /\ arm
    /\ UNCHANGED <<desktop, inbox, ledger, lastEntry, agent, dirty>>

UserFocuses == \E n \in Workspace, d \in Display :
    Arrives("Focus", WorkspaceFocusRequested(n, d))
UserMoves == \E n \in Workspace, d \in Display :
    Arrives("Move", WorkspaceMoveRequested(n, d))
UserCreates == \E n \in Workspace :
    Arrives("Create", WorkspaceCreateRequested(n))
UserDeletes == \E n \in Workspace :
    Arrives("Delete", WorkspaceDeleteRequested(n))
UserParks == \E w \in Window :
    Arrives("Park", ParkingAuthorizationRequested(w))
UserRestoresWindows == Arrives("RestoreWindows", RestoreParkedWindowsRequested)
UserRestoresSwitch  == Arrives("RestoreSwitch", WorkspaceSwitchRestoreRequested)

ConfigReloads == \E c \in Configs : Arrives("Config", ConfigChanged(c))
HealthChanges == \E h \in Health \ {engine.health} :
    Arrives("Health", PersistenceHealthChanged(h))

(* Only the worker's first update carries what the database holds. *)
DatabaseLoads == \E r \in Stored :
    /\ agent.stage = "Up" /\ ~agent.loaded
    /\ Spend("Load")
    /\ WorkspacesLoaded(r.names, r.where)
    /\ agent' = [agent EXCEPT !.loaded = TRUE]
    /\ UNCHANGED <<desktop, inbox, ledger, lastEntry, dirty>>

(* The executor finishes the effects it had read before it saw the pause. *)
UserPauses ==
    /\ agent.stage = "Up"
    /\ Spend("Pause")
    /\ PauseRequested
    /\ \E k \in 0..Len(engine.effects) : agent' = [agent EXCEPT !.backlog = k]
    /\ UNCHANGED <<desktop, inbox, ledger, lastEntry, dirty>>

(* Resuming is free, so that a pause is never the end of a behaviour. *)
UserResumes ==
    /\ agent.stage = "Up"
    /\ ResumeRequested
    /\ agent' = [agent EXCEPT !.backlog = 0]
    /\ UNCHANGED <<desktop, inbox, ledger, lastEntry, dirty, budget>>

-----------------------------------------------------------------------------
(* The desktop, and the refresher that enumerates it.                      *)

(* A window is created, closes, is minimized or full-screened, or comes    *)
(* back from either.  A window out at the parking site cannot fill a       *)
(* screen.                                                                 *)
WindowChanges == \E w \in Window, to \in NativeLife \ {"Unopened"} :
    LET from == desktop.life[w] IN
    /\ from # to /\ from # "Closed"
    /\ Spend(to)
    /\ from = "Unopened" => to = "Normal"
    /\ to = "Fullscreen" => desktop.place[w] = "Screen" /\ from = "Normal"
    /\ desktop' = [desktop EXCEPT !.life[w] = to]
    /\ dirty' = TRUE
    /\ UNCHANGED <<engine, inbox, ledger, lastEntry, agent>>

(* Mutant: reports windows that are not there. *)
InventoryOfAll == desktop.life

(* enumerate_windows. *)
Inventory == [w \in Window |-> IF w \in Alive THEN desktop.life[w] ELSE "Gone"]

Enumerate ==
    /\ agent.stage = "Up"
    /\ dirty
    /\ dirty' = FALSE
    /\ Send([event |-> "WindowsObserved", life |-> Inventory, seat |-> desktop.seat])
    /\ UNCHANGED <<engine, desktop, ledger, lastEntry, agent, budget>>

(* Displays come and go.  The platform moves windows off a display that    *)
(* went, the forwarder validates a site for the new topology, tells the    *)
(* reducer about the site and then about the displays; after sleep it      *)
(* reports the windows in the same event when it could enumerate them.     *)
DisplaysChange(kind) == \E new \in (SUBSET Display) \ {{}}, site \in BOOLEAN :
    \E nearest \in new, enumerated \in BOOLEAN :
        LET seat == [w \in Window |-> IF desktop.seat[w] \in new THEN desktop.seat[w]
                                      ELSE nearest]
        IN  /\ agent.stage = "Up"
            /\ Spend(kind)
            /\ kind = "Plug" => new # desktop.plugged /\ ~enumerated
            /\ desktop' = [desktop EXCEPT !.plugged = new, !.site = site, !.seat = seat]
            /\ dirty' = TRUE
            /\ inbox' = inbox \o
                 << [event |-> "ParkingCapabilityReported",
                     site |-> IF site THEN "Verified" ELSE "Refused"],
                    [event |-> kind, displays |-> new, nearest |-> nearest,
                     enumerated |-> enumerated, life |-> Inventory, seat |-> seat] >>
            /\ UNCHANGED <<engine, ledger, lastEntry, agent>>

DisplaysPlugged == DisplaysChange("Plug")
MachineWakes    == DisplaysChange("Wake")

-----------------------------------------------------------------------------
(* The executor: one effect after the other, idle while paused.            *)

NextBatch(queue, item) ==
    IF Head(queue) = {item} THEN Tail(queue)
    ELSE <<Head(queue) \ {item}>> \o Tail(queue)

ExecutorRuns ==
    /\ agent.stage \in {"Up", "Stopping"}
    /\ engine.effects # << >>
    /\ engine.paused => agent.backlog > 0

(* recovery::park needs the site and leaves a minimized window as it is;   *)
(* recovery::restore_parked_window needs the entry and the window.         *)
Performs(m) ==
    IF m.kind = "Park"
    THEN desktop.site /\ desktop.life[m.window] \in {"Normal", "Fullscreen"}
    ELSE L!MayRestore(ledger, m.entry, m.window, Alive)

Execute(m, event) ==
    /\ ExecutorRuns
    /\ m \in Head(engine.effects)
    /\ engine' = [engine EXCEPT !.effects = NextBatch(@, m)]
    /\ agent' = IF engine.paused /\ Head(engine.effects) = {m}
                THEN [agent EXCEPT !.backlog = @ - 1] ELSE agent
    /\ Send([event |-> event, window |-> m.window, entry |-> m.entry])
    /\ UNCHANGED <<ledger, lastEntry>>

Lands(m, event, place) ==
    /\ Performs(m)
    /\ Execute(m, event)
    /\ desktop' = [desktop EXCEPT !.place[m.window] = place]
    /\ dirty' = (dirty \/ desktop.place[m.window] # place)
    /\ UNCHANGED budget

Fails(m, event, kind) ==
    /\ Execute(m, event)
    /\ IF Performs(m) THEN Spend(kind) ELSE UNCHANGED budget
    /\ UNCHANGED <<desktop, dirty>>

Effects(kind) == {m \in UNION {engine.effects[i] : i \in 1..Len(engine.effects)} :
                    m.kind = kind}

ExecutePark == \E m \in Effects("Park") :
    \/ Lands(m, "WindowParked", "Parked")
    \/ Fails(m, "WindowParkFailed", "ParkFails")
ExecuteRestore == \E m \in Effects("Restore") :
    \/ Lands(m, "WindowRestored", "Screen")
    \/ Fails(m, "WindowRestoreFailed", "RestoreFails")

-----------------------------------------------------------------------------
(* The bridge and the worker: intents are written in order.  A draft that  *)
(* cannot be written is refused; a mark that cannot be written is lost.    *)

TakeIntent(i) ==
    /\ agent.stage = "Up"
    /\ engine.intents # << >>
    /\ i \in Head(engine.intents)
    /\ engine' = [engine EXCEPT !.intents = NextBatch(@, i)]
    /\ UNCHANGED <<desktop, agent, dirty>>

Acknowledge(i, event, entry) ==
    Send([event |-> event, window |-> i.window, batch |-> i.number, entry |-> entry])

Intents(kinds) == {i \in UNION {engine.intents[k] : k \in 1..Len(engine.intents)} :
                     i.kind \in kinds}

WriteDraft == \E i \in Intents({"Record"}) :
    /\ TakeIntent(i)
    /\ \/ /\ lastEntry' = lastEntry + 1
          /\ ledger' = L!Recorded(ledger, lastEntry', i.window, agent.session)
          /\ Acknowledge(i, "RecoveryEntryDurable", lastEntry')
          /\ UNCHANGED budget
       \/ /\ Spend("Refuse")
          /\ Acknowledge(i, "RecoveryEntryRefused", 0)
          /\ UNCHANGED <<ledger, lastEntry>>

WriteMark == \E i \in Intents({"MarkParked", "MarkRestored"}) :
    /\ TakeIntent(i)
    /\ \/ /\ ledger' = IF i.kind = "MarkParked" THEN L!MarkedParked(ledger, i.number)
                       ELSE L!MarkedRestored(ledger, i.number)
          /\ UNCHANGED budget
       \/ /\ Spend("MarkLost")
          /\ UNCHANGED ledger
    /\ UNCHANGED <<inbox, lastEntry>>

-----------------------------------------------------------------------------
(* The reducer takes the next event off the channel. *)

Receive(event) ==
    /\ inbox # << >>
    /\ Head(inbox).event = event
    /\ inbox' = Tail(inbox)
    /\ UNCHANGED <<desktop, ledger, lastEntry, agent, dirty, budget>>

ReceiveObservation ==
    /\ Receive("WindowsObserved")
    /\ WindowsObserved(Head(inbox).life, Head(inbox).seat)
ReceiveDurable ==
    /\ Receive("RecoveryEntryDurable")
    /\ \/ RecoveryEntryDurable(Head(inbox).batch, Head(inbox).window, Head(inbox).entry)
       \/ UnknownToken(Head(inbox).batch, Head(inbox).window)
ReceiveRefused ==
    /\ Receive("RecoveryEntryRefused")
    /\ \/ RecoveryEntryRefused(Head(inbox).batch, Head(inbox).window)
       \/ UnknownToken(Head(inbox).batch, Head(inbox).window)
ReceiveParked ==
    /\ Receive("WindowParked")
    /\ WindowParked(Head(inbox).window, Head(inbox).entry)
ReceiveParkFailed ==
    /\ Receive("WindowParkFailed")
    /\ WindowParkFailed(Head(inbox).window)
ReceiveRestored ==
    /\ Receive("WindowRestored")
    /\ WindowRestored(Head(inbox).window)
ReceiveRestoreFailed ==
    /\ Receive("WindowRestoreFailed")
    /\ WindowRestoreFailed(Head(inbox).window)
ReceiveCapability ==
    /\ Receive("ParkingCapabilityReported")
    /\ ParkingCapabilityReported(Head(inbox).site)
(* A snapshot equal to the known topology is ignored. *)
ReceiveTopology ==
    /\ Receive("Plug")
    /\ \/ DisplayTopologyChanged(Head(inbox).displays, Head(inbox).nearest)
       \/ Head(inbox).displays = engine.displays /\ UNCHANGED engine
ReceiveWake ==
    /\ Receive("Wake")
    /\ WakeReconciliation(Head(inbox).displays, Head(inbox).nearest,
                          Head(inbox).enumerated, Head(inbox).life, Head(inbox).seat)

-----------------------------------------------------------------------------
(* The process: it may be killed at any time, or stop in order.            *)

(* What a new reducer starts from, with the parking site already reported. *)
Booted(c, displays, site) ==
    {[t EXCEPT !.site = IF site THEN "Verified" ELSE "Refused"]
        : t \in BootStates(c, displays)}

(* A recovery pass plans from the open entries.  A ledger that cannot be   *)
(* opened or read ends it before it begins.                                *)
Planned(t) ==
    {[t EXCEPT !.plan = L!VerifiedEntries(ledger, Alive), !.cut = FALSE]}
    \cup {[t EXCEPT !.plan = {}, !.cut = TRUE] : kind \in Allowed \cap {"LedgerUnread"}}

(* A new process finds the ledger file and nothing else, and plans its     *)
(* recovery before it starts any thread.                                   *)
Starts ==
    /\ engine' \in Booted(engine.config, desktop.plugged, desktop.site)
    /\ inbox' = << >>
    /\ agent' \in Planned([stage |-> "Recovering", session |-> agent.session + 1,
                           plan |-> {}, failed |-> {}, cut |-> FALSE,
                           backlog |-> 0, loaded |-> FALSE])
    /\ UNCHANGED <<desktop, ledger, lastEntry, dirty>>

Crash == Spend("Crash") /\ Starts

(* The bridge stops at once: intents it has not read are never written. *)
Quit ==
    /\ agent.stage = "Up"
    /\ Spend("Quit")
    /\ engine' = [engine EXCEPT !.intents = << >>]
    /\ agent' = [agent EXCEPT !.stage = "Stopping"]
    /\ UNCHANGED <<desktop, inbox, ledger, lastEntry, dirty>>

(* The executor stops, whatever effects it has not read, and the exit pass *)
(* reads the ledger.                                                       *)
ExecutorStops ==
    /\ agent.stage = "Stopping"
    /\ agent' \in Planned([agent EXCEPT !.stage = "Exiting"])
    /\ UNCHANGED <<engine, desktop, inbox, ledger, lastEntry, dirty, budget>>

(* recover_parked_windows, for the next entry of the plan, the oldest: put *)
(* the window back, or report that it could not be.                        *)
Foremost(e) == \A f \in agent.plan : e.id <= f.id

RecoverWindow == \E e \in agent.plan :
    /\ agent.stage \in {"Recovering", "Exiting"}
    /\ Foremost(e)
    /\ e.window \in AwayFromScreen
    /\ \/ /\ desktop' = [desktop EXCEPT !.place[e.window] = "Screen"]
          /\ dirty' = TRUE
          /\ UNCHANGED <<agent, budget>>
       \/ /\ Spend("RestoreFails")
          /\ agent' = [agent EXCEPT !.plan = @ \ {e}, !.failed = @ \cup {e}]
          /\ UNCHANGED <<desktop, dirty>>
    /\ UNCHANGED <<engine, inbox, ledger, lastEntry>>

(* Then mark the entry: `mark_restored(entry_id)?`, so that a mark that    *)
(* cannot be written ends the whole pass, whatever entries are left.       *)
MarkRecovered == \E e \in agent.plan :
    /\ agent.stage \in {"Recovering", "Exiting"}
    /\ Foremost(e)
    /\ e.window \notin AwayFromScreen
    /\ \/ /\ ledger' = IF e.window \in Alive THEN L!MarkedRestored(ledger, e.id) ELSE ledger
          /\ agent' = [agent EXCEPT !.plan = @ \ {e}]
          /\ UNCHANGED budget
       \/ /\ e.window \in Alive
          /\ Spend("MarkLost")
          /\ agent' = [agent EXCEPT !.plan = {}, !.cut = TRUE]
          /\ UNCHANGED ledger
    /\ UNCHANGED <<engine, desktop, inbox, lastEntry, dirty>>

(* Startup prunes the ledger, if it can, and lets the threads go however   *)
(* the pass ended.                                                         *)
RecoveryEnds ==
    /\ agent.stage = "Recovering" /\ agent.plan = {}
    /\ agent' = [agent EXCEPT !.stage = "Up"]
    /\ \/ ledger' = L!Pruned(ledger, agent.session) /\ UNCHANGED budget
       \/ agent.cut /\ UNCHANGED <<ledger, budget>>
       \/ Spend("MarkLost") /\ UNCHANGED ledger
    /\ dirty' = TRUE
    /\ UNCHANGED <<engine, desktop, inbox, lastEntry>>

(* After a clean exit the process is gone; some day it starts again. *)
StartsAgain ==
    /\ agent.stage = "Exiting" /\ agent.plan = {}
    /\ Starts
    /\ UNCHANGED budget

-----------------------------------------------------------------------------
(* The first start: there was nothing to recover, and no window is managed *)
(* yet.                                                                    *)
PipelineInit ==
    /\ \E c \in Configs, start \in Start :
         /\ desktop = [life |-> [w \in Window |-> IF w \in start.open THEN "Normal"
                                                 ELSE "Unopened"],
                       place |-> [w \in Window |-> "Screen"],
                       seat |-> start.seat, plugged |-> start.plugged, site |-> TRUE]
         /\ engine \in Booted(c, start.plugged, TRUE)
    /\ inbox = << >>
    /\ ledger = {}
    /\ lastEntry = 0
    /\ agent = [stage |-> "Up", session |-> 1, plan |-> {}, failed |-> {}, cut |-> FALSE,
                 backlog |-> 0, loaded |-> FALSE]
    /\ dirty = TRUE
    /\ budget = Budget

Arrivals ==
    \/ UserFocuses \/ UserMoves \/ UserCreates \/ UserDeletes \/ UserParks
    \/ UserRestoresWindows \/ UserRestoresSwitch \/ UserPauses \/ UserResumes
    \/ ConfigReloads \/ DatabaseLoads \/ HealthChanges

Receipts ==
    \/ ReceiveObservation \/ ReceiveDurable \/ ReceiveRefused
    \/ ReceiveParked \/ ReceiveParkFailed \/ ReceiveRestored \/ ReceiveRestoreFailed
    \/ ReceiveCapability \/ ReceiveTopology \/ ReceiveWake

Process ==
    \/ Crash \/ Quit \/ ExecutorStops \/ StartsAgain
    \/ RecoverWindow \/ MarkRecovered \/ RecoveryEnds

PipelineNext ==
    \/ Arrivals
    \/ WindowChanges \/ DisplaysPlugged \/ MachineWakes
    \/ Enumerate \/ ExecutePark \/ ExecuteRestore \/ WriteDraft \/ WriteMark
    \/ Receipts
    \/ Process

PipelineSpec == PipelineInit /\ [][PipelineNext]_vars

(* Every thread of the agent keeps running: each takes the next thing in   *)
(* its queue sooner or later; startup and exit go through their plans.     *)
(* Users, windows, displays and failures owe nothing, and whoever ended    *)
(* the agent need not start it again.                                      *)
FairSpec ==
    /\ PipelineSpec
    /\ WF_vars(Enumerate)
    /\ WF_vars(ExecutePark \/ ExecuteRestore)
    /\ WF_vars(WriteDraft \/ WriteMark)
    /\ WF_vars(Receipts)
    /\ WF_vars(ExecutorStops \/ RecoverWindow \/ MarkRecovered \/ RecoveryEnds)

-----------------------------------------------------------------------------
(* Properties *)

(* Every variable holds a value of its type. *)
TypeOK ==
    /\ EngineTypeOK
    /\ desktop \in Desktop
    /\ inbox \in Seq(Message)
    /\ ledger \subseteq L!Entry
    /\ lastEntry \in Nat
    /\ agent \in [stage : Stage, session : Nat, plan : SUBSET L!Entry,
                  failed : SUBSET L!Entry, cut : BOOLEAN, backlog : Nat, loaded : BOOLEAN]
    /\ dirty \in BOOLEAN
    /\ budget \in 0..Budget

(* A live window that is off the screen has a recorded way back that       *)
(* nothing has ticked off: begin_workspace_switch, "The windows leave the  *)
(* screen only as their ledger entries are acknowledged durable", and the  *)
(* user's guide, "there is always a path to recover".                      *)
WayBackKept ==
    \A w \in AwayFromScreen : \E e \in ledger : e.window = w /\ ~e.restored

(* Once every answer has been heard, parked_windows says of each live      *)
(* window just what the desktop shows, however parks, restores and         *)
(* repeated requests for one window crossed in the queues.                 *)
BooksMatchDesktop ==
    agent.stage = "Up" /\ inbox = << >> =>
        \A w \in Alive : w \in Parked(engine) <=> w \in AwayFromScreen

(* What a switch has taken off the screen and put on it, when it commits   *)
(* on the next answer.                                                     *)
Leaving(sw) ==
    sw.parked \cup (IF sw.phase \in {"Recording", "Parking"} THEN sw.inFlight ELSE {})
Arriving(sw) ==
    IF sw.phase = "Restoring" THEN sw.restored \cup sw.inFlight ELSE {}

Running == agent.stage = "Up" /\ agent'.stage = "Up"

(* commit_switch "runs only once every native move has landed": when the   *)
(* assignment changes, each window the switch parked is off the screen and *)
(* each window it restored is on it.                                       *)
CommitLands ==
    [][Running /\ SwitchOpen(engine) /\ ~SwitchOpen(engine')
       /\ engine'.pool.displayed # engine.pool.displayed
       => /\ Leaving(engine.switch) \cap Alive \subseteq AwayFromScreen
          /\ Arriving(engine.switch) \cap AwayFromScreen = {}]_vars

(* "the outgoing and target workspaces are never on the monitor at once"   *)
(* (begin_switch_compensation): a window comes back on the screen during a *)
(* switch only while all windows the switch has moved of the other         *)
(* workspace are off it.                                                   *)
NeverMixed ==
    [][\A w \in Window :
        LET sw == engine.switch
            home == engine.pool.member[w]
        IN  Running /\ SwitchOpen(engine)
            /\ w \in AwayFromScreen /\ w \in Alive' /\ w \notin AwayFromScreen'
            => /\ home = sw.target   => sw.parked \cap Alive \subseteq AwayFromScreen
               /\ home = sw.outgoing => sw.restored \cap Alive \subseteq AwayFromScreen]_vars

(* "Open entries are never dropped by anything but a restore" (prune): an  *)
(* open entry is marked or removed only when its window is on the screen   *)
(* or gone, or a later entry records its way back, crashes included.       *)
OpenEntryKept ==
    [][\A e \in L!OpenEntries(ledger) :
        (\A f \in L!OpenEntries(ledger') : f.id # e.id) =>
            \/ e.window \notin AwayFromScreen
            \/ \E f \in ledger' : f.window = e.window /\ f.id > e.id /\ ~f.restored]_vars

(* A window off the screen with one open entry is reported as one that     *)
(* could not be restored.                                                  *)
AwayOnlyIfReported ==
    \A w \in AwayFromScreen :
        LET open == {e \in L!OpenEntries(ledger) : e.window = w} IN
        Cardinality(open) = 1 => open \subseteq agent.failed

(* When startup recovery lets the agent go on and no error of the ledger   *)
(* cut it short, every window that had one open entry is back on the       *)
(* screen, or is reported as not restored, no matter in which state, and   *)
(* how often, the process died before, nor what earlier passes left.       *)
RecoveryComplete ==
    [][agent.stage = "Recovering" /\ agent'.stage = "Up" /\ ~agent.cut =>
        AwayOnlyIfReported]_vars

(* "A hidden workspace with windows is never revealed by a display         *)
(* appearing" (fill_empty_displays): when the connected displays change, a *)
(* workspace that comes on screen was empty, or the profile names it.      *)
ConnectRevealsNothing ==
    [][Running /\ engine.displays # engine'.displays =>
        \A d \in Display :
            LET n == engine'.pool.displayed[d] IN
            n # None /\ ~IsDisplayed(engine.pool, n) =>
                n = engine.config.mapping[d] \/ MembersOf(engine.pool, n) = {}]_vars

(* No workspace is displayed on a display that is not connected.           *)
DisplayedOnlyWhereConnected ==
    \A d \in Display : engine.pool.displayed[d] # None => d \in engine.displays

(* "exactly one of commit_switch or finish_compensation closes it": a      *)
(* switch that was opened ends, so the next one is not refused for ever.   *)
SwitchCloses == SwitchOpen(engine) ~> ~SwitchOpen(engine) \/ agent.stage # "Up"

(* The desktop comes to show each window of a displayed workspace and no   *)
(* window of a hidden one, also when parks, restores and switches          *)
(* overlapped and when the agent ended between any two of their steps,     *)
(* unless a native move fails, or a startup recovery does not plan for a   *)
(* window that is off the screen, because its entry is not open            *)
(* (crash_before_mark), or ends before it, at a failed mark.  Nor must a   *)
(* window close: when the last one of the outgoing workspace does, its     *)
(* switch commits at once and leaves parked what was parked since the      *)
(* switch began, until the next inventory.                                 *)
MoveFailed == \E i \in 1..Len(inbox) :
    inbox[i].event \in {"WindowParkFailed", "WindowRestoreFailed"}
Undisturbed ==
    /\ ~MoveFailed
    /\ agent.stage = "Recovering" =>
         \A w \in AwayFromScreen : \E e \in agent.plan : e.window = w
    /\ \A w \in Window : desktop.life[w] # "Closed"
InPlace ==
    \A w \in Alive : desktop.life[w] = "Normal" =>
        (Hidden(engine, w) <=> w \in AwayFromScreen)
DesktopSettles == []Undisturbed => <>[](agent.stage = "Up" => InPlace)
=============================================================================

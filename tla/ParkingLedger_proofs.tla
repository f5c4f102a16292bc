------------------------ MODULE ParkingLedger_proofs ------------------------
(***************************************************************************)
(* The way back of every parked window, for every number of windows,       *)
(* workspaces and displays and every budget: the ledger, the queues, the   *)
(* record and the desktop agree on which entry brings a window home, the   *)
(* startup pass deals with what a dead process left, and nothing but a     *)
(* restore closes an entry.  Then, that an open switch always has work     *)
(* under way, and what follows where others wait for it; and, where        *)
(* switches wait their turn, that a commit follows its moves and that two  *)
(* workspaces are never on the screen together.                            *)
(***************************************************************************)
EXTENDS ParkingFlow_proofs

-----------------------------------------------------------------------------
(* The whole agent *)

FlowOf(w) == Flow(engine, inbox, w, desktop.life[w], desktop.place[w],
                  ledger, lastEntry, agent.session)

(* AUTOINCREMENT names each entry once, and a recovery plan holds entries  *)
(* of the ledger, as they were when it was made.                           *)
Keyed(entries, last, plan) ==
    /\ \A e \in entries : e.id \in 1..last
    /\ \A e, f \in entries : e.id = f.id => e = f
    /\ \A e \in plan : e.id \in 1..last /\ \A f \in entries : f.id = e.id => f.window = e.window

OpenIn(entries, w) == {e \in L!OpenEntries(entries) : e.window = w}
OpenOf(w) == OpenIn(ledger, w)

(* A recovery pass at startup that no error has cut short has still to     *)
(* deal with the one open entry of a window that is away, or has reported  *)
(* it.                                                                     *)
Recoverable ==
    agent.cut \/ \A w \in AwayFromScreen : Cardinality(OpenOf(w)) = 1 => OpenOf(w) \subseteq agent.plan \cup agent.failed

Ledgered ==
    /\ Keyed(ledger, lastEntry, agent.plan)
    /\ \A w \in Window : desktop.life[w] = "Unopened" => desktop.place[w] = "Screen"
    /\ agent.session >= 1
    /\ agent.stage \in {"Up", "Stopping"} => \A w \in Window : FlowOf(w)
    /\ agent.stage = "Exiting" /\ agent.session = 1 => WayBackKept
    /\ agent.stage = "Recovering" =>
         Resting(engine) /\ inbox = << >> /\ agent.session > 1 /\ Recoverable

(* The ledger is finite, since its entries are numbered.                   *)
LEMMA LedgerFinite ==
    ASSUME lastEntry \in Nat, NEW plan, Keyed(ledger, lastEntry, plan)
    PROVE  IsFiniteSet(ledger)
<1> DEFINE f == [e \in ledger |-> e.id]
<1>1. f \in Injection(ledger, 1..lastEntry)
  BY DEF Keyed, Injection, IsInjective
<1>2. IsFiniteSet(1..lastEntry)
  BY FS_Interval
<1> QED
  BY <1>1, <1>2, FS_Injection

(* What the ledger becomes names its entries as before.                    *)
LEMMA KeyedMarked ==
    ASSUME NEW entries \in SUBSET L!Entry, NEW last, NEW plan, Keyed(entries, last, plan),
           NEW n
    PROVE  /\ Keyed(L!MarkedParked(entries, n), last, plan)
           /\ Keyed(L!MarkedRestored(entries, n), last, plan)
<1>1. ASSUME NEW kept,
             \A f \in kept : \E e \in entries :
               /\ f.id = e.id /\ f.window = e.window
               /\ \A g \in kept : g.id = e.id => g = f
      PROVE  Keyed(kept, last, plan)
  BY <1>1 DEF Keyed
<1> DEFINE parks == [e \in entries |-> IF e.id = n THEN [e EXCEPT !.parked = TRUE] ELSE e]
           ticks == [e \in entries |-> IF e.id = n THEN [e EXCEPT !.restored = TRUE] ELSE e]
<1>2. \A e \in entries : /\ parks[e].id = e.id /\ parks[e].window = e.window
                         /\ ticks[e].id = e.id /\ ticks[e].window = e.window
  BY DEF L!Entry
<1>3. /\ L!MarkedParked(entries, n) = {parks[e] : e \in entries}
      /\ L!MarkedRestored(entries, n) = {ticks[e] : e \in entries}
  BY DEF L!MarkedParked, L!MarkedRestored
<1>. HIDE DEF parks, ticks
<1>4. \A e, f \in entries : e.id = f.id => e = f
  BY DEF Keyed
<1>5. \A g \in {parks[e] : e \in entries} : \E e \in entries :
        /\ g.id = e.id /\ g.window = e.window
        /\ \A h \in {parks[x] : x \in entries} : h.id = e.id => h = g
  BY <1>2, <1>4
<1>6. \A g \in {ticks[e] : e \in entries} : \E e \in entries :
        /\ g.id = e.id /\ g.window = e.window
        /\ \A h \in {ticks[x] : x \in entries} : h.id = e.id => h = g
  BY <1>2, <1>4
<1> QED
  BY <1>1, <1>3, <1>5, <1>6

LEMMA KeyedRecorded ==
    ASSUME NEW entries, NEW last \in Nat, NEW plan, Keyed(entries, last, plan),
           NEW w, NEW session
    PROVE  Keyed(L!Recorded(entries, last + 1, w, session), last + 1, plan)
<1> DEFINE new == [id |-> last + 1, window |-> w, session |-> session,
                   parked |-> FALSE, restored |-> FALSE]
<1>1. new.id = last + 1
  OBVIOUS
<1>2. L!Recorded(entries, last + 1, w, session) = entries \cup {new}
  BY DEF L!Recorded
<1>. HIDE DEF new
<1> QED
  BY <1>1, <1>2 DEF Keyed

LEMMA KeyedKept ==
    ASSUME NEW entries, NEW last, NEW plan, Keyed(entries, last, plan),
           NEW kept \in SUBSET entries, NEW rest \in SUBSET plan \cup entries
    PROVE  Keyed(kept, last, rest) /\ Keyed(entries, last, rest)
BY DEF Keyed

(* What the environment asks of the reducer.                               *)
LEMMA ArrivalPlans ==
    ASSUME Inductive, Arrivals
    PROVE  Plans(engine, engine')
<1>1. Good(engine) /\ engine \in EngineState
  BY DEF Inductive, Good, Consistent
<1>2. CASE UserFocuses \/ UserMoves \/ UserCreates \/ UserDeletes
  <2>1. CASE UserFocuses
    BY <1>1, <2>1, FocusPlans DEF UserFocuses, Arrives
  <2>2. CASE UserMoves \/ UserCreates \/ UserDeletes
    <3>1. PICK n, d : /\ n \in Workspace
                        /\ \/ WorkspaceMoveRequested(n, d) \/ WorkspaceCreateRequested(n)
                           \/ WorkspaceDeleteRequested(n)
      BY <2>2 DEF UserMoves, UserCreates, UserDeletes, Arrives
    <3> QED
      BY <1>1, <3>1, PoolPlans
  <2> QED
    BY <1>2, <2>1, <2>2
<1>3. CASE UserParks
  BY <1>1, <1>3, RequestPlans DEF UserParks, Arrives, ParkingAuthorizationRequested
<1>4. CASE UserRestoresWindows
  <2>1. Parked(engine) \in SUBSET Window
    BY DEF Parked
  <2> QED
    BY <1>1, <1>4, <2>1, EffectsPlan DEF UserRestoresWindows, Arrives, RestoreParkedWindowsRequested
<1>5. CASE UserRestoresSwitch
  BY <1>1, <1>5, RestoreSwitchPlans DEF UserRestoresSwitch, Arrives
<1>6. CASE UserPauses \/ UserResumes \/ HealthChanges
  BY <1>1, <1>6, FlagPlans DEF UserPauses, UserResumes, HealthChanges, Arrives, Capability, Health
<1>7. CASE ConfigReloads
  BY <1>1, <1>7, ConfigPlans DEF ConfigReloads, Arrives
<1>8. CASE DatabaseLoads
  <2>1. PICK r \in Stored : WorkspacesLoaded(r.names, r.where)
    BY <1>8 DEF DatabaseLoads
  <2>2. r.names \in SUBSET Workspace /\ r.where \in [Workspace -> Display \cup {None}]
    BY StoredAssumption
  <2> QED
    BY <1>1, <2>1, <2>2, LoadPlans DEF WorkspacesLoaded
<1> QED
  BY <1>2, <1>3, <1>4, <1>5, <1>6, <1>7, <1>8 DEF Arrivals

LEMMA ArrivalsLedgered ==
    ASSUME Inductive, Ledgered, Arrivals
    PROVE  Ledgered'
<1>1. agent \in Agent /\ engine \in EngineState
  BY DEF Inductive, OutsideTyped, Good, Consistent
<1>2. UNCHANGED <<desktop, inbox, ledger, lastEntry>>
  BY DEF Arrivals, UserFocuses, UserMoves, UserCreates, UserDeletes, UserParks,
         UserRestoresWindows, UserRestoresSwitch, ConfigReloads, HealthChanges, Arrives,
         UserPauses, UserResumes, DatabaseLoads
<1>3. /\ agent.stage = "Up" /\ agent'.stage = "Up"
      /\ agent'.session = agent.session /\ agent'.plan = agent.plan
  BY <1>1
     DEF Arrivals, UserFocuses, UserMoves, UserCreates, UserDeletes, UserParks,
         UserRestoresWindows, UserRestoresSwitch, ConfigReloads, HealthChanges, Arrives,
         UserPauses, UserResumes, DatabaseLoads, Agent
<1>4. ASSUME NEW w \in Window
      PROVE  FlowOf(w)'
  <2>1. FlowOf(w) /\ Plans(engine, engine')
    BY <1>3, ArrivalPlans DEF Ledgered
  <2> QED
    BY <1>1, <1>2, <1>3, <2>1, FlowPlans DEF FlowOf
<1> QED
  BY <1>2, <1>3, <1>4 DEF Ledgered

(* The refresher and the forwarder tell what the desktop has.              *)
LEMMA ReportFlow ==
    ASSUME Inductive, NEW q \in Seq(Message), NEW m \in Message, Reports(m) => m.life = Inventory,
           ~Reports(m) => m.event = "ParkingCapabilityReported",
           NEW w \in Window, NEW place, NEW entries, NEW last, NEW session,
           Flow(engine, q, w, desktop.life[w], place, entries, last, session)
    PROVE  Flow(engine, Append(q, m), w, desktop.life[w], place, entries, last, session)
<1>1. ~Answer(m, w) /\ m.event # "RecoveryEntryDurable"
  BY DEF Reports, Answer
<1>2. Inventory[w] = "Gone" <=> desktop.life[w] \in {"Unopened", "Closed"}
  BY DEF Inductive, OutsideTyped, Desktop, NativeLife, Inventory, Alive
<1> QED
  BY <1>1, <1>2, FlowAppend

LEMMA DesktopLedgered ==
    ASSUME Inductive, Ledgered, WindowChanges \/ DisplaysPlugged \/ MachineWakes \/ Enumerate
    PROVE  Ledgered'
<1>1. /\ engine \in EngineState /\ desktop \in Desktop /\ inbox \in Seq(Message)
      /\ desktop.life \in [Window -> NativeLife] /\ desktop.place \in [Window -> {"Screen", "Parked"}]
  BY DEF Inductive, OutsideTyped, Good, Consistent, Desktop
<1>2. CASE WindowChanges
  <2>1. PICK v \in Window, to \in NativeLife \ {"Unopened"} :
          /\ desktop.life[v] # "Closed"
          /\ desktop' = [desktop EXCEPT !.life[v] = to]
          /\ UNCHANGED <<engine, inbox, ledger, lastEntry, agent>>
    BY <1>2 DEF WindowChanges
  <2>2. /\ desktop'.place = desktop.place
        /\ \A w \in Window : desktop'.life[w] = IF w = v THEN to ELSE desktop.life[w]
    BY <1>1, <2>1 DEF Desktop
  <2>3. \A w \in Window : desktop'.life[w] = "Unopened" => desktop'.place[w] = "Screen"
    BY <2>2 DEF Ledgered
  <2>4. ASSUME NEW w \in Window, FlowOf(w)
        PROVE  FlowOf(w)'
    <3>1. /\ desktop'.life[w] # desktop.life[w] =>
               desktop'.life[w] # "Unopened" /\ desktop.life[w] # "Closed"
          /\ desktop.life[w] = "Unopened" => desktop.place[w] = "Screen"
      BY <2>1, <2>2 DEF Ledgered
    <3>2. Flow(engine, inbox, w, desktop'.life[w], desktop.place[w], ledger, lastEntry, agent.session)
      BY <1>1, <2>4, <3>1, FlowChanges DEF FlowOf
    <3> QED
      BY <2>1, <2>2, <3>2 DEF FlowOf
  <2>5. Recoverable => Recoverable'
    <3>1. \A w \in Window : w \in AwayFromScreen' => w \in AwayFromScreen
      BY <1>1, <2>1, <2>2 DEF AwayFromScreen, Alive, Ledgered
    <3> QED
      BY <2>1, <3>1 DEF Recoverable, OpenOf, OpenIn, AwayFromScreen, Alive
  <2>6. WayBackKept => WayBackKept'
    <3>1. \A w \in Window : w \in AwayFromScreen' => w \in AwayFromScreen
      BY <1>1, <2>1, <2>2 DEF AwayFromScreen, Alive, Ledgered
    <3> QED
      BY <2>1, <3>1 DEF WayBackKept, AwayFromScreen, Alive
  <2> QED
    BY <2>1, <2>3, <2>4, <2>5, <2>6 DEF Ledgered
<1>3. CASE Enumerate
  <2> DEFINE m == [event |-> "WindowsObserved", life |-> Inventory, seat |-> desktop.seat]
  <2>1. m \in Message
    BY <1>1, InventoryType DEF Message, Desktop
  <2>2. m.life = Inventory /\ Reports(m)
    BY DEF Reports
  <2>3. /\ agent.stage = "Up" /\ inbox' = Append(inbox, m)
        /\ UNCHANGED <<engine, desktop, ledger, lastEntry, agent>>
    BY <1>3 DEF Enumerate, Send
  <2>. HIDE DEF m
  <2>4. ASSUME NEW w \in Window
        PROVE  FlowOf(w)'
    <3>1. FlowOf(w)
      BY <2>3 DEF Ledgered
    <3> QED
      BY <1>1, <2>1, <2>2, <2>3, <3>1, ReportFlow DEF FlowOf
  <2> QED
    BY <2>3, <2>4 DEF Ledgered
<1>4. ASSUME NEW kind \in {"Plug", "Wake"}, DisplaysChange(kind)
      PROVE  Ledgered'
  <2>1. PICK new \in (SUBSET Display) \ {{}}, site \in BOOLEAN :
          \E near \in new, seen \in BOOLEAN :
            /\ agent.stage = "Up"
            /\ Spend(kind)
            /\ kind = "Plug" => new # desktop.plugged /\ ~seen
            /\ desktop' = [desktop EXCEPT !.plugged = new, !.site = site,
                 !.seat = [w \in Window |-> IF desktop.seat[w] \in new THEN desktop.seat[w]
                                            ELSE near]]
            /\ dirty' = TRUE
            /\ inbox' = inbox \o
                 << [event |-> "ParkingCapabilityReported",
                     site |-> IF site THEN "Verified" ELSE "Refused"],
                    [event |-> kind, displays |-> new, nearest |-> near,
                     enumerated |-> seen, life |-> Inventory,
                     seat |-> [w \in Window |-> IF desktop.seat[w] \in new
                                                THEN desktop.seat[w] ELSE near]] >>
            /\ UNCHANGED <<engine, ledger, lastEntry, agent>>
    BY <1>4, Zenon DEF DisplaysChange
  <2>2. PICK near \in new, seen \in BOOLEAN :
            /\ agent.stage = "Up"
            /\ desktop' = [desktop EXCEPT !.plugged = new, !.site = site,
                 !.seat = [w \in Window |-> IF desktop.seat[w] \in new THEN desktop.seat[w]
                                            ELSE near]]
            /\ inbox' = inbox \o
                 << [event |-> "ParkingCapabilityReported",
                     site |-> IF site THEN "Verified" ELSE "Refused"],
                    [event |-> kind, displays |-> new, nearest |-> near,
                     enumerated |-> seen, life |-> Inventory,
                     seat |-> [w \in Window |-> IF desktop.seat[w] \in new
                                                THEN desktop.seat[w] ELSE near]] >>
            /\ UNCHANGED <<engine, ledger, lastEntry, agent>>
    BY <2>1
  <2> DEFINE seat == [w \in Window |-> IF desktop.seat[w] \in new THEN desktop.seat[w] ELSE near]
             first == [event |-> "ParkingCapabilityReported",
                       site |-> IF site THEN "Verified" ELSE "Refused"]
             second == [event |-> kind, displays |-> new, nearest |-> near,
                        enumerated |-> seen, life |-> Inventory, seat |-> seat]
  <2>3. seat \in [Window -> Display]
    BY <1>1 DEF Desktop
  <2>4. /\ agent.stage = "Up"
        /\ desktop' = [desktop EXCEPT !.plugged = new, !.site = site, !.seat = seat]
        /\ inbox' = inbox \o <<first, second>>
        /\ UNCHANGED <<engine, ledger, lastEntry, agent>>
    BY <2>2
  <2>. HIDE DEF seat
  <2>5. desktop'.life = desktop.life /\ desktop'.place = desktop.place
    BY <1>1, <2>4 DEF Desktop
  <2>6. first \in Message /\ first.event = "ParkingCapabilityReported"
    BY DEF Message, Capability
  <2>7. second \in Message /\ Reports(second) /\ second.life = Inventory
    BY <1>1, <2>3, InventoryType DEF Message, Reports
  <2>. HIDE DEF first, second
  <2>8. Append(inbox, first) \in Seq(Message) /\ inbox' = Append(Append(inbox, first), second)
    BY <1>1, <2>4, <2>6, <2>7
  <2>9. ASSUME NEW w \in Window
        PROVE  FlowOf(w)'
    <3>1. Flow(engine, inbox, w, desktop.life[w], desktop.place[w], ledger, lastEntry, agent.session)
      BY <2>4 DEF Ledgered, FlowOf
    <3>2. Flow(engine, Append(inbox, first), w, desktop.life[w], desktop.place[w],
               ledger, lastEntry, agent.session)
      BY <1>1, <2>6, <3>1, ReportFlow DEF Reports
    <3>3. Flow(engine, inbox', w, desktop.life[w], desktop.place[w],
               ledger, lastEntry, agent.session)
      BY <2>7, <2>8, <3>2, ReportFlow
    <3> QED
      BY <2>4, <2>5, <3>3 DEF FlowOf
  <2> QED
    BY <2>4, <2>5, <2>9 DEF Ledgered
<1> QED
  BY <1>2, <1>3, <1>4 DEF DisplaysPlugged, MachineWakes

(* The executor takes a move off the queue and answers.                    *)
LEMMA ExecuteTakes ==
    ASSUME Inductive, NEW m, NEW event, Execute(m, event),
           event \in {"WindowParked", "WindowParkFailed", "WindowRestored", "WindowRestoreFailed"}
    PROVE  /\ m \in Move /\ engine.effects # << >> /\ m \in Head(engine.effects)
           /\ engine'.effects = NextBatch(engine.effects, m)
           /\ engine'.parked = engine.parked /\ engine'.life = engine.life
           /\ engine'.intents = engine.intents
           /\ agent'.stage = agent.stage /\ agent'.session = agent.session
           /\ agent'.plan = agent.plan /\ agent.stage \in {"Up", "Stopping"}
           /\ UNCHANGED <<ledger, lastEntry>>
           /\ \E answer \in Message :
                /\ answer.event = event /\ answer.window = m.window /\ answer.entry = m.entry
                /\ inbox' = Append(inbox, answer)
<1>1. /\ engine \in EngineState /\ engine.effects \in Seq(SUBSET Move) /\ agent \in Agent
  BY FieldTypes DEF Inductive, OutsideTyped, Good, Consistent
<1>2. engine.effects # << >> /\ m \in Head(engine.effects) /\ agent.stage \in {"Up", "Stopping"}
  BY DEF Execute, ExecutorRuns
<1>3. m \in Move
  BY <1>1, <1>2
<1>4. /\ engine'.effects = NextBatch(engine.effects, m)
      /\ engine'.parked = engine.parked /\ engine'.life = engine.life
      /\ engine'.intents = engine.intents
  <2> DEFINE left == NextBatch(engine.effects, m)
  <2>1. engine' = [engine EXCEPT !.effects = left]
    BY DEF Execute
  <2>. HIDE DEF left
  <2>2. engine'.effects = left
    BY <1>1, <2>1 DEF EngineState
  <2> QED
    BY <1>1, <2>1, <2>2 DEF EngineState, left
<1>5. /\ agent'.stage = agent.stage /\ agent'.session = agent.session
      /\ agent'.plan = agent.plan
  BY <1>1 DEF Execute, Agent
<1> DEFINE answer == [event |-> event, window |-> m.window, entry |-> m.entry]
<1>6. answer \in Message
  BY <1>3 DEF Message, Move
<1>7. answer.event = event /\ answer.window = m.window /\ answer.entry = m.entry
  OBVIOUS
<1>8. inbox' = Append(inbox, answer) /\ UNCHANGED <<ledger, lastEntry>>
  BY DEF Execute, Send
<1>. HIDE DEF answer
<1> QED
  BY <1>2, <1>3, <1>4, <1>5, <1>6, <1>7, <1>8

LEMMA ExecuteLedgered ==
    ASSUME Inductive, Ledgered, ExecutePark \/ ExecuteRestore
    PROVE  Ledgered'
<1>1. /\ engine \in EngineState /\ desktop \in Desktop /\ inbox \in Seq(Message)
      /\ desktop.life \in [Window -> NativeLife] /\ desktop.place \in [Window -> {"Screen", "Parked"}]
  BY DEF Inductive, OutsideTyped, Good, Consistent, Desktop
<1>2. ASSUME NEW m, m.kind = "Park", Lands(m, "WindowParked", "Parked")
      PROVE  Ledgered'
  <2>1. /\ Performs(m) /\ Execute(m, "WindowParked")
        /\ desktop' = [desktop EXCEPT !.place[m.window] = "Parked"]
    BY <1>2 DEF Lands
  <2>2. PICK answer \in Message :
          /\ answer.event = "WindowParked" /\ answer.window = m.window /\ answer.entry = m.entry
          /\ inbox' = Append(inbox, answer)
    BY <2>1, ExecuteTakes
  <2>3. /\ m \in Move /\ engine.effects # << >> /\ m \in Head(engine.effects)
        /\ engine'.effects = NextBatch(engine.effects, m)
        /\ engine'.parked = engine.parked /\ engine'.life = engine.life
        /\ engine'.intents = engine.intents
        /\ agent'.stage = agent.stage /\ agent'.session = agent.session
        /\ agent'.plan = agent.plan /\ agent.stage \in {"Up", "Stopping"}
        /\ UNCHANGED <<ledger, lastEntry>>
    BY <2>1, ExecuteTakes
  <2>4. m = ParkOf(m.window, m.entry) /\ m.window \in Window /\ m.entry \in Nat
    BY <1>2, <2>3 DEF Move, ParkOf
  <2>5. /\ desktop'.life = desktop.life
        /\ \A w \in Window : desktop'.place[w] = IF w = m.window THEN "Parked" ELSE desktop.place[w]
    BY <1>1, <2>1, <2>4 DEF Desktop
  <2>6. desktop.life[m.window] # "Unopened"
    BY <1>2, <2>1 DEF Performs
  <2>7. Tells(answer, "WindowParked", m.window, m.entry)
    BY <2>2 DEF Tells
  <2>8. ASSUME NEW w \in Window, FlowOf(w)
        PROVE  FlowOf(w)'
    <3>1. Flow(engine', inbox', w, desktop.life[w],
               IF w = m.window THEN "Parked" ELSE desktop.place[w],
               ledger, lastEntry, agent.session)
      <4> DEFINE v == m.window
                 n == m.entry
      <4>1. v \in Window /\ n \in Nat /\ ParkOf(v, n) \in Head(engine.effects)
            /\ engine'.effects = NextBatch(engine.effects, ParkOf(v, n))
            /\ Tells(answer, "WindowParked", v, n)
        BY <2>3, <2>4, <2>7
      <4>. HIDE DEF v, n
      <4>2. Flow(engine', inbox', w, desktop.life[w],
                 IF w = v THEN "Parked" ELSE desktop.place[w], ledger, lastEntry, agent.session)
        BY <1>1, <2>2, <2>3, <2>8, <4>1, FlowParked DEF FlowOf
      <4> QED
        BY <4>2 DEF v
    <3> QED
      BY <2>3, <2>5, <3>1 DEF FlowOf
  <2> QED
    BY <2>3, <2>5, <2>6, <2>8 DEF Ledgered
<1>3. ASSUME NEW m, m.kind = "Restore", Lands(m, "WindowRestored", "Screen")
      PROVE  Ledgered'
  <2>1. /\ Execute(m, "WindowRestored")
        /\ desktop' = [desktop EXCEPT !.place[m.window] = "Screen"]
    BY <1>3 DEF Lands
  <2>2. PICK answer \in Message :
          /\ answer.event = "WindowRestored" /\ answer.window = m.window /\ answer.entry = m.entry
          /\ inbox' = Append(inbox, answer)
    BY <2>1, ExecuteTakes
  <2>3. /\ m \in Move /\ engine.effects # << >> /\ m \in Head(engine.effects)
        /\ engine'.effects = NextBatch(engine.effects, m)
        /\ engine'.parked = engine.parked /\ engine'.life = engine.life
        /\ engine'.intents = engine.intents
        /\ agent'.stage = agent.stage /\ agent'.session = agent.session
        /\ agent'.plan = agent.plan /\ agent.stage \in {"Up", "Stopping"}
        /\ UNCHANGED <<ledger, lastEntry>>
    BY <2>1, ExecuteTakes
  <2>4. /\ desktop'.life = desktop.life
        /\ \A w \in Window : desktop'.place[w] = IF w = m.window THEN "Screen" ELSE desktop.place[w]
    BY <1>1, <2>1, <2>3 DEF Desktop, Move
  <2>5. ASSUME NEW w \in Window, FlowOf(w)
        PROVE  FlowOf(w)'
    <3> DEFINE v == m.window
    <3>1. answer.window = v
      BY <2>2
    <3>2. Flow(engine', inbox, w, desktop.life[w], desktop.place[w], ledger, lastEntry, agent.session)
      BY <1>1, <2>3, <2>5, FlowEffectTaken DEF FlowOf
    <3>3. desktop'.place[w] = IF w = v THEN "Screen" ELSE desktop.place[w]
      BY <2>4
    <3>. HIDE DEF v
    <3>4. Flow(engine', inbox', w, desktop.life[w], IF w = v THEN "Screen" ELSE desktop.place[w],
               ledger, lastEntry, agent.session)
      BY <1>1, <2>2, <3>1, <3>2, FlowCameBack
    <3> QED
      BY <2>3, <2>4, <3>3, <3>4 DEF FlowOf
  <2> QED
    BY <2>3, <2>4, <2>5 DEF Ledgered
<1>4. ASSUME NEW m, NEW event \in {"WindowParkFailed", "WindowRestoreFailed"}, NEW kind,
             Fails(m, event, kind)
      PROVE  Ledgered'
  <2>1. Execute(m, event) /\ UNCHANGED desktop
    BY <1>4 DEF Fails
  <2>2. PICK answer \in Message :
          /\ answer.event = event /\ answer.window = m.window /\ answer.entry = m.entry
          /\ inbox' = Append(inbox, answer)
    BY <2>1, ExecuteTakes
  <2>3. /\ engine.effects # << >> /\ m \in Head(engine.effects)
        /\ engine'.effects = NextBatch(engine.effects, m)
        /\ engine'.parked = engine.parked /\ engine'.life = engine.life
        /\ engine'.intents = engine.intents
        /\ agent'.stage = agent.stage /\ agent'.session = agent.session
        /\ agent'.plan = agent.plan /\ agent.stage \in {"Up", "Stopping"}
        /\ UNCHANGED <<ledger, lastEntry>>
    BY <2>1, ExecuteTakes
  <2>4. ASSUME NEW w \in Window, FlowOf(w)
        PROVE  FlowOf(w)'
    <3>1. Flow(engine', inbox, w, desktop.life[w], desktop.place[w], ledger, lastEntry, agent.session)
      BY <1>1, <2>3, <2>4, FlowEffectTaken DEF FlowOf
    <3>2. ~Answer(answer, w) /\ answer.event # "RecoveryEntryDurable" /\ ~Reports(answer)
      BY <2>2 DEF Answer, Reports
    <3>3. Flow(engine', inbox', w, desktop.life[w], desktop.place[w], ledger, lastEntry, agent.session)
      BY <1>1, <2>2, <3>1, <3>2, FlowAppend
    <3> QED
      BY <2>1, <2>3, <3>3 DEF FlowOf
  <2> QED
    BY <2>1, <2>3, <2>4 DEF Ledgered
<1>5. \A m : (m \in Effects("Park") => m.kind = "Park") /\ (m \in Effects("Restore") => m.kind = "Restore")
  BY DEF Effects
<1> QED
  BY <1>2, <1>3, <1>4, <1>5 DEF ExecutePark, ExecuteRestore

(* The bridge takes an intent off the queue.                               *)
LEMMA BridgeTakes ==
    ASSUME Inductive, NEW i, TakeIntent(i)
    PROVE  /\ i \in Intent /\ engine.intents # << >> /\ i \in Head(engine.intents)
           /\ engine'.intents = NextBatch(engine.intents, i)
           /\ engine'.parked = engine.parked /\ engine'.life = engine.life
           /\ engine'.effects = engine.effects
           /\ agent.stage = "Up" /\ UNCHANGED <<desktop, agent>>
<1>1. engine \in EngineState /\ engine.intents \in Seq(SUBSET Intent)
  BY FieldTypes DEF Inductive, Good, Consistent
<1>2. engine.intents # << >> /\ i \in Head(engine.intents) /\ agent.stage = "Up" /\ UNCHANGED <<desktop, agent>>
  BY DEF TakeIntent
<1>3. i \in Intent
  BY <1>1, <1>2
<1> DEFINE left == NextBatch(engine.intents, i)
<1>4. engine' = [engine EXCEPT !.intents = left]
  BY DEF TakeIntent
<1>. HIDE DEF left
<1>5. engine'.intents = left
  BY <1>1, <1>4 DEF EngineState
<1>6. /\ engine'.parked = engine.parked /\ engine'.life = engine.life
      /\ engine'.effects = engine.effects
  BY <1>1, <1>4 DEF EngineState
<1> QED
  BY <1>2, <1>3, <1>5, <1>6 DEF left

(* A mark on its way ticks off the entry of its own window.                *)
LEMMA MarkIsOwn ==
    ASSUME Inductive, Ledgered, NEW i, TakeIntent(i), i.kind = "MarkRestored"
    PROVE  /\ Owed(engine, i.window, i.number)
           /\ \A e \in ledger : e.id = i.number => e.window = i.window
<1>1. /\ i \in Intent /\ engine.intents # << >> /\ i \in Head(engine.intents)
      /\ agent.stage = "Up"
  BY BridgeTakes
<1>2. engine.intents \in Seq(SUBSET Intent)
  BY FieldTypes DEF Inductive, Good, Consistent
<1>3. i = MarkOf(i.window, i.number) /\ i.window \in Window /\ i.number \in Nat
  BY <1>1 DEF Intent, MarkOf
<1>4. 1 \in 1..Len(engine.intents) /\ i \in engine.intents[1]
  BY <1>1, <1>2
<1>5. Owed(engine, i.window, i.number)
  BY <1>3, <1>4 DEF Owed
<1>6. At(engine, inbox, 0, 0, i.window, i.number)
  BY <1>5 DEF At
<1>7. Recorded(engine, inbox, i.window, ledger, lastEntry)
  BY <1>1, <1>3 DEF Ledgered, FlowOf, Flow, Path
<1>8. Assigned(ledger, lastEntry, i.window, i.number)
  BY <1>3, <1>6, <1>7 DEF Recorded, Rank
<1> QED
  BY <1>5, <1>8 DEF Assigned

LEMMA WriteLedgered ==
    ASSUME Inductive, Ledgered, WriteDraft \/ WriteMark
    PROVE  Ledgered'
<1>1. /\ engine \in EngineState /\ inbox \in Seq(Message) /\ ledger \in SUBSET L!Entry
      /\ lastEntry \in Nat
  BY DEF Inductive, OutsideTyped, Good, Consistent
<1>2. ASSUME NEW i, TakeIntent(i), NEW w \in Window
      PROVE  Flow(engine', inbox, w, desktop.life[w], desktop.place[w], ledger, lastEntry, agent.session)
  <2>1. /\ engine.intents # << >> /\ i \in Head(engine.intents)
        /\ engine'.intents = NextBatch(engine.intents, i)
        /\ engine'.parked = engine.parked /\ engine'.life = engine.life
        /\ engine'.effects = engine.effects
        /\ agent.stage = "Up"
    BY <1>2, BridgeTakes
  <2> QED
    BY <1>1, <2>1, FlowIntentTaken DEF Ledgered, FlowOf
<1>3. CASE WriteDraft
  <2>1. PICK i :
          /\ TakeIntent(i)
          /\ \/ /\ lastEntry' = lastEntry + 1
                /\ ledger' = L!Recorded(ledger, lastEntry', i.window, agent.session)
                /\ Acknowledge(i, "RecoveryEntryDurable", lastEntry')
             \/ /\ Acknowledge(i, "RecoveryEntryRefused", 0)
                /\ UNCHANGED <<ledger, lastEntry>>
    BY <1>3 DEF WriteDraft
  <2>2. i \in Intent /\ agent.stage = "Up" /\ UNCHANGED <<desktop, agent>>
    BY <2>1, BridgeTakes
  <2>3. CASE /\ lastEntry' = lastEntry + 1
             /\ ledger' = L!Recorded(ledger, lastEntry', i.window, agent.session)
             /\ Acknowledge(i, "RecoveryEntryDurable", lastEntry')
    <3> DEFINE m == [event |-> "RecoveryEntryDurable", window |-> i.window,
                     batch |-> i.number, entry |-> lastEntry + 1]
               v == i.window
    <3>1. m \in Message
      BY <1>1, <2>2 DEF Message, Intent
    <3>2. Tells(m, "RecoveryEntryDurable", v, lastEntry + 1)
      BY DEF Tells
    <3>3. /\ inbox' = Append(inbox, m)
          /\ ledger' = L!Recorded(ledger, lastEntry + 1, v, agent.session)
      BY <2>3 DEF Acknowledge, Send
    <3>. HIDE DEF m, v
    <3>4. \A e \in ledger : e.id \in 1..lastEntry
      BY DEF Ledgered, Keyed
    <3>5. ASSUME NEW w \in Window
          PROVE  FlowOf(w)'
      <4>1. Flow(engine', inbox, w, desktop.life[w], desktop.place[w], ledger, lastEntry,
                 agent.session)
        BY <1>2, <2>1
      <4>2. Flow(engine', inbox', w, desktop.life[w], desktop.place[w], ledger', lastEntry',
                 agent.session)
        BY <1>1, <2>3, <3>1, <3>2, <3>3, <3>4, <4>1, FlowDrafted
      <4> QED
        BY <2>2, <4>2 DEF FlowOf
    <3>6. Keyed(ledger', lastEntry', agent.plan)
      BY <1>1, <2>3, <3>3, KeyedRecorded DEF Ledgered
    <3> QED
      BY <2>2, <3>5, <3>6 DEF Ledgered
  <2>4. CASE Acknowledge(i, "RecoveryEntryRefused", 0) /\ UNCHANGED <<ledger, lastEntry>>
    <3> DEFINE m == [event |-> "RecoveryEntryRefused", window |-> i.window,
                     batch |-> i.number, entry |-> 0]
    <3>1. m \in Message
      BY <2>2 DEF Message, Intent
    <3>2. m.event = "RecoveryEntryRefused" /\ inbox' = Append(inbox, m)
      BY <2>4 DEF Acknowledge, Send
    <3>. HIDE DEF m
    <3>3. ASSUME NEW w \in Window
          PROVE  FlowOf(w)'
      <4>1. Flow(engine', inbox, w, desktop.life[w], desktop.place[w], ledger, lastEntry,
                 agent.session)
        BY <1>2, <2>1
      <4>2. ~Answer(m, w) /\ m.event # "RecoveryEntryDurable" /\ ~Reports(m)
        BY <3>2 DEF Answer, Reports
      <4>3. Flow(engine', inbox', w, desktop.life[w], desktop.place[w], ledger, lastEntry,
                 agent.session)
        BY <1>1, <3>1, <3>2, <4>1, <4>2, FlowAppend
      <4> QED
        BY <2>2, <2>4, <4>3 DEF FlowOf
    <3> QED
      BY <2>2, <2>4, <3>3 DEF Ledgered
  <2> QED
    BY <2>1, <2>3, <2>4
<1>4. CASE WriteMark
  <2>1. PICK i \in Intents({"MarkParked", "MarkRestored"}) :
          /\ TakeIntent(i)
          /\ \/ ledger' = IF i.kind = "MarkParked" THEN L!MarkedParked(ledger, i.number)
                          ELSE L!MarkedRestored(ledger, i.number)
             \/ UNCHANGED ledger
          /\ UNCHANGED <<inbox, lastEntry>>
    BY <1>4 DEF WriteMark
  <2>2. i \in Intent /\ agent.stage = "Up" /\ UNCHANGED <<desktop, agent>>
    BY <2>1, BridgeTakes
  <2>3. i.kind \in {"MarkParked", "MarkRestored"} /\ i.number \in Nat
    BY <2>1, <2>2 DEF Intents, Intent
  <2>4. CASE UNCHANGED ledger
    <3>1. ASSUME NEW w \in Window
          PROVE  FlowOf(w)'
      BY <1>2, <2>1, <2>2, <2>4 DEF FlowOf
    <3> QED
      BY <2>1, <2>2, <2>4, <3>1 DEF Ledgered
  <2>5. CASE i.kind = "MarkParked" /\ ledger' = L!MarkedParked(ledger, i.number)
    <3>1. \A e \in ledger : \E f \in ledger' :
             f.id = e.id /\ f.window = e.window /\ f.restored = e.restored
      <4> SUFFICES ASSUME NEW e \in ledger
                   PROVE  \E f \in ledger' :
                     f.id = e.id /\ f.window = e.window /\ f.restored = e.restored
        OBVIOUS
      <4> DEFINE n == i.number
                 f == IF e.id = n THEN [e EXCEPT !.parked = TRUE] ELSE e
      <4>1. f.id = e.id /\ f.window = e.window /\ f.restored = e.restored
        BY <1>1 DEF L!Entry
      <4>2. f \in ledger'
        BY <2>5 DEF L!MarkedParked
      <4>. HIDE DEF f
      <4> QED
        BY <4>1, <4>2
    <3>2. \A f \in ledger' : \E e \in ledger : e.id = f.id /\ e.window = f.window
      BY <1>1, <2>5 DEF L!MarkedParked, L!Entry
    <3>3. ASSUME NEW w \in Window
          PROVE  FlowOf(w)'
      <4>1. Flow(engine', inbox, w, desktop.life[w], desktop.place[w], ledger, lastEntry,
                 agent.session)
        BY <1>2, <2>1
      <4>2. Path(engine', inbox, w, ledger', lastEntry)
        BY <1>1, <3>1, <3>2, <4>1, PathLedger DEF Flow
      <4> QED
        BY <2>1, <2>2, <4>1, <4>2 DEF FlowOf, Flow
    <3>4. Keyed(ledger', lastEntry, agent.plan)
      BY <1>1, <2>5, KeyedMarked DEF Ledgered
    <3> QED
      BY <2>1, <2>2, <3>3, <3>4 DEF Ledgered
  <2>6. CASE i.kind = "MarkRestored" /\ ledger' = L!MarkedRestored(ledger, i.number)
    <3>1. /\ Owed(engine, i.window, i.number)
          /\ \A e \in ledger : e.id = i.number => e.window = i.window
      BY <2>1, <2>6, MarkIsOwn
    <3>2. ASSUME NEW w \in Window
          PROVE  FlowOf(w)'
      <4>1. Flow(engine, inbox, w, desktop.life[w], desktop.place[w], ledger, lastEntry,
                 agent.session)
        BY <2>2 DEF Ledgered, FlowOf
      <4>2. Path(engine, inbox, w, ledger', lastEntry)
        <5> DEFINE v == i.window
                   n == i.number
        <5>1. Owed(engine, v, n) /\ (\A e \in ledger : e.id = n => e.window = v) /\ n \in Nat
              /\ ledger' = L!MarkedRestored(ledger, n)
          BY <2>3, <2>6, <3>1
        <5>. HIDE DEF v, n
        <5> QED
          BY <1>1, <4>1, <5>1, PathMarked DEF Flow
      <4>3. Flow(engine, inbox, w, desktop.life[w], desktop.place[w], ledger', lastEntry,
                 agent.session)
        BY <4>1, <4>2 DEF Flow
      <4>4. /\ engine.intents # << >> /\ i \in Head(engine.intents)
            /\ engine'.intents = NextBatch(engine.intents, i)
            /\ engine'.parked = engine.parked /\ engine'.life = engine.life
            /\ engine'.effects = engine.effects
        BY <2>1, BridgeTakes
      <4>5. Flow(engine', inbox, w, desktop.life[w], desktop.place[w], ledger', lastEntry,
                 agent.session)
        BY <1>1, <4>3, <4>4, FlowIntentTaken
      <4> QED
        BY <2>1, <2>2, <4>5 DEF FlowOf
    <3>3. Keyed(ledger', lastEntry, agent.plan)
      BY <1>1, <2>6, KeyedMarked DEF Ledgered
    <3> QED
      BY <2>1, <2>2, <3>2, <3>3 DEF Ledgered
  <2> QED
    BY <2>1, <2>3, <2>4, <2>5, <2>6
<1> QED
  BY <1>3, <1>4

(* The reducer takes an event off the channel.                             *)
LEMMA ReceiptsLedgered ==
    ASSUME Inductive, Ledgered, Receipts
    PROVE  Ledgered'
<1>1. PICK event : Receive(event)
  BY DEF Receipts, ReceiveObservation, ReceiveDurable, ReceiveRefused, ReceiveParked,
         ReceiveParkFailed, ReceiveRestored, ReceiveRestoreFailed, ReceiveCapability,
         ReceiveTopology, ReceiveWake
<1>2. /\ inbox # << >> /\ inbox' = Tail(inbox) /\ inbox \in Seq(Message)
      /\ UNCHANGED <<desktop, ledger, lastEntry, agent>>
      /\ Good(engine) /\ engine \in EngineState /\ lastEntry \in Nat
  BY <1>1 DEF Receive, Inductive, OutsideTyped, Good, Consistent
<1>3. agent.stage # "Recovering"
  BY <1>2 DEF Ledgered
<1> DEFINE m == Head(inbox)
<1>4. m \in Message
  BY <1>2
<1>5. ASSUME NEW w \in Window, FlowOf(w)
      PROVE  FlowOf(w)'
  <2> DEFINE life == desktop.life[w]
             place == desktop.place[w]
  <2>1. Flow(engine, inbox, w, life, place, ledger, lastEntry, agent.session)
    BY <1>5 DEF FlowOf
  <2> SUFFICES Flow(engine', Tail(inbox), w, life, place, ledger, lastEntry, agent.session)
    BY <1>2 DEF FlowOf
  <2>. HIDE DEF life, place
  <2>2. ASSUME Plans(engine, engine'), ~Answer(m, w)
        PROVE  Flow(engine', Tail(inbox), w, life, place, ledger, lastEntry, agent.session)
    <3>1. Flow(engine, Tail(inbox), w, life, place, ledger, lastEntry, agent.session)
      BY <1>2, <2>1, <2>2, FlowTail
    <3> QED
      BY <1>2, <2>2, <3>1, FlowPlans
  <2>3. CASE ReceiveObservation
    <3>1. m.event = "WindowsObserved" /\ engine' = ReplaceInventory(engine, m.life, m.seat)
      BY <2>3 DEF ReceiveObservation, Receive, WindowsObserved
    <3>2. m.life \in [Window -> Lifecycle] /\ m.seat \in [Window -> Display] /\ Reports(Head(inbox))
      BY <1>4, <3>1 DEF Message, Reports
    <3>3. m.life = Head(inbox).life
      OBVIOUS
    <3>. HIDE DEF m
    <3> QED
      BY <1>2, <2>1, <3>1, <3>2, <3>3, InventoryFlow
  <2>4. CASE ReceiveDurable
    <3>1. /\ m.event = "RecoveryEntryDurable"
          /\ RecoveryEntryDurable(m.batch, m.window, m.entry) \/ UNCHANGED engine
      BY <2>4 DEF ReceiveDurable, Receive, UnknownToken
    <3>2. m.batch \in Nat /\ m.window \in Window /\ m.entry \in Nat
      BY <1>4, <3>1 DEF Message
    <3>3. Tells(Head(inbox), "RecoveryEntryDurable", m.window, m.entry)
      BY <3>1 DEF Tells
    <3>4. CASE RecoveryEntryDurable(m.batch, m.window, m.entry)
      <4>. HIDE DEF m
      <4> QED
        BY <1>2, <2>1, <3>2, <3>3, <3>4, DurableFlow
    <3>5. CASE UNCHANGED engine
      <4>1. ~Answer(m, w) /\ Plans(engine, engine')
        BY <1>2, <3>1, <3>5, PlansSame DEF Answer
      <4> QED
        BY <2>2, <4>1
    <3> QED
      BY <3>1, <3>4, <3>5
  <2>5. CASE ReceiveRefused
    <3>1. /\ m.event = "RecoveryEntryRefused"
          /\ RecoveryEntryRefused(m.batch, m.window) \/ UNCHANGED engine
      BY <2>5 DEF ReceiveRefused, Receive, UnknownToken
    <3>2. m.batch \in Nat /\ m.window \in Window
      BY <1>4, <3>1 DEF Message
    <3>3. ~Answer(m, w)
      BY <3>1 DEF Answer
    <3>. HIDE DEF m
    <3> QED
      BY <1>2, <2>2, <3>1, <3>2, <3>3, RefusedPlans, PlansSame
  <2>6. CASE ReceiveParked
    <3>1. m.event = "WindowParked" /\ WindowParked(m.window, m.entry)
      BY <2>6 DEF ReceiveParked, Receive
    <3>2. m.window \in Window /\ m.entry \in Nat
      BY <1>4, <3>1 DEF Message
    <3>3. Tells(Head(inbox), "WindowParked", m.window, m.entry)
      BY <3>1 DEF Tells
    <3>. HIDE DEF m
    <3> QED
      BY <1>2, <2>1, <3>1, <3>2, <3>3, ParkedFlow
  <2>7. CASE ReceiveRestored
    <3>1. m.event = "WindowRestored" /\ WindowRestored(m.window)
      BY <2>7 DEF ReceiveRestored, Receive
    <3>2. m.window \in Window
      BY <1>4, <3>1 DEF Message
    <3>3. Head(inbox).event = "WindowRestored" /\ Head(inbox).window = m.window
      BY <3>1
    <3>. HIDE DEF m
    <3> QED
      BY <1>2, <2>1, <3>1, <3>2, <3>3, RestoredFlow
  <2>8. CASE ReceiveParkFailed \/ ReceiveRestoreFailed
    <3>1. /\ m.event \in {"WindowParkFailed", "WindowRestoreFailed"}
          /\ WindowParkFailed(m.window) \/ WindowRestoreFailed(m.window)
      BY <2>8 DEF ReceiveParkFailed, ReceiveRestoreFailed, Receive
    <3>2. m.window \in Window
      BY <1>4, <3>1 DEF Message
    <3>3. ~Answer(m, w)
      BY <3>1 DEF Answer
    <3>. HIDE DEF m
    <3> QED
      BY <1>2, <2>2, <3>1, <3>2, <3>3, FailedPlans
  <2>9. CASE ReceiveCapability
    <3>1. m.event = "ParkingCapabilityReported" /\ ParkingCapabilityReported(m.site)
      BY <2>9 DEF ReceiveCapability, Receive
    <3>2. m.site \in Capability /\ "Healthy" \in Health
      BY <1>4, <3>1 DEF Message, Health
    <3>3. ~Answer(m, w)
      BY <3>1 DEF Answer
    <3>. HIDE DEF m
    <3> QED
      BY <1>2, <2>2, <3>1, <3>2, <3>3, FlagPlans
  <2>10. CASE ReceiveTopology
    <3>1. /\ m.event = "Plug"
          /\ DisplayTopologyChanged(m.displays, m.nearest) \/ UNCHANGED engine
      BY <2>10 DEF ReceiveTopology, Receive
    <3>2. m.displays \in SUBSET Display /\ m.nearest \in Display
      BY <1>4, <3>1 DEF Message
    <3>3. ~Answer(m, w)
      BY <3>1 DEF Answer
    <3>. HIDE DEF m
    <3> QED
      BY <1>2, <2>2, <3>1, <3>2, <3>3, TopologyPlans, PlansSame
  <2>11. CASE ReceiveWake
    <3>1. /\ m.event = "Wake"
          /\ WakeReconciliation(m.displays, m.nearest, m.enumerated, m.life, m.seat)
      BY <2>11 DEF ReceiveWake, Receive
    <3>2. /\ m.displays \in SUBSET Display /\ m.nearest \in Display /\ m.enumerated \in BOOLEAN
          /\ m.life \in [Window -> Lifecycle] /\ m.seat \in [Window -> Display]
      BY <1>4, <3>1 DEF Message
    <3>3. Reports(Head(inbox)) /\ m.life = Head(inbox).life
      BY <3>1 DEF Reports
    <3>. HIDE DEF m
    <3> QED
      BY <1>2, <2>1, <3>1, <3>2, <3>3, WakeFlow
  <2> QED
    BY <2>3, <2>4, <2>5, <2>6, <2>7, <2>8, <2>9, <2>10, <2>11 DEF Receipts
<1>6. Keyed(ledger, lastEntry, agent.plan)'
  BY <1>2 DEF Ledgered, Keyed
<1>7. WayBackKept => WayBackKept'
  BY <1>2 DEF WayBackKept, AwayFromScreen, Alive
<1> QED
  BY <1>2, <1>3, <1>5, <1>6, <1>7 DEF Ledgered

(* A tick leaves the open entries of other windows as they are.            *)
LEMMA TickedElsewhere ==
    ASSUME NEW entries \in SUBSET L!Entry, NEW n, NEW v, NEW w, w # v,
           \A e \in entries : e.id = n => e.window = v
    PROVE  OpenIn(L!MarkedRestored(entries, n), w) = OpenIn(entries, w)
<1> DEFINE kept == L!MarkedRestored(entries, n)
<1>1. \A e \in entries : [e EXCEPT !.restored = TRUE].window = e.window
  BY DEF L!Entry
<1>2. \A e \in entries : e.window = w => e \in kept
  BY DEF L!MarkedRestored
<1>3. \A f \in kept : f.window = w => f \in entries
  BY <1>1 DEF L!MarkedRestored
<1>. HIDE DEF kept
<1> QED
  BY <1>2, <1>3 DEF OpenIn, L!OpenEntries, kept

(* The bridge stops: what it has not read is never written.                *)
LEMMA FlowStops ==
    ASSUME NEW s, NEW t, NEW q, NEW w, NEW life, NEW place, NEW entries, NEW last, NEW session,
           t.parked = s.parked, t.life = s.life, t.effects = s.effects, t.intents = << >>,
           Flow(s, q, w, life, place, entries, last, session)
    PROVE  Flow(t, q, w, life, place, entries, last, session)
<1>1. \A g : ~Owed(t, w, g)
  BY DEF Owed
<1>2. \A r \in Rank, i, g \in Nat : At(t, q, r, i, w, g) => At(s, q, r, i, w, g)
  BY <1>1 DEF At
<1>3. Ordered(t, q, w)
  BY <1>2 DEF Flow, Path, Ordered
<1>4. Recorded(t, q, w, entries, last)
  BY <1>2 DEF Flow, Path, Recorded
<1>5. Held(t, q, w) => Held(s, q, w)
  BY HeldForgotten
<1>6. Seen(t, q, w, life)
  BY <1>5, SeenStay DEF Flow
<1>7. Books(t, q, w, life, place, session)
  BY <1>1 DEF Flow, Books, Told, Untouched
<1> QED
  BY <1>3, <1>4, <1>6, <1>7 DEF Flow, Path

(* What this process took off the screen has its entry, unticked, recorded *)
(* after every entry a mark is on its way for.                             *)
LEMMA ToldRecorded ==
    ASSUME Inductive, NEW w \in Window, FlowOf(w), Told(engine, inbox, w)
    PROVE  \E e \in ledger : /\ e.window = w /\ ~e.restored
                             /\ \A n \in Nat : Owed(engine, w, n) => e.id > n
<1>1. engine.parked \in [Window -> Nat] /\ inbox \in Seq(Message)
  BY FieldTypes DEF Inductive, OutsideTyped, Good, Consistent
<1>2. Recorded(engine, inbox, w, ledger, lastEntry)
  BY DEF FlowOf, Flow, Path
<1>5. \A n \in Nat : Owed(engine, w, n) => At(engine, inbox, 0, 0, w, n)
  BY DEF At
<1>6. Ordered(engine, inbox, w)
  BY DEF FlowOf, Flow, Path
<1>3. CASE engine.parked[w] # 0
  <2> DEFINE g == engine.parked[w]
  <2>1. At(engine, inbox, 1, 0, w, g) /\ g \in Nat
    BY <1>1, <1>3 DEF At
  <2>. HIDE DEF g
  <2>2. PICK e \in ledger : e.id = g /\ e.window = w /\ ~e.restored
    BY <1>2, <2>1 DEF Recorded, Rank
  <2>3. \A n \in Nat : Owed(engine, w, n) => n < g
    BY <1>5, <1>6, <2>1 DEF Ordered, Before, Rank
  <2> QED
    BY <2>1, <2>2, <2>3
<1>4. CASE \E i \in Answers(inbox, w) : inbox[i].event = "WindowParked"
  <2>1. PICK i \in Answers(inbox, w) : inbox[i].event = "WindowParked"
    BY <1>4
  <2>2. i \in 1..Len(inbox) /\ inbox[i].window = w
    BY <2>1 DEF Answers, Answer
  <2> DEFINE g == inbox[i].entry
  <2>3. inbox[i] \in Message
    BY <1>1, <2>2
  <2>4. g \in Nat /\ i \in Nat
    BY <2>1, <2>2, <2>3 DEF Message
  <2>5. At(engine, inbox, 2, i, w, g)
    BY <2>1, <2>2 DEF At, Tells
  <2>. HIDE DEF g
  <2>6. PICK e \in ledger : e.id = g /\ e.window = w /\ ~e.restored
    BY <1>2, <2>4, <2>5 DEF Recorded, Rank
  <2>7. \A n \in Nat : Owed(engine, w, n) => n < g
    BY <1>5, <1>6, <2>4, <2>5 DEF Ordered, Before, Rank
  <2> QED
    BY <2>4, <2>6, <2>7
<1> QED
  BY <1>3, <1>4 DEF Told

LEMMA FlowWayBack ==
    ASSUME Inductive, agent.session = 1, NEW w \in AwayFromScreen, FlowOf(w)
    PROVE  \E e \in ledger : e.window = w /\ ~e.restored
<1>1. w \in Window /\ desktop.life[w] \notin {"Unopened", "Closed"} /\ desktop.place[w] = "Parked"
  BY DEF AwayFromScreen, Alive
<1>2. Told(engine, inbox, w)
  BY <1>1 DEF FlowOf, Flow, Books
<1> QED
  BY <1>1, <1>2, ToldRecorded

(* The process dies, starts, recovers and stops.                           *)
LEMMA ProcessLedgered ==
    ASSUME Inductive, Ledgered, Process
    PROVE  Ledgered'
<1>1. /\ engine \in EngineState /\ desktop \in Desktop /\ ledger \in SUBSET L!Entry
      /\ lastEntry \in Nat /\ agent \in Agent /\ engine.config \in Configs
      /\ desktop.life \in [Window -> NativeLife] /\ desktop.place \in [Window -> {"Screen", "Parked"}]
      /\ desktop.plugged \in SUBSET Display /\ desktop.site \in BOOLEAN
      /\ agent.session \in Nat /\ agent.plan \in SUBSET L!Entry
  BY FieldTypes DEF Inductive, OutsideTyped, Good, Consistent, Desktop, Agent
<1>2. CASE Crash \/ StartsAgain
  <2>1. Starts
    BY <1>2 DEF Crash, StartsAgain
  <2>2. /\ inbox' = << >> /\ UNCHANGED <<desktop, ledger, lastEntry>>
        /\ agent'.stage = "Recovering" /\ agent'.session = agent.session + 1
        /\ agent'.plan \subseteq L!VerifiedEntries(ledger, Alive)
        /\ agent'.cut \/ agent'.plan = L!VerifiedEntries(ledger, Alive)
    BY <1>1, <2>1, StartsIs DEF Starts
  <2>3. Resting(engine')
    BY <1>1, <2>1, BootRests DEF Starts
  <2>4. Keyed(ledger, lastEntry, agent'.plan)
    BY <2>2, KeyedKept DEF Ledgered, L!VerifiedEntries, L!OpenEntries
  <2>5. ASSUME NEW w \in AwayFromScreen, Cardinality(OpenOf(w)) = 1
        PROVE  agent'.cut \/ OpenOf(w) \subseteq agent'.plan
    <3>1. IsFiniteSet(OpenOf(w))
      BY <1>1, LedgerFinite, FS_Subset DEF Ledgered, OpenOf, OpenIn, L!OpenEntries
    <3>2. PICK e : OpenOf(w) = {e}
      BY <2>5, <3>1, FS_Singleton
    <3>3. w \in Alive
      BY DEF AwayFromScreen
    <3> QED
      BY <2>2, <3>2, <3>3 DEF OpenOf, OpenIn, L!VerifiedEntries
  <2>6. Recoverable'
    BY <2>2, <2>5 DEF Recoverable, OpenOf, OpenIn, AwayFromScreen, Alive
  <2>7. agent'.session >= 1 /\ agent'.session > 1
    BY <1>1, <2>2 DEF Ledgered
  <2> QED
    BY <2>2, <2>3, <2>4, <2>6, <2>7 DEF Ledgered
<1>3. CASE Quit
  <2>1. /\ agent.stage = "Up" /\ engine' = [engine EXCEPT !.intents = << >>]
        /\ agent'.session = agent.session /\ agent'.stage = "Stopping"
        /\ agent'.plan = agent.plan
        /\ UNCHANGED <<desktop, inbox, ledger, lastEntry>>
    BY <1>1, <1>3 DEF Quit, Agent
  <2>2. /\ engine'.parked = engine.parked /\ engine'.life = engine.life
        /\ engine'.effects = engine.effects /\ engine'.intents = << >>
    BY <1>1, <2>1 DEF EngineState
  <2>3. ASSUME NEW w \in Window
        PROVE  FlowOf(w)'
    BY <2>1, <2>2, FlowStops DEF Ledgered, FlowOf
  <2> QED
    BY <2>1, <2>3 DEF Ledgered
<1>7. CASE ExecutorStops
  <2>1. /\ agent.stage = "Stopping"
        /\ agent'.session = agent.session /\ agent'.stage = "Exiting"
        /\ agent'.plan \subseteq L!VerifiedEntries(ledger, Alive)
        /\ UNCHANGED <<engine, desktop, inbox, ledger, lastEntry>>
    BY <1>1, <1>7, ExecutorStopsIs DEF ExecutorStops
  <2>2. Keyed(ledger, lastEntry, agent'.plan)
    BY <2>1, KeyedKept DEF Ledgered, L!VerifiedEntries, L!OpenEntries
  <2>3. agent.session = 1 => WayBackKept
    BY <2>1, FlowWayBack DEF Ledgered, WayBackKept, AwayFromScreen, Alive
  <2>4. WayBackKept => WayBackKept'
    BY <2>1 DEF WayBackKept, AwayFromScreen, Alive
  <2> QED
    BY <2>1, <2>2, <2>3, <2>4 DEF Ledgered
<1>4. CASE RecoverWindow
  <2>1. PICK e \in agent.plan :
          /\ agent.stage \in {"Recovering", "Exiting"}
          /\ \/ /\ desktop' = [desktop EXCEPT !.place[e.window] = "Screen"]
                /\ UNCHANGED agent
             \/ /\ agent' = [agent EXCEPT !.plan = @ \ {e}, !.failed = @ \cup {e}]
                /\ UNCHANGED desktop
          /\ UNCHANGED <<engine, inbox, ledger, lastEntry>>
    BY <1>4 DEF RecoverWindow
  <2>2. CASE desktop' = [desktop EXCEPT !.place[e.window] = "Screen"] /\ UNCHANGED agent
    <3>1. /\ desktop'.life = desktop.life
          /\ \A w \in Window : desktop'.place[w] # "Screen" => desktop'.place[w] = desktop.place[w]
      BY <1>1, <2>2 DEF Desktop
    <3>2. Recoverable => Recoverable'
      <4>1. \A w \in Window : w \in AwayFromScreen' => w \in AwayFromScreen
        BY <3>1 DEF AwayFromScreen, Alive
      <4> QED
        BY <2>1, <2>2, <4>1 DEF Recoverable, OpenOf, OpenIn, AwayFromScreen, Alive
    <3>3. WayBackKept => WayBackKept'
      BY <2>1, <3>1 DEF WayBackKept, AwayFromScreen, Alive
    <3> QED
      BY <2>1, <2>2, <3>1, <3>2, <3>3 DEF Ledgered
  <2>3. CASE agent' = [agent EXCEPT !.plan = @ \ {e}, !.failed = @ \cup {e}] /\ UNCHANGED desktop
    <3>1. /\ agent'.stage = agent.stage /\ agent'.session = agent.session
          /\ agent'.plan = agent.plan \ {e} /\ agent'.failed = agent.failed \cup {e}
          /\ agent'.cut = agent.cut
      BY <1>1, <2>3 DEF Agent
    <3>2. Keyed(ledger, lastEntry, agent'.plan)
      BY <3>1, KeyedKept DEF Ledgered
    <3>3. agent.plan \cup agent.failed \subseteq agent'.plan \cup agent'.failed
      BY <3>1
    <3>4. Recoverable => Recoverable'
      BY <2>1, <2>3, <3>1, <3>3 DEF Recoverable, OpenOf, OpenIn, AwayFromScreen, Alive
    <3>5. WayBackKept => WayBackKept'
      BY <2>1, <2>3 DEF WayBackKept, AwayFromScreen, Alive
    <3> QED
      BY <2>1, <2>3, <3>1, <3>2, <3>4, <3>5 DEF Ledgered
  <2> QED
    BY <2>1, <2>2, <2>3
<1>5. CASE MarkRecovered
  <2>1. PICK e \in agent.plan :
          /\ agent.stage \in {"Recovering", "Exiting"}
          /\ e.window \notin AwayFromScreen
          /\ \/ /\ ledger' = IF e.window \in Alive THEN L!MarkedRestored(ledger, e.id) ELSE ledger
                /\ agent' = [agent EXCEPT !.plan = @ \ {e}]
             \/ ledger' = ledger /\ agent' = [agent EXCEPT !.plan = {}, !.cut = TRUE]
          /\ UNCHANGED <<engine, desktop, inbox, lastEntry>>
    BY <1>5 DEF MarkRecovered
  <2>2. /\ agent'.stage = agent.stage /\ agent'.session = agent.session
        /\ agent'.plan \subseteq agent.plan /\ agent'.failed = agent.failed
        /\ agent'.cut \/ (agent'.cut = agent.cut /\ agent'.plan = agent.plan \ {e})
    BY <1>1, <2>1 DEF Agent
  <2>3. Keyed(ledger', lastEntry, agent'.plan)
    <3>1. Keyed(ledger', lastEntry, agent.plan)
      BY <1>1, <2>1, KeyedMarked DEF Ledgered
    <3> QED
      BY <2>2, <3>1, KeyedKept
  <2>4. \A f \in ledger : f.id = e.id => f.window = e.window
    BY DEF Ledgered, Keyed
  <2>5. ASSUME NEW w \in AwayFromScreen
        PROVE  OpenOf(w)' = OpenOf(w) /\ e \notin OpenOf(w)
    <3>1. w # e.window
      BY <2>1
    <3>2. OpenOf(w)' = OpenOf(w)
      <4> DEFINE n == e.id
                 v == e.window
      <4>1. w # v /\ (\A f \in ledger : f.id = n => f.window = v)
            /\ (ledger' = L!MarkedRestored(ledger, n) \/ ledger' = ledger)
        BY <2>1, <2>4, <3>1
      <4>. HIDE DEF n, v
      <4>2. OpenIn(ledger', w) = OpenIn(ledger, w)
        BY <1>1, <4>1, TickedElsewhere
      <4> QED
        BY <4>2 DEF OpenOf
    <3> QED
      BY <3>1, <3>2 DEF OpenOf, OpenIn
  <2>6. AwayFromScreen' = AwayFromScreen
    BY <2>1 DEF AwayFromScreen, Alive
  <2>7. Recoverable => Recoverable'
    <3> SUFFICES ASSUME Recoverable, ~agent'.cut,
                        NEW w \in AwayFromScreen, Cardinality(OpenOf(w)') = 1
                 PROVE  OpenOf(w)' \subseteq agent'.plan \cup agent'.failed
      BY <2>6 DEF Recoverable
    <3> QED
      BY <2>2, <2>5 DEF Recoverable
  <2>8. WayBackKept => WayBackKept'
    <3>1. ASSUME NEW f \in ledger, f.window \in AwayFromScreen
          PROVE  f \in ledger'
      <4>1. f.id # e.id
        BY <2>1, <2>4, <3>1
      <4> QED
        BY <2>1, <4>1 DEF L!MarkedRestored
    <3> QED
      BY <2>6, <3>1 DEF WayBackKept
  <2> QED
    BY <2>1, <2>2, <2>3, <2>7, <2>8 DEF Ledgered
<1>6. CASE RecoveryEnds
  <2>1. /\ agent.stage = "Recovering" /\ agent'.stage = "Up"
        /\ agent'.session = agent.session /\ agent'.plan = agent.plan
        /\ ledger' = L!Pruned(ledger, agent.session) \/ ledger' = ledger
        /\ UNCHANGED <<engine, desktop, inbox, lastEntry>>
    BY <1>1, <1>6 DEF RecoveryEnds, Agent
  <2>2. Resting(engine) /\ inbox = << >> /\ agent.session > 1
    BY <2>1 DEF Ledgered
  <2>3. ASSUME NEW w \in Window
        PROVE  FlowOf(w)'
    BY <2>1, <2>2, FlowRests DEF FlowOf
  <2>4. Keyed(ledger', lastEntry, agent.plan)
    BY <2>1, KeyedKept DEF Ledgered, L!Pruned
  <2> QED
    BY <2>1, <2>3, <2>4 DEF Ledgered
<1> QED
  BY <1>2, <1>3, <1>4, <1>5, <1>6, <1>7 DEF Process

(* The first start.                                                        *)
LEMMA StartsLedgered ==
    ASSUME PipelineInit
    PROVE  Ledgered
<1>1. PICK cfg \in Configs, start \in Start :
        /\ desktop = [life |-> [w \in Window |-> IF w \in start.open THEN "Normal"
                                                ELSE "Unopened"],
                      place |-> [w \in Window |-> "Screen"],
                      seat |-> start.seat, plugged |-> start.plugged, site |-> TRUE]
        /\ engine \in Booted(cfg, start.plugged, TRUE)
  BY DEF PipelineInit
<1>2. start.plugged \in SUBSET Display
  BY StartAssumption
<1>3. Resting(engine)
  BY <1>1, <1>2, BootRests
<1>4. /\ inbox = << >> /\ ledger = {} /\ lastEntry = 0 /\ agent.session = 1
      /\ agent.stage = "Up" /\ agent.plan = {}
  BY DEF PipelineInit
<1>5. \A w \in Window : desktop.place[w] = "Screen"
  BY <1>1
<1>6. ASSUME NEW w \in Window
      PROVE  FlowOf(w)
  BY <1>3, <1>4, <1>5, FlowRests DEF FlowOf
<1>7. Keyed(ledger, lastEntry, agent.plan)
  BY <1>4 DEF Keyed
<1> QED
  BY <1>4, <1>5, <1>6, <1>7 DEF Ledgered

(* The ledger, the queues, the record and the desktop agree, whatever      *)
(* happens to the agent (the order of the executor, the bridge and the     *)
(* reducer's channel).                                                     *)
THEOREM LedgeredAlways == PipelineSpec => [](Inductive /\ Ledgered)
<1>1. PipelineInit => Inductive /\ Ledgered
  BY StartsInductive, StartsLedgered
<1>2. Inductive /\ Inductive' /\ Ledgered /\ [PipelineNext]_vars => Ledgered'
  <2>1. ASSUME Inductive, Ledgered, PipelineNext
        PROVE  Ledgered'
    BY <2>1, ArrivalsLedgered, DesktopLedgered, ExecuteLedgered, WriteLedgered,
       ReceiptsLedgered, ProcessLedgered DEF PipelineNext
  <2>2. ASSUME Ledgered, UNCHANGED vars
        PROVE  Ledgered'
    BY <2>2 DEF vars, outside, Ledgered, FlowOf, Recoverable, OpenOf, OpenIn, WayBackKept,
                AwayFromScreen, Alive
  <2> QED
    BY <2>1, <2>2
<1> QED
  BY <1>1, <1>2, InductiveAlways, PTL DEF PipelineSpec

-----------------------------------------------------------------------------
(* What it means for the windows *)

(* Until the first process ends, a live window that is off the screen has  *)
(* an entry nothing has ticked off: requests, failures, pauses, lost marks *)
(* and refused entries in any order do not lose it, nor does a clean exit  *)
(* (begin_workspace_switch; the mark of a process that was killed can be   *)
(* lost, see crash_before_mark).                                           *)
THEOREM FirstSessionKeepsWaysBack == PipelineSpec => [](agent.session = 1 => WayBackKept)
<1>1. Inductive /\ Ledgered => (agent.session = 1 => WayBackKept)
  <2> SUFFICES ASSUME Inductive, Ledgered, agent.session = 1
               PROVE  WayBackKept
    OBVIOUS
  <2>1. agent.stage \in Stage
    BY DEF Inductive, OutsideTyped, Agent
  <2>2. CASE agent.stage \in {"Up", "Stopping"}
    <3>1. \A w \in Window : FlowOf(w)
      BY <2>2 DEF Ledgered
    <3> QED
      BY <3>1, FlowWayBack DEF WayBackKept, AwayFromScreen, Alive
  <2>3. CASE agent.stage \in {"Recovering", "Exiting"}
    BY <2>3 DEF Ledgered
  <2> QED
    BY <2>1, <2>2, <2>3 DEF Stage
<1> QED
  BY <1>1, LedgeredAlways, PTL

(* Until the first process ends, and whenever no answer is on its way, the *)
(* reducer's record of what is parked is what the desktop shows of the     *)
(* live windows (WindowParked, WindowRestored and the inventories).        *)
THEOREM FirstSessionKeepsBooks == PipelineSpec => [](agent.session = 1 => BooksMatchDesktop)
<1>1. Inductive /\ Ledgered => (agent.session = 1 => BooksMatchDesktop)
  <2> SUFFICES ASSUME Inductive, Ledgered, agent.session = 1, agent.stage = "Up", inbox = << >>,
                      NEW w \in Alive
               PROVE  w \in Parked(engine) <=> w \in AwayFromScreen
    BY DEF BooksMatchDesktop
  <2>1. w \in Window /\ desktop.life[w] \notin {"Unopened", "Closed"}
    BY DEF Alive
  <2>2. Books(engine, inbox, w, desktop.life[w], desktop.place[w], agent.session)
    BY <2>1 DEF Ledgered, FlowOf, Flow
  <2>3. Answers(inbox, w) = {}
    BY DEF Answers
  <2>4. Told(engine, inbox, w) <=> w \in Parked(engine)
    BY <2>1, <2>3 DEF Told, Parked
  <2> QED
    BY <2>1, <2>2, <2>4 DEF Books, AwayFromScreen
<1> QED
  BY <1>1, LedgeredAlways, PTL

(* In every session, whatever was lost before: a live window the record    *)
(* says is parked is off the screen once no answer is on its way, and its  *)
(* entry is in the ledger, unticked (RuntimeState::parked_windows).      *)
RecordIsTrue ==
    agent.stage = "Up" =>
        \A w \in Parked(engine) :
            /\ \E e \in ledger : e.id = engine.parked[w] /\ e.window = w /\ ~e.restored
            /\ inbox = << >> /\ w \in Alive => w \in AwayFromScreen

(* The record never brings a window back that is not away, nor names an    *)
(* entry that is closed.                                                   *)
THEOREM RecordAlwaysTrue == PipelineSpec => []RecordIsTrue
<1>1. Inductive /\ Ledgered => RecordIsTrue
  <2> SUFFICES ASSUME Inductive, Ledgered, agent.stage = "Up", NEW w \in Parked(engine)
               PROVE  /\ \E e \in ledger : e.id = engine.parked[w] /\ e.window = w /\ ~e.restored
                      /\ inbox = << >> /\ w \in Alive => w \in AwayFromScreen
    BY DEF RecordIsTrue
  <2>1. engine.parked \in [Window -> Nat] /\ w \in Window /\ engine.parked[w] # 0
    BY FieldTypes DEF Inductive, Good, Consistent, Parked
  <2>2. FlowOf(w)
    BY <2>1 DEF Ledgered
  <2> DEFINE g == engine.parked[w]
  <2>3. At(engine, inbox, 1, 0, w, g) /\ g \in Nat
    BY <2>1 DEF At
  <2>4. \E e \in ledger : e.id = g /\ e.window = w /\ ~e.restored
    <3>. HIDE DEF g
    <3> QED
      BY <2>2, <2>3 DEF FlowOf, Flow, Path, Recorded, Rank
  <2>5. ASSUME inbox = << >>, w \in Alive
        PROVE  w \in AwayFromScreen
    <3>1. Answers(inbox, w) = {}
      BY <2>5 DEF Answers
    <3>2. Told(engine, inbox, w)
      BY <2>1, <3>1 DEF Told
    <3>3. desktop.life[w] \notin {"Unopened", "Closed"}
      BY <2>5 DEF Alive
    <3> QED
      BY <2>2, <2>5, <3>2, <3>3 DEF FlowOf, Flow, Books, AwayFromScreen
  <2> QED
    BY <2>4, <2>5
<1> QED
  BY <1>1, LedgeredAlways, PTL

(* A process nothing ends is in its first session for good.                *)
LEMMA OneSession ==
    ASSUME "Crash" \notin Allowed, "Quit" \notin Allowed
    PROVE  PipelineSpec => [](agent.session = 1 /\ agent.stage = "Up")
<1> DEFINE Only == agent.session = 1 /\ agent.stage = "Up"
<1>1. PipelineInit => Only
  BY DEF PipelineInit
<1>2. Inductive /\ Only /\ [PipelineNext]_vars => Only'
  <2> SUFFICES ASSUME Inductive, Only, [PipelineNext]_vars
               PROVE  Only'
    OBVIOUS
  <2>0. agent \in Agent
    BY DEF Inductive, OutsideTyped
  <2>1. CASE Arrivals
    BY <2>0, <2>1
       DEF Arrivals, UserFocuses, UserMoves, UserCreates, UserDeletes, UserParks,
           UserRestoresWindows, UserRestoresSwitch, ConfigReloads, HealthChanges, Arrives,
           UserPauses, UserResumes, DatabaseLoads, Agent
  <2>2. CASE WindowChanges \/ Enumerate
    BY <2>2 DEF WindowChanges, Enumerate
  <2>3. CASE DisplaysPlugged \/ MachineWakes
    BY <2>3, Zenon DEF DisplaysPlugged, MachineWakes, DisplaysChange
  <2>4. CASE ExecutePark \/ ExecuteRestore
    <3>1. PICK m, event : Execute(m, event)
      BY <2>4 DEF ExecutePark, ExecuteRestore, Lands, Fails
    <3> QED
      BY <2>0, <3>1 DEF Execute, Agent
  <2>5. CASE WriteDraft \/ WriteMark
    BY <2>5 DEF WriteDraft, WriteMark, TakeIntent
  <2>6. CASE Receipts
    <3>1. PICK event : Receive(event)
      BY <2>6 DEF Receipts, ReceiveObservation, ReceiveDurable, ReceiveRefused, ReceiveParked,
             ReceiveParkFailed, ReceiveRestored, ReceiveRestoreFailed, ReceiveCapability,
             ReceiveTopology, ReceiveWake
    <3> QED
      BY <3>1 DEF Receive
  <2>7. CASE Process
    BY <2>7 DEF Process, Crash, Quit, Spend, ExecutorStops, StartsAgain, RecoverWindow,
                MarkRecovered, RecoveryEnds
  <2>8. CASE UNCHANGED vars
    BY <2>8 DEF vars, outside
  <2> QED
    BY <2>1, <2>2, <2>3, <2>4, <2>5, <2>6, <2>7, <2>8 DEF PipelineNext
<1> QED
  BY <1>1, <1>2, InductiveAlways, PTL DEF PipelineSpec

(* While nothing ends the process, every window off the screen has its way *)
(* back, however users, windows, displays and failures interleave.         *)
THEOREM WayBackWhileUp ==
    ASSUME "Crash" \notin Allowed, "Quit" \notin Allowed
    PROVE  PipelineSpec => []WayBackKept
BY OneSession, FirstSessionKeepsWaysBack, PTL

(* And the record is the desktop whenever every answer has been heard.     *)
THEOREM BooksMatchWhileUp ==
    ASSUME "Crash" \notin Allowed, "Quit" \notin Allowed
    PROVE  PipelineSpec => []BooksMatchDesktop
BY OneSession, FirstSessionKeepsBooks, PTL

(* A startup recovery that no error of the ledger cut short lets the agent *)
(* go on only when it has dealt with the one open entry of every window    *)
(* off the screen: it put the window back, or it reports the entry         *)
(* (recover_parked_windows, however often the process was killed before,   *)
(* recovery passes included, and whatever marks were lost before).         *)
THEOREM RecoveryCompletes == PipelineSpec => RecoveryComplete
<1> DEFINE Done == agent.stage = "Recovering" /\ agent'.stage = "Up" /\ ~agent.cut =>
                     \A w \in AwayFromScreen :
                       Cardinality(OpenOf(w)) = 1 => OpenOf(w) \subseteq agent.failed
<1>1. Inductive /\ Ledgered /\ [PipelineNext]_vars => Done
  <2> SUFFICES ASSUME Inductive, Ledgered, [PipelineNext]_vars,
                      agent.stage = "Recovering", agent'.stage = "Up"
               PROVE  agent.plan = {} /\ Recoverable
    BY DEF Recoverable
  <2>1. Recoverable
    BY DEF Ledgered
  <2>2. agent' # agent /\ agent.stage # "Up"
    OBVIOUS
  <2>3. ~Arrivals
    BY <2>2
       DEF Arrivals, UserFocuses, UserMoves, UserCreates, UserDeletes, UserParks,
           UserRestoresWindows, UserRestoresSwitch, ConfigReloads, HealthChanges, Arrives,
           UserPauses, UserResumes, DatabaseLoads
  <2>4. ~WindowChanges /\ ~Enumerate
    BY <2>2 DEF WindowChanges, Enumerate
  <2>5. ~DisplaysPlugged /\ ~MachineWakes
    BY <2>2, Zenon DEF DisplaysPlugged, MachineWakes, DisplaysChange
  <2>6. ~(ExecutePark \/ ExecuteRestore)
    <3> SUFFICES ASSUME NEW m, NEW event, Execute(m, event)
                 PROVE  FALSE
      BY DEF ExecutePark, ExecuteRestore, Lands, Fails
    <3> QED
      BY <2>2 DEF Execute
  <2>7. ~(WriteDraft \/ WriteMark)
    BY <2>2 DEF WriteDraft, WriteMark, TakeIntent
  <2>8. ~Receipts
    BY <2>2 DEF Receipts, ReceiveObservation, ReceiveDurable, ReceiveRefused, ReceiveParked,
             ReceiveParkFailed, ReceiveRestored, ReceiveRestoreFailed, ReceiveCapability,
             ReceiveTopology, ReceiveWake, Receive
  <2>9. vars' # vars
    BY <2>2 DEF vars, outside
  <2>10. Process
    BY <2>3, <2>4, <2>5, <2>6, <2>7, <2>8, <2>9 DEF PipelineNext
  <2>11. agent \in Agent
    BY DEF Inductive, OutsideTyped
  <2>12. RecoveryEnds
    <3>1. ~Crash /\ ~StartsAgain
      BY DEF Crash, StartsAgain, Starts, Planned
    <3>2. ~Quit /\ ~ExecutorStops
      BY <2>2 DEF Quit, ExecutorStops
    <3>3. \A plan, failed : [agent EXCEPT !.plan = plan, !.failed = failed].stage # "Up"
      BY <2>11 DEF Agent
    <3>4. \A plan, cut : /\ [agent EXCEPT !.plan = plan].stage # "Up"
                          /\ [agent EXCEPT !.plan = plan, !.cut = cut].stage # "Up"
      BY <2>11 DEF Agent
    <3>5. ~RecoverWindow
      BY <3>3 DEF RecoverWindow
    <3>6. ~MarkRecovered
      BY <3>4 DEF MarkRecovered
    <3> QED
      BY <2>10, <3>1, <3>2, <3>5, <3>6 DEF Process
  <2> QED
    BY <2>1, <2>12 DEF RecoveryEnds
<1>2. [][Done]_vars => RecoveryComplete
  <2>1. Done => (agent.stage = "Recovering" /\ agent'.stage = "Up" /\ ~agent.cut =>
                   AwayOnlyIfReported)
    BY DEF OpenOf, OpenIn, AwayOnlyIfReported
  <2> QED
    BY <2>1, PTL DEF RecoveryComplete
<1>. HIDE DEF Done
<1> QED
  BY <1>1, <1>2, LedgeredAlways, PTL DEF PipelineSpec

(* An open entry stays open, unless it is ticked off, and then its window  *)
(* is not off the screen, or a later entry records where it is.            *)
Superseded(entries, e) ==
    \/ e.window \notin AwayFromScreen
    \/ \E f \in entries : f.window = e.window /\ f.id > e.id /\ ~f.restored

Lasts(entries, e) == \E f \in L!OpenEntries(entries) : f.id = e.id

(* A tick closes no entry but those of its number.                         *)
LEMMA TickedOthers ==
    ASSUME NEW entries, NEW n, NEW e \in L!OpenEntries(entries), e.id # n
    PROVE  e \in L!OpenEntries(L!MarkedRestored(entries, n))
BY DEF L!OpenEntries, L!MarkedRestored

(* The bridge writes.                                                      *)
LEMMA WriteKeepsOpen ==
    ASSUME Inductive, Ledgered, WriteDraft \/ WriteMark
    PROVE  \A e \in L!OpenEntries(ledger) : Lasts(ledger', e) \/ Superseded(ledger', e)
<1> SUFFICES ASSUME NEW e \in L!OpenEntries(ledger)
             PROVE  Lasts(ledger', e) \/ Superseded(ledger', e)
  OBVIOUS
<1>1. e \in ledger /\ ledger \in SUBSET L!Entry /\ e.parked /\ ~e.restored
  BY DEF Inductive, OutsideTyped, Good, Consistent, L!OpenEntries, L!IsOpen
<1>2. CASE e \in ledger'
  BY <1>2 DEF Lasts, L!OpenEntries
<1>3. CASE WriteDraft
  <2>1. e \in ledger'
    BY <1>1, <1>3 DEF WriteDraft, L!Recorded
  <2> QED
    BY <1>2, <2>1
<1>4. CASE WriteMark
  <2>1. PICK i \in Intents({"MarkParked", "MarkRestored"}) :
          /\ TakeIntent(i)
          /\ \/ ledger' = IF i.kind = "MarkParked" THEN L!MarkedParked(ledger, i.number)
                          ELSE L!MarkedRestored(ledger, i.number)
             \/ UNCHANGED ledger
    BY <1>4 DEF WriteMark
  <2>2. i \in Intent /\ i.kind \in {"MarkParked", "MarkRestored"}
    BY <2>1, BridgeTakes DEF Intents
  <2>3. i.number \in Nat /\ i.window \in Window
    BY <2>2 DEF Intent
  <2>4. CASE ledger' = L!MarkedParked(ledger, i.number)
    <3> DEFINE n == i.number
               f == IF e.id = n THEN [e EXCEPT !.parked = TRUE] ELSE e
    <3>1. f.id = e.id /\ f.parked /\ ~f.restored
      BY <1>1 DEF L!Entry
    <3>2. f \in ledger'
      BY <1>1, <2>4 DEF L!MarkedParked
    <3>. HIDE DEF f
    <3> QED
      BY <3>1, <3>2 DEF Lasts, L!OpenEntries, L!IsOpen
  <2>5. CASE i.kind = "MarkRestored" /\ ledger' = L!MarkedRestored(ledger, i.number)
    <3> DEFINE n == i.number
               v == i.window
    <3>1. /\ Owed(engine, v, n) /\ n \in Nat /\ v \in Window
          /\ \A f \in ledger : f.id = n => f.window = v
          /\ ledger' = L!MarkedRestored(ledger, n)
          /\ FlowOf(v)
      BY <2>1, <2>3, <2>5, MarkIsOwn, BridgeTakes DEF Ledgered
    <3>. HIDE DEF n, v
    <3>2. CASE e.id # n
      <4>1. e \in L!OpenEntries(ledger')
        BY <3>1, <3>2, TickedOthers
      <4> QED
        BY <4>1 DEF Lasts
    <3>3. CASE e.id = n /\ e.window \in AwayFromScreen
      <4>1. e.window = v /\ desktop.place[v] = "Parked" /\ desktop.life[v] \notin {"Unopened", "Closed"}
        BY <1>1, <3>1, <3>3 DEF AwayFromScreen, Alive
      <4>2. Told(engine, inbox, v)
        BY <3>1, <4>1 DEF FlowOf, Flow, Books, Untouched
      <4>3. PICK f \in ledger : f.window = v /\ ~f.restored /\ f.id > n
        BY <3>1, <4>2, ToldRecorded
      <4>4. f.id # n
        BY <1>1, <3>1, <4>3 DEF L!Entry
      <4>5. f \in ledger'
        BY <3>1, <4>4 DEF L!MarkedRestored
      <4> QED
        BY <3>3, <4>1, <4>3, <4>5 DEF Superseded
    <3> QED
      BY <3>2, <3>3 DEF Superseded
  <2> QED
    BY <1>1, <1>2, <2>1, <2>2, <2>4, <2>5
<1> QED
  BY <1>3, <1>4

(* A recovery pass ticks off what is back; startup forgets what is closed. *)
LEMMA ProcessKeepsOpen ==
    ASSUME Inductive, Ledgered, Process
    PROVE  \A e \in L!OpenEntries(ledger) : Lasts(ledger', e) \/ Superseded(ledger', e)
<1> SUFFICES ASSUME NEW e \in L!OpenEntries(ledger)
             PROVE  Lasts(ledger', e) \/ Superseded(ledger', e)
  OBVIOUS
<1>1. e \in ledger /\ e.parked /\ ~e.restored
  BY DEF L!OpenEntries, L!IsOpen
<1>2. CASE e \in ledger'
  BY <1>2 DEF Lasts, L!OpenEntries
<1>3. CASE Crash \/ Quit \/ ExecutorStops \/ StartsAgain \/ RecoverWindow
  BY <1>1, <1>2, <1>3 DEF Crash, Quit, ExecutorStops, StartsAgain, Starts, RecoverWindow
<1>4. CASE MarkRecovered
  <2>1. PICK p \in agent.plan :
          /\ p.window \notin AwayFromScreen
          /\ ledger' = L!MarkedRestored(ledger, p.id) \/ ledger' = ledger
    BY <1>4 DEF MarkRecovered
  <2>2. CASE e.id = p.id
    <3>1. e.window = p.window
      BY <1>1, <2>2 DEF Ledgered, Keyed
    <3> QED
      BY <2>1, <3>1 DEF Superseded
  <2>3. CASE e.id # p.id
    <3> DEFINE n == p.id
    <3>1. e.id # n /\ (ledger' = L!MarkedRestored(ledger, n) \/ ledger' = ledger)
      BY <2>1, <2>3
    <3>. HIDE DEF n
    <3>2. e \in L!OpenEntries(ledger')
      BY <3>1, TickedOthers
    <3> QED
      BY <3>2 DEF Lasts
  <2> QED
    BY <2>2, <2>3
<1>5. CASE RecoveryEnds
  BY <1>1, <1>2, <1>5 DEF RecoveryEnds, L!Pruned
<1> QED
  BY <1>3, <1>4, <1>5 DEF Process

(* Nothing but a restore closes an entry that says where a window off the  *)
(* screen is: not a mark that arrives late, a recovery pass that tries     *)
(* again or the prune at startup, in any order and across crashes.         *)
THEOREM OpenEntriesKept == PipelineSpec => OpenEntryKept
<1> DEFINE Kept == \A e \in L!OpenEntries(ledger) : Lasts(ledger', e) \/ Superseded(ledger', e)
<1>1. Inductive /\ Ledgered /\ [PipelineNext]_vars => Kept
  <2> SUFFICES ASSUME Inductive, Ledgered, [PipelineNext]_vars, NEW e \in L!OpenEntries(ledger)
               PROVE  Lasts(ledger', e) \/ Superseded(ledger', e)
    OBVIOUS
  <2>1. CASE ledger' = ledger
    BY <2>1 DEF Lasts
  <2>2. Arrivals => ledger' = ledger
    BY DEF Arrivals, UserFocuses, UserMoves, UserCreates, UserDeletes, UserParks,
           UserRestoresWindows, UserRestoresSwitch, ConfigReloads, HealthChanges, Arrives,
           UserPauses, UserResumes, DatabaseLoads
  <2>3. WindowChanges \/ Enumerate => ledger' = ledger
    BY DEF WindowChanges, Enumerate
  <2>4. DisplaysPlugged \/ MachineWakes => ledger' = ledger
    BY Zenon DEF DisplaysPlugged, MachineWakes, DisplaysChange
  <2>5. ExecutePark \/ ExecuteRestore => ledger' = ledger
    <3> SUFFICES ASSUME NEW m, NEW event, Execute(m, event)
                 PROVE  ledger' = ledger
      BY DEF ExecutePark, ExecuteRestore, Lands, Fails
    <3> QED
      BY DEF Execute
  <2>6. Receipts => ledger' = ledger
    BY DEF Receipts, ReceiveObservation, ReceiveDurable, ReceiveRefused, ReceiveParked,
           ReceiveParkFailed, ReceiveRestored, ReceiveRestoreFailed, ReceiveCapability,
           ReceiveTopology, ReceiveWake, Receive
  <2>7. CASE UNCHANGED vars
    BY <2>1, <2>7 DEF vars, outside
  <2>8. CASE WriteDraft \/ WriteMark
    BY <2>8, WriteKeepsOpen
  <2>9. CASE Process
    BY <2>9, ProcessKeepsOpen
  <2> QED
    BY <2>1, <2>2, <2>3, <2>4, <2>5, <2>6, <2>7, <2>8, <2>9 DEF PipelineNext
<1>2. [][Kept]_vars => OpenEntryKept
  <2>1. Kept => \A e \in L!OpenEntries(ledger) :
                  (\A f \in L!OpenEntries(ledger') : f.id # e.id) =>
                    \/ e.window \notin AwayFromScreen
                    \/ \E f \in ledger' : f.window = e.window /\ f.id > e.id /\ ~f.restored
    BY DEF Lasts, Superseded
  <2> QED
    BY <2>1, PTL DEF OpenEntryKept
<1>. HIDE DEF Kept
<1> QED
  BY <1>1, <1>2, LedgeredAlways, PTL DEF PipelineSpec

-----------------------------------------------------------------------------
(* What the channel answers: the entries it acknowledges and the windows   *)
(* it brings the executor's answer for.                                    *)
Replying == {"WindowParked", "WindowParkFailed", "WindowRestored", "WindowRestoreFailed"}
Acks(q) == {<<q[k].batch, q[k].window>>
              : k \in {i \in 1..Len(q) : q[i].event = "RecoveryEntryDurable"}}
Replies(q) == {q[k].window : k \in {i \in 1..Len(q) : q[i].event \in Replying}}

LEMMA ChannelAppend ==
    ASSUME NEW q \in Seq(Message), NEW m \in Message
    PROVE  /\ Acks(q) \subseteq Acks(Append(q, m)) /\ Replies(q) \subseteq Replies(Append(q, m))
           /\ m.event = "RecoveryEntryDurable" => <<m.batch, m.window>> \in Acks(Append(q, m))
           /\ m.event \in Replying => m.window \in Replies(Append(q, m))
<1> DEFINE r == Append(q, m)
<1>1. Len(r) = Len(q) + 1 /\ Len(q) \in Nat /\ r[Len(q) + 1] = m
  OBVIOUS
<1>2. \A k \in 1..Len(q) : r[k] = q[k] /\ k \in 1..Len(r)
  BY <1>1
<1>3. Len(q) + 1 \in 1..Len(r)
  BY <1>1
<1>. HIDE DEF r
<1> QED
  BY <1>1, <1>2, <1>3 DEF Acks, Replies, r

LEMMA ChannelTail ==
    ASSUME NEW q \in Seq(Message), q # << >>
    PROVE  /\ Acks(q) \subseteq Acks(Tail(q)) \cup
                (IF Head(q).event = "RecoveryEntryDurable" THEN {<<Head(q).batch, Head(q).window>>}
                 ELSE {})
           /\ Replies(q) \subseteq Replies(Tail(q)) \cup
                (IF Head(q).event \in Replying THEN {Head(q).window} ELSE {})
<1> DEFINE r == Tail(q)
           m == Head(q)
<1>1. Len(q) \in Nat /\ Len(q) >= 1 /\ m = q[1] /\ Len(r) = Len(q) - 1
  OBVIOUS
<1>2. \A j \in 1..Len(q) - 1 : r[j] = q[j + 1]
  OBVIOUS
<1>3. \A k \in 1..Len(q) : k = 1 \/ (k - 1 \in 1..Len(r) /\ r[k - 1] = q[k])
  <2> SUFFICES ASSUME NEW k \in 1..Len(q), k # 1
               PROVE  k - 1 \in 1..Len(r) /\ r[k - 1] = q[k]
    OBVIOUS
  <2>1. k - 1 \in 1..Len(q) - 1 /\ (k - 1) + 1 = k
    BY <1>1
  <2> QED
    BY <1>1, <1>2, <2>1
<1>. HIDE DEF r, m
<1>4. Acks(q) \subseteq Acks(r) \cup
        (IF m.event = "RecoveryEntryDurable" THEN {<<m.batch, m.window>>} ELSE {})
  <2> SUFFICES ASSUME NEW k \in 1..Len(q), q[k].event = "RecoveryEntryDurable"
               PROVE  \/ <<q[k].batch, q[k].window>> \in Acks(r)
                      \/ m.event = "RecoveryEntryDurable" /\ q[k] = m
    BY DEF Acks
  <2> QED
    BY <1>1, <1>3 DEF Acks
<1>5. Replies(q) \subseteq Replies(r) \cup (IF m.event \in Replying THEN {m.window} ELSE {})
  <2> SUFFICES ASSUME NEW k \in 1..Len(q), q[k].event \in Replying
               PROVE  q[k].window \in Replies(r) \/ (m.event \in Replying /\ q[k] = m)
    BY DEF Replies
  <2> QED
    BY <1>1, <1>3 DEF Replies
<1> QED
  BY <1>4, <1>5 DEF r, m

(* More answers on their way are no less work.                             *)
LEMMA BusyMore ==
    ASSUME NEW s, NEW D, NEW M, NEW E, NEW N, D \subseteq E, M \subseteq N, Busy(s, D, M)
    PROVE  Busy(s, E, N)
BY DEF Busy, Pends, Flies, Underway

(* Taking an item out of a queue takes no other.                           *)
LEMMA ItemsTaken ==
    ASSUME NEW S, NEW queue \in Seq(SUBSET S), queue # << >>, NEW item
    PROVE  Items(queue) \ {item} \subseteq Items(NextBatch(queue, item))
<1> DEFINE rest == Head(queue) \ {item}
           left == <<rest>> \o Tail(queue)
           tail == Tail(queue)
<1>1. /\ Len(queue) \in Nat /\ Len(queue) >= 1 /\ Head(queue) = queue[1]
      /\ tail \in Seq(SUBSET S) /\ Len(tail) = Len(queue) - 1
      /\ \A j \in 1..Len(queue) - 1 : tail[j] = queue[j + 1]
  OBVIOUS
<1>2. rest \in SUBSET S
  BY <1>1
<1>3. NextBatch(queue, item) = IF Head(queue) = {item} THEN tail ELSE left
  BY DEF NextBatch
<1>4. /\ Len(left) = Len(queue) /\ left[1] = rest
      /\ \A j \in 1..Len(queue) - 1 : left[j + 1] = tail[j]
  <2>. HIDE DEF rest, tail
  <2>1. <<rest>> \in Seq(SUBSET S) /\ Len(<<rest>>) = 1 /\ <<rest>>[1] = rest
    BY <1>2
  <2>2. left = <<rest>> \o tail
    BY DEF tail
  <2>. HIDE DEF left
  <2>3. Len(left) = 1 + Len(tail)
    BY <1>1, <2>1, <2>2
  <2>4. \A i \in 1..Len(queue) : left[i] = IF i <= 1 THEN <<rest>>[i] ELSE tail[i - 1]
    BY <1>1, <2>1, <2>2, <2>3
  <2> QED
    BY <1>1, <2>1, <2>3, <2>4
<1>. HIDE DEF left, tail
<1> SUFFICES ASSUME NEW k \in 1..Len(queue), NEW x \in queue[k], x # item
             PROVE  x \in Items(NextBatch(queue, item))
  BY DEF Items
<1>5. CASE k = 1
  <2>1. x \in rest /\ Head(queue) # {item}
    BY <1>1, <1>5
  <2>2. 1 \in 1..Len(left) /\ x \in left[1]
    BY <1>1, <1>4, <2>1
  <2> QED
    BY <1>3, <2>1, <2>2 DEF Items
<1>6. CASE k # 1
  <2> DEFINE j == k - 1
  <2>1. j \in 1..Len(queue) - 1 /\ j + 1 = k /\ j \in 1..Len(tail) /\ k \in 1..Len(left)
    BY <1>1, <1>4, <1>6
  <2>. HIDE DEF j
  <2>2. tail[j] = queue[k] /\ left[k] = tail[j]
    BY <1>1, <1>4, <2>1
  <2> QED
    BY <1>3, <2>1, <2>2 DEF Items
<1> QED
  BY <1>5, <1>6

-----------------------------------------------------------------------------
(* The steps of the agent *)

Occupied == Busy(engine, Acks(inbox), Replies(inbox))

(* The executor's answer takes the place of its move, the worker's         *)
(* acknowledgement that of its intent.                                     *)
LEMMA ExecuteOccupied ==
    ASSUME Inductive, Occupied, ExecutePark \/ ExecuteRestore
    PROVE  Occupied'
<1>1. PICK m, event : Execute(m, event) /\ event \in Replying
  BY DEF ExecutePark, ExecuteRestore, Lands, Fails, Replying
<1>2. /\ engine \in EngineState /\ engine.effects \in Seq(SUBSET Move) /\ inbox \in Seq(Message)
  BY FieldTypes DEF Inductive, OutsideTyped, Good, Consistent
<1>3. /\ engine.effects # << >> /\ m \in Move
      /\ \E answer \in Message :
           /\ answer.event = event /\ answer.window = m.window
           /\ inbox' = Append(inbox, answer)
  BY <1>1, ExecuteTakes DEF Replying
<1> DEFINE left == NextBatch(engine.effects, m)
<1>4. engine' = [engine EXCEPT !.effects = left]
  BY <1>1 DEF Execute
<1>5. Items(engine.effects) \ {m} \subseteq Items(left)
  BY <1>2, <1>3, ItemsTaken
<1>. HIDE DEF left
<1>6. /\ engine'.switch = engine.switch /\ engine'.pending = engine.pending
      /\ engine'.intents = engine.intents /\ engine'.life = engine.life /\ engine'.effects = left
  BY <1>2, <1>4 DEF EngineState
<1>7. /\ Acks(inbox) \subseteq Acks(inbox') /\ Replies(inbox) \subseteq Replies(inbox')
      /\ m.window \in Replies(inbox')
  BY <1>1, <1>2, <1>3, ChannelAppend
<1>8. Movers(engine) \subseteq Movers(engine') \cup {m.window}
  BY <1>5, <1>6 DEF Movers
<1>9. Asks(engine') = Asks(engine) /\ Managed(engine') = Managed(engine)
  BY <1>6 DEF Asks, Managed
<1>10. Pends(engine', Acks(inbox'))
  BY <1>6, <1>7, <1>9 DEF Occupied, Busy, Pends
<1>11. Flies(engine', Replies(inbox'))
  BY <1>6, <1>7, <1>8 DEF Occupied, Busy, Flies
<1>12. Underway(engine')
  BY <1>6 DEF Occupied, Busy, Underway, SwitchOpen
<1> QED
  BY <1>10, <1>11, <1>12 DEF Occupied, Busy

LEMMA WriteOccupied ==
    ASSUME Inductive, Occupied, WriteDraft \/ WriteMark, "Refuse" \notin Allowed
    PROVE  Occupied'
<1>1. /\ engine \in EngineState /\ engine.intents \in Seq(SUBSET Intent) /\ inbox \in Seq(Message)
      /\ lastEntry \in Nat
  BY FieldTypes DEF Inductive, OutsideTyped, Good, Consistent
<1>2. PICK i : /\ TakeIntent(i)
               /\ \/ i.kind # "Record" /\ inbox' = inbox
                  \/ Acknowledge(i, "RecoveryEntryDurable", lastEntry + 1)
  <2>1. CASE WriteDraft
    BY <2>1 DEF WriteDraft, Spend
  <2>2. CASE WriteMark
    BY <2>2 DEF WriteMark, Intents
  <2> QED
    BY <2>1, <2>2
<1>3. i \in Intent /\ engine.intents # << >>
  BY <1>2, BridgeTakes
<1> DEFINE left == NextBatch(engine.intents, i)
<1>4. engine' = [engine EXCEPT !.intents = left]
  BY <1>2 DEF TakeIntent
<1>5. Items(engine.intents) \ {i} \subseteq Items(left)
  BY <1>1, <1>3, ItemsTaken
<1>. HIDE DEF left
<1>6. /\ engine'.switch = engine.switch /\ engine'.pending = engine.pending
      /\ engine'.effects = engine.effects /\ engine'.life = engine.life /\ engine'.intents = left
  BY <1>1, <1>4 DEF EngineState
<1>7. /\ Acks(inbox) \subseteq Acks(inbox') /\ Replies(inbox) \subseteq Replies(inbox')
      /\ i.kind = "Record" => <<i.number, i.window>> \in Acks(inbox')
  <2>1. CASE Acknowledge(i, "RecoveryEntryDurable", lastEntry + 1)
    <3> DEFINE m == [event |-> "RecoveryEntryDurable", window |-> i.window, batch |-> i.number,
                     entry |-> lastEntry + 1]
    <3>1. m \in Message
      BY <1>1, <1>3 DEF Intent, Message
    <3>2. inbox' = Append(inbox, m) /\ m.event = "RecoveryEntryDurable"
          /\ m.batch = i.number /\ m.window = i.window
      BY <2>1 DEF Acknowledge, Send
    <3>. HIDE DEF m
    <3> QED
      BY <1>1, <3>1, <3>2, ChannelAppend
  <2> QED
    BY <1>2, <2>1
<1>8. Asks(engine) \subseteq Asks(engine') \cup Acks(inbox')
  BY <1>5, <1>6, <1>7 DEF Asks
<1>9. Movers(engine') = Movers(engine) /\ Managed(engine') = Managed(engine)
  BY <1>6 DEF Movers, Managed
<1>10. Pends(engine', Acks(inbox'))
  BY <1>6, <1>7, <1>8, <1>9 DEF Occupied, Busy, Pends
<1>11. Flies(engine', Replies(inbox'))
  BY <1>6, <1>7, <1>9 DEF Occupied, Busy, Flies
<1>12. Underway(engine')
  BY <1>6 DEF Occupied, Busy, Underway, SwitchOpen
<1> QED
  BY <1>10, <1>11, <1>12 DEF Occupied, Busy
(* What the refresher and the forwarder put on the channel.                *)
LEMMA DesktopSends ==
    ASSUME Inductive, WindowChanges \/ DisplaysPlugged \/ MachineWakes \/ Enumerate
    PROVE  \/ inbox' = inbox
           \/ \E m \in Message : inbox' = Append(inbox, m) /\ m.event = "WindowsObserved"
           \/ \E m, n \in Message :
                /\ inbox' = Append(Append(inbox, m), n)
                /\ m.event = "ParkingCapabilityReported" /\ n.event \in {"Plug", "Wake"}
                /\ DisplaysPlugged \/ MachineWakes
<1>1. desktop \in Desktop /\ inbox \in Seq(Message)
  BY DEF Inductive, OutsideTyped
<1>2. CASE WindowChanges
  BY <1>2 DEF WindowChanges
<1>3. CASE Enumerate
  <2> DEFINE m == [event |-> "WindowsObserved", life |-> Inventory, seat |-> desktop.seat]
  <2>1. m \in Message /\ m.event = "WindowsObserved"
    BY <1>1, InventoryType DEF Message, Desktop
  <2>2. inbox' = Append(inbox, m)
    BY <1>3 DEF Enumerate, Send
  <2>. HIDE DEF m
  <2> QED
    BY <2>1, <2>2
<1>4. ASSUME NEW kind \in {"Plug", "Wake"}, DisplaysChange(kind), DisplaysPlugged \/ MachineWakes
      PROVE  \E m, n \in Message :
                /\ inbox' = Append(Append(inbox, m), n)
                /\ m.event = "ParkingCapabilityReported" /\ n.event \in {"Plug", "Wake"}
                /\ DisplaysPlugged \/ MachineWakes
  <2>1. PICK new \in (SUBSET Display) \ {{}}, site \in BOOLEAN :
          \E near \in new, seen \in BOOLEAN :
            /\ agent.stage = "Up"
            /\ Spend(kind)
            /\ kind = "Plug" => new # desktop.plugged /\ ~seen
            /\ desktop' = [desktop EXCEPT !.plugged = new, !.site = site,
                 !.seat = [w \in Window |-> IF desktop.seat[w] \in new THEN desktop.seat[w]
                                            ELSE near]]
            /\ dirty' = TRUE
            /\ inbox' = inbox \o
                 << [event |-> "ParkingCapabilityReported",
                     site |-> IF site THEN "Verified" ELSE "Refused"],
                    [event |-> kind, displays |-> new, nearest |-> near,
                     enumerated |-> seen, life |-> Inventory,
                     seat |-> [w \in Window |-> IF desktop.seat[w] \in new
                                                THEN desktop.seat[w] ELSE near]] >>
            /\ UNCHANGED <<engine, ledger, lastEntry, agent>>
    BY <1>4, Zenon DEF DisplaysChange
  <2>2. PICK near \in new, seen \in BOOLEAN :
            inbox' = inbox \o
                 << [event |-> "ParkingCapabilityReported",
                     site |-> IF site THEN "Verified" ELSE "Refused"],
                    [event |-> kind, displays |-> new, nearest |-> near,
                     enumerated |-> seen, life |-> Inventory,
                     seat |-> [w \in Window |-> IF desktop.seat[w] \in new
                                                THEN desktop.seat[w] ELSE near]] >>
    BY <2>1
  <2> DEFINE seat == [w \in Window |-> IF desktop.seat[w] \in new THEN desktop.seat[w] ELSE near]
             first == [event |-> "ParkingCapabilityReported",
                       site |-> IF site THEN "Verified" ELSE "Refused"]
             second == [event |-> kind, displays |-> new, nearest |-> near,
                        enumerated |-> seen, life |-> Inventory, seat |-> seat]
  <2>3. seat \in [Window -> Display] /\ inbox' = inbox \o <<first, second>>
    BY <1>1, <2>2 DEF Desktop
  <2>. HIDE DEF seat
  <2>4. first \in Message /\ first.event = "ParkingCapabilityReported"
    BY DEF Message, Capability
  <2>5. second \in Message /\ second.event \in {"Plug", "Wake"}
    BY <1>1, <2>3, InventoryType DEF Message
  <2>. HIDE DEF first, second
  <2>6. inbox' = Append(Append(inbox, first), second)
    BY <1>1, <2>3, <2>4, <2>5
  <2> QED
    BY <1>4, <2>4, <2>5, <2>6
<1> QED
  BY <1>2, <1>3, <1>4 DEF DisplaysPlugged, MachineWakes

(* Requests add work of their own, and a new switch begins with some.      *)
LEMMA ArrivalsOccupied ==
    ASSUME Inductive, Occupied, Arrivals
    PROVE  Occupied'
<1> DEFINE D == Acks(inbox)
           M == Replies(inbox)
<1>1. inbox' = inbox /\ Good(engine) /\ Busy(engine, D, M)
  BY DEF Arrivals, UserFocuses, UserMoves, UserCreates, UserDeletes, UserParks,
         UserRestoresWindows, UserRestoresSwitch, ConfigReloads, HealthChanges, Arrives,
         UserPauses, UserResumes, DatabaseLoads, Inductive, Occupied
<1> SUFFICES Busy(engine', D, M)
  BY <1>1 DEF Occupied
<1>. HIDE DEF D, M
<1>2. ASSUME Adds(engine, engine')
      PROVE  Busy(engine', D, M)
  BY <1>1, <1>2, AddsBusy
<1>3. CASE UserFocuses
  <2>1. PICK n \in Workspace, d \in Display : WorkspaceFocusRequested(n, d)
    BY <1>3 DEF UserFocuses, Arrives
  <2> QED
    BY <1>1, <2>1, FocusBusy
<1>4. CASE UserMoves \/ UserCreates \/ UserDeletes
  <2>1. \E n \in Workspace : \E d :
          WorkspaceMoveRequested(n, d) \/ WorkspaceCreateRequested(n)
            \/ WorkspaceDeleteRequested(n)
    BY <1>4 DEF UserMoves, UserCreates, UserDeletes, Arrives
  <2> QED
    BY <1>1, <1>2, <2>1, PoolAdds
<1>5. CASE UserParks
  <2>1. PICK w \in Window : ParkingAuthorizationRequested(w)
    BY <1>5 DEF UserParks, Arrives
  <2>2. {w} \subseteq Managed(engine) /\ engine \in EngineState /\ 0 \in Nat
        /\ engine' = RequestRecoveryEntries(engine, {w}, 0)
    BY <1>1, <2>1 DEF ParkingAuthorizationRequested, Parkable, Managed, Good, Consistent
  <2> QED
    BY <1>2, <2>2, RequestAdds
<1>6. CASE UserRestoresWindows
  <2>1. engine \in EngineState /\ Parked(engine) \in SUBSET Window
        /\ engine' = [engine EXCEPT !.effects = Push(@, RestoreMoves(engine, Parked(engine)))]
    BY <1>1, <1>6 DEF UserRestoresWindows, Arrives, RestoreParkedWindowsRequested, Parked,
                     Good, Consistent
  <2> QED
    BY <1>2, <2>1, EffectsAdd
<1>7. CASE UserRestoresSwitch
  BY <1>1, <1>2, <1>7, RestoreSwitchAdds DEF UserRestoresSwitch, Arrives
<1>8. CASE UserPauses \/ UserResumes \/ HealthChanges
  <2>1. "Refused" \in Capability /\ "Healthy" \in Health
    BY DEF Capability, Health
  <2>2. \E h \in Health : PauseRequested \/ ResumeRequested \/ PersistenceHealthChanged(h)
    BY <1>8, <2>1 DEF UserPauses, UserResumes, HealthChanges, Arrives
  <2> QED
    BY <1>1, <1>2, <2>1, <2>2, FlagAdds
<1>9. CASE ConfigReloads
  BY <1>1, <1>2, <1>9, ConfigAdds DEF ConfigReloads, Arrives
<1>10. CASE DatabaseLoads
  <2>1. PICK r \in Stored : WorkspacesLoaded(r.names, r.where)
    BY <1>10 DEF DatabaseLoads
  <2>2. r.names \in SUBSET Workspace /\ r.where \in [Workspace -> Display \cup {None}]
    BY StoredAssumption
  <2>3. engine' \in LoadWorkspaces(engine, r.names, r.where)
    BY <2>1 DEF WorkspacesLoaded
  <2> QED
    BY <1>1, <1>2, <2>2, <2>3, LoadAdds
<1> QED
  BY <1>3, <1>4, <1>5, <1>6, <1>7, <1>8, <1>9, <1>10 DEF Arrivals

(* The desktop only tells.                                                 *)
LEMMA DesktopOccupied ==
    ASSUME Inductive, Occupied, WindowChanges \/ DisplaysPlugged \/ MachineWakes \/ Enumerate
    PROVE  Occupied'
<1>1. engine' = engine
  <2>1. WindowChanges \/ Enumerate => engine' = engine
    BY DEF WindowChanges, Enumerate
  <2>2. DisplaysPlugged \/ MachineWakes => engine' = engine
    BY Zenon DEF DisplaysPlugged, MachineWakes, DisplaysChange
  <2> QED
    BY <2>1, <2>2
<1>2. \/ inbox' = inbox
      \/ \E m \in Message : inbox' = Append(inbox, m)
      \/ \E m, n \in Message : inbox' = Append(Append(inbox, m), n)
  BY DesktopSends
<1>3. inbox \in Seq(Message)
  BY DEF Inductive, OutsideTyped
<1>4. Acks(inbox) \subseteq Acks(inbox') /\ Replies(inbox) \subseteq Replies(inbox')
  <2>1. CASE \E m, n \in Message : inbox' = Append(Append(inbox, m), n)
    <3>1. PICK m \in Message, n \in Message : inbox' = Append(Append(inbox, m), n)
      BY <2>1
    <3> DEFINE q == Append(inbox, m)
    <3>2. Acks(inbox) \subseteq Acks(q) /\ Replies(inbox) \subseteq Replies(q)
      BY <1>3, ChannelAppend
    <3>4. q \in Seq(Message)
      BY <1>3
    <3>. HIDE DEF q
    <3>3. Acks(q) \subseteq Acks(Append(q, n)) /\ Replies(q) \subseteq Replies(Append(q, n))
      BY <3>4, ChannelAppend
    <3> QED
      BY <3>1, <3>2, <3>3 DEF q
  <2> QED
    BY <1>2, <1>3, <2>1, ChannelAppend
<1> QED
  BY <1>1, <1>4, BusyMore DEF Occupied

(* The reducer deals with what the channel brings.                         *)
LEMMA ReceiptsOccupied ==
    ASSUME Inductive, Occupied, Receipts, Head(inbox).event # "RecoveryEntryRefused",
           Reports(Head(inbox)) => \A w \in Managed(engine) : Head(inbox).life[w] # "Gone"
    PROVE  Occupied'
<1>1. PICK event : Receive(event)
  BY DEF Receipts, ReceiveObservation, ReceiveDurable, ReceiveRefused, ReceiveParked,
         ReceiveParkFailed, ReceiveRestored, ReceiveRestoreFailed, ReceiveCapability,
         ReceiveTopology, ReceiveWake
<1> DEFINE m == Head(inbox)
           D == Acks(inbox')
           M == Replies(inbox')
<1>2. /\ inbox # << >> /\ inbox' = Tail(inbox) /\ inbox \in Seq(Message) /\ Good(engine)
      /\ Busy(engine, Acks(inbox), Replies(inbox))
  BY <1>1 DEF Receive, Inductive, OutsideTyped, Occupied
<1>3. m \in Message
  BY <1>2
<1>4. /\ m.event = "RecoveryEntryDurable" => Busy(engine, D \cup {<<m.batch, m.window>>}, M)
      /\ m.event \in Replying => Busy(engine, D, M \cup {m.window})
      /\ m.event # "RecoveryEntryDurable" /\ m.event \notin Replying => Busy(engine, D, M)
  <2>1. /\ Acks(inbox) \subseteq D \cup (IF m.event = "RecoveryEntryDurable"
                                         THEN {<<m.batch, m.window>>} ELSE {})
        /\ Replies(inbox) \subseteq M \cup (IF m.event \in Replying THEN {m.window} ELSE {})
    BY <1>2, ChannelTail
  <2>. HIDE DEF m, D, M
  <2>2. m.event = "RecoveryEntryDurable" => m.event \notin Replying
    BY DEF Replying
  <2>3. CASE m.event = "RecoveryEntryDurable"
    BY <1>2, <2>1, <2>2, <2>3, BusyMore
  <2>4. CASE m.event \in Replying
    BY <1>2, <2>1, <2>2, <2>4, BusyMore
  <2>5. CASE m.event # "RecoveryEntryDurable" /\ m.event \notin Replying
    BY <1>2, <2>1, <2>5, BusyMore
  <2> QED
    BY <2>2, <2>3, <2>4, <2>5
<1>5. m.event # "RecoveryEntryRefused"
      /\ (Reports(m) => \A w \in Managed(engine) : m.life[w] # "Gone")
  OBVIOUS
<1> SUFFICES Busy(engine', D, M)
  BY DEF Occupied
<1>. HIDE DEF m, D, M
<1>6. ASSUME Adds(engine, engine'), Busy(engine, D, M)
      PROVE  Busy(engine', D, M)
  BY <1>6, AddsBusy
<1>7. CASE ReceiveObservation
  <2>1. m.event = "WindowsObserved" /\ engine' = ReplaceInventory(engine, m.life, m.seat)
    BY <1>7 DEF ReceiveObservation, Receive, WindowsObserved, m
  <2>2. /\ m.life \in [Window -> Lifecycle] /\ m.seat \in [Window -> Display]
        /\ Reports(m) /\ m.event # "RecoveryEntryDurable" /\ m.event \notin Replying
    BY <1>3, <2>1 DEF Message, Reports, Replying
  <2>3. Adds(engine, engine')
    BY <1>2, <1>5, <2>1, <2>2, InventoryAdds
  <2> QED
    BY <1>4, <1>6, <2>2, <2>3
<1>8. CASE ReceiveDurable
  <2>1. /\ m.event = "RecoveryEntryDurable"
        /\ RecoveryEntryDurable(m.batch, m.window, m.entry) \/ UnknownToken(m.batch, m.window)
    BY <1>8 DEF ReceiveDurable, Receive, m
  <2>2. m.batch \in Nat /\ m.window \in Window /\ m.entry \in Nat
    BY <1>3, <2>1 DEF Message
  <2> QED
    BY <1>2, <1>4, <2>1, <2>2, DurableBusy, UnknownBusy
<1>9. CASE ReceiveRefused
  BY <1>5, <1>9 DEF ReceiveRefused, Receive, m
<1>10. CASE ReceiveParked \/ ReceiveParkFailed \/ ReceiveRestored \/ ReceiveRestoreFailed
  <2>1. /\ m.event \in Replying
        /\ \/ WindowParked(m.window, m.entry) \/ WindowParkFailed(m.window)
           \/ WindowRestored(m.window) \/ WindowRestoreFailed(m.window)
    BY <1>10 DEF ReceiveParked, ReceiveParkFailed, ReceiveRestored, ReceiveRestoreFailed,
                 Receive, Replying, m
  <2>2. m.window \in Window /\ m.entry \in Nat
    BY <1>3, <2>1 DEF Message, Replying
  <2> QED
    BY <1>2, <1>4, <2>1, <2>2, ParkedBusy, RestoredBusy, FailedBusy
<1>11. CASE ReceiveCapability
  <2>1. m.event = "ParkingCapabilityReported" /\ ParkingCapabilityReported(m.site)
    BY <1>11 DEF ReceiveCapability, Receive, m
  <2>2. /\ m.site \in Capability /\ "Healthy" \in Health
        /\ m.event # "RecoveryEntryDurable" /\ m.event \notin Replying
    BY <1>3, <2>1 DEF Message, Health, Replying
  <2>3. Adds(engine, engine')
    BY <1>2, <2>1, <2>2, FlagAdds
  <2> QED
    BY <1>4, <1>6, <2>2, <2>3
<1>12. CASE ReceiveTopology
  <2>1. /\ m.event = "Plug"
        /\ DisplayTopologyChanged(m.displays, m.nearest) \/ UNCHANGED engine
    BY <1>12 DEF ReceiveTopology, Receive, m
  <2>2. /\ m.displays \in SUBSET Display /\ m.nearest \in Display
        /\ m.event # "RecoveryEntryDurable" /\ m.event \notin Replying
    BY <1>3, <2>1 DEF Message, Replying
  <2>3. CASE UNCHANGED engine
    BY <1>4, <2>2, <2>3
  <2>4. CASE DisplayTopologyChanged(m.displays, m.nearest)
    BY <1>2, <1>4, <1>6, <2>2, <2>4, TopologyAdds
  <2> QED
    BY <2>1, <2>3, <2>4
<1>13. CASE ReceiveWake
  <2>1. /\ m.event = "Wake"
        /\ WakeReconciliation(m.displays, m.nearest, m.enumerated, m.life, m.seat)
    BY <1>13 DEF ReceiveWake, Receive, m
  <2>2. /\ m.displays \in SUBSET Display /\ m.nearest \in Display /\ m.enumerated \in BOOLEAN
        /\ m.life \in [Window -> Lifecycle] /\ m.seat \in [Window -> Display]
        /\ Reports(m) /\ m.event # "RecoveryEntryDurable" /\ m.event \notin Replying
    BY <1>3, <2>1 DEF Message, Replying, Reports
  <2>3. Adds(engine, engine')
    BY <1>2, <1>5, <2>1, <2>2, WakeAdds
  <2> QED
    BY <1>4, <1>6, <2>2, <2>3
<1> QED
  BY <1>7, <1>8, <1>9, <1>10, <1>11, <1>12, <1>13 DEF Receipts

(* A new reducer has nothing under way and no switch open.                 *)
LEMMA BootBusy ==
    ASSUME NEW cfg \in Configs, NEW displays \in SUBSET Display, NEW site,
           NEW t \in Booted(cfg, displays, site)
    PROVE  Busy(t, {}, {}) /\ ~SwitchOpen(t)
<1> DEFINE s == BlankState(cfg, displays)
           synced == SyncWorkspacesFromConfig(s)
<1>1. PICK u \in BootStates(cfg, displays) :
        t = [u EXCEPT !.site = IF site THEN "Verified" ELSE "Refused"]
  BY DEF Booted
<1>2. Good(s) /\ Busy(s, {}, {}) /\ ~SwitchOpen(s)
  <2>1. Good(s)
    BY BlankGood
  <2>2. s.pending = {} /\ s.switch.inFlight = {} /\ ~SwitchOpen(s)
    BY DEF BlankState, NoSwitch, SwitchOpen
  <2>. HIDE DEF s
  <2> QED
    BY <2>1, <2>2 DEF Busy, Pends, Flies, Underway
<1>. HIDE DEF s
<1>3. Good(synced) /\ Adds(s, synced)
  BY <1>2, SyncGood, AssignmentAdds DEF Good, Consistent
<1>4. PICK f \in FillEmptyDisplays(synced) : u = ApplySwitchingMapping(f)
  BY <1>1 DEF BootStates, s
<1>. HIDE DEF synced
<1>5. Good(f) /\ Adds(synced, f)
  BY <1>3, FillGood, AssignmentAdds DEF Good, Consistent
<1>6. Good(u) /\ Adds(f, u)
  BY <1>4, <1>5, MappingGood, AssignmentAdds DEF Good, Consistent
<1>7. Adds(u, t)
  <2>1. u \in EngineState
    BY <1>6 DEF Good, Consistent
  <2>2. /\ t.switch = u.switch /\ t.life = u.life /\ t.pending = u.pending
        /\ t.effects = u.effects /\ t.intents = u.intents
    BY <1>1, <2>1 DEF EngineState
  <2> QED
    BY <2>2, IdleAdds
<1>8. Adds(s, t)
  BY <1>3, <1>5, <1>6, <1>7, AddsTransitive
<1> QED
  BY <1>2, <1>8, AddsBusy DEF Adds, SwitchOpen

(* What an open switch waits for is under way as long as the process runs, *)
(* provided that the worker refuses no entry and no window closes.         *)
Working ==
    /\ agent.stage \in {"Recovering", "Up"} => Occupied
    /\ \A k \in 1..Len(inbox) : inbox[k].event # "RecoveryEntryRefused"
    /\ \A w \in Window : desktop.life[w] # "Closed"

LEMMA StartsWorking ==
    ASSUME PipelineInit
    PROVE  Working
<1>1. PICK cfg \in Configs, start \in Start :
        /\ desktop = [life |-> [w \in Window |-> IF w \in start.open THEN "Normal"
                                                ELSE "Unopened"],
                      place |-> [w \in Window |-> "Screen"],
                      seat |-> start.seat, plugged |-> start.plugged, site |-> TRUE]
        /\ engine \in Booted(cfg, start.plugged, TRUE)
  BY DEF PipelineInit
<1>2. start.plugged \in SUBSET Display
  BY StartAssumption
<1>3. Busy(engine, {}, {})
  BY <1>1, <1>2, BootBusy
<1>4. Occupied
  BY <1>3, BusyMore DEF Occupied
<1>5. \A w \in Window : desktop.life[w] # "Closed"
  BY <1>1
<1>6. Len(inbox) = 0
  BY DEF PipelineInit
<1> QED
  BY <1>4, <1>5, <1>6 DEF Working

LEMMA ProcessOccupied ==
    ASSUME Inductive, Working, Process
    PROVE  agent'.stage \in {"Recovering", "Up"} => Occupied'
<1>1. /\ agent \in Agent /\ desktop.plugged \in SUBSET Display /\ engine.config \in Configs
  BY DEF Inductive, OutsideTyped, Desktop, Good, Consistent, EngineState
<1>2. CASE Crash \/ StartsAgain
  <2>1. engine' \in Booted(engine.config, desktop.plugged, desktop.site)
    BY <1>2 DEF Crash, StartsAgain, Starts, Planned
  <2>2. Busy(engine', {}, {})
    BY <1>1, <2>1, BootBusy
  <2> QED
    BY <2>2, BusyMore DEF Occupied
<1>3. CASE Quit \/ ExecutorStops
  BY <1>1, <1>3, ExecutorStopsIs DEF Quit, Agent, Inductive, OutsideTyped
<1>4. CASE RecoverWindow \/ MarkRecovered
  <2>1. UNCHANGED <<engine, inbox>> /\ agent'.stage = agent.stage
    BY <1>1, <1>4 DEF RecoverWindow, MarkRecovered, Agent
  <2> QED
    BY <2>1 DEF Working, Occupied
<1>5. CASE RecoveryEnds
  <2>1. UNCHANGED <<engine, inbox>> /\ agent.stage = "Recovering"
    BY <1>5 DEF RecoveryEnds
  <2> QED
    BY <2>1 DEF Working, Occupied
<1> QED
  BY <1>2, <1>3, <1>4, <1>5 DEF Process

(* What appending and taking does to what a channel may not hold.          *)
LEMMA AbsentAppend ==
    ASSUME NEW q \in Seq(Message), NEW m \in Message, NEW E,
           \A k \in 1..Len(q) : q[k].event \notin E, m.event \notin E
    PROVE  \A k \in 1..Len(Append(q, m)) : Append(q, m)[k].event \notin E
<1> DEFINE r == Append(q, m)
<1>1. Len(r) = Len(q) + 1 /\ Len(q) \in Nat /\ r[Len(q) + 1] = m
  OBVIOUS
<1>2. \A k \in 1..Len(q) : r[k] = q[k]
  OBVIOUS
<1>. HIDE DEF r
<1>3. \A k \in 1..Len(r) : k \in 1..Len(q) \/ k = Len(q) + 1
  BY <1>1
<1>4. \A k \in 1..Len(r) : r[k].event \notin E
  BY <1>1, <1>2, <1>3
<1> QED
  BY <1>4 DEF r

LEMMA AbsentTail ==
    ASSUME NEW q \in Seq(Message), q # << >>, NEW E,
           \A k \in 1..Len(q) : q[k].event \notin E
    PROVE  /\ \A k \in 1..Len(Tail(q)) : Tail(q)[k].event \notin E
           /\ Head(q).event \notin E
<1> DEFINE r == Tail(q)
<1>1. Len(q) \in Nat /\ Len(q) >= 1 /\ Head(q) = q[1] /\ Len(r) = Len(q) - 1
  OBVIOUS
<1>2. \A j \in 1..Len(q) - 1 : r[j] = q[j + 1]
  OBVIOUS
<1>. HIDE DEF r
<1>3. \A j \in 1..Len(r) : r[j] = q[j + 1] /\ j + 1 \in 1..Len(q)
  BY <1>1, <1>2
<1>4. 1 \in 1..Len(q)
  BY <1>1
<1> QED
  BY <1>1, <1>3, <1>4 DEF r

(* What each step may put on the channel.                                  *)
LEMMA StepSends ==
    ASSUME Inductive, PipelineNext
    PROVE  \/ inbox' \in {inbox, << >>}
           \/ inbox # << >> /\ inbox' = Tail(inbox)
           \/ \E m \in Message : /\ inbox' = Append(inbox, m)
                                 /\ m.event \notin {"Plug", "Wake"}
                                 /\ m.event = "RecoveryEntryRefused" => "Refuse" \in Allowed
           \/ \E m, n \in Message :
                /\ inbox' = Append(Append(inbox, m), n)
                /\ m.event = "ParkingCapabilityReported" /\ n.event \in {"Plug", "Wake"}
                /\ DisplaysPlugged \/ MachineWakes
<1>1. CASE Arrivals
  BY <1>1
     DEF Arrivals, UserFocuses, UserMoves, UserCreates, UserDeletes, UserParks,
         UserRestoresWindows, UserRestoresSwitch, ConfigReloads, HealthChanges, Arrives,
         UserPauses, UserResumes, DatabaseLoads
<1>2. CASE WindowChanges \/ DisplaysPlugged \/ MachineWakes \/ Enumerate
  BY <1>2, DesktopSends
<1>3. CASE ExecutePark \/ ExecuteRestore
  <2>1. PICK m, event : Execute(m, event) /\ event \in Replying
    BY <1>3 DEF ExecutePark, ExecuteRestore, Lands, Fails, Replying
  <2>2. \E answer \in Message : answer.event = event /\ inbox' = Append(inbox, answer)
    BY <2>1, ExecuteTakes DEF Replying
  <2> QED
    BY <2>1, <2>2 DEF Replying
<1>4. CASE WriteMark
  BY <1>4 DEF WriteMark
<1>5. CASE WriteDraft
  <2>1. PICK i : /\ TakeIntent(i)
                 /\ \/ Acknowledge(i, "RecoveryEntryDurable", lastEntry + 1)
                    \/ "Refuse" \in Allowed /\ Acknowledge(i, "RecoveryEntryRefused", 0)
    BY <1>5 DEF WriteDraft, Spend
  <2>2. i \in Intent /\ lastEntry \in Nat
    BY <2>1, BridgeTakes DEF Inductive, OutsideTyped
  <2>3. ASSUME NEW event \in {"RecoveryEntryDurable", "RecoveryEntryRefused"}, NEW entry \in Nat,
               Acknowledge(i, event, entry)
        PROVE  \E m \in Message : inbox' = Append(inbox, m) /\ m.event = event
    <3> DEFINE m == [event |-> event, window |-> i.window, batch |-> i.number, entry |-> entry]
    <3>1. m \in Message
      BY <2>2 DEF Intent, Message
    <3>2. inbox' = Append(inbox, m) /\ m.event = event
      BY <2>3 DEF Acknowledge, Send
    <3>. HIDE DEF m
    <3> QED
      BY <3>1, <3>2
  <2>4. lastEntry + 1 \in Nat
    BY <2>2
  <2>5. CASE Acknowledge(i, "RecoveryEntryDurable", lastEntry + 1)
    <3>1. \E m \in Message : inbox' = Append(inbox, m) /\ m.event = "RecoveryEntryDurable"
      BY <2>3, <2>4, <2>5
    <3> QED
      BY <3>1
  <2>6. CASE "Refuse" \in Allowed /\ Acknowledge(i, "RecoveryEntryRefused", 0)
    <3>1. \E m \in Message : inbox' = Append(inbox, m) /\ m.event = "RecoveryEntryRefused"
      BY <2>3, <2>6
    <3> QED
      BY <2>6, <3>1
  <2> QED
    BY <2>1, <2>5, <2>6
<1>6. CASE Receipts
  <2>1. PICK event : Receive(event)
    BY <1>6 DEF Receipts, ReceiveObservation, ReceiveDurable, ReceiveRefused, ReceiveParked,
         ReceiveParkFailed, ReceiveRestored, ReceiveRestoreFailed, ReceiveCapability,
         ReceiveTopology, ReceiveWake
  <2> QED
    BY <2>1 DEF Receive
<1>7. CASE Process
  BY <1>7 DEF Process, Crash, StartsAgain, Starts, Quit, ExecutorStops, RecoverWindow,
              MarkRecovered, RecoveryEnds
<1> QED
  BY <1>1, <1>2, <1>3, <1>4, <1>5, <1>6, <1>7 DEF PipelineNext

(* Nothing but the end of a recovery pass lets the threads go.             *)
LEMMA StageStays ==
    ASSUME Inductive, PipelineNext, ~Process
    PROVE  agent'.stage = agent.stage /\ (agent.stage = "Recovering" => ~Arrivals)
<1>1. agent \in Agent
  BY DEF Inductive, OutsideTyped
<1>2. CASE Arrivals
  BY <1>1, <1>2
     DEF Arrivals, UserFocuses, UserMoves, UserCreates, UserDeletes, UserParks,
         UserRestoresWindows, UserRestoresSwitch, ConfigReloads, HealthChanges, Arrives,
         UserPauses, UserResumes, DatabaseLoads, Agent
<1>3. CASE WindowChanges \/ Enumerate
  BY <1>3
     DEF WindowChanges, Enumerate,
         Arrivals, UserFocuses, UserMoves, UserCreates, UserDeletes, UserParks,
         UserRestoresWindows, UserRestoresSwitch, ConfigReloads, HealthChanges, Arrives,
         UserPauses, UserResumes, DatabaseLoads
<1>4. CASE DisplaysPlugged \/ MachineWakes
  <2>1. agent' = agent /\ agent.stage = "Up"
    BY <1>4, Zenon DEF DisplaysPlugged, MachineWakes, DisplaysChange
  <2> QED
    BY <2>1
<1>5. CASE ExecutePark \/ ExecuteRestore
  <2>1. PICK m, event : Execute(m, event) /\ event \in Replying
    BY <1>5 DEF ExecutePark, ExecuteRestore, Lands, Fails, Replying
  <2>2. agent'.stage = agent.stage /\ agent.stage # "Recovering"
    BY <2>1, ExecuteTakes DEF Replying
  <2> QED
    BY <2>2
<1>6. CASE WriteDraft \/ WriteMark
  BY <1>6 DEF WriteDraft, WriteMark, TakeIntent
<1>7. CASE Receipts
  <2>1. PICK event : Receive(event)
    BY <1>7 DEF Receipts, ReceiveObservation, ReceiveDurable, ReceiveRefused, ReceiveParked,
         ReceiveParkFailed, ReceiveRestored, ReceiveRestoreFailed, ReceiveCapability,
         ReceiveTopology, ReceiveWake
  <2>2. agent' = agent /\ inbox' = Tail(inbox) /\ inbox # << >> /\ inbox \in Seq(Message)
    BY <2>1 DEF Receive, Inductive, OutsideTyped
  <2>3. ~Arrivals
    <3> SUFFICES ASSUME Arrivals
                 PROVE  FALSE
      OBVIOUS
    <3>1. inbox' = inbox
      BY DEF Arrivals, UserFocuses, UserMoves, UserCreates, UserDeletes, UserParks,
         UserRestoresWindows, UserRestoresSwitch, ConfigReloads, HealthChanges, Arrives,
         UserPauses, UserResumes, DatabaseLoads
    <3>2. Len(inbox) \in Nat /\ Len(inbox') = Len(inbox) - 1
      BY <2>2
    <3> QED
      BY <3>1, <3>2
  <2> QED
    BY <2>2, <2>3
<1> QED
  BY <1>2, <1>3, <1>4, <1>5, <1>6, <1>7 DEF PipelineNext

LEMMA WindowsLast ==
    ASSUME Inductive, PipelineNext, "Closed" \notin Allowed,
           \A w \in Window : desktop.life[w] # "Closed"
    PROVE  \A w \in Window : desktop'.life[w] # "Closed"
<1>1. desktop \in Desktop /\ desktop.life \in [Window -> NativeLife]
  BY DEF Inductive, OutsideTyped, Desktop
<1>2. ASSUME desktop'.life = desktop.life
      PROVE  \A w \in Window : desktop'.life[w] # "Closed"
  BY <1>2
<1>3. CASE WindowChanges
  BY <1>1, <1>3 DEF WindowChanges, Spend, Desktop
<1>4. CASE DisplaysPlugged \/ MachineWakes
  <2>1. PICK plugged, site, seat :
          desktop' = [desktop EXCEPT !.plugged = plugged, !.site = site, !.seat = seat]
    BY <1>4, Zenon DEF DisplaysPlugged, MachineWakes, DisplaysChange
  <2>2. desktop'.life = desktop.life
    BY <1>1, <2>1 DEF Desktop
  <2> QED
    BY <1>2, <2>2
<1>5. CASE ExecutePark \/ ExecuteRestore
  <2>1. PICK v, place : desktop' \in {desktop, [desktop EXCEPT !.place[v] = place]}
    BY <1>5 DEF ExecutePark, ExecuteRestore, Lands, Fails
  <2>2. desktop'.life = desktop.life
    BY <1>1, <2>1 DEF Desktop
  <2> QED
    BY <1>2, <2>2
<1>6. CASE Process
  <2>1. PICK v : desktop' \in {desktop, [desktop EXCEPT !.place[v] = "Screen"]}
    BY <1>6 DEF Process, Crash, StartsAgain, Starts, Quit, ExecutorStops, RecoverWindow,
                MarkRecovered, RecoveryEnds
  <2>2. desktop'.life = desktop.life
    BY <1>1, <2>1 DEF Desktop
  <2> QED
    BY <1>2, <2>2
<1>7. CASE Arrivals \/ Enumerate \/ WriteDraft \/ WriteMark
  <2>1. desktop' = desktop
    BY <1>7
     DEF Arrivals, UserFocuses, UserMoves, UserCreates, UserDeletes, UserParks,
         UserRestoresWindows, UserRestoresSwitch, ConfigReloads, HealthChanges, Arrives,
         UserPauses, UserResumes, DatabaseLoads, Enumerate, WriteDraft, WriteMark, TakeIntent
  <2> QED
    BY <1>2, <2>1
<1>8. CASE Receipts
  <2>1. desktop' = desktop
    BY <1>8 DEF Receipts, ReceiveObservation, ReceiveDurable, ReceiveRefused, ReceiveParked,
         ReceiveParkFailed, ReceiveRestored, ReceiveRestoreFailed, ReceiveCapability,
         ReceiveTopology, ReceiveWake, Receive
  <2> QED
    BY <1>2, <2>1
<1> QED
  BY <1>3, <1>4, <1>5, <1>6, <1>7, <1>8 DEF PipelineNext

LEMMA StepWorking ==
    ASSUME Inductive, Ledgered, Working, PipelineNext, {"Refuse", "Closed"} \cap Allowed = {}
    PROVE  Working'
<1>1. inbox \in Seq(Message) /\ agent \in Agent /\ "Refuse" \notin Allowed /\ "Closed" \notin Allowed
  BY DEF Inductive, OutsideTyped
<1> DEFINE E == {"RecoveryEntryRefused"}
<1>2. \A k \in 1..Len(inbox) : inbox[k].event \notin E
  BY DEF Working
<1>3. \A k \in 1..Len(inbox') : inbox'[k].event \notin E
  <2>1. CASE inbox' = inbox
    BY <1>2, <2>1
  <2>2. CASE inbox' = << >>
    BY <2>2
  <2>3. CASE inbox # << >> /\ inbox' = Tail(inbox)
    <3>. HIDE DEF E
    <3> QED
      BY <1>1, <1>2, <2>3, AbsentTail
  <2>4. CASE \E m \in Message : inbox' = Append(inbox, m) /\ m.event # "RecoveryEntryRefused"
    <3>1. PICK m \in Message : inbox' = Append(inbox, m) /\ m.event \notin E
      BY <2>4
    <3>. HIDE DEF E
    <3> QED
      BY <1>1, <1>2, <3>1, AbsentAppend
  <2>5. CASE \E m, n \in Message : /\ inbox' = Append(Append(inbox, m), n)
                                   /\ m.event # "RecoveryEntryRefused"
                                   /\ n.event # "RecoveryEntryRefused"
    <3>1. PICK m \in Message, n \in Message :
            inbox' = Append(Append(inbox, m), n) /\ m.event \notin E /\ n.event \notin E
      BY <2>5
    <3>. HIDE DEF E
    <3> DEFINE q == Append(inbox, m)
    <3>2. \A k \in 1..Len(q) : q[k].event \notin E
      BY <1>1, <1>2, <3>1, AbsentAppend
    <3>3. q \in Seq(Message)
      BY <1>1
    <3>4. inbox' = Append(q, n)
      BY <3>1
    <3>. HIDE DEF q
    <3> QED
      BY <3>1, <3>2, <3>3, <3>4, AbsentAppend
  <2> QED
    BY <1>1, <2>1, <2>2, <2>3, <2>4, <2>5, StepSends
<1>4. \A w \in Window : desktop'.life[w] # "Closed"
  BY <1>1, WindowsLast DEF Working
<1>5. agent'.stage \in {"Recovering", "Up"} => Occupied'
  <2>1. CASE Process
    BY <2>1, ProcessOccupied
  <2>2. CASE ~Process
    <3> SUFFICES ASSUME agent'.stage \in {"Recovering", "Up"}
                 PROVE  Occupied'
      OBVIOUS
    <3>1. agent.stage \in {"Recovering", "Up"} /\ Occupied
      BY <2>2, StageStays DEF Working
    <3>2. ASSUME Receipts
          PROVE  Occupied'
      <4>1. PICK event : Receive(event)
        BY <3>2 DEF Receipts, ReceiveObservation, ReceiveDurable, ReceiveRefused, ReceiveParked,
             ReceiveParkFailed, ReceiveRestored, ReceiveRestoreFailed, ReceiveCapability,
             ReceiveTopology, ReceiveWake
      <4>2. inbox # << >> /\ agent.stage = "Up"
        BY <3>1, <4>1 DEF Receive, Ledgered
      <4>3. Head(inbox) = inbox[1] /\ 1 \in 1..Len(inbox)
        BY <1>1, <4>2
      <4>4. ASSUME Reports(Head(inbox)), NEW w \in Managed(engine)
            PROVE  Head(inbox).life[w] # "Gone"
        <5>1. w \in Window /\ engine.life[w] # "Gone"
          BY <4>4 DEF Managed
        <5>2. Seen(engine, inbox, w, desktop.life[w]) /\ desktop.life[w] # "Closed"
          BY <4>2, <5>1 DEF Ledgered, FlowOf, Flow, Working
        <5> QED
          BY <4>3, <4>4, <5>1, <5>2 DEF Seen
      <4>5. Head(inbox).event # "RecoveryEntryRefused"
        BY <4>3 DEF Working
      <4> QED
        BY <3>1, <3>2, <4>4, <4>5, ReceiptsOccupied
    <3>3. ASSUME Arrivals
          PROVE  Occupied'
      BY <3>1, <3>3, ArrivalsOccupied
    <3>4. ASSUME WindowChanges \/ DisplaysPlugged \/ MachineWakes \/ Enumerate
          PROVE  Occupied'
      BY <3>1, <3>4, DesktopOccupied
    <3>5. ASSUME ExecutePark \/ ExecuteRestore
          PROVE  Occupied'
      BY <3>1, <3>5, ExecuteOccupied
    <3>6. ASSUME WriteDraft \/ WriteMark
          PROVE  Occupied'
      BY <1>1, <3>1, <3>6, WriteOccupied
    <3> QED
      BY <2>2, <3>2, <3>3, <3>4, <3>5, <3>6 DEF PipelineNext
  <2> QED
    BY <2>1, <2>2
<1> QED
  BY <1>3, <1>4, <1>5 DEF Working

LEMMA WorkingAlways ==
    ASSUME {"Refuse", "Closed"} \cap Allowed = {}
    PROVE  PipelineSpec => []Working
<1>1. PipelineInit => Working
  BY StartsWorking
<1>2. Inductive /\ Ledgered /\ Working /\ [PipelineNext]_vars => Working'
  <2>1. ASSUME Working, UNCHANGED vars
        PROVE  Working'
    BY <2>1 DEF vars, outside, Working, Occupied
  <2> QED
    BY <2>1, StepWorking
<1> QED
  BY <1>1, <1>2, InductiveAlways, LedgeredAlways, PTL DEF PipelineSpec

(* Once every answer has been heard, nobody holds the agent up.            *)
LEMMA QuietIsClosed ==
    ASSUME Inductive, Working, agent.stage = "Up", Quiet
    PROVE  ~SwitchOpen(engine)
<1>1. Occupied /\ RequestsMatch(engine)
  BY DEF Working, Inductive, Good, Consistent
<1>2. Len(inbox) = 0 /\ Len(engine.effects) = 0 /\ Len(engine.intents) = 0
  BY DEF Quiet
<1>3. Acks(inbox) = {} /\ Replies(inbox) = {} /\ Movers(engine) = {} /\ Asks(engine) = {}
  BY <1>2 DEF Acks, Replies, Movers, Asks, Items
<1>4. engine.pending = {}
  BY <1>1, <1>3 DEF Occupied, Busy, Pends
<1> SUFFICES ASSUME SwitchOpen(engine)
             PROVE  FALSE
  OBVIOUS
<1>5. engine.switch.recording = {}
  BY <1>1, <1>4 DEF RequestsMatch
<1>6. engine.switch.inFlight = {}
  BY <1>1, <1>3, <1>5 DEF Occupied, Busy, Flies
<1> QED
  BY <1>1, <1>5, <1>6 DEF Occupied, Busy, Underway

(* While a switch is open, something is in the queues or in the channel:   *)
(* its answers can still come (request_recovery_entries and                *)
(* emit_switch_restores emit what the transaction then waits for).         *)
SwitchHasWork == agent.stage = "Up" /\ SwitchOpen(engine) => ~Quiet

(* Where the worker refuses no entry and no window closes, an open switch  *)
(* always has work under way: no event drops what it waits for and leaves  *)
(* it waiting.                                                             *)
THEOREM OpenSwitchHasWork ==
    ASSUME {"Refuse", "Closed"} \cap Allowed = {}
    PROVE  PipelineSpec => []SwitchHasWork
<1>1. Inductive /\ Working => SwitchHasWork
  BY QuietIsClosed DEF SwitchHasWork
<1> QED
  BY <1>1, InductiveAlways, WorkingAlways, PTL

-----------------------------------------------------------------------------
(* Whoever waits until nothing is under way meets no open switch.          *)

(* Without a switch an answer is about no switch.                          *)
LEMMA SettledClosed ==
    ASSUME NEW s, Fields(s), s.switch = NoSwitch, NEW w, NEW ok
    PROVE  SwitchWindowSettled(SettleStrandedWindow(s, w), w, ok).switch = NoSwitch
<1> DEFINE u == SettleStrandedWindow(s, w)
<1>1. u.switch = NoSwitch
  BY DEF Fields, SettleStrandedWindow
<1>. HIDE DEF u
<1>2. w \notin u.switch.inFlight
  BY <1>1 DEF NoSwitch
<1>3. SwitchWindowSettled(u, w, ok) = u
  BY <1>2 DEF SwitchWindowSettled
<1> QED
  BY <1>1, <1>3 DEF u

LEMMA AnswerClosed ==
    ASSUME Good(engine), ~SwitchOpen(engine), NEW v \in Window, NEW n \in Nat, NEW b,
           \/ WindowParked(v, n) \/ WindowRestored(v)
           \/ WindowParkFailed(v) \/ WindowRestoreFailed(v)
           \/ RecoveryEntryDurable(b, v, n) \/ RecoveryEntryRefused(b, v) \/ UnknownToken(b, v)
    PROVE  ~SwitchOpen(engine')
<1>1. Fields(engine) /\ engine.switch = NoSwitch
  BY StateFields DEF Good, Consistent, Shape
<1> SUFFICES engine'.switch = NoSwitch
  BY DEF SwitchOpen, NoSwitch
<1>2. CASE WindowParked(v, n) \/ WindowRestored(v)
  <2>1. PICK g, more :
          engine' = SwitchWindowSettled(SettleStrandedWindow(
                      [engine EXCEPT !.parked[v] = g, !.intents = more], v), v, TRUE)
    BY <1>2 DEF WindowParked, WindowRestored
  <2> DEFINE t == [engine EXCEPT !.parked[v] = g, !.intents = more]
  <2>2. Fields(t) /\ t.switch = NoSwitch
    BY <1>1 DEF Fields
  <2>. HIDE DEF t
  <2> QED
    BY <2>1, <2>2, SettledClosed DEF t
<1>3. CASE WindowParkFailed(v) \/ WindowRestoreFailed(v)
  <2>1. v \notin engine.switch.inFlight
    BY <1>1 DEF NoSwitch
  <2>2. SwitchWindowSettled(engine, v, FALSE) = engine
    BY <2>1 DEF SwitchWindowSettled
  <2>3. engine' \in {engine, StrandWindow(engine, v)}
    BY <1>3, <2>2 DEF WindowParkFailed, WindowRestoreFailed
  <2> QED
    BY <1>1, <2>3 DEF StrandWindow, Fields
<1>4. CASE RecoveryEntryDurable(b, v, n)
  <2>1. PICK pending, more :
          engine' = AdvanceSwitch([engine EXCEPT !.pending = pending, !.switch = engine.switch,
                                                 !.effects = more])
    <3>1. PICK r \in engine.pending :
        LET ours  == SwitchOpen(engine) /\ r.switch = engine.switch.id
            parks == IF v \in Managed(engine) THEN {v} ELSE {}
            rest  == engine.switch.recording \ {<<b, v>>}
            sw    == [engine.switch EXCEPT
                        !.recording = rest,
                        !.phase = IF @ = "Recording" /\ rest = {} THEN "Parking" ELSE @,
                        !.inFlight = @ \cup parks]
        IN  engine' = AdvanceSwitch(
                 [engine EXCEPT
                    !.pending = @ \ {r},
                    !.switch  = IF ours THEN sw ELSE @,
                    !.effects = Push(@, {[kind |-> "Park", window |-> x,
                                          entry |-> n] : x \in parks})])
      BY <1>4 DEF RecoveryEntryDurable
    <3> QED
      BY <1>1, <3>1 DEF Fields
  <2> DEFINE t == [engine EXCEPT !.pending = pending, !.switch = engine.switch, !.effects = more]
  <2>2. t.switch = NoSwitch
    BY <1>1 DEF Fields
  <2>3. engine' = AdvanceSwitch(t)
    BY <2>1
  <2>. HIDE DEF t
  <2>4. AdvanceSwitch(t) = t
    BY <2>2 DEF AdvanceSwitch, SwitchOpen, NoSwitch
  <2> QED
    BY <2>2, <2>3, <2>4
<1>5. CASE RecoveryEntryRefused(b, v)
  <2>1. PICK pending : engine' = [engine EXCEPT !.pending = pending]
    BY <1>5 DEF RecoveryEntryRefused
  <2> QED
    BY <1>1, <2>1 DEF Fields
<1>6. CASE UnknownToken(b, v)
  BY <1>1, <1>6 DEF UnknownToken
<1> QED
  BY <1>2, <1>3, <1>4, <1>5, <1>6

(* Only a user's request opens a switch.                                   *)
LEMMA OnlyFocusOpens ==
    ASSUME Inductive, PipelineNext, ~SwitchOpen(engine), ~UserFocuses
    PROVE  ~SwitchOpen(engine')
<1>1. Good(engine) /\ engine \in EngineState /\ inbox \in Seq(Message)
  BY DEF Inductive, OutsideTyped, Good, Consistent
<1>2. ASSUME engine'.switch = engine.switch
      PROVE  ~SwitchOpen(engine')
  BY <1>2 DEF SwitchOpen
<1>3. CASE Arrivals
  <2>1. CASE UserMoves \/ UserCreates \/ UserDeletes
    <3>1. \E n \in Workspace : \E d :
            WorkspaceMoveRequested(n, d) \/ WorkspaceCreateRequested(n)
              \/ WorkspaceDeleteRequested(n)
      BY <2>1 DEF UserMoves, UserCreates, UserDeletes, Arrives
    <3> QED
      BY <1>1, <1>2, <3>1, PoolAdds DEF Adds
  <2>2. CASE UserParks
    <3>1. PICK w \in Window : engine' = RequestRecoveryEntries(engine, {w}, 0)
      BY <2>2 DEF UserParks, Arrives, ParkingAuthorizationRequested
    <3> QED
      BY <1>1, <1>2, <3>1 DEF RequestRecoveryEntries, EngineState
  <2>3. CASE UserRestoresWindows
    <3>1. PICK moves : engine' = [engine EXCEPT !.effects = moves]
      BY <2>3 DEF UserRestoresWindows, Arrives, RestoreParkedWindowsRequested
    <3> QED
      BY <1>1, <1>2, <3>1 DEF EngineState
  <2>4. CASE UserRestoresSwitch
    BY <1>1, <1>2, <2>4, RestoreSwitchAdds DEF UserRestoresSwitch, Arrives, Adds
  <2>5. CASE UserPauses \/ UserResumes \/ HealthChanges
    <3>1. "Refused" \in Capability /\ "Healthy" \in Health
      BY DEF Capability, Health
    <3>2. \E h \in Health : PauseRequested \/ ResumeRequested \/ PersistenceHealthChanged(h)
      BY <2>5, <3>1 DEF UserPauses, UserResumes, HealthChanges, Arrives
    <3> QED
      BY <1>1, <1>2, <3>1, <3>2, FlagAdds DEF Adds
  <2>6. CASE ConfigReloads
    BY <1>1, <1>2, <2>6, ConfigAdds DEF ConfigReloads, Arrives, Adds
  <2>7. CASE DatabaseLoads
    <3>1. PICK r \in Stored : WorkspacesLoaded(r.names, r.where)
      BY <2>7 DEF DatabaseLoads
    <3>2. r.names \in SUBSET Workspace /\ r.where \in [Workspace -> Display \cup {None}]
      BY StoredAssumption
    <3>3. engine' \in LoadWorkspaces(engine, r.names, r.where)
      BY <3>1 DEF WorkspacesLoaded
    <3> QED
      BY <1>1, <1>2, <3>2, <3>3, LoadAdds DEF Adds
  <2> QED
    BY <1>3, <2>1, <2>2, <2>3, <2>4, <2>5, <2>6, <2>7 DEF Arrivals
<1>4. CASE WindowChanges \/ Enumerate
  BY <1>2, <1>4 DEF WindowChanges, Enumerate
<1>5. CASE DisplaysPlugged \/ MachineWakes
  <2>1. engine' = engine
    BY <1>5, Zenon DEF DisplaysPlugged, MachineWakes, DisplaysChange
  <2> QED
    BY <1>2, <2>1
<1>6. CASE ExecutePark \/ ExecuteRestore
  <2>1. PICK moves : engine' = [engine EXCEPT !.effects = moves]
    BY <1>6 DEF ExecutePark, ExecuteRestore, Lands, Fails, Execute
  <2> QED
    BY <1>1, <1>2, <2>1 DEF EngineState
<1>7. CASE WriteDraft \/ WriteMark
  <2>1. PICK left : engine' = [engine EXCEPT !.intents = left]
    BY <1>7 DEF WriteDraft, WriteMark, TakeIntent
  <2> QED
    BY <1>1, <1>2, <2>1 DEF EngineState
<1>8. CASE Receipts
  <2>1. PICK event : Receive(event)
    BY <1>8 DEF Receipts, ReceiveObservation, ReceiveDurable, ReceiveRefused, ReceiveParked,
         ReceiveParkFailed, ReceiveRestored, ReceiveRestoreFailed, ReceiveCapability,
         ReceiveTopology, ReceiveWake
  <2> DEFINE m == Head(inbox)
  <2>2. m \in Message
    BY <1>1, <2>1 DEF Receive
  <2>. HIDE DEF m
  <2>3. CASE \/ ReceiveDurable \/ ReceiveRefused
             \/ ReceiveParked \/ ReceiveParkFailed \/ ReceiveRestored \/ ReceiveRestoreFailed
    <3>1. /\ m.event \in Replying \cup {"RecoveryEntryDurable", "RecoveryEntryRefused"}
          /\ \/ WindowParked(m.window, m.entry) \/ WindowRestored(m.window)
             \/ WindowParkFailed(m.window) \/ WindowRestoreFailed(m.window)
             \/ RecoveryEntryDurable(m.batch, m.window, m.entry)
             \/ RecoveryEntryRefused(m.batch, m.window) \/ UnknownToken(m.batch, m.window)
      BY <2>3 DEF ReceiveDurable, ReceiveRefused, ReceiveParked, ReceiveParkFailed,
                  ReceiveRestored, ReceiveRestoreFailed, Receive, Replying, m
    <3>2. m.window \in Window /\ m.entry \in Nat
      BY <2>2, <3>1 DEF Message, Replying
    <3> QED
      BY <1>1, <3>1, <3>2, AnswerClosed
  <2>4. CASE ReceiveObservation
    <3>1. m.event = "WindowsObserved" /\ engine' = ReplaceInventory(engine, m.life, m.seat)
      BY <2>4 DEF ReceiveObservation, Receive, WindowsObserved, m
    <3>2. m.life \in [Window -> Lifecycle] /\ m.seat \in [Window -> Display]
      BY <2>2, <3>1 DEF Message
    <3>3. Tidies(engine, engine')
      BY <1>1, <3>1, <3>2, StateFields, InventoryTidies
    <3> QED
      BY <1>2, <3>3 DEF Tidies
  <2>5. CASE ReceiveCapability
    <3>1. m.event = "ParkingCapabilityReported" /\ ParkingCapabilityReported(m.site)
      BY <2>5 DEF ReceiveCapability, Receive, m
    <3>2. m.site \in Capability /\ "Healthy" \in Health
      BY <2>2, <3>1 DEF Message, Health
    <3> QED
      BY <1>1, <1>2, <3>1, <3>2, FlagAdds DEF Adds
  <2>6. CASE ReceiveTopology \/ ReceiveWake
    <3>1. /\ m.event \in {"Plug", "Wake"}
          /\ \/ DisplayTopologyChanged(m.displays, m.nearest)
             \/ UNCHANGED engine
             \/ WakeReconciliation(m.displays, m.nearest, m.enumerated, m.life, m.seat)
      BY <2>6 DEF ReceiveTopology, ReceiveWake, Receive, m
    <3>2. /\ m.displays \in SUBSET Display /\ m.nearest \in Display /\ m.enumerated \in BOOLEAN
          /\ m.life \in [Window -> Lifecycle] /\ m.seat \in [Window -> Display]
      BY <2>2, <3>1 DEF Message
    <3>3. engine'.switch = engine.switch
      <4>1. CASE DisplayTopologyChanged(m.displays, m.nearest)
        BY <1>1, <3>2, <4>1, TopologyParts
      <4>2. CASE WakeReconciliation(m.displays, m.nearest, m.enumerated, m.life, m.seat)
        BY <1>1, <3>2, <4>2, WakeParts
      <4> QED
        BY <3>1, <4>1, <4>2
    <3> QED
      BY <1>2, <3>3
  <2> QED
    BY <1>8, <2>3, <2>4, <2>5, <2>6 DEF Receipts
<1>9. CASE Process
  <2>1. CASE Crash \/ StartsAgain
    <3>1. engine' \in Booted(engine.config, desktop.plugged, desktop.site)
      BY <2>1 DEF Crash, StartsAgain, Starts
    <3> QED
      BY <3>1, BootedTidy
  <2>2. CASE ~(Crash \/ StartsAgain)
    <3>1. PICK left : engine' \in {engine, [engine EXCEPT !.intents = left]}
      BY <1>9, <2>2 DEF Process, Quit, ExecutorStops, RecoverWindow, MarkRecovered, RecoveryEnds
    <3> QED
      BY <1>1, <1>2, <3>1 DEF EngineState
  <2> QED
    BY <2>1, <2>2
<1> QED
  BY <1>3, <1>4, <1>5, <1>6, <1>7, <1>8, <1>9 DEF PipelineNext

(* While a switch is open no display comes or goes.                        *)
Undivided ==
    SwitchOpen(engine) => \A k \in 1..Len(inbox) : inbox[k].event \notin {"Plug", "Wake"}

LEMMA StepUndivided ==
    ASSUME Inductive, Working, Undivided, PipelineNext,
           {"Focus", "Plug", "Wake"} \cap Allowed \subseteq Patient
    PROVE  Undivided'
<1> SUFFICES ASSUME SwitchOpen(engine')
             PROVE  \A k \in 1..Len(inbox') : inbox'[k].event \notin {"Plug", "Wake"}
  BY DEF Undivided
<1>1. inbox \in Seq(Message)
  BY DEF Inductive, OutsideTyped
<1>2. CASE UserFocuses
  <2>1. inbox = << >> /\ inbox' = inbox
    BY <1>2 DEF UserFocuses, Arrives, Spend, Quiet
  <2> QED
    BY <2>1
<1>3. CASE ~UserFocuses
  <2>1. SwitchOpen(engine)
    BY <1>3, OnlyFocusOpens
  <2> DEFINE E == {"Plug", "Wake"}
  <2>2. \A k \in 1..Len(inbox) : inbox[k].event \notin E
    BY <2>1 DEF Undivided
  <2>. HIDE DEF E
  <2>3. \A k \in 1..Len(inbox') : inbox'[k].event \notin E
    <3>1. CASE inbox' = inbox
      BY <2>2, <3>1
    <3>2. CASE inbox' = << >>
      BY <3>2
    <3>3. CASE inbox # << >> /\ inbox' = Tail(inbox)
      BY <1>1, <2>2, <3>3, AbsentTail
    <3>4. CASE \E m \in Message : inbox' = Append(inbox, m) /\ m.event \notin {"Plug", "Wake"}
      <4>1. PICK m \in Message : inbox' = Append(inbox, m) /\ m.event \notin E
        BY <3>4 DEF E
      <4> QED
        BY <1>1, <2>2, <4>1, AbsentAppend
    <3>5. ~(DisplaysPlugged \/ MachineWakes)
      <4>1. ASSUME NEW kind \in {"Plug", "Wake"}, DisplaysChange(kind)
            PROVE  FALSE
        <5>1. agent.stage = "Up" /\ Spend(kind)
          BY <4>1, Zenon DEF DisplaysChange
        <5>2. Quiet
          BY <5>1 DEF Spend
        <5> QED
          BY <2>1, <5>1, <5>2, QuietIsClosed
      <4> QED
        BY <4>1 DEF DisplaysPlugged, MachineWakes
    <3> QED
      BY <3>1, <3>2, <3>3, <3>4, <3>5, StepSends
  <2> QED
    BY <2>3 DEF E
<1> QED
  BY <1>2, <1>3

LEMMA UndividedAlways ==
    ASSUME {"Refuse", "Closed"} \cap Allowed = {},
           {"Focus", "Plug", "Wake"} \cap Allowed \subseteq Patient
    PROVE  PipelineSpec => []Undivided
<1>1. PipelineInit => Undivided
  BY StartsTidy DEF Undivided
<1>2. Inductive /\ Working /\ Undivided /\ [PipelineNext]_vars => Undivided'
  <2>1. ASSUME Undivided, UNCHANGED vars
        PROVE  Undivided'
    BY <2>1 DEF vars, outside, Undivided
  <2> QED
    BY <2>1, StepUndivided
<1> QED
  BY <1>1, <1>2, InductiveAlways, WorkingAlways, PTL DEF PipelineSpec

(* Where switches and topologies wait for what is under way, no commit     *)
(* puts a workspace on a display that has gone (commit_switch): only       *)
(* connected displays show one.                                            *)
THEOREM ShownWhereConnectedPatiently ==
    ASSUME {"Refuse", "Closed"} \cap Allowed = {},
           {"Focus", "Plug", "Wake"} \cap Allowed \subseteq Patient
    PROVE  PipelineSpec => []DisplayedOnlyWhereConnected
<1>1. PipelineInit => Connected(engine)
  BY StartsTidy
<1>2. Inductive /\ Undivided /\ Connected(engine) /\ [PipelineNext]_vars => Connected(engine)'
  <2>1. ASSUME Inductive, Undivided, ReceiveTopology \/ ReceiveWake
        PROVE  DisplayStays
    <3>1. inbox # << >> /\ Head(inbox).event \in {"Plug", "Wake"} /\ inbox \in Seq(Message)
      BY <2>1 DEF ReceiveTopology, ReceiveWake, Receive, Inductive, OutsideTyped
    <3>2. 1 \in 1..Len(inbox) /\ inbox[1] = Head(inbox)
      BY <3>1
    <3>3. ~SwitchOpen(engine)
      BY <2>1, <3>1, <3>2 DEF Undivided
    <3> QED
      BY <3>3 DEF DisplayStays
  <2> QED
    BY <2>1, StepConnects DEF vars
<1>3. Connected(engine) => DisplayedOnlyWhereConnected
  BY DEF Connected, DisplayedOnlyWhereConnected
<1> QED
  BY <1>1, <1>2, <1>3, InductiveAlways, UndividedAlways, PTL DEF PipelineSpec

(* Where a deletion waits for what is under way, it meets no switch, and   *)
(* no display shows, and no window belongs to, a workspace that is gone.   *)
THEOREM PoolKeepsItsNamesPatiently ==
    ASSUME {"Refuse", "Closed"} \cap Allowed = {}, {"Delete"} \cap Allowed \subseteq Patient
    PROVE  PipelineSpec => []PoolHoldsItsNames
<1>1. PipelineInit => Placed(engine)
  BY StartsTidy
<1>2. Inductive /\ Working /\ Placed(engine) /\ [PipelineNext]_vars => Placed(engine)'
  <2>1. ASSUME Inductive, Working, UserDeletes
        PROVE  TargetSpared
    <3>1. agent.stage = "Up" /\ Spend("Delete")
      BY <2>1 DEF UserDeletes, Arrives
    <3>2. Quiet
      BY <3>1 DEF Spend
    <3> QED
      BY <2>1, <3>1, <3>2, QuietIsClosed DEF TargetSpared
  <2> QED
    BY <2>1, StepPlaces DEF vars
<1>3. Placed(engine) => PoolHoldsItsNames
  BY DEF Placed, PoolHoldsItsNames
<1> QED
  BY <1>1, <1>2, <1>3, InductiveAlways, WorkingAlways, PTL DEF PipelineSpec
-----------------------------------------------------------------------------
(* What a switch says of its windows, when whoever switches waits until    *)
(* nothing is under way: for one window one thing at a time is under way,  *)
(* so an answer is the answer to the move the switch waits for.            *)

(* No window has two moves in the queue, or two answers in the channel.    *)
SoleMoves(E) ==
    \A i, j \in 1..Len(E) : \A m \in E[i], n \in E[j] : m.window = n.window => i = j /\ m = n
SoleReplies(q) ==
    \A i, j \in 1..Len(q) :
        q[i].event \in Replying /\ q[j].event \in Replying /\ q[i].window = q[j].window => i = j

(* A restore of one of W is not ahead of a restore of another window.      *)
Ranked(E, W) ==
    \A i, j \in 1..Len(E) : \A m \in E[i], n \in E[j] :
        i <= j /\ m.kind = "Restore" /\ n.kind = "Restore" /\ m.window \in W => n.window \in W

(* Nothing is under way for the window.                                    *)
Idle(s, q, w) == w \notin Movers(s) /\ w \notin Replies(q) /\ ~Waiting(s, w)

(* A request, a move or an answer, and one of them; and nothing is asked   *)
(* but on behalf of a switch.                                              *)
Spread(s, q) ==
    /\ SoleMoves(s.effects) /\ SoleReplies(q)
    /\ \A w \in Movers(s) : w \notin Replies(q)
    /\ \A r \in s.pending : r.window \notin Movers(s) /\ r.window \notin Replies(q) /\ r.switch # 0

(* The moves left in a queue, after the first of them was taken.           *)
LEMMA MoveTaken ==
    ASSUME NEW E \in Seq(SUBSET Move), E # << >>, NEW m \in Head(E)
    PROVE  /\ m \in Items(E) /\ Items(NextBatch(E, m)) \subseteq Items(E)
           /\ SoleMoves(E) => /\ SoleMoves(NextBatch(E, m))
                              /\ \A n \in Items(NextBatch(E, m)) : n.window # m.window
           /\ \A W : Ranked(E, W) =>
                /\ Ranked(NextBatch(E, m), W)
                /\ m.kind = "Restore" /\ m.window \in W =>
                     \A n \in Items(NextBatch(E, m)) : n.kind = "Restore" => n.window \in W
<1> DEFINE F == NextBatch(E, m)
<1>1. /\ Len(E) \in Nat /\ 1 \in 1..Len(E) /\ m \in E[1]
  OBVIOUS
<1>2. PICK c \in {0, 1} : Shifted(E, F, m, c)
  BY NextBatchItems
<1>. HIDE DEF F
<1>3. \A i \in 1..Len(F) : /\ i \in Nat /\ i + c \in 1..Len(E) /\ F[i] \subseteq E[i + c]
                           /\ i + c = 1 => m \notin F[i]
  BY <1>2 DEF Shifted
<1>4. m \in Items(E) /\ Items(F) \subseteq Items(E)
  BY <1>1, <1>3 DEF Items
<1>5. ASSUME SoleMoves(E)
      PROVE  SoleMoves(F) /\ \A n \in Items(F) : n.window # m.window
  <2>1. SoleMoves(F)
    <3> SUFFICES ASSUME NEW i \in 1..Len(F), NEW j \in 1..Len(F), NEW x \in F[i], NEW y \in F[j],
                        x.window = y.window
                 PROVE  i = j /\ x = y
      BY DEF SoleMoves
    <3>1. i + c = j + c /\ x = y
      BY <1>3, <1>5 DEF SoleMoves
    <3> QED
      BY <1>3, <3>1
  <2>2. ASSUME NEW i \in 1..Len(F), NEW n \in F[i], n.window = m.window
        PROVE  FALSE
    <3>1. i + c = 1 /\ n = m
      BY <1>1, <1>3, <1>5, <2>2 DEF SoleMoves
    <3> QED
      BY <1>3, <3>1
  <2> QED
    BY <2>1, <2>2 DEF Items
<1>6. ASSUME NEW W, Ranked(E, W)
      PROVE  /\ Ranked(F, W)
             /\ m.kind = "Restore" /\ m.window \in W =>
                  \A n \in Items(F) : n.kind = "Restore" => n.window \in W
  <2>1. Ranked(F, W)
    <3> SUFFICES ASSUME NEW i \in 1..Len(F), NEW j \in 1..Len(F), NEW x \in F[i], NEW y \in F[j],
                        i <= j, x.kind = "Restore", y.kind = "Restore", x.window \in W
                 PROVE  y.window \in W
      BY DEF Ranked
    <3>1. i + c <= j + c
      BY <1>3
    <3> QED
      BY <1>3, <1>6, <3>1 DEF Ranked
  <2>2. ASSUME m.kind = "Restore", m.window \in W,
               NEW i \in 1..Len(F), NEW n \in F[i], n.kind = "Restore"
        PROVE  n.window \in W
    <3>1. 1 <= i + c /\ n \in E[i + c]
      BY <1>3
    <3> QED
      BY <1>1, <1>3, <1>6, <2>2, <3>1 DEF Ranked
  <2> QED
    BY <2>1, <2>2 DEF Items
<1> QED
  BY <1>4, <1>5, <1>6 DEF F

(* A batch of moves of other windows joins the queue.                      *)
LEMMA MovesPushed ==
    ASSUME NEW E \in Seq(SUBSET Move), NEW B \in SUBSET Move
    PROVE  /\ Items(Push(E, B)) = Items(E) \cup B
           /\ /\ SoleMoves(E)
              /\ \A m, n \in B : m.window = n.window => m = n
              /\ \A m \in B, n \in Items(E) : m.window # n.window
              => SoleMoves(Push(E, B))
           /\ \A W : /\ Ranked(E, W)
                     /\ \A m \in Items(E) \cup B, n \in B :
                          m.kind = "Restore" /\ n.kind = "Restore" /\ m.window \in W => n.window \in W
                     => Ranked(Push(E, B), W)
<1>1. Items(Push(E, B)) = Items(E) \cup B
  BY ItemsPushed
<1>2. CASE B = {}
  <2>1. Push(E, B) = E
    BY <1>2 DEF Push
  <2> QED
    BY <1>1, <2>1
<1>3. CASE B # {}
  <2> DEFINE F == Append(E, B)
  <2>1. Push(E, B) = F
    BY <1>3 DEF Push
  <2>2. /\ Len(E) \in Nat /\ Len(F) = Len(E) + 1 /\ F[Len(E) + 1] = B
        /\ \A i \in 1..Len(E) : F[i] = E[i]
    OBVIOUS
  <2>. HIDE DEF F
  <2>3. \A i \in 1..Len(F) : \/ i \in 1..Len(E) /\ F[i] = E[i]
                             \/ i = Len(E) + 1 /\ F[i] = B
    BY <2>2
  <2>4. ASSUME SoleMoves(E), \A m, n \in B : m.window = n.window => m = n,
               \A m \in B, n \in Items(E) : m.window # n.window
        PROVE  SoleMoves(F)
    <3> SUFFICES ASSUME NEW i \in 1..Len(F), NEW j \in 1..Len(F), NEW x \in F[i], NEW y \in F[j],
                        x.window = y.window
                 PROVE  i = j /\ x = y
      BY DEF SoleMoves
    <3>1. CASE i \in 1..Len(E) /\ F[i] = E[i] /\ j \in 1..Len(E) /\ F[j] = E[j]
      BY <2>4, <3>1 DEF SoleMoves
    <3>2. CASE i = Len(E) + 1 /\ F[i] = B /\ j = Len(E) + 1 /\ F[j] = B
      BY <2>4, <3>2
    <3>3. CASE i \in 1..Len(E) /\ F[i] = E[i] /\ F[j] = B
      <4>1. x \in Items(E)
        BY <3>3 DEF Items
      <4> QED
        BY <2>4, <3>3, <4>1
    <3>4. CASE F[i] = B /\ j \in 1..Len(E) /\ F[j] = E[j]
      <4>1. y \in Items(E)
        BY <3>4 DEF Items
      <4> QED
        BY <2>4, <3>4, <4>1
    <3> QED
      BY <2>3, <3>1, <3>2, <3>3, <3>4
  <2>5. ASSUME NEW W, Ranked(E, W),
               \A m \in Items(E), n \in B :
                 m.kind = "Restore" /\ n.kind = "Restore" /\ m.window \in W => n.window \in W,
               \A m, n \in B : m.kind = "Restore" /\ n.kind = "Restore" /\ m.window \in W
                                 => n.window \in W
        PROVE  Ranked(F, W)
    <3> SUFFICES ASSUME NEW i \in 1..Len(F), NEW j \in 1..Len(F), NEW x \in F[i], NEW y \in F[j],
                        i <= j, x.kind = "Restore", y.kind = "Restore", x.window \in W
                 PROVE  y.window \in W
      BY DEF Ranked
    <3>1. CASE i \in 1..Len(E) /\ F[i] = E[i] /\ j \in 1..Len(E) /\ F[j] = E[j]
      BY <2>5, <3>1 DEF Ranked
    <3>2. CASE F[i] = B /\ F[j] = B
      BY <2>5, <3>2
    <3>3. CASE i \in 1..Len(E) /\ F[i] = E[i] /\ F[j] = B
      <4>1. x \in Items(E)
        BY <3>3 DEF Items
      <4> QED
        BY <2>5, <3>3, <4>1
    <3>4. CASE i = Len(E) + 1 /\ j \in 1..Len(E)
      BY <2>2, <3>4
    <3> QED
      BY <2>3, <3>1, <3>2, <3>3, <3>4
  <2> QED
    BY <1>1, <2>1, <2>4, <2>5
<1> QED
  BY <1>2, <1>3

(* A message joins the channel, or leaves it.                              *)
LEMMA ReplyAppended ==
    ASSUME NEW q \in Seq(Message), NEW m \in Message
    PROVE  /\ \A i \in 1..Len(Append(q, m)) :
                \/ i \in 1..Len(q) /\ Append(q, m)[i] = q[i]
                \/ i = Len(q) + 1 /\ Append(q, m)[i] = m
           /\ \A w \in Replies(Append(q, m)) :
                w \in Replies(q) \/ (m.event \in Replying /\ w = m.window)
           /\ /\ SoleReplies(q)
              /\ m.event \in Replying => m.window \notin Replies(q)
              => SoleReplies(Append(q, m))
<1> DEFINE r == Append(q, m)
<1>1. /\ Len(q) \in Nat /\ Len(r) = Len(q) + 1 /\ r[Len(q) + 1] = m
      /\ \A i \in 1..Len(q) : r[i] = q[i]
  OBVIOUS
<1>. HIDE DEF r
<1>2. \A i \in 1..Len(r) : \/ i \in 1..Len(q) /\ r[i] = q[i]
                           \/ i = Len(q) + 1 /\ r[i] = m
  BY <1>1
<1>3. \A w \in Replies(r) : w \in Replies(q) \/ (m.event \in Replying /\ w = m.window)
  <2> SUFFICES ASSUME NEW k \in 1..Len(r), r[k].event \in Replying
               PROVE  r[k].window \in Replies(q) \/ (m.event \in Replying /\ r[k].window = m.window)
    BY DEF Replies
  <2> QED
    BY <1>2 DEF Replies
<1>4. ASSUME SoleReplies(q), m.event \in Replying => m.window \notin Replies(q)
      PROVE  SoleReplies(r)
  <2> SUFFICES ASSUME NEW i \in 1..Len(r), NEW j \in 1..Len(r),
                      r[i].event \in Replying, r[j].event \in Replying, r[i].window = r[j].window
               PROVE  i = j
    BY DEF SoleReplies
  <2>1. \A k \in 1..Len(q) : q[k].event \in Replying => q[k].window \in Replies(q)
    BY DEF Replies
  <2> QED
    BY <1>2, <1>4, <2>1 DEF SoleReplies
<1> QED
  BY <1>2, <1>3, <1>4 DEF r

LEMMA ReplyTaken ==
    ASSUME NEW q \in Seq(Message), q # << >>
    PROVE  /\ \A i \in 1..Len(Tail(q)) : i + 1 \in 1..Len(q) /\ Tail(q)[i] = q[i + 1]
           /\ Replies(Tail(q)) \subseteq Replies(q)
           /\ Head(q).event \in Replying => Head(q).window \in Replies(q)
           /\ SoleReplies(q) =>
                /\ SoleReplies(Tail(q))
                /\ Head(q).event \in Replying => Head(q).window \notin Replies(Tail(q))
<1> DEFINE r == Tail(q)
           m == Head(q)
<1>1. /\ Len(q) \in Nat /\ 1 \in 1..Len(q) /\ m = q[1] /\ Len(r) = Len(q) - 1
      /\ \A j \in 1..Len(q) - 1 : r[j] = q[j + 1]
  OBVIOUS
<1>. HIDE DEF r, m
<1>2. \A i \in 1..Len(r) : i + 1 \in 1..Len(q) /\ i + 1 # 1 /\ r[i] = q[i + 1]
  BY <1>1
<1>3. Replies(r) \subseteq Replies(q)
  <2> SUFFICES ASSUME NEW k \in 1..Len(r), r[k].event \in Replying
               PROVE  r[k].window \in Replies(q)
    BY DEF Replies
  <2> QED
    BY <1>2 DEF Replies
<1>4. m.event \in Replying => m.window \in Replies(q)
  BY <1>1 DEF Replies
<1>5. ASSUME SoleReplies(q)
      PROVE  SoleReplies(r) /\ (m.event \in Replying => m.window \notin Replies(r))
  <2>1. SoleReplies(r)
    <3> SUFFICES ASSUME NEW i \in 1..Len(r), NEW j \in 1..Len(r),
                        r[i].event \in Replying, r[j].event \in Replying, r[i].window = r[j].window
                 PROVE  i = j
      BY DEF SoleReplies
    <3>1. i + 1 = j + 1
      BY <1>2, <1>5 DEF SoleReplies
    <3> QED
      BY <3>1
  <2>2. ASSUME m.event \in Replying, NEW k \in 1..Len(r), r[k].event \in Replying,
               r[k].window = m.window
        PROVE  FALSE
    <3>1. k + 1 = 1
      BY <1>1, <1>2, <1>5, <2>2 DEF SoleReplies
    <3> QED
      BY <1>2, <3>1
  <2> QED
    BY <2>1, <2>2 DEF Replies
<1> QED
  BY <1>2, <1>3, <1>4, <1>5 DEF r, m

(* Window w belongs to workspace n, or has closed; it is at a place, or    *)
(* has closed; and the one move or answer under way for it is of a kind.   *)
Of(s, dk, w, n) ==
    n # None /\ (dk.life[w] = "Closed" \/ (s.life[w] # "Gone" /\ s.pool.member[w] = n))
On(dk, w, place) == dk.life[w] = "Closed" \/ dk.place[w] = place
Expects(s, q, w, kind, events) ==
    /\ \A m \in Items(s.effects) : m.window = w => m.kind = kind
    /\ \A i \in 1..Len(q) : q[i].event \in Replying /\ q[i].window = w => q[i].event \in events

ParkAnswers    == {"WindowParked", "WindowParkFailed"}
RestoreAnswers == {"WindowRestored", "WindowRestoreFailed"}

(* The windows of a switch that leave, or have left, and those that come   *)
(* back, or have come.                                                     *)
Requested(sw) == {x[2] : x \in sw.recording}
Going(sw)     == IF sw.phase \in {"Recording", "Parking"} THEN sw.inFlight ELSE {}
Coming(sw)    == IF sw.phase = "Restoring" THEN sw.inFlight ELSE {}
Outs(sw)      == sw.parked \cup Requested(sw) \cup Going(sw)
Ins(sw)       == sw.queued \cup sw.restored \cup Coming(sw)

(* The restores a compensation has asked for, and those its switch asked   *)
(* for before it failed.                                                   *)
Returning(s) == IF s.switch.phase = "CompensatingRestore" THEN s.switch.inFlight ELSE {}
Forth(s)     == {m \in Items(s.effects) : m.kind = "Restore" /\ m.window \notin Returning(s)}

(* What is queued is parked and nobody has touched it yet.                 *)
Queued(s, q, dk) == \A w \in s.switch.queued :
    Idle(s, q, w) /\ Of(s, dk, w, s.switch.target) /\ (dk.life[w] = "Closed" \/ s.parked[w] # 0)

(* What was parked stays off the screen until a compensation brings it     *)
(* back, which it does after all the restores its switch had asked for.    *)
Left(s, q, dk) == \A w \in s.switch.parked :
    /\ s.switch.phase # "CompensatingRestore" => Idle(s, q, w)
    /\ Of(s, dk, w, s.switch.outgoing)
    /\ On(dk, w, "Parked") \/ (s.switch.phase = "CompensatingRestore" /\ Forth(s) = {})

(* What was restored stays on the screen until a compensation parks it.    *)
Brought(s, q, dk) == s.switch.phase # "CompensatingPark" =>
    \A w \in s.switch.restored : Idle(s, q, w) /\ On(dk, w, "Screen")

(* What is in flight leaves its workspace, or comes back to it.            *)
Flying(s, q, dk) ==
    /\ s.switch.phase \in {"Recording", "Parking"} =>
         \A w \in Requested(s.switch) \cup s.switch.inFlight : Of(s, dk, w, s.switch.outgoing)
    /\ \A w \in Going(s.switch) : Expects(s, q, w, "Park", ParkAnswers)
    /\ \A w \in Coming(s.switch) : Expects(s, q, w, "Restore", RestoreAnswers)
    /\ \A m \in Forth(s) : Of(s, dk, m.window, s.switch.target)

(* The lists of the transaction among themselves.                          *)
Sorted(s) ==
    LET sw == s.switch IN
    /\ sw.target # sw.outgoing
    /\ sw.phase \in ForwardPhase => Outs(sw) \cap Ins(sw) = {}
    /\ sw.phase \in {"Restoring", "CompensatingRestore"} => sw.recording = {}
    /\ sw.phase \in CompensatingPhase => sw.queued = {}
    /\ sw.phase \in {"Recording", "Parking", "CompensatingRestore"} => sw.restored = {}
    /\ sw.phase = "CompensatingPark" => sw.restored \subseteq sw.inFlight
    /\ sw.phase = "CompensatingRestore" => Ranked(s.effects, sw.inFlight) /\ sw.inFlight = sw.parked

Orderly(s, q, dk) ==
    /\ Spread(s, q) /\ Sorted(s)
    /\ Queued(s, q, dk) /\ Left(s, q, dk) /\ Brought(s, q, dk) /\ Flying(s, q, dk)

(* Less in the channel is as orderly.                                      *)
LEMMA OrderlyTail ==
    ASSUME NEW s, NEW q \in Seq(Message), q # << >>, NEW dk, Orderly(s, q, dk)
    PROVE  /\ Orderly(s, Tail(q), dk)
           /\ Head(q).event \in Replying => Idle(s, Tail(q), Head(q).window)
<1> DEFINE r == Tail(q)
<1>1. /\ \A i \in 1..Len(r) : i + 1 \in 1..Len(q) /\ r[i] = q[i + 1]
      /\ Replies(r) \subseteq Replies(q)
      /\ Head(q).event \in Replying => Head(q).window \in Replies(q)
      /\ SoleReplies(r)
      /\ Head(q).event \in Replying => Head(q).window \notin Replies(r)
  BY ReplyTaken DEF Orderly, Spread
<1>. HIDE DEF r
<1>2. Spread(s, r)
  BY <1>1 DEF Orderly, Spread
<1>3. \A w : Idle(s, q, w) => Idle(s, r, w)
  BY <1>1 DEF Idle
<1>4. \A w, kind, events : Expects(s, q, w, kind, events) => Expects(s, r, w, kind, events)
  BY <1>1 DEF Expects
<1>5. Queued(s, r, dk) /\ Left(s, r, dk) /\ Brought(s, r, dk)
  BY <1>3 DEF Orderly, Queued, Left, Brought
<1>6. Flying(s, r, dk)
  BY <1>4 DEF Orderly, Flying
<1>7. Head(q).event \in Replying => Idle(s, r, Head(q).window)
  BY <1>1 DEF Orderly, Spread, Idle, Waiting
<1> QED
  BY <1>2, <1>5, <1>6, <1>7 DEF Orderly, r

(* So is more in it that answers no move.                                  *)
LEMMA OrderlyAppend ==
    ASSUME NEW s, NEW q \in Seq(Message), NEW m \in Message, m.event \notin Replying,
           NEW dk, Orderly(s, q, dk)
    PROVE  Orderly(s, Append(q, m), dk)
<1> DEFINE r == Append(q, m)
<1>1. /\ \A i \in 1..Len(r) : (i \in 1..Len(q) /\ r[i] = q[i]) \/ r[i] = m
      /\ Replies(r) \subseteq Replies(q)
      /\ SoleReplies(r)
  BY ReplyAppended DEF Orderly, Spread
<1>. HIDE DEF r
<1>2. Spread(s, r)
  BY <1>1 DEF Orderly, Spread
<1>3. \A w : Idle(s, q, w) => Idle(s, r, w)
  BY <1>1 DEF Idle
<1>4. \A w, kind, events : Expects(s, q, w, kind, events) => Expects(s, r, w, kind, events)
  BY <1>1 DEF Expects
<1>5. Queued(s, r, dk) /\ Left(s, r, dk) /\ Brought(s, r, dk)
  BY <1>3 DEF Orderly, Queued, Left, Brought
<1>6. Flying(s, r, dk)
  BY <1>4 DEF Orderly, Flying
<1> QED
  BY <1>2, <1>5, <1>6 DEF Orderly, r

(* Beside the transaction: what a handler leaves of it, for all windows    *)
(* that have not closed.                                                   *)
Aside(s, t, dk) ==
    /\ t.switch = s.switch /\ t.effects = s.effects /\ t.pending = s.pending
    /\ \A w \in Window : dk.life[w] # "Closed" /\ s.life[w] # "Gone" =>
         /\ t.life[w] # "Gone"
         /\ s.pool.member[w] # None => t.pool.member[w] = s.pool.member[w]
         /\ s.parked[w] # 0 => t.parked[w] # 0

LEMMA AsideTransitive ==
    ASSUME NEW s, NEW t, NEW u, NEW dk, Aside(s, t, dk), Aside(t, u, dk)
    PROVE  Aside(s, u, dk)
BY DEF Aside

LEMMA AsideOrderly ==
    ASSUME NEW s \in EngineState, NEW t, NEW q, NEW dk, Aside(s, t, dk), Orderly(s, q, dk)
    PROVE  Orderly(t, q, dk)
<1>1. /\ Movers(t) = Movers(s) /\ Forth(t) = Forth(s)
      /\ \A w : Waiting(s, w) <=> Waiting(t, w)
  BY DEF Aside, Movers, Forth, Returning, Waiting
<1>2. Spread(t, q)
  BY <1>1 DEF Orderly, Spread, Aside
<1>3. \A w : Idle(s, q, w) => Idle(t, q, w)
  BY <1>1 DEF Idle
<1>4. \A w, kind, events : Expects(s, q, w, kind, events) => Expects(t, q, w, kind, events)
  BY DEF Expects, Aside
<1>5. \A n : \A w \in Window : Of(s, dk, w, n) => Of(t, dk, w, n)
  BY DEF Aside, Of
<1>6. /\ s.switch.queued \in SUBSET Window /\ s.switch.parked \in SUBSET Window
      /\ s.switch.inFlight \in SUBSET Window /\ Requested(s.switch) \in SUBSET Window
      /\ \A m \in Forth(s) : m.window \in Window
  <2>1. s.switch \in Transaction /\ s.effects \in Seq(SUBSET Move)
    BY FieldTypes
  <2>2. \A m \in Items(s.effects) : m.window \in Window
    BY <2>1 DEF Items, Move
  <2> QED
    BY <2>1, <2>2 DEF Transaction, Requested, Token, Forth
<1>7. Queued(t, q, dk)
  BY <1>3, <1>5, <1>6 DEF Orderly, Queued, Aside, Of
<1>8. Left(t, q, dk)
  BY <1>1, <1>3, <1>5, <1>6 DEF Orderly, Left, Aside
<1>9. Brought(t, q, dk)
  BY <1>3 DEF Orderly, Brought, Aside
<1>10. Flying(t, q, dk)
  BY <1>1, <1>4, <1>5, <1>6 DEF Orderly, Flying, Aside
<1>11. Sorted(t)
  BY DEF Orderly, Sorted, Aside
<1> QED
  BY <1>2, <1>7, <1>8, <1>9, <1>10, <1>11 DEF Orderly

(* The transaction.  commit_switch and finish_compensation close it.       *)
LEMMA CloseCloses ==
    ASSUME NEW s \in EngineState
    PROVE  ~SwitchOpen(CommitSwitch(s)) /\ ~SwitchOpen(FinishCompensation(s))
BY DEF CommitSwitch, FinishCompensation, SwitchOpen, NoSwitch, EngineState

(* emit_switch_restores, for windows nothing is under way for.             *)
LEMMA EmitOrderly ==
    ASSUME NEW s \in EngineState, NEW q, NEW dk, Orderly(s, q, dk),
           s.switch.phase \in {"Restoring", "CompensatingRestore"},
           s.switch.queued = {}, s.switch.restored = {},
           \A w \in s.switch.inFlight :
              /\ Idle(s, q, w)
              /\ s.switch.phase = "Restoring" =>
                   Of(s, dk, w, s.switch.target) /\ (dk.life[w] = "Closed" \/ s.parked[w] # 0),
           SwitchOpen(EmitSwitchRestores(s))
    PROVE  Orderly(EmitSwitchRestores(s), q, dk)
<1> DEFINE here == s.switch.inFlight \ Parked(s)
           away == s.switch.inFlight \cap Parked(s)
           forward == s.switch.phase = "Restoring"
           restored == IF forward THEN s.switch.restored \cup here ELSE s.switch.restored
           parked == IF forward THEN s.switch.parked ELSE s.switch.parked \ here
           moves == RestoreMoves(s, away)
           effects == Push(s.effects, moves)
           sw == [s.switch EXCEPT !.inFlight = away, !.restored = restored, !.parked = parked]
           t == [s EXCEPT !.effects = effects,
                          !.switch.inFlight = away,
                          !.switch.restored = restored,
                          !.switch.parked   = parked]
<1>1. /\ s.switch \in Transaction
      /\ s.effects \in Seq(SUBSET Move)
      /\ \A m \in Items(s.effects) : m.window \in Window
  <2>1. s.switch \in Transaction /\ s.effects \in Seq(SUBSET Move)
    BY FieldTypes
  <2> QED
    BY <2>1 DEF Items, Move
<1>2. /\ away \in SUBSET Window /\ here \in SUBSET Window
      /\ restored \in SUBSET Window /\ parked \in SUBSET Window
      /\ away \cup here = s.switch.inFlight /\ away \cap here = {}
  BY <1>1 DEF Transaction
<1>3. /\ moves \in SUBSET Move
      /\ \A m \in moves : m.kind = "Restore" /\ m.window \in away
      /\ \A m, n \in moves : m.window = n.window => m = n
  <2>1. moves \in SUBSET Move
    BY <1>2, RestoreMovesType
  <2> QED
    BY <2>1 DEF RestoreMoves
<1>4. here \subseteq Window /\ \A w \in here : forward => dk.life[w] = "Closed"
  BY <1>2 DEF Parked
<1>5. /\ forward => restored = here /\ parked = s.switch.parked
      /\ ~forward => restored = {} /\ parked = s.switch.parked \ here
  OBVIOUS
<1>6. EmitSwitchRestores(s) = IF away # {} THEN t ELSE IF forward THEN CommitSwitch(t) ELSE FinishCompensation(t)
  BY DEF EmitSwitchRestores
<1>7. /\ sw \in Transaction
      /\ t = [s EXCEPT !.effects = effects, !.switch = sw]
      /\ sw.inFlight = away /\ sw.restored = restored /\ sw.parked = parked
      /\ sw.queued = {} /\ sw.recording = s.switch.recording /\ sw.phase = s.switch.phase
      /\ sw.target = s.switch.target /\ sw.outgoing = s.switch.outgoing
  <2>. HIDE DEF away, here, restored, parked, effects
  <2> QED
    BY <1>1, <1>2 DEF Transaction, EngineState
<1>8. /\ effects \in Seq(SUBSET Move) /\ Items(effects) = Items(s.effects) \cup moves
      /\ SoleMoves(effects)
      /\ \A W : /\ Ranked(s.effects, W)
                /\ \A m \in Items(s.effects) \cup moves, n \in moves :
                     m.kind = "Restore" /\ n.kind = "Restore" /\ m.window \in W => n.window \in W
                => Ranked(effects, W)
  <2>. HIDE DEF moves, away, here
  <2>1. \A m \in moves, n \in Items(s.effects) : m.window # n.window
    <3>1. \A w \in away : w \notin Movers(s)
      BY <1>2 DEF Idle
    <3> QED
      BY <1>3, <3>1 DEF Movers
  <2>2. SoleMoves(s.effects)
    BY DEF Orderly, Spread
  <2> QED
    BY <1>1, <1>3, <2>1, <2>2, PushType, MovesPushed
<1>. HIDE DEF effects, restored, parked, away, here, moves, sw
<1>9. /\ t \in EngineState
      /\ t.effects = effects /\ t.switch = sw /\ t.pending = s.pending
      /\ t.life = s.life /\ t.pool = s.pool /\ t.parked = s.parked
  BY <1>7, <1>8 DEF EngineState
<1>. HIDE DEF t
<1>10. away # {} /\ EmitSwitchRestores(s) = t
  BY <1>6, <1>9, CloseCloses
<1>11. /\ Movers(t) \subseteq Movers(s) \cup away
       /\ Movers(t) = Movers(s) \cup {m.window : m \in moves}
       /\ \A w : Waiting(t, w) <=> Waiting(s, w)
       /\ \A w \in s.switch.inFlight : w \notin Movers(s) /\ w \notin Replies(q) /\ ~Waiting(s, w)
  BY <1>3, <1>8, <1>9 DEF Movers, Waiting, Idle
<1>12. Spread(t, q)
  <2>1. \A w \in away : w \notin Replies(q) /\ ~Waiting(s, w)
    BY <1>2, <1>11
  <2>2. \A r \in t.pending : r.window \notin away
    BY <2>1, <1>9 DEF Waiting
  <2> QED
    BY <1>8, <1>9, <1>11, <2>1, <2>2 DEF Orderly, Spread
<1>13. \A w : w \notin away /\ Idle(s, q, w) => Idle(t, q, w)
  BY <1>11 DEF Idle
<1>14. \A w, n : Of(s, dk, w, n) => Of(t, dk, w, n)
  BY <1>9 DEF Of
<1>15. Sorted(t) /\ (~forward => Forth(t) = Forth(s))
  <2>1. CASE forward
    <3>1. sw.phase = "Restoring" /\ s.switch.phase = "Restoring" /\ s.switch.recording = {}
      BY <1>7, <2>1 DEF Orderly, Sorted
    <3>2. Outs(sw) \subseteq Outs(s.switch) /\ Ins(sw) \subseteq Ins(s.switch)
      BY <1>2, <1>5, <1>7, <2>1, <3>1 DEF Outs, Ins, Going, Coming, Requested
    <3>3. Outs(s.switch) \cap Ins(s.switch) = {}
      BY <3>1 DEF Orderly, Sorted, ForwardPhase
    <3> QED
      BY <1>7, <1>9, <2>1, <3>1, <3>2, <3>3 DEF Orderly, Sorted, CompensatingPhase
  <2>2. CASE ~forward
    <3>1. s.switch.phase = "CompensatingRestore" /\ sw.phase = "CompensatingRestore"
      BY <1>7, <2>2
    <3>2. /\ s.switch.recording = {} /\ s.switch.inFlight = s.switch.parked
          /\ s.switch.target # s.switch.outgoing /\ Ranked(s.effects, s.switch.inFlight)
      BY <3>1 DEF Orderly, Sorted
    <3>3. parked = away /\ restored = {}
      BY <1>2, <1>5, <2>2, <3>2
    <3>4. Ranked(effects, away)
      <4>1. \A m \in Items(s.effects) : m.window \notin away
        BY <1>2, <1>11 DEF Movers
      <4>2. Ranked(s.effects, away)
        BY <4>1 DEF Ranked, Items
      <4> QED
        BY <1>3, <1>8, <4>1, <4>2
    <3>5. Forth(t) = Forth(s)
      <4>1. \A m \in Items(s.effects) : m.window \notin s.switch.inFlight
        BY <1>11 DEF Movers
      <4> QED
        BY <1>2, <1>3, <1>7, <1>8, <1>9, <3>1, <4>1 DEF Forth, Returning
    <3> QED
      BY <1>7, <1>9, <3>1, <3>2, <3>3, <3>4, <3>5 DEF Sorted, ForwardPhase, CompensatingPhase
  <2> QED
    BY <2>1, <2>2
<1>16. Queued(t, q, dk)
  BY <1>7, <1>9 DEF Queued
<1>17. Left(t, q, dk)
  <2> SUFFICES ASSUME NEW w \in parked
               PROVE  /\ sw.phase # "CompensatingRestore" => Idle(t, q, w)
                      /\ Of(t, dk, w, sw.outgoing)
                      /\ On(dk, w, "Parked") \/ (sw.phase = "CompensatingRestore" /\ Forth(t) = {})
    BY <1>7, <1>9 DEF Left
  <2>1. w \in s.switch.parked
    BY <1>5
  <2>2. /\ s.switch.phase # "CompensatingRestore" => Idle(s, q, w)
        /\ Of(s, dk, w, s.switch.outgoing)
        /\ On(dk, w, "Parked") \/ (s.switch.phase = "CompensatingRestore" /\ Forth(s) = {})
    BY <2>1 DEF Orderly, Left
  <2>3. forward => w \notin away
    <3> SUFFICES ASSUME forward
                 PROVE  w \notin away
      OBVIOUS
    <3>1. Outs(s.switch) \cap Ins(s.switch) = {}
      BY DEF Orderly, Sorted, ForwardPhase
    <3> QED
      BY <1>2, <2>1, <3>1 DEF Outs, Ins, Coming
  <2> QED
    BY <1>7, <1>13, <1>14, <1>15, <2>2, <2>3
<1>18. Brought(t, q, dk)
  <2> SUFFICES ASSUME NEW w \in restored
               PROVE  Idle(t, q, w) /\ On(dk, w, "Screen")
    BY <1>7, <1>9 DEF Brought
  <2>1. forward /\ w \in here
    BY <1>5
  <2>2. w \in s.switch.inFlight /\ w \notin away
    BY <1>2, <2>1
  <2> QED
    BY <1>4, <1>13, <2>1, <2>2 DEF On
<1>19. Flying(t, q, dk)
  <2>1. \A w \in Coming(sw) : Expects(t, q, w, "Restore", RestoreAnswers)
    <3> SUFFICES ASSUME NEW w \in away
                 PROVE  Expects(t, q, w, "Restore", RestoreAnswers)
      BY <1>7 DEF Coming
    <3>1. w \notin Movers(s) /\ w \notin Replies(q)
      BY <1>2, <1>11
    <3>2. \A m \in Items(t.effects) : m.window = w => m.kind = "Restore"
      BY <1>3, <1>8, <1>9, <3>1 DEF Movers
    <3>3. \A i \in 1..Len(q) : ~(q[i].event \in Replying /\ q[i].window = w)
      BY <3>1 DEF Replies
    <3> QED
      BY <3>2, <3>3 DEF Expects
  <2>2. \A m \in Forth(t) : Of(t, dk, m.window, sw.target)
    <3>1. CASE forward
      <4>1. \A m \in moves : Of(s, dk, m.window, s.switch.target)
        BY <1>2, <1>3, <3>1
      <4>2. \A m \in Forth(t) : m \in moves \/ m \in Forth(s)
        BY <1>7, <1>8, <1>9, <3>1 DEF Forth, Returning
      <4> QED
        BY <1>7, <1>14, <4>1, <4>2 DEF Orderly, Flying
    <3>2. CASE ~forward
      BY <1>7, <1>14, <1>15, <3>2 DEF Orderly, Flying
    <3> QED
      BY <3>1, <3>2
  <2> QED
    BY <1>7, <1>9, <2>1, <2>2 DEF Flying, Going
<1> QED
  BY <1>10, <1>12, <1>15, <1>16, <1>17, <1>18, <1>19 DEF Orderly

(* What a step that leaves the queues alone keeps of a window.             *)
LEMMA SameQueues ==
    ASSUME NEW s, NEW t, NEW q, NEW dk,
           t.effects = s.effects, t.pending \subseteq s.pending,
           t.pool = s.pool, t.life = s.life
    PROVE  /\ Spread(s, q) => Spread(t, q)
           /\ \A w : Idle(s, q, w) => Idle(t, q, w)
           /\ \A w, kind, events : Expects(s, q, w, kind, events) => Expects(t, q, w, kind, events)
           /\ \A w, n : Of(s, dk, w, n) => Of(t, dk, w, n)
<1>1. Movers(t) = Movers(s) /\ \A w : Waiting(t, w) => Waiting(s, w)
  BY DEF Movers, Waiting
<1>2. Spread(s, q) => Spread(t, q)
  BY <1>1 DEF Spread
<1>3. \A w : Idle(s, q, w) => Idle(t, q, w)
  BY <1>1 DEF Idle
<1>4. \A w, kind, events : Expects(s, q, w, kind, events) => Expects(t, q, w, kind, events)
  BY DEF Expects
<1> QED
  BY <1>2, <1>3, <1>4 DEF Of

LEMMA IdleExpects ==
    ASSUME NEW s, NEW q, NEW w, Idle(s, q, w), NEW kind, NEW events
    PROVE  Expects(s, q, w, kind, events)
BY DEF Idle, Movers, Replies, Expects

(* advance_switch                                                          *)
LEMMA AdvanceOrderly ==
    ASSUME NEW s \in EngineState, NEW q, NEW dk, Orderly(s, q, dk),
           SwitchOpen(AdvanceSwitch(s))
    PROVE  Orderly(AdvanceSwitch(s), q, dk)
<1> DEFINE sw == s.switch
           onward == [sw EXCEPT !.phase = "Restoring", !.queued = {}, !.inFlight = sw.queued]
           homeward == [sw EXCEPT !.phase = "CompensatingRestore", !.inFlight = sw.parked]
           forth == [s EXCEPT !.switch.phase = "Restoring", !.switch.queued = {},
                              !.switch.inFlight = s.switch.queued]
           back == [s EXCEPT !.switch.phase = "CompensatingRestore",
                             !.switch.inFlight = s.switch.parked]
<1>1. s.switch \in Transaction /\ s.switch.phase \in Phase
  BY FieldTypes DEF Transaction
<1>2. /\ "Restoring" \in Phase /\ "CompensatingRestore" \in Phase
      /\ "Restoring" # "CompensatingRestore"
  BY DEF Phase, ForwardPhase, CompensatingPhase
<1>3. CASE ~SwitchOpen(s) \/ ~PhaseIsSettled(s)
  <2>1. AdvanceSwitch(s) = s
    BY <1>3 DEF AdvanceSwitch, SwitchOpen
  <2> QED
    BY <2>1
<1>4. CASE SwitchOpen(s) /\ PhaseIsSettled(s) /\ sw.phase \in {"Recording", "Parking"}
  <2>1. \/ AdvanceSwitch(s) = CommitSwitch(s)
        \/ AdvanceSwitch(s) = EmitSwitchRestores(forth)
    BY <1>4 DEF AdvanceSwitch
  <2>2. /\ onward \in Transaction /\ forth = [s EXCEPT !.switch = onward]
        /\ onward.phase = "Restoring" /\ onward.queued = {} /\ onward.inFlight = sw.queued
        /\ onward.restored = sw.restored /\ onward.parked = sw.parked
        /\ onward.recording = sw.recording
        /\ onward.target = sw.target /\ onward.outgoing = sw.outgoing
    BY <1>1, <1>2 DEF EngineState, Transaction
  <2>. HIDE DEF onward, forth
  <2>3. /\ forth \in EngineState /\ forth.switch = onward
        /\ forth.effects = s.effects /\ forth.pending = s.pending
        /\ forth.pool = s.pool /\ forth.life = s.life /\ forth.parked = s.parked
    BY <1>1, <2>2 DEF EngineState
  <2>4. /\ sw.recording = {} /\ sw.inFlight = {} /\ sw.restored = {}
        /\ sw.phase \in ForwardPhase /\ sw.phase # "CompensatingRestore"
        /\ sw.phase # "Restoring"
    BY <1>4 DEF PhaseIsSettled, Orderly, Sorted, ForwardPhase
  <2>5. /\ Spread(forth, q)
        /\ \A w : Idle(s, q, w) => Idle(forth, q, w)
        /\ \A w, n : Of(s, dk, w, n) => Of(forth, dk, w, n)
    BY <2>3, SameQueues DEF Orderly
  <2>6. Forth(forth) = Forth(s)
    BY <1>2, <2>2, <2>3, <2>4 DEF Forth, Returning
  <2>7. Sorted(forth)
    <3>1. Outs(onward) \subseteq Outs(sw) /\ Ins(onward) \subseteq Ins(sw)
      BY <2>2, <2>4 DEF Outs, Ins, Going, Coming, Requested
    <3>2. Outs(sw) \cap Ins(sw) = {} /\ sw.target # sw.outgoing
      BY <2>4 DEF Orderly, Sorted
    <3> QED
      BY <2>2, <2>3, <2>4, <3>1, <3>2 DEF Sorted, CompensatingPhase
  <2>8. \A w \in sw.queued :
           /\ Idle(forth, q, w) /\ Of(forth, dk, w, onward.target)
           /\ dk.life[w] = "Closed" \/ forth.parked[w] # 0
    BY <2>2, <2>3, <2>5 DEF Orderly, Queued
  <2>9. Queued(forth, q, dk) /\ Brought(forth, q, dk)
    BY <2>2, <2>3, <2>4 DEF Queued, Brought
  <2>10. Left(forth, q, dk)
    BY <2>2, <2>3, <2>4, <2>5, <2>6 DEF Orderly, Left
  <2>11. Flying(forth, q, dk)
    <3>1. \A w \in Coming(onward) : Expects(forth, q, w, "Restore", RestoreAnswers)
      BY <2>2, <2>8, IdleExpects DEF Coming
    <3> QED
      BY <2>2, <2>3, <2>5, <2>6, <3>1 DEF Orderly, Flying, Going
  <2>12. Orderly(forth, q, dk)
    BY <2>5, <2>7, <2>9, <2>10, <2>11 DEF Orderly
  <2>13. SwitchOpen(EmitSwitchRestores(forth)) => Orderly(EmitSwitchRestores(forth), q, dk)
    BY <2>2, <2>3, <2>4, <2>8, <2>12, EmitOrderly
  <2> QED
    BY <2>1, <2>13, CloseCloses
<1>5. CASE SwitchOpen(s) /\ PhaseIsSettled(s) /\ sw.phase = "CompensatingPark"
  <2>1. AdvanceSwitch(s) = EmitSwitchRestores(back)
    BY <1>5 DEF AdvanceSwitch
  <2>2. /\ homeward \in Transaction /\ back = [s EXCEPT !.switch = homeward]
        /\ homeward.phase = "CompensatingRestore" /\ homeward.queued = sw.queued
        /\ homeward.inFlight = sw.parked
        /\ homeward.restored = sw.restored /\ homeward.parked = sw.parked
        /\ homeward.recording = sw.recording
        /\ homeward.target = sw.target /\ homeward.outgoing = sw.outgoing
    BY <1>1, <1>2 DEF EngineState, Transaction
  <2>. HIDE DEF homeward, back
  <2>3. /\ back \in EngineState /\ back.switch = homeward
        /\ back.effects = s.effects /\ back.pending = s.pending
        /\ back.pool = s.pool /\ back.life = s.life /\ back.parked = s.parked
    BY <1>1, <2>2 DEF EngineState
  <2>4. /\ sw.recording = {} /\ sw.inFlight = {} /\ sw.restored = {} /\ sw.queued = {}
        /\ sw.phase # "CompensatingRestore" /\ sw.phase # "Restoring"
    BY <1>5 DEF PhaseIsSettled, Orderly, Sorted, CompensatingPhase
  <2>5. /\ Spread(back, q)
        /\ \A w : Idle(s, q, w) => Idle(back, q, w)
        /\ \A w, n : Of(s, dk, w, n) => Of(back, dk, w, n)
    BY <2>3, SameQueues DEF Orderly
  <2>6. \A w \in sw.parked : /\ Idle(s, q, w) /\ Of(s, dk, w, sw.outgoing)
                             /\ On(dk, w, "Parked")
    BY <2>4 DEF Orderly, Left
  <2>7. \A m \in Items(s.effects) : m.window \notin sw.parked
    BY <2>6 DEF Idle, Movers
  <2>8. Forth(back) = Forth(s)
    BY <2>2, <2>3, <2>4, <2>7 DEF Forth, Returning
  <2>9. Sorted(back)
    <3>1. Ranked(s.effects, sw.parked)
      BY <2>7 DEF Ranked, Items
    <3>2. sw.target # sw.outgoing
      BY DEF Orderly, Sorted
    <3> QED
      BY <2>2, <2>3, <2>4, <3>1, <3>2 DEF Sorted, ForwardPhase
  <2>10. Queued(back, q, dk) /\ Brought(back, q, dk)
    BY <2>2, <2>3, <2>4 DEF Queued, Brought
  <2>11. Left(back, q, dk)
    BY <2>2, <2>3, <2>5, <2>6 DEF Left
  <2>12. Flying(back, q, dk)
    BY <2>2, <2>3, <2>5, <2>8 DEF Orderly, Flying, Going, Coming
  <2>13. Orderly(back, q, dk)
    BY <2>5, <2>9, <2>10, <2>11, <2>12 DEF Orderly
  <2>14. \A w \in homeward.inFlight : Idle(back, q, w)
    BY <2>2, <2>5, <2>6
  <2> QED
    BY <2>1, <2>2, <2>3, <2>4, <2>13, <2>14, EmitOrderly
<1>6. CASE SwitchOpen(s) /\ PhaseIsSettled(s) /\ sw.phase \in {"Restoring", "CompensatingRestore"}
  <2>1. AdvanceSwitch(s) \in {CommitSwitch(s), FinishCompensation(s)}
    BY <1>6 DEF AdvanceSwitch
  <2> QED
    BY <2>1, CloseCloses
<1> QED
  BY <1>1, <1>3, <1>4, <1>5, <1>6 DEF SwitchOpen, Phase, ForwardPhase, CompensatingPhase

(* request_recovery_entries moves nothing and assigns nothing.             *)
LEMMA RequestKeeps ==
    ASSUME NEW s \in EngineState, NEW W \in SUBSET Window, NEW id \in Nat
    PROVE  LET t == RequestRecoveryEntries(s, W, id) IN
           /\ t.effects = s.effects /\ t.life = s.life /\ t.pool = s.pool
           /\ t.parked = s.parked
BY DEF RequestRecoveryEntries, EngineState

(* begin_switch_compensation, and request_switch_reparks in it.            *)
LEMMA CompensationOrderly ==
    ASSUME NEW s \in EngineState, NEW q, NEW dk, Orderly(s, q, dk),
           SwitchOpen(s), ~Compensating(s), s.switch.id # 0,
           SwitchOpen(BeginSwitchCompensation(s))
    PROVE  Orderly(BeginSwitchCompensation(s), q, dk)
<1> DEFINE t == [s EXCEPT !.pending = {r \in @ : r.switch = 0},
                          !.switch.phase     = "CompensatingPark",
                          !.switch.queued    = {},
                          !.switch.recording = {},
                          !.switch.inFlight  = {}]
           W == s.switch.restored
           able == {w \in W : Parkable(t, w)}
           lost == W \ able
           r == RequestRecoveryEntries(t, able, t.switch.id)
           tokens == {<<r.lastBatch, w>> : w \in able}
           u == [r EXCEPT !.switch.recording = tokens,
                          !.switch.inFlight  = able,
                          !.switch.stranded  = @ \cup lost,
                          !.switch.restored  = @ \ lost,
                          !.switch.parked    = @ \ lost]
<1>1. /\ s.switch \in Transaction /\ s.pending \in SUBSET Request
      /\ s.switch.restored \in SUBSET Window /\ s.switch.id \in Nat
      /\ s.switch.phase \in Phase
  BY FieldTypes DEF Transaction
<1>2. /\ s.switch.phase \in ForwardPhase
      /\ s.switch.phase # "CompensatingPark" /\ s.switch.phase # "CompensatingRestore"
  BY <1>1 DEF SwitchOpen, Compensating, Phase, CompensatingPhase, ForwardPhase
<1>3. BeginSwitchCompensation(s) = RequestSwitchReparks(t, W)
  BY DEF BeginSwitchCompensation
<1>4. RequestSwitchReparks(t, W) = AdvanceSwitch(u)
  BY DEF RequestSwitchReparks
<1>5. /\ t \in EngineState /\ t.pending = {} /\ t.effects = s.effects /\ t.life = s.life
      /\ t.pool = s.pool
      /\ t.switch \in Transaction /\ t.switch.id = s.switch.id
      /\ t.switch.phase = "CompensatingPark" /\ t.switch.queued = {}
      /\ t.switch.restored = W /\ t.switch.parked = s.switch.parked
      /\ t.switch.target = s.switch.target /\ t.switch.outgoing = s.switch.outgoing
  <2>1. "CompensatingPark" \in Phase
    BY DEF Phase, CompensatingPhase
  <2>2. {x \in s.pending : x.switch = 0} = {}
    BY DEF Orderly, Spread
  <2> DEFINE quit == [s.switch EXCEPT !.phase = "CompensatingPark", !.queued = {},
                                      !.recording = {}, !.inFlight = {}]
  <2>3. /\ quit \in Transaction /\ quit.id = s.switch.id
        /\ quit.phase = "CompensatingPark" /\ quit.queued = {}
        /\ quit.restored = W /\ quit.parked = s.switch.parked
        /\ quit.target = s.switch.target /\ quit.outgoing = s.switch.outgoing
    BY <1>1, <2>1 DEF Transaction
  <2>4. t = [s EXCEPT !.pending = {}, !.switch = quit]
    BY <2>2 DEF EngineState
  <2>. HIDE DEF quit, t
  <2> QED
    BY <2>3, <2>4 DEF EngineState
<1>. HIDE DEF t
<1>6. /\ able \in SUBSET Window /\ able \subseteq W /\ W \ lost = able
      /\ lost \in SUBSET Window /\ \A w \in able : ~Waiting(t, w)
  BY <1>1 DEF Parkable
<1>. HIDE DEF able, lost
<1>7. RequestedOnce(t)
  BY <1>5 DEF RequestedOnce
<1>8. /\ r \in EngineState /\ r.pool = s.pool /\ r.switch = t.switch
      /\ r.pending = {[batch |-> r.lastBatch, window |-> w, switch |-> s.switch.id] : w \in able}
  <2>1. t.switch.id \in Nat
    BY <1>1, <1>5
  <2>2. /\ r \in EngineState /\ r.pool = t.pool /\ r.switch = t.switch
        /\ r.pending = t.pending \cup {[batch |-> r.lastBatch, window |-> w, switch |-> t.switch.id] : w \in able}
    BY <1>5, <1>6, <1>7, <2>1, RequestsAsked
  <2>. HIDE DEF r
  <2> QED
    BY <1>5, <2>2
<1>9. r.effects = s.effects /\ r.life = s.life
  BY <1>1, <1>5, <1>6, RequestKeeps
<1>. HIDE DEF r
<1>10. r.lastBatch \in Nat /\ tokens \in SUBSET Token
  BY <1>6, <1>8, FieldTypes DEF Token
<1>. HIDE DEF tokens
<1> DEFINE sw == [r.switch EXCEPT !.recording = tokens, !.inFlight = able,
                                  !.stranded = @ \cup lost, !.restored = @ \ lost,
                                  !.parked = @ \ lost]
<1>11. /\ sw \in Transaction /\ u = [r EXCEPT !.switch = sw]
       /\ sw.inFlight = able /\ sw.restored = able /\ sw.parked = s.switch.parked \ lost
       /\ sw.phase = "CompensatingPark" /\ sw.queued = {}
       /\ sw.target = s.switch.target /\ sw.outgoing = s.switch.outgoing
  BY <1>5, <1>6, <1>8, <1>10 DEF Transaction, EngineState
<1>. HIDE DEF u, sw
<1>12. /\ u \in EngineState /\ u.switch = sw /\ u.effects = s.effects /\ u.life = s.life
       /\ u.pool = s.pool /\ u.pending = r.pending
  BY <1>8, <1>9, <1>11 DEF EngineState
<1>13. /\ Movers(u) = Movers(s)
       /\ \A x \in u.pending : x.window \in able /\ x.switch # 0
       /\ \A w : Waiting(u, w) => w \in able
  BY <1>8, <1>12 DEF Movers, Waiting
<1>14. \A w \in able : Idle(s, q, w)
  BY <1>2, <1>6 DEF Orderly, Brought
<1>15. Spread(u, q)
  BY <1>12, <1>13, <1>14 DEF Orderly, Spread, Idle
<1>16. Sorted(u)
  BY <1>11, <1>12 DEF Orderly, Sorted, ForwardPhase
<1>17. Forth(u) = Forth(s)
  BY <1>2, <1>11, <1>12 DEF Forth, Returning
<1>18. Queued(u, q, dk) /\ Brought(u, q, dk)
  BY <1>11, <1>12 DEF Queued, Brought
<1>19. Left(u, q, dk)
  <2> SUFFICES ASSUME NEW w \in s.switch.parked
               PROVE  Idle(u, q, w) /\ Of(u, dk, w, sw.outgoing) /\ On(dk, w, "Parked")
    BY <1>11, <1>12 DEF Left
  <2>1. /\ Idle(s, q, w) /\ Of(s, dk, w, s.switch.outgoing) /\ On(dk, w, "Parked")
    BY <1>2 DEF Orderly, Left
  <2>2. w \notin able
    <3>1. Outs(s.switch) \cap Ins(s.switch) = {}
      BY <1>2 DEF Orderly, Sorted
    <3> QED
      BY <1>6, <3>1 DEF Outs, Ins
  <2> QED
    BY <1>11, <1>12, <1>13, <2>1, <2>2 DEF Idle, Of
<1>20. Flying(u, q, dk)
  BY <1>11, <1>12, <1>17 DEF Orderly, Flying, Going, Coming, Of
<1>21. Orderly(u, q, dk)
  BY <1>15, <1>16, <1>18, <1>19, <1>20 DEF Orderly
<1> QED
  BY <1>3, <1>4, <1>12, <1>21, AdvanceOrderly

(* switch_window_settled, for a window whose answer was the last thing     *)
(* under way: where it is by now, if it is where the switch wanted it.     *)
LEMMA SettledOrderly ==
    ASSUME NEW s \in EngineState, NEW q, NEW dk, Orderly(s, q, dk),
           NEW w \in Window, NEW ok \in BOOLEAN, Idle(s, q, w),
           SwitchOpen(s), s.switch.id # 0,
           ok /\ w \in Going(s.switch) => On(dk, w, "Parked"),
           ok /\ w \in Coming(s.switch) => On(dk, w, "Screen"),
           SwitchOpen(SwitchWindowSettled(s, w, ok))
    PROVE  Orderly(SwitchWindowSettled(s, w, ok), q, dk)
<1> DEFINE phase == s.switch.phase
           parked == IF phase \in {"Recording", "Parking"} THEN s.switch.parked \cup {w}
                     ELSE IF phase = "CompensatingRestore" THEN s.switch.parked \ {w}
                     ELSE s.switch.parked
           restored == IF phase = "Restoring" THEN s.switch.restored \cup {w}
                       ELSE IF phase = "CompensatingPark" THEN s.switch.restored \ {w}
                       ELSE s.switch.restored
           flying == s.switch.inFlight \ {w}
           t == [s EXCEPT !.switch.inFlight = @ \ {w}]
           landed == [t EXCEPT !.switch.parked = parked, !.switch.restored = restored]
           lost == [t EXCEPT !.switch.stranded = @ \cup {w},
                             !.switch.restored = @ \ {w},
                             !.switch.parked   = @ \ {w}]
           still == [s.switch EXCEPT !.inFlight = flying]
           done == [s.switch EXCEPT !.inFlight = flying, !.parked = parked, !.restored = restored]
           gone == [s.switch EXCEPT !.inFlight = flying, !.stranded = @ \cup {w},
                                    !.restored = @ \ {w}, !.parked = @ \ {w}]
<1>1. s.switch \in Transaction /\ phase \in Phase
  BY FieldTypes DEF Transaction
<1>2. parked \in SUBSET Window /\ restored \in SUBSET Window
  BY <1>1 DEF Transaction
<1>3. CASE w \notin s.switch.inFlight
  <2>1. SwitchWindowSettled(s, w, ok) = s
    BY <1>3 DEF SwitchWindowSettled
  <2> QED
    BY <2>1
<1>4. CASE w \in s.switch.inFlight
  <2>1. /\ ok => SwitchWindowSettled(s, w, ok) = AdvanceSwitch(landed)
        /\ ~ok /\ Compensating(s) => SwitchWindowSettled(s, w, ok) = AdvanceSwitch(lost)
        /\ ~ok /\ ~Compensating(s) => SwitchWindowSettled(s, w, ok) = BeginSwitchCompensation(t)
    <3>1. t.switch.parked = s.switch.parked /\ t.switch.restored = s.switch.restored
      BY <1>1 DEF EngineState, Transaction
    <3>2. landed = [t EXCEPT !.switch.parked =
                         IF phase \in {"Recording", "Parking"} THEN @ \cup {w}
                         ELSE IF phase = "CompensatingRestore" THEN @ \ {w} ELSE @,
                      !.switch.restored =
                         IF phase = "Restoring" THEN @ \cup {w}
                         ELSE IF phase = "CompensatingPark" THEN @ \ {w} ELSE @]
      BY <1>1, <3>1 DEF EngineState, Transaction
    <3>. HIDE DEF parked, restored, landed, lost
    <3>3. CASE ok
      BY <1>4, <3>2, <3>3 DEF SwitchWindowSettled
    <3>4. CASE ~ok
      BY <1>4, <3>4 DEF SwitchWindowSettled, lost
    <3> QED
      BY <3>3, <3>4
  <2>. HIDE DEF parked, restored
  <2>2. /\ t = [s EXCEPT !.switch = still] /\ still \in Transaction
        /\ still = [s.switch EXCEPT !.inFlight = flying]
    BY <1>1 DEF EngineState, Transaction
  <2>3. landed = [s EXCEPT !.switch = done] /\ done \in Transaction
    BY <1>1, <1>2 DEF EngineState, Transaction
  <2>4. lost = [s EXCEPT !.switch = gone] /\ gone \in Transaction
    BY <1>1 DEF EngineState, Transaction
  <2>5. /\ still.inFlight = flying /\ still.parked = s.switch.parked
        /\ still.restored = s.switch.restored /\ still.phase = phase
        /\ still.queued = s.switch.queued /\ still.recording = s.switch.recording
        /\ still.target = s.switch.target /\ still.outgoing = s.switch.outgoing
        /\ still.id = s.switch.id
    BY <1>1 DEF Transaction
  <2>6. /\ done.inFlight = flying /\ done.parked = parked
        /\ done.restored = restored /\ done.phase = phase
        /\ done.queued = s.switch.queued /\ done.recording = s.switch.recording
        /\ done.target = s.switch.target /\ done.outgoing = s.switch.outgoing
    BY <1>1 DEF Transaction
  <2>7. /\ gone.inFlight = flying /\ gone.parked = s.switch.parked \ {w}
        /\ gone.restored = s.switch.restored \ {w} /\ gone.phase = phase
        /\ gone.queued = s.switch.queued /\ gone.recording = s.switch.recording
        /\ gone.target = s.switch.target /\ gone.outgoing = s.switch.outgoing
    BY <1>1 DEF Transaction
  <2>. HIDE DEF still, done, gone, t, landed, lost
  <2>8. ASSUME NEW sw \in Transaction,
               sw.inFlight = flying, sw.phase = phase, sw.queued = s.switch.queued,
               sw.recording = s.switch.recording,
               sw.target = s.switch.target, sw.outgoing = s.switch.outgoing,
               Outs(sw) \subseteq Outs(s.switch), Ins(sw) \subseteq Ins(s.switch),
               \A x \in sw.parked :
                  x \in s.switch.parked \/ (x = w /\ ok /\ w \in Going(s.switch)),
               \A x \in sw.restored :
                  x \in s.switch.restored \/ (x = w /\ ok /\ w \in Coming(s.switch)),
               phase = "CompensatingPark" => w \notin sw.restored,
               phase = "CompensatingRestore" => sw.parked = s.switch.parked \ {w}
        PROVE  [s EXCEPT !.switch = sw] \in EngineState /\ Orderly([s EXCEPT !.switch = sw], q, dk)
    <3> DEFINE u == [s EXCEPT !.switch = sw]
    <3>1. /\ u \in EngineState /\ u.switch = sw
          /\ u.effects = s.effects /\ u.pending = s.pending
          /\ u.pool = s.pool /\ u.life = s.life /\ u.parked = s.parked
      BY <2>8 DEF EngineState
    <3>. HIDE DEF u
    <3>2. /\ Spread(u, q)
          /\ \A x : Idle(s, q, x) => Idle(u, q, x)
          /\ \A x, kind, events : Expects(s, q, x, kind, events) => Expects(u, q, x, kind, events)
          /\ \A x, n : Of(s, dk, x, n) => Of(u, dk, x, n)
      BY <3>1, SameQueues DEF Orderly
    <3>3. \A m \in Items(s.effects) : m.window # w
      BY DEF Idle, Movers
    <3>4. Forth(u) = Forth(s)
      BY <2>8, <3>1, <3>3 DEF Forth, Returning
    <3>5. Sorted(u)
      <4>1. phase = "CompensatingRestore" => Ranked(s.effects, flying)
        <5> SUFFICES ASSUME Ranked(s.effects, s.switch.inFlight)
                     PROVE  Ranked(s.effects, flying)
          BY DEF Orderly, Sorted
        <5>1. \A i \in 1..Len(s.effects) : \A m \in s.effects[i] : m.window # w
          BY <3>3 DEF Items
        <5> QED
          BY <5>1 DEF Ranked
      <4>2. phase \in {"Recording", "Parking", "CompensatingRestore"} => sw.restored = {}
        BY <2>8 DEF Orderly, Sorted, Coming
      <4>3. phase = "CompensatingPark" => sw.restored \subseteq flying
        BY <2>8 DEF Orderly, Sorted, Coming
      <4> QED
        BY <2>8, <3>1, <4>1, <4>2, <4>3 DEF Orderly, Sorted
    <3>6. Queued(u, q, dk)
      BY <2>8, <3>1, <3>2 DEF Orderly, Queued
    <3>7. Left(u, q, dk)
      <4> SUFFICES ASSUME NEW x \in sw.parked
                   PROVE  /\ phase # "CompensatingRestore" => Idle(u, q, x)
                          /\ Of(u, dk, x, sw.outgoing)
                          /\ On(dk, x, "Parked")
                             \/ (phase = "CompensatingRestore" /\ Forth(u) = {})
        BY <2>8, <3>1 DEF Left
      <4>1. CASE x \in s.switch.parked
        BY <2>8, <3>2, <3>4, <4>1 DEF Orderly, Left
      <4>2. CASE x \notin s.switch.parked
        <5>1. x = w /\ ok /\ w \in Going(s.switch) /\ phase # "CompensatingRestore"
          BY <2>8, <4>2 DEF Going
        <5>2. Of(s, dk, x, s.switch.outgoing)
          BY <5>1 DEF Orderly, Flying, Going
        <5> QED
          BY <2>8, <3>2, <5>1, <5>2
      <4> QED
        BY <4>1, <4>2
    <3>8. Brought(u, q, dk)
      <4> SUFFICES ASSUME phase # "CompensatingPark", NEW x \in sw.restored
                   PROVE  Idle(u, q, x) /\ On(dk, x, "Screen")
        BY <2>8, <3>1 DEF Brought
      <4>1. Idle(s, q, x) /\ On(dk, x, "Screen")
        BY <2>8 DEF Orderly, Brought
      <4> QED
        BY <3>2, <4>1
    <3>9. Flying(u, q, dk)
      <4>1. /\ Going(sw) \subseteq Going(s.switch) /\ Coming(sw) \subseteq Coming(s.switch)
            /\ Requested(sw) = Requested(s.switch) /\ sw.inFlight \subseteq s.switch.inFlight
        BY <2>8 DEF Going, Coming, Requested
      <4> QED
        BY <2>8, <3>1, <3>2, <3>4, <4>1 DEF Orderly, Flying
    <3> QED
      BY <3>1, <3>2, <3>5, <3>6, <3>7, <3>8, <3>9 DEF Orderly, u
  <2>9. SwitchOpen(s) /\ phase \in Phase \ {"Idle"}
    BY <1>1 DEF SwitchOpen
  <2>10. /\ Going(still) \subseteq Going(s.switch) /\ Coming(still) \subseteq Coming(s.switch)
         /\ Going(done) \subseteq Going(s.switch) /\ Coming(done) \subseteq Coming(s.switch)
         /\ Going(gone) \subseteq Going(s.switch) /\ Coming(gone) \subseteq Coming(s.switch)
         /\ Requested(still) = Requested(s.switch) /\ Requested(done) = Requested(s.switch)
         /\ Requested(gone) = Requested(s.switch)
    BY <2>5, <2>6, <2>7 DEF Going, Coming, Requested
  <2>11. /\ parked \subseteq s.switch.parked \cup ({w} \cap Going(s.switch))
         /\ restored \subseteq s.switch.restored \cup ({w} \cap Coming(s.switch))
         /\ phase = "CompensatingPark" => w \notin restored
         /\ phase = "CompensatingRestore" => parked = s.switch.parked \ {w}
    BY <1>4 DEF parked, restored, Going, Coming
  <2>12. CASE ok
    <3>1. Outs(done) \subseteq Outs(s.switch) /\ Ins(done) \subseteq Ins(s.switch)
      BY <2>6, <2>10, <2>11 DEF Outs, Ins
    <3>2. landed \in EngineState /\ Orderly(landed, q, dk)
      BY <2>3, <2>6, <2>8, <2>11, <2>12, <3>1
    <3> QED
      BY <2>1, <2>12, <3>2, AdvanceOrderly
  <2>13. CASE ~ok /\ Compensating(s)
    <3>1. Outs(gone) \subseteq Outs(s.switch) /\ Ins(gone) \subseteq Ins(s.switch)
      BY <2>7, <2>10 DEF Outs, Ins
    <3>2. lost \in EngineState /\ Orderly(lost, q, dk)
      BY <2>4, <2>7, <2>8, <3>1
    <3> QED
      BY <2>1, <2>13, <3>2, AdvanceOrderly
  <2>14. CASE ~ok /\ ~Compensating(s)
    <3>1. Outs(still) \subseteq Outs(s.switch) /\ Ins(still) \subseteq Ins(s.switch)
      BY <2>5, <2>10 DEF Outs, Ins
    <3>2. phase # "CompensatingPark" /\ phase # "CompensatingRestore"
      BY <2>14 DEF Compensating, CompensatingPhase
    <3>3. t \in EngineState /\ Orderly(t, q, dk)
      BY <2>2, <2>5, <2>8, <3>1, <3>2
    <3>4. t.switch = still
      BY <2>2 DEF EngineState
    <3>5. SwitchOpen(t) /\ ~Compensating(t) /\ t.switch.id # 0
      BY <2>5, <2>14, <3>4 DEF SwitchOpen, Compensating
    <3> QED
      BY <2>1, <2>14, <3>3, <3>5, CompensationOrderly
  <2> QED
    BY <2>12, <2>13, <2>14
<1> QED
  BY <1>3, <1>4

(* begin_workspace_switch, when nothing is under way.                      *)
LEMMA BeginOrderly ==
    ASSUME NEW s \in EngineState, NEW dk, s.effects = << >>, s.pending = {},
           NEW n \in Workspace, NEW d \in Display, ~IsDisplayed(s.pool, n),
           \A w \in Parked(s) : dk.life[w] = "Closed" \/ s.life[w] # "Gone",
           SwitchOpen(BeginWorkspaceSwitch(s, n, d))
    PROVE  Orderly(BeginWorkspaceSwitch(s, n, d), << >>, dk)
<1> DEFINE id == s.lastSwitch + 1
           park == ToPark(s, d)
           back == ToRestore(s, n)
           t == RequestRecoveryEntries(s, park, id)
           tokens == {<<t.lastBatch, w>> : w \in park}
           sw == [NoSwitch EXCEPT
                    !.id = id, !.phase = "Recording", !.display = d,
                    !.target = n, !.outgoing = s.pool.displayed[d],
                    !.queued = back, !.recording = tokens]
           u == [t EXCEPT !.lastSwitch = id, !.switch = sw]
<1>1. /\ id \in Nat /\ id # 0 /\ s.pool.displayed[d] \in Workspace \cup {None}
      /\ s.pool.displayed[d] # n
  <2>1. s.lastSwitch \in Nat /\ s.pool \in Pool
    BY FieldTypes
  <2> QED
    BY <2>1 DEF Pool, IsDisplayed
<1>2. /\ park \in SUBSET Window /\ back \in SUBSET Window
      /\ \A w \in park : /\ s.life[w] # "Gone" /\ s.parked[w] = 0
                         /\ s.pool.displayed[d] # None
                         /\ s.pool.member[w] = s.pool.displayed[d]
      /\ \A w \in back : w \in Parked(s) /\ s.parked[w] # 0 /\ s.pool.member[w] = n
  BY DEF ToPark, OnScreenMembers, Managed, ToRestore, MembersOf, Parked
<1>3. park \cap back = {}
  BY <1>2
<1>4. BeginWorkspaceSwitch(s, n, d) = AdvanceSwitch(u)
  BY DEF BeginWorkspaceSwitch
<1>. HIDE DEF id, park, back
<1>5. RequestedOnce(s) /\ \A w \in park : ~Waiting(s, w)
  BY DEF RequestedOnce, Waiting
<1>6. /\ t \in EngineState /\ t.pool = s.pool /\ t.effects = << >>
      /\ t.life = s.life /\ t.parked = s.parked
      /\ t.pending = {[batch |-> t.lastBatch, window |-> w, switch |-> id] : w \in park}
  <2>1. /\ t \in EngineState /\ t.pool = s.pool
        /\ t.pending = s.pending \cup {[batch |-> t.lastBatch, window |-> w, switch |-> id] : w \in park}
    BY <1>1, <1>2, <1>5, RequestsAsked
  <2>2. t.effects = s.effects /\ t.life = s.life /\ t.parked = s.parked
    BY <1>1, <1>2, RequestKeeps
  <2>. HIDE DEF t
  <2> QED
    BY <2>1, <2>2
<1>. HIDE DEF t
<1>7. t.lastBatch \in Nat /\ tokens \in SUBSET Token /\ \A x \in tokens : x[2] \in park
  BY <1>2, <1>6, FieldTypes DEF Token
<1>. HIDE DEF tokens
<1>8. /\ sw \in Transaction
      /\ sw.inFlight = {} /\ sw.parked = {} /\ sw.restored = {}
      /\ sw.queued = back /\ sw.recording = tokens /\ sw.phase = "Recording"
      /\ sw.target = n /\ sw.outgoing = s.pool.displayed[d]
  <2>1. "Recording" \in Phase
    BY DEF Phase, ForwardPhase
  <2> QED
    BY <1>1, <1>2, <1>7, <2>1 DEF Transaction, NoSwitch
<1>. HIDE DEF sw
<1>9. /\ u \in EngineState /\ u.switch = sw /\ u.life = s.life /\ u.pool = s.pool
      /\ u.parked = s.parked /\ u.effects = << >> /\ u.pending = t.pending
  BY <1>1, <1>6, <1>8 DEF EngineState
<1>. HIDE DEF u
<1>10. /\ Items(u.effects) = {} /\ Movers(u) = {} /\ Replies(<< >>) = {}
       /\ \A w : Waiting(u, w) => w \in park
       /\ \A r \in u.pending : r.switch # 0
  BY <1>1, <1>6, <1>9 DEF Items, Movers, Replies, Waiting
<1>11. Spread(u, << >>)
  BY <1>9, <1>10 DEF Spread, SoleMoves, SoleReplies
<1>12. Sorted(u)
  <2>1. Requested(sw) \subseteq park
    BY <1>7, <1>8 DEF Requested
  <2>2. Outs(sw) \cap Ins(sw) = {}
    BY <1>3, <1>8, <2>1 DEF Outs, Ins, Going, Coming
  <2> QED
    BY <1>1, <1>8, <1>9, <2>2 DEF Sorted, CompensatingPhase
<1>13. Queued(u, << >>, dk)
  <2> SUFFICES ASSUME NEW w \in back
               PROVE  /\ Idle(u, << >>, w) /\ Of(u, dk, w, n)
                      /\ dk.life[w] = "Closed" \/ s.parked[w] # 0
    BY <1>8, <1>9 DEF Queued
  <2>1. Idle(u, << >>, w)
    BY <1>3, <1>10 DEF Idle
  <2>2. Of(u, dk, w, n)
    BY <1>2, <1>9, NoneAssumption DEF Of
  <2> QED
    BY <1>2, <2>1, <2>2
<1>14. Left(u, << >>, dk) /\ Brought(u, << >>, dk)
  BY <1>8, <1>9 DEF Left, Brought
<1>15. Flying(u, << >>, dk)
  <2>1. \A w \in Requested(sw) : w \in park
    BY <1>7, <1>8 DEF Requested
  <2>2. \A w \in park : Of(u, dk, w, sw.outgoing)
    BY <1>2, <1>8, <1>9 DEF Of
  <2> QED
    BY <1>8, <1>9, <1>10, <2>1, <2>2 DEF Flying, Going, Coming, Forth
<1>16. Orderly(u, << >>, dk)
  BY <1>11, <1>12, <1>13, <1>14, <1>15 DEF Orderly
<1> QED
  BY <1>4, <1>9, <1>16, AdvanceOrderly

(* What changes neither queues, transaction, windows nor their places, and *)
(* takes no window from its workspace.                                     *)
LEMMA FieldsAside ==
    ASSUME NEW s, NEW t, NEW dk, t.switch = s.switch, t.effects = s.effects,
           t.pending = s.pending, t.life = s.life, t.parked = s.parked,
           \A w \in Window : s.pool.member[w] # None => t.pool.member[w] = s.pool.member[w]
    PROVE  Aside(s, t, dk)
BY DEF Aside

LEMMA AssignmentAside ==
    ASSUME NEW s \in EngineState, NEW dk
    PROVE  /\ Aside(s, AssignUnassignedWindows(s), dk)
           /\ Aside(s, SyncWorkspacesFromConfig(s), dk)
           /\ Aside(s, ApplySwitchingMapping(s), dk)
           /\ \A t \in FillEmptyDisplays(s) : Aside(s, t, dk)
<1>1. s.pool \in Pool
  BY FieldTypes
<1>2. Aside(s, AssignUnassignedWindows(s), dk)
  <2> DEFINE t == AssignUnassignedWindows(s)
  <2>1. /\ t.switch = s.switch /\ t.effects = s.effects /\ t.pending = s.pending
        /\ t.life = s.life /\ t.parked = s.parked
    BY DEF AssignUnassignedWindows, EngineState
  <2>2. \A w \in Window : s.pool.member[w] # None => t.pool.member[w] = s.pool.member[w]
    BY <1>1 DEF AssignUnassignedWindows, EngineState, Assign, Pool
  <2>. HIDE DEF t
  <2>3. Aside(s, t, dk)
    BY <2>1, <2>2, FieldsAside
  <2> QED
    BY <2>3 DEF t
<1>3. Aside(s, SyncWorkspacesFromConfig(s), dk)
  <2> DEFINE t == SyncWorkspacesFromConfig(s)
  <2>1. /\ t.switch = s.switch /\ t.effects = s.effects /\ t.pending = s.pending
        /\ t.life = s.life /\ t.parked = s.parked /\ t.pool.member = s.pool.member
    BY <1>1 DEF SyncWorkspacesFromConfig, EngineState, Pool
  <2>. HIDE DEF t
  <2>2. Aside(s, t, dk)
    BY <2>1, FieldsAside
  <2> QED
    BY <2>2 DEF t
<1>4. Aside(s, ApplySwitchingMapping(s), dk)
  <2> DEFINE t == ApplySwitchingMapping(s)
  <2>1. /\ t.switch = s.switch /\ t.effects = s.effects /\ t.pending = s.pending
        /\ t.life = s.life /\ t.parked = s.parked /\ t.pool.member = s.pool.member
    BY <1>1 DEF ApplySwitchingMapping, EngineState, Pool
  <2>. HIDE DEF t
  <2>2. Aside(s, t, dk)
    BY <2>1, FieldsAside
  <2> QED
    BY <2>2 DEF t
<1>5. ASSUME NEW t \in FillEmptyDisplays(s)
      PROVE  Aside(s, t, dk)
  <2>1. /\ t.switch = s.switch /\ t.effects = s.effects /\ t.pending = s.pending
        /\ t.life = s.life /\ t.parked = s.parked /\ t.pool.member = s.pool.member
    <3>1. PICK fill \in Fills(s) : t =
            [s EXCEPT
               !.pool.displayed =
                 [d \in Display |-> IF fill[d] = None THEN @[d] ELSE fill[d]],
               !.remembered =
                 [n \in Workspace |-> IF \E d \in Display : fill[d] = n THEN None ELSE @[n]]]
      BY DEF FillEmptyDisplays
    <3> QED
      BY <1>1, <3>1 DEF EngineState, Pool
  <2> QED
    BY <2>1, FieldsAside
<1> QED
  BY <1>2, <1>3, <1>4, <1>5

LEMMA StrandedAside ==
    ASSUME NEW s \in EngineState, NEW dk, NEW new, NEW nearest, NEW n, NEW w
    PROVE  /\ Aside(s, LeaveVanishedDisplays(s, new, nearest), dk)
           /\ Aside(s, LoadDisplayed(s, n), dk)
           /\ Aside(s, SettleStrandedWindow(s, w), dk)
           /\ Aside(s, StrandWindow(s, w), dk)
<1>1. s.pool \in Pool
  BY FieldTypes
<1>2. Aside(s, LeaveVanishedDisplays(s, new, nearest), dk)
  <2> DEFINE t == LeaveVanishedDisplays(s, new, nearest)
  <2>1. /\ t.switch = s.switch /\ t.effects = s.effects /\ t.pending = s.pending
        /\ t.life = s.life /\ t.parked = s.parked /\ t.pool.member = s.pool.member
    BY <1>1 DEF LeaveVanishedDisplays, EngineState, RetainDisplays, Pool
  <2>. HIDE DEF t
  <2>2. Aside(s, t, dk)
    BY <2>1, FieldsAside
  <2> QED
    BY <2>2 DEF t
<1>3. Aside(s, LoadDisplayed(s, n), dk)
  <2> DEFINE t == LoadDisplayed(s, n)
  <2>1. /\ t.switch = s.switch /\ t.effects = s.effects /\ t.pending = s.pending
        /\ t.life = s.life /\ t.parked = s.parked /\ t.pool.member = s.pool.member
    BY <1>1 DEF LoadDisplayed, EngineState, Show, Pool
  <2>. HIDE DEF t
  <2>2. Aside(s, t, dk)
    BY <2>1, FieldsAside
  <2> QED
    BY <2>2 DEF t
<1>4. Aside(s, SettleStrandedWindow(s, w), dk)
  <2> DEFINE t == SettleStrandedWindow(s, w)
  <2>1. /\ t.switch = s.switch /\ t.effects = s.effects /\ t.pending = s.pending
        /\ t.life = s.life /\ t.parked = s.parked /\ t.pool = s.pool
    BY DEF SettleStrandedWindow, EngineState
  <2>. HIDE DEF t
  <2>2. Aside(s, t, dk)
    BY <2>1, FieldsAside
  <2> QED
    BY <2>2 DEF t
<1>5. Aside(s, StrandWindow(s, w), dk)
  <2> DEFINE t == StrandWindow(s, w)
  <2>1. /\ t.switch = s.switch /\ t.effects = s.effects /\ t.pending = s.pending
        /\ t.life = s.life /\ t.parked = s.parked /\ t.pool = s.pool
    BY DEF StrandWindow, EngineState
  <2>. HIDE DEF t
  <2>2. Aside(s, t, dk)
    BY <2>1, FieldsAside
  <2> QED
    BY <2>2 DEF t
<1> QED
  BY <1>2, <1>3, <1>4, <1>5

(* reconcile_hidden_workspace_windows waits for the switch to end.         *)
LEMMA ReconcileWaits ==
    ASSUME NEW s, SwitchOpen(s)
    PROVE  ReconcileHiddenWorkspaceWindows(s) = s
BY DEF ReconcileHiddenWorkspaceWindows

LEMMA AsideOpen ==
    ASSUME NEW s, NEW t, NEW dk, Aside(s, t, dk)
    PROVE  SwitchOpen(t) <=> SwitchOpen(s)
BY DEF Aside, SwitchOpen

(* The tail of ConfigChanged, DisplayTopologyChanged and WorkspacesLoaded. *)
LEMMA TailAside ==
    ASSUME NEW t, NEW dk, Good(t), SwitchOpen(t)
    PROVE  Aside(t, ReconcileHiddenWorkspaceWindows(AssignUnassignedWindows(
                       ApplySwitchingMapping(t))), dk)
<1> DEFINE m == ApplySwitchingMapping(t)
           a == AssignUnassignedWindows(m)
<1>1. Good(m) /\ m \in EngineState /\ Aside(t, m, dk)
  BY MappingGood, AssignmentAside DEF Good, Consistent
<1>. HIDE DEF m
<1>2. Aside(m, a, dk)
  BY <1>1, AssignmentAside
<1>. HIDE DEF a
<1>3. Aside(t, a, dk)
  BY <1>1, <1>2, AsideTransitive
<1>4. ReconcileHiddenWorkspaceWindows(a) = a
  BY <1>3, AsideOpen, ReconcileWaits
<1> QED
  BY <1>3, <1>4 DEF a, m

LEMMA ResettleAside ==
    ASSUME NEW s, NEW dk, Good(s), SwitchOpen(s), NEW v \in Resettle(s)
    PROVE  Aside(s, v, dk)
<1> DEFINE y == SyncWorkspacesFromConfig(s)
<1>1. PICK t \in FillEmptyDisplays(y) :
        v = ReconcileHiddenWorkspaceWindows(AssignUnassignedWindows(ApplySwitchingMapping(t)))
  BY DEF Resettle
<1>2. s \in EngineState /\ Good(y) /\ Aside(s, y, dk)
  BY SyncGood, AssignmentAside DEF Good, Consistent
<1>. HIDE DEF y
<1>3. Good(t) /\ y \in EngineState
  BY <1>2, FillGood DEF Good, Consistent
<1>4. Aside(y, t, dk)
  BY <1>3, AssignmentAside
<1>5. Aside(s, t, dk)
  BY <1>2, <1>4, AsideTransitive
<1>6. SwitchOpen(t)
  BY <1>5, AsideOpen
<1>7. Aside(t, v, dk)
  BY <1>1, <1>3, <1>6, TailAside
<1> QED
  BY <1>5, <1>7, AsideTransitive

(* WorkspacesLoaded                                                        *)
LEMMA LoadAside ==
    ASSUME NEW s, NEW dk, Good(s), SwitchOpen(s), NEW stored \in SUBSET Workspace,
           NEW where \in [Workspace -> Display \cup {None}],
           NEW v \in LoadWorkspaces(s, stored, where)
    PROVE  Aside(s, v, dk)
<1> DEFINE t == Stocked(s, stored, where)
<1>1. PICK l \in Returned(t) : \E f \in FillEmptyDisplays(l) :
        v = ReconcileHiddenWorkspaceWindows(AssignUnassignedWindows(ApplySwitchingMapping(f)))
  BY LoadParts
<1>2. PICK u \in FillEmptyDisplays(l) :
        v = ReconcileHiddenWorkspaceWindows(AssignUnassignedWindows(ApplySwitchingMapping(u)))
  BY <1>1
<1>3. Good(t) /\ Aside(s, t, dk)
  <2>1. s \in EngineState /\ s.pool \in Pool /\ Good(t)
    BY StockedGood, FieldTypes DEF Good, Consistent
  <2>2. /\ t.switch = s.switch /\ t.effects = s.effects /\ t.pending = s.pending
        /\ t.life = s.life /\ t.parked = s.parked /\ t.pool.member = s.pool.member
    BY <2>1 DEF Stocked, EngineState, Pool
  <2>. HIDE DEF t
  <2> QED
    BY <2>1, <2>2, FieldsAside
<1>. HIDE DEF t
<1>4. Good(l) /\ Aside(t, l, dk)
  <2>1. t \in EngineState /\ Aside(t, t, dk)
    BY <1>3 DEF Good, Consistent, Aside
  <2>2. Good(l)
    BY <1>3, ReturnedGood
  <2>3. ASSUME NEW n, Good(LoadDisplayed(t, n))
        PROVE  /\ Aside(t, LoadDisplayed(t, n), dk)
               /\ \A m : Aside(t, LoadDisplayed(LoadDisplayed(t, n), m), dk)
    <3>1. LoadDisplayed(t, n) \in EngineState
      BY <2>3 DEF Good, Consistent
    <3>2. Aside(t, LoadDisplayed(t, n), dk)
      BY <2>1, StrandedAside
    <3>3. \A m : Aside(LoadDisplayed(t, n), LoadDisplayed(LoadDisplayed(t, n), m), dk)
      BY <3>1, StrandedAside
    <3> QED
      BY <3>2, <3>3, AsideTransitive
  <2> QED
    BY <1>3, <2>1, <2>2, <2>3, ReturnedParts
<1>5. Good(u) /\ Aside(s, u, dk)
  <2>1. Good(u) /\ l \in EngineState
    BY <1>4, FillGood DEF Good, Consistent
  <2>2. Aside(l, u, dk)
    BY <2>1, AssignmentAside
  <2> QED
    BY <1>3, <1>4, <2>1, <2>2, AsideTransitive
<1>6. SwitchOpen(u)
  BY <1>5, AsideOpen
<1>7. Aside(u, v, dk)
  BY <1>2, <1>5, <1>6, TailAside
<1> QED
  BY <1>5, <1>7, AsideTransitive

(* replace_inventory_from_observations, for an enumeration that finds      *)
(* every window the reducer knows and that has not closed.                 *)
LEMMA InventoryAside ==
    ASSUME NEW s, NEW dk, Good(s), SwitchOpen(s),
           NEW life \in [Window -> Lifecycle], NEW seat \in [Window -> Display],
           \A w \in Managed(s) : dk.life[w] = "Closed" \/ life[w] # "Gone"
    PROVE  Aside(s, ReplaceInventory(s, life, seat), dk)
<1> DEFINE seen   == {w \in Window : life[w] # "Gone"}
           closed == Parked(s) \ seen
           parked == [w \in Window |-> IF w \in seen THEN s.parked[w] ELSE 0]
           marks  == {[kind |-> "MarkRestored", window |-> w, number |-> s.parked[w]] : w \in closed}
           intents == Push(s.intents, marks)
           to == [w \in Window |-> IF w \in seen \ Managed(s) /\ RuleTarget[w] \in Names(s.pool)
                                   THEN RuleTarget[w] ELSE None]
           pool == Assign(RetainMembers(s.pool, seen), to)
           t == [s EXCEPT !.life = life, !.seat = seat, !.parked = parked,
                          !.intents = intents, !.pool = pool]
           a == AssignUnassignedWindows(t)
<1>1. /\ s \in EngineState /\ s.pool \in Pool /\ s.parked \in [Window -> Nat]
      /\ s.intents \in Seq(SUBSET Intent)
  BY FieldTypes DEF Good, Consistent
<1>2. parked \in [Window -> Nat] /\ \A w \in Window : life[w] # "Gone" => parked[w] = s.parked[w]
  BY <1>1
<1>3. intents \in Seq(SUBSET Intent)
  <2>1. marks \in SUBSET Intent
    BY <1>1 DEF Parked, Intent
  <2>. HIDE DEF marks
  <2> QED
    BY <1>1, <2>1, PushType
<1>4. /\ pool \in Pool
      /\ \A w \in Window : life[w] # "Gone" /\ w \in Managed(s) => pool.member[w] = s.pool.member[w]
  <2>1. to \in [Window -> Workspace \cup {None}] /\ \A w \in Window : w \in Managed(s) => to[w] = None
    BY DEF Names
  <2>2. RetainMembers(s.pool, seen) \in Pool
    BY <1>1 DEF RetainMembers, Pool
  <2>3. \A w \in Window : life[w] # "Gone" => RetainMembers(s.pool, seen).member[w] = s.pool.member[w]
    BY <1>1 DEF RetainMembers, Pool
  <2>. HIDE DEF to, seen
  <2> QED
    BY <2>1, <2>2, <2>3 DEF Assign, Pool
<1>5. /\ t \in EngineState /\ t.switch = s.switch /\ t.pending = s.pending /\ t.pool = pool
      /\ t.life = life /\ t.effects = s.effects /\ t.parked = parked
  <2>. HIDE DEF parked, intents, pool
  <2> QED
    BY <1>1, <1>2, <1>3, <1>4 DEF EngineState
<1>6. ReplaceInventory(s, life, seat) = ReconcileHiddenWorkspaceWindows(a)
  BY DEF ReplaceInventory
<1>. HIDE DEF t, pool, parked
<1>7. Aside(s, t, dk)
  BY <1>2, <1>4, <1>5 DEF Aside, Managed
<1>8. Aside(t, a, dk)
  BY <1>5, AssignmentAside
<1>. HIDE DEF a
<1>9. Aside(s, a, dk)
  BY <1>7, <1>8, AsideTransitive
<1>10. ReconcileHiddenWorkspaceWindows(a) = a
  BY <1>9, AsideOpen, ReconcileWaits
<1> QED
  BY <1>6, <1>9, <1>10

-----------------------------------------------------------------------------
(* The arms of `apply` that are not about the transaction.                 *)

LEMMA PoolAside ==
    ASSUME Good(engine), NEW dk, NEW n \in Workspace,
           WorkspaceCreateRequested(n) \/ WorkspaceDeleteRequested(n)
    PROVE  Aside(engine, engine', dk)
<1>1. engine \in EngineState /\ engine.pool \in Pool
  BY FieldTypes DEF Good, Consistent
<1>2. /\ engine'.switch = engine.switch /\ engine'.effects = engine.effects
      /\ engine'.pending = engine.pending
      /\ engine'.life = engine.life /\ engine'.parked = engine.parked
      /\ engine'.pool.member = engine.pool.member
  <2>1. CASE WorkspaceCreateRequested(n)
    BY <1>1, <2>1 DEF WorkspaceCreateRequested, EngineState, Create, Pool
  <2>2. CASE WorkspaceDeleteRequested(n)
    BY <1>1, <2>2 DEF WorkspaceDeleteRequested, EngineState, Delete, Pool
  <2> QED
    BY <2>1, <2>2
<1> QED
  BY <1>2, FieldsAside

LEMMA FlagAside ==
    ASSUME Good(engine), NEW dk, NEW c \in Capability, NEW h \in Health,
           \/ PauseRequested \/ ResumeRequested
           \/ ParkingCapabilityReported(c) \/ PersistenceHealthChanged(h)
    PROVE  Aside(engine, engine', dk)
<1>1. engine \in EngineState
  BY DEF Good, Consistent
<1>2. /\ engine'.switch = engine.switch /\ engine'.effects = engine.effects
      /\ engine'.pending = engine.pending
      /\ engine'.life = engine.life /\ engine'.parked = engine.parked
      /\ engine'.pool = engine.pool
  BY <1>1 DEF PauseRequested, ResumeRequested, ParkingCapabilityReported,
              PersistenceHealthChanged, EngineState
<1> QED
  BY <1>2, FieldsAside

LEMMA ConfigAside ==
    ASSUME Good(engine), SwitchOpen(engine), NEW dk, NEW c \in Configs, ConfigChanged(c)
    PROVE  Aside(engine, engine', dk)
<1> DEFINE t == [engine EXCEPT !.config = c]
<1>1. engine \in EngineState /\ DisplayedOnce(engine.pool)
  BY DEF Good, Consistent
<1>2. /\ t \in EngineState /\ t.switch = engine.switch /\ t.pending = engine.pending
      /\ t.pool = engine.pool /\ t.life = engine.life /\ t.parked = engine.parked
      /\ t.effects = engine.effects
  BY <1>1 DEF EngineState
<1>3. engine' \in Resettle(t)
  BY DEF ConfigChanged
<1>. HIDE DEF t
<1>4. Good(t)
  BY <1>1, <1>2, FrameGood
<1>5. Aside(engine, t, dk)
  BY <1>2, FieldsAside
<1>6. SwitchOpen(t)
  BY <1>5, AsideOpen
<1>7. Aside(t, engine', dk)
  BY <1>3, <1>4, <1>6, ResettleAside
<1> QED
  BY <1>5, <1>7, AsideTransitive

LEMMA TopologyAside ==
    ASSUME Good(engine), SwitchOpen(engine), NEW dk,
           NEW new \in SUBSET Display, NEW nearest \in Display,
           DisplayTopologyChanged(new, nearest)
    PROVE  Aside(engine, engine', dk)
<1> DEFINE left == LeaveVanishedDisplays(engine, new, nearest)
<1>1. engine \in EngineState
  BY DEF Good, Consistent
<1>2. Good(left) /\ Aside(engine, left, dk)
  BY <1>1, LeaveGood, StrandedAside DEF DisplayTopologyChanged
<1>3. engine' \in Resettle(left)
  BY DEF DisplayTopologyChanged
<1>. HIDE DEF left
<1>4. SwitchOpen(left)
  BY <1>2, AsideOpen
<1>5. Aside(left, engine', dk)
  BY <1>2, <1>3, <1>4, ResettleAside
<1> QED
  BY <1>2, <1>5, AsideTransitive

LEMMA WakeAside ==
    ASSUME Good(engine), SwitchOpen(engine), NEW dk,
           NEW new \in SUBSET Display, NEW nearest \in Display,
           NEW enumerated \in BOOLEAN,
           NEW life \in [Window -> Lifecycle], NEW seat \in [Window -> Display],
           enumerated => \A w \in Managed(engine) : dk.life[w] = "Closed" \/ life[w] # "Gone",
           WakeReconciliation(new, nearest, enumerated, life, seat)
    PROVE  Aside(engine, engine', dk)
<1> DEFINE left == LeaveVanishedDisplays(engine, new, nearest)
           synced == SyncWorkspacesFromConfig(left)
           filled == FillEmptyDisplays(synced)
<1>0. engine \in EngineState
  BY DEF Good, Consistent
<1>1. Good(left) /\ left \in EngineState /\ Plans(engine, left) /\ Aside(engine, left, dk)
  BY <1>0, LeaveGood, LeavePlans, StrandedAside DEF WakeReconciliation, Good, Consistent
<1>2. ASSUME NEW u \in filled
      PROVE  /\ Good(ApplySwitchingMapping(u)) /\ Aside(engine, ApplySwitchingMapping(u), dk)
             /\ Plans(engine, ApplySwitchingMapping(u))
  <2>. HIDE DEF left
  <2>1. /\ Good(synced) /\ synced \in EngineState /\ Aside(engine, synced, dk)
        /\ Plans(engine, synced)
    <3>1. Good(synced) /\ Aside(left, synced, dk) /\ Plans(left, synced)
      BY <1>1, SyncGood, AssignmentAside, SyncPlans
    <3> QED
      BY <1>0, <1>1, <3>1, AsideTransitive, PlansTransitive DEF Good, Consistent
  <2>. HIDE DEF synced
  <2>2. Good(u) /\ u \in EngineState
    BY <1>2, <2>1, FillGood DEF Good, Consistent
  <2>3. Aside(synced, u, dk) /\ Plans(synced, u)
    BY <1>2, <2>1, AssignmentAside, FillPlans
  <2>4. /\ Good(ApplySwitchingMapping(u)) /\ Aside(u, ApplySwitchingMapping(u), dk)
        /\ Plans(u, ApplySwitchingMapping(u))
    BY <2>2, MappingGood, AssignmentAside, MappingPlans
  <2>5. Aside(engine, ApplySwitchingMapping(u), dk)
    BY <2>1, <2>3, <2>4, AsideTransitive
  <2>6. Plans(engine, u)
    BY <1>0, <2>1, <2>3, PlansTransitive
  <2> QED
    BY <1>0, <2>4, <2>5, <2>6, PlansTransitive
<1>3. PICK t \in IF new = engine.displays THEN {engine} ELSE {ApplySwitchingMapping(u) : u \in filled} :
        engine' = IF enumerated THEN ReplaceInventory(t, life, seat) ELSE t
  BY DEF WakeReconciliation
<1>. HIDE DEF filled
<1>4. Good(t) /\ Aside(engine, t, dk) /\ Managed(t) = Managed(engine)
  <2>1. CASE new = engine.displays
    <3>1. t = engine
      BY <1>3, <2>1
    <3> QED
      BY <3>1 DEF Aside
  <2>2. CASE new # engine.displays
    <3>1. PICK u \in filled : t = ApplySwitchingMapping(u)
      BY <1>3, <2>2
    <3> QED
      BY <1>0, <1>2, <3>1, PlansItems
  <2> QED
    BY <2>1, <2>2
<1>5. CASE enumerated
  <2>1. SwitchOpen(t)
    BY <1>4, AsideOpen
  <2>2. Aside(t, ReplaceInventory(t, life, seat), dk)
    BY <1>4, <1>5, <2>1, InventoryAside
  <2> QED
    BY <1>3, <1>4, <1>5, <2>2, AsideTransitive
<1>6. CASE ~enumerated
  BY <1>3, <1>4, <1>6
<1> QED
  BY <1>5, <1>6

(* Every request is being recorded, or its answer is on the way; D are the *)
(* entries that are answered for by what is in the channel.                *)
Entered(s, D) == \A r \in s.pending : <<r.batch, r.window>> \in D \cup Asks(s)

(* From s to t, what is requested is asked for.                            *)
Enters(s, t) ==
    /\ Asks(s) \subseteq Asks(t)
    /\ \A r \in t.pending : r \in s.pending \/ <<r.batch, r.window>> \in Asks(t)

LEMMA EntersTransitive ==
    ASSUME NEW s, NEW t, NEW u, Enters(s, t), Enters(t, u)
    PROVE  Enters(s, u)
BY DEF Enters

LEMMA EntersKeeps ==
    ASSUME NEW s, NEW t, NEW D, Enters(s, t), Entered(s, D)
    PROVE  Entered(t, D)
BY DEF Enters, Entered

LEMMA AddsEnter ==
    ASSUME NEW s, NEW t, Adds(s, t)
    PROVE  Enters(s, t)
BY DEF Adds, Enters

LEMMA PlansEnter ==
    ASSUME NEW s \in EngineState, NEW t, Plans(s, t), t.pending \subseteq s.pending
    PROVE  Enters(s, t)
BY PlansItems DEF Enters

(* advance_switch requests nothing.                                        *)
LEMMA AdvanceEnters ==
    ASSUME NEW s \in EngineState
    PROVE  Enters(s, AdvanceSwitch(s))
<1> DEFINE forth == [s EXCEPT !.switch.phase = "Restoring", !.switch.queued = {},
                              !.switch.inFlight = s.switch.queued]
           back == [s EXCEPT !.switch.phase = "CompensatingRestore",
                             !.switch.inFlight = s.switch.parked]
<1>1. s.switch.phase \in Phase
  BY FieldTypes DEF Transaction
<1>2. AdvanceSwitch(s) \in {s, CommitSwitch(s), FinishCompensation(s),
                           EmitSwitchRestores(forth), EmitSwitchRestores(back)}
  <2>1. CASE ~SwitchOpen(s) \/ ~PhaseIsSettled(s)
    BY <2>1 DEF AdvanceSwitch
  <2>2. CASE SwitchOpen(s) /\ PhaseIsSettled(s)
    <3>1. CASE s.switch.phase \in {"Recording", "Parking"}
      BY <2>2, <3>1 DEF AdvanceSwitch
    <3>2. CASE s.switch.phase = "Restoring"
      BY <2>2, <3>2 DEF AdvanceSwitch
    <3>3. CASE s.switch.phase = "CompensatingPark"
      BY <2>2, <3>3 DEF AdvanceSwitch
    <3>4. CASE s.switch.phase = "CompensatingRestore"
      BY <2>2, <3>4 DEF AdvanceSwitch
    <3> QED
      BY <1>1, <2>2, <3>1, <3>2, <3>3, <3>4
         DEF SwitchOpen, Phase, ForwardPhase, CompensatingPhase
  <2> QED
    BY <2>1, <2>2
<1>3. /\ DOMAIN forth = DOMAIN s /\ forth.pending = s.pending
      /\ DOMAIN back = DOMAIN s /\ back.pending = s.pending
      /\ DOMAIN s = DOMAIN s /\ "pending" \in DOMAIN s
  BY DEF EngineState
<1>. HIDE DEF forth, back
<1>4. ASSUME NEW t, t.pending = s.pending
      PROVE  /\ CommitSwitch(t).pending = s.pending
             /\ FinishCompensation(t).pending = s.pending
  BY <1>4 DEF CommitSwitch, FinishCompensation
<1>5. ASSUME NEW t, t.pending = s.pending
      PROVE  EmitSwitchRestores(t).pending = s.pending
  BY <1>5 DEF EmitSwitchRestores, CommitSwitch, FinishCompensation
<1>6. AdvanceSwitch(s).pending = s.pending
  BY <1>2, <1>3, <1>4, <1>5
<1> QED
  BY <1>6, AdvancePlans, PlansEnter

LEMMA ReparksEnter ==
    ASSUME NEW s \in EngineState, NEW W \in SUBSET Window
    PROVE  Enters(s, RequestSwitchReparks(s, W))
<1> DEFINE able == {w \in W : Parkable(s, w)}
           lost == W \ able
           t == RequestRecoveryEntries(s, able, s.switch.id)
           tokens == {<<t.lastBatch, w>> : w \in able}
           u == [t EXCEPT !.switch.recording = tokens,
                          !.switch.inFlight  = able,
                          !.switch.stranded  = @ \cup lost,
                          !.switch.restored  = @ \ lost,
                          !.switch.parked    = @ \ lost]
<1>1. s.switch \in Transaction /\ s.switch.id \in Nat
  BY FieldTypes DEF Transaction
<1>2. able \in SUBSET Window /\ lost \in SUBSET Window /\ able \subseteq Managed(s)
  BY DEF Parkable, Managed
<1>. HIDE DEF able, lost
<1>3. t \in EngineState /\ t.switch = s.switch /\ Adds(s, t)
  BY <1>1, <1>2, RequestPlans, RequestAdds
<1>. HIDE DEF t
<1>4. t.lastBatch \in Nat /\ tokens \in SUBSET Token
  BY <1>2, <1>3, FieldTypes DEF Token
<1>5. RequestSwitchReparks(s, W) = AdvanceSwitch(u)
  BY DEF RequestSwitchReparks, t, able, lost
<1>. HIDE DEF tokens
<1> DEFINE sw == [t.switch EXCEPT !.recording = tokens, !.inFlight = able,
                                  !.stranded = @ \cup lost, !.restored = @ \ lost,
                                  !.parked = @ \ lost]
<1>6. sw \in Transaction /\ u = [t EXCEPT !.switch = sw]
  BY <1>1, <1>2, <1>3, <1>4 DEF Transaction, EngineState
<1>. HIDE DEF sw, u
<1>7. u \in EngineState /\ u.intents = t.intents /\ u.pending = t.pending
  BY <1>3, <1>6 DEF EngineState
<1>8. Enters(t, u)
  BY <1>7 DEF Enters, Asks
<1> QED
  BY <1>3, <1>5, <1>7, <1>8, AddsEnter, AdvanceEnters, EntersTransitive

LEMMA CompensationEnters ==
    ASSUME NEW s \in EngineState
    PROVE  Enters(s, BeginSwitchCompensation(s))
<1> DEFINE t == [s EXCEPT !.pending = {r \in @ : r.switch = 0},
                          !.switch.phase     = "CompensatingPark",
                          !.switch.queued    = {},
                          !.switch.recording = {},
                          !.switch.inFlight  = {}]
<1>1. /\ s.switch \in Transaction /\ s.pending \in SUBSET Request
      /\ s.switch.restored \in SUBSET Window
  BY FieldTypes DEF Transaction
<1>2. t \in EngineState
  <2>1. "CompensatingPark" \in Phase
    BY DEF Phase, CompensatingPhase
  <2> QED
    BY <2>1, <1>1 DEF EngineState, Transaction
<1>3. t.intents = s.intents /\ t.pending \subseteq s.pending
  BY DEF EngineState
<1>4. BeginSwitchCompensation(s) \in {s, RequestSwitchReparks(t, s.switch.restored)}
  BY DEF BeginSwitchCompensation
<1>. HIDE DEF t
<1>5. Enters(s, s) /\ Enters(s, t)
  BY <1>3 DEF Enters, Asks
<1> QED
  BY <1>1, <1>2, <1>4, <1>5, ReparksEnter, EntersTransitive

LEMMA SettledEnters ==
    ASSUME NEW s \in EngineState, NEW w \in Window, NEW ok \in BOOLEAN
    PROVE  Enters(s, SwitchWindowSettled(s, w, ok))
<1> DEFINE phase == s.switch.phase
           parked == IF phase \in {"Recording", "Parking"} THEN s.switch.parked \cup {w}
                     ELSE IF phase = "CompensatingRestore" THEN s.switch.parked \ {w}
                     ELSE s.switch.parked
           restored == IF phase = "Restoring" THEN s.switch.restored \cup {w}
                       ELSE IF phase = "CompensatingPark" THEN s.switch.restored \ {w}
                       ELSE s.switch.restored
           t == [s EXCEPT !.switch.inFlight = @ \ {w}]
           landed == [t EXCEPT !.switch.parked = parked, !.switch.restored = restored]
           lost == [t EXCEPT !.switch.stranded = @ \cup {w},
                             !.switch.restored = @ \ {w},
                             !.switch.parked   = @ \ {w}]
           still == [s.switch EXCEPT !.inFlight = @ \ {w}]
           done == [still EXCEPT !.parked = parked, !.restored = restored]
           gone == [still EXCEPT !.stranded = @ \cup {w}, !.restored = @ \ {w}, !.parked = @ \ {w}]
<1>1. s.switch \in Transaction
  BY FieldTypes
<1>2. parked \in SUBSET Window /\ restored \in SUBSET Window
  BY <1>1 DEF Transaction
<1>3. SwitchWindowSettled(s, w, ok)
        \in {s, AdvanceSwitch(landed), AdvanceSwitch(lost), BeginSwitchCompensation(t)}
  <2>1. t.switch.parked = s.switch.parked /\ t.switch.restored = s.switch.restored
    BY <1>1 DEF EngineState, Transaction
  <2>2. landed = [t EXCEPT !.switch.parked =
                       IF phase \in {"Recording", "Parking"} THEN @ \cup {w}
                       ELSE IF phase = "CompensatingRestore" THEN @ \ {w} ELSE @,
                    !.switch.restored =
                       IF phase = "Restoring" THEN @ \cup {w}
                       ELSE IF phase = "CompensatingPark" THEN @ \ {w} ELSE @]
    BY <1>1, <2>1 DEF EngineState, Transaction
  <2>. HIDE DEF parked, restored, landed, lost
  <2>3. CASE ok
    BY <2>2, <2>3 DEF SwitchWindowSettled
  <2>4. CASE ~ok
    BY <2>4 DEF SwitchWindowSettled, lost
  <2> QED
    BY <2>3, <2>4
<1>. HIDE DEF parked, restored
<1>4. still \in Transaction
  BY <1>1 DEF Transaction
<1>5. /\ t = [s EXCEPT !.switch = still]
      /\ landed = [s EXCEPT !.switch = done] /\ lost = [s EXCEPT !.switch = gone]
  BY <1>1 DEF EngineState, Transaction
<1>6. done \in Transaction /\ gone \in Transaction
  <2>. HIDE DEF still
  <2> QED
    BY <1>2, <1>4 DEF Transaction
<1>. HIDE DEF t, landed, lost, still, done, gone
<1>7. ASSUME NEW sw \in Transaction
      PROVE  [s EXCEPT !.switch = sw] \in EngineState /\ Enters(s, [s EXCEPT !.switch = sw])
  <2> DEFINE u == [s EXCEPT !.switch = sw]
  <2>1. u \in EngineState /\ u.intents = s.intents /\ u.pending = s.pending
    BY DEF EngineState
  <2>. HIDE DEF u
  <2>2. Enters(s, u)
    BY <2>1 DEF Enters, Asks
  <2> QED
    BY <2>1, <2>2 DEF u
<1>8. Enters(s, s)
  BY DEF Enters
<1>9. /\ t \in EngineState /\ Enters(s, t)
      /\ landed \in EngineState /\ Enters(s, landed) /\ lost \in EngineState /\ Enters(s, lost)
  BY <1>4, <1>5, <1>6, <1>7
<1>10. /\ Enters(s, AdvanceSwitch(landed)) /\ Enters(s, AdvanceSwitch(lost))
       /\ Enters(s, BeginSwitchCompensation(t))
  BY <1>9, AdvanceEnters, CompensationEnters, EntersTransitive
<1> QED
  BY <1>3, <1>8, <1>10

LEMMA BeginEnters ==
    ASSUME NEW s \in EngineState, NEW n \in Workspace, NEW d \in Display
    PROVE  Enters(s, BeginWorkspaceSwitch(s, n, d))
<1> DEFINE id == s.lastSwitch + 1
           park == ToPark(s, d)
           t == RequestRecoveryEntries(s, park, id)
           tokens == {<<t.lastBatch, w>> : w \in park}
           sw == [NoSwitch EXCEPT
                    !.id = id, !.phase = "Recording", !.display = d,
                    !.target = n, !.outgoing = s.pool.displayed[d],
                    !.queued = ToRestore(s, n), !.recording = tokens]
           u == [t EXCEPT !.lastSwitch = id, !.switch = sw]
<1>1. id \in Nat /\ s.pool.displayed[d] \in Workspace \cup {None}
  BY FieldTypes DEF Pool
<1>2. /\ park \in SUBSET Window /\ park \subseteq Managed(s)
      /\ ToRestore(s, n) \in SUBSET Window
  BY DEF ToPark, OnScreenMembers, Managed, ToRestore, MembersOf
<1>. HIDE DEF id, park
<1>3. t \in EngineState /\ Adds(s, t)
  BY <1>1, <1>2, RequestPlans, RequestAdds
<1>. HIDE DEF t
<1>4. t.lastBatch \in Nat /\ tokens \in SUBSET Token
  BY <1>2, <1>3, FieldTypes DEF Token
<1>5. BeginWorkspaceSwitch(s, n, d) = AdvanceSwitch(u)
  BY DEF BeginWorkspaceSwitch, id, park, t
<1>. HIDE DEF tokens
<1>6. sw \in Transaction
  <2>1. "Recording" \in Phase
    BY DEF Phase, ForwardPhase
  <2> QED
    BY <1>1, <1>2, <1>4, <2>1 DEF Transaction, NoSwitch
<1>. HIDE DEF sw
<1>7. u \in EngineState /\ u.intents = t.intents /\ u.pending = t.pending
  BY <1>1, <1>3, <1>6 DEF EngineState
<1>. HIDE DEF u
<1>8. Enters(t, u)
  BY <1>7 DEF Enters, Asks
<1> QED
  BY <1>3, <1>5, <1>7, <1>8, AddsEnter, AdvanceEnters, EntersTransitive

(* The arms of `apply`: those of inventories,                              *)
LEMMA InventoryEnters ==
    ASSUME NEW s, Good(s), NEW life \in [Window -> Lifecycle], NEW seat \in [Window -> Display]
    PROVE  Enters(s, ReplaceInventory(s, life, seat))
<1> DEFINE seen   == {w \in Window : life[w] # "Gone"}
           closed == Parked(s) \ seen
           parked == [w \in Window |-> IF w \in seen THEN s.parked[w] ELSE 0]
           marks  == {[kind |-> "MarkRestored", window |-> w, number |-> s.parked[w]] : w \in closed}
           intents == Push(s.intents, marks)
           to == [w \in Window |-> IF w \in seen \ Managed(s) /\ RuleTarget[w] \in Names(s.pool)
                                   THEN RuleTarget[w] ELSE None]
           pool == Assign(RetainMembers(s.pool, seen), to)
           t == [s EXCEPT !.life = life, !.seat = seat, !.parked = parked,
                          !.intents = intents, !.pool = pool]
           a == AssignUnassignedWindows(t)
<1>1. /\ s \in EngineState /\ s.pool \in Pool /\ s.parked \in [Window -> Nat]
      /\ s.intents \in Seq(SUBSET Intent) /\ DisplayedOnce(s.pool)
  BY FieldTypes DEF Good, Consistent
<1>2. parked \in [Window -> Nat]
  BY <1>1
<1>3. intents \in Seq(SUBSET Intent) /\ Items(s.intents) \subseteq Items(intents)
  <2>1. marks \in SUBSET Intent
    BY <1>1 DEF Parked, Intent
  <2>. HIDE DEF marks
  <2>2. intents \in Seq(SUBSET Intent)
    BY <1>1, <2>1, PushType
  <2>3. Items(intents) = Items(s.intents) \cup marks
    BY <1>1, <2>1, ItemsPushed
  <2> QED
    BY <2>2, <2>3
<1>4. pool \in Pool /\ DisplayedOnce(pool)
  <2>1. to \in [Window -> Workspace \cup {None}]
    BY DEF Names
  <2>. HIDE DEF to, seen
  <2>2. RetainMembers(s.pool, seen) \in Pool /\ DisplayedOnce(RetainMembers(s.pool, seen))
    BY <1>1, RetainMembersKeeps
  <2> QED
    BY <2>1, <2>2, AssignKeeps
<1>5. /\ t \in EngineState /\ t.switch = s.switch /\ t.pending = s.pending /\ t.pool = pool
      /\ t.intents = intents
  <2>. HIDE DEF parked, intents, pool
  <2> QED
    BY <1>1, <1>2, <1>3, <1>4 DEF EngineState
<1>6. ReplaceInventory(s, life, seat) = ReconcileHiddenWorkspaceWindows(a)
  BY DEF ReplaceInventory
<1>. HIDE DEF t, pool, parked, intents
<1>7. Good(t)
  BY <1>1, <1>4, <1>5, FrameGood
<1>8. Enters(s, t)
  BY <1>3, <1>5 DEF Enters, Asks
<1>9. a \in EngineState /\ Enters(t, a)
  BY <1>5, <1>7, AssignGood, AssignmentAdds, AddsEnter DEF Good, Consistent
<1>. HIDE DEF a
<1>10. Enters(a, ReconcileHiddenWorkspaceWindows(a))
  BY <1>9, ReconcileAdds, AddsEnter
<1> QED
  BY <1>6, <1>8, <1>9, <1>10, EntersTransitive

LEMMA WakeEnters ==
    ASSUME Good(engine), NEW new \in SUBSET Display, NEW nearest \in Display,
           NEW enumerated \in BOOLEAN,
           NEW life \in [Window -> Lifecycle], NEW seat \in [Window -> Display],
           WakeReconciliation(new, nearest, enumerated, life, seat)
    PROVE  Enters(engine, engine')
<1> DEFINE left == LeaveVanishedDisplays(engine, new, nearest)
           synced == SyncWorkspacesFromConfig(left)
           filled == FillEmptyDisplays(synced)
<1>0. engine \in EngineState
  BY DEF Good, Consistent
<1>1. Good(left) /\ Enters(engine, left)
  BY <1>0, LeaveGood, AsideAdds, AddsEnter DEF WakeReconciliation
<1>2. ASSUME NEW u \in filled
      PROVE  Good(ApplySwitchingMapping(u)) /\ Enters(engine, ApplySwitchingMapping(u))
  <2>. HIDE DEF left
  <2>1. Good(synced) /\ synced \in EngineState /\ Enters(left, synced)
    BY <1>1, SyncGood, AssignmentAdds, AddsEnter DEF Good, Consistent
  <2>. HIDE DEF synced
  <2>2. Good(u) /\ u \in EngineState /\ Enters(synced, u)
    BY <1>2, <2>1, FillGood, AssignmentAdds, AddsEnter DEF Good, Consistent
  <2>3. Good(ApplySwitchingMapping(u)) /\ Enters(u, ApplySwitchingMapping(u))
    BY <2>2, MappingGood, AssignmentAdds, AddsEnter
  <2> QED
    BY <1>1, <2>1, <2>2, <2>3, EntersTransitive
<1>3. PICK t \in IF new = engine.displays THEN {engine} ELSE {ApplySwitchingMapping(u) : u \in filled} :
        engine' = IF enumerated THEN ReplaceInventory(t, life, seat) ELSE t
  BY DEF WakeReconciliation
<1>. HIDE DEF filled
<1>4. Good(t) /\ Enters(engine, t)
  <2>1. CASE new = engine.displays
    <3>1. t = engine
      BY <1>3, <2>1
    <3> QED
      BY <3>1 DEF Enters
  <2>2. CASE new # engine.displays
    BY <1>2, <1>3, <2>2
  <2> QED
    BY <2>1, <2>2
<1>5. Enters(t, ReplaceInventory(t, life, seat))
  BY <1>4, InventoryEnters
<1> QED
  BY <1>3, <1>4, <1>5, EntersTransitive

(* that of a switch,                                                       *)
LEMMA FocusEnters ==
    ASSUME Good(engine), NEW n \in Workspace, NEW d \in Display, WorkspaceFocusRequested(n, d)
    PROVE  Enters(engine, engine')
<1>1. engine \in EngineState
  BY DEF Good, Consistent
<1>2. CASE engine' = [engine EXCEPT !.pool = Show(@, n, d)]
  <2>1. engine'.pending = engine.pending /\ engine'.intents = engine.intents
    BY <1>1, <1>2 DEF EngineState
  <2> QED
    BY <2>1 DEF Enters, Asks
<1>3. CASE engine' = BeginWorkspaceSwitch(engine, n, d)
  BY <1>1, <1>3, BeginEnters
<1> QED
  BY <1>2, <1>3 DEF WorkspaceFocusRequested

(* and those of the answers, which take what they answer with them.        *)
LEMMA DurableEnters ==
    ASSUME Good(engine), NEW b \in Nat, NEW v \in Window, NEW n \in Nat,
           RecoveryEntryDurable(b, v, n), NEW D, Entered(engine, D \cup {<<b, v>>})
    PROVE  Entered(engine', D)
<1>1. PICK r \in engine.pending :
        LET ours  == SwitchOpen(engine) /\ r.switch = engine.switch.id
            parks == IF v \in Managed(engine) THEN {v} ELSE {}
            rest  == engine.switch.recording \ {<<b, v>>}
            sw    == [engine.switch EXCEPT
                        !.recording = rest,
                        !.phase = IF @ = "Recording" /\ rest = {} THEN "Parking" ELSE @,
                        !.inFlight = @ \cup parks]
        IN  /\ r.batch = b /\ r.window = v
            /\ engine' = AdvanceSwitch(
                 [engine EXCEPT
                    !.pending = @ \ {r},
                    !.switch  = IF ours THEN sw ELSE @,
                    !.effects = Push(@, {[kind |-> "Park", window |-> x,
                                          entry |-> n] : x \in parks})])
  BY DEF RecoveryEntryDurable
<1> DEFINE ours  == SwitchOpen(engine) /\ r.switch = engine.switch.id
           parks == IF v \in Managed(engine) THEN {v} ELSE {}
           rest  == engine.switch.recording \ {<<b, v>>}
           phase == IF engine.switch.phase = "Recording" /\ rest = {} THEN "Parking" ELSE engine.switch.phase
           sw    == [engine.switch EXCEPT !.recording = rest, !.phase = phase, !.inFlight = @ \cup parks]
           next  == IF ours THEN sw ELSE engine.switch
           moves == {[kind |-> "Park", window |-> x, entry |-> n] : x \in parks}
           effects == Push(engine.effects, moves)
           t == [engine EXCEPT !.pending = @ \ {r}, !.switch = next, !.effects = effects]
<1>2. /\ engine \in EngineState /\ engine.switch \in Transaction /\ engine.pending \in SUBSET Request
      /\ engine.effects \in Seq(SUBSET Move) /\ RequestedOnce(engine)
  BY FieldTypes DEF Good, Consistent
<1>3. r.batch = b /\ r.window = v /\ engine' = AdvanceSwitch(t)
  BY <1>1
<1>4. effects \in Seq(SUBSET Move)
  <2>1. moves \in SUBSET Move
    BY DEF Move
  <2>. HIDE DEF moves
  <2> QED
    BY <1>2, <2>1, PushType
<1>5. next \in Transaction
  <2>1. phase \in Phase /\ rest \in SUBSET Token /\ parks \in SUBSET Window
    BY <1>2 DEF Transaction, Phase, ForwardPhase
  <2>. HIDE DEF phase, parks, rest
  <2> QED
    BY <1>2, <2>1 DEF Transaction
<1>. HIDE DEF next, effects
<1>6. t \in EngineState /\ t.intents = engine.intents /\ t.pending = engine.pending \ {r}
  BY <1>2, <1>4, <1>5 DEF EngineState
<1>. HIDE DEF t
<1>7. Entered(t, D)
  <2> SUFFICES ASSUME NEW p \in engine.pending, p # r
               PROVE  <<p.batch, p.window>> \in D \cup Asks(engine)
    BY <1>6 DEF Entered, Asks
  <2>1. p.window # v
    BY <1>2, <1>3 DEF RequestedOnce
  <2>2. <<p.batch, p.window>> # <<b, v>>
    BY <2>1
  <2> QED
    BY <2>2 DEF Entered
<1> QED
  BY <1>3, <1>6, <1>7, AdvanceEnters, EntersKeeps

LEMMA RefusedEnters ==
    ASSUME Good(engine), NEW b \in Nat, NEW v \in Window,
           RecoveryEntryRefused(b, v), NEW D, Entered(engine, D \cup {<<b, v>>})
    PROVE  Entered(engine', D)
<1>1. PICK r \in engine.pending :
        LET t == [engine EXCEPT !.pending = @ \ {r}] IN
        /\ r.batch = b /\ r.window = v
        /\ engine' = IF SwitchOpen(engine) /\ r.switch = engine.switch.id
                     THEN BeginSwitchCompensation(
                            [t EXCEPT !.switch.recording = @ \ {<<b, v>>}])
                     ELSE t
  BY DEF RecoveryEntryRefused
<1> DEFINE t == [engine EXCEPT !.pending = @ \ {r}]
           sw == [engine.switch EXCEPT !.recording = @ \ {<<b, v>>}]
           u == [t EXCEPT !.switch.recording = @ \ {<<b, v>>}]
<1>2. /\ engine \in EngineState /\ engine.switch \in Transaction /\ engine.pending \in SUBSET Request
      /\ RequestedOnce(engine)
  BY FieldTypes DEF Good, Consistent
<1>3. t \in EngineState /\ t.intents = engine.intents /\ t.pending = engine.pending \ {r}
  BY <1>2 DEF EngineState
<1>4. sw \in Transaction /\ u = [t EXCEPT !.switch = sw]
  BY <1>2 DEF Transaction, EngineState
<1>5. engine' = t \/ engine' = BeginSwitchCompensation(u)
  BY <1>1
<1>6. r.batch = b /\ r.window = v
  BY <1>1
<1>. HIDE DEF t, u, sw
<1>7. u \in EngineState /\ u.intents = t.intents /\ u.pending = t.pending
  BY <1>3, <1>4 DEF EngineState
<1>8. Entered(t, D) /\ Entered(u, D)
  <2> SUFFICES ASSUME NEW p \in engine.pending, p # r
               PROVE  <<p.batch, p.window>> \in D \cup Asks(engine)
    BY <1>3, <1>7 DEF Entered, Asks
  <2>1. p.window # v
    BY <1>2, <1>6 DEF RequestedOnce
  <2>2. <<p.batch, p.window>> # <<b, v>>
    BY <2>1
  <2> QED
    BY <2>2 DEF Entered
<1> QED
  BY <1>5, <1>7, <1>8, CompensationEnters, EntersKeeps

LEMMA UnknownEnters ==
    ASSUME NEW b, NEW v, UnknownToken(b, v), NEW D, Entered(engine, D \cup {<<b, v>>})
    PROVE  Entered(engine', D)
<1>1. engine' = engine /\ \A r \in engine.pending : ~(r.batch = b /\ r.window = v)
  BY DEF UnknownToken
<1>2. \A r \in engine.pending : <<r.batch, r.window>> # <<b, v>>
  BY <1>1
<1> QED
  BY <1>1, <1>2 DEF Entered

LEMMA FailedEnters ==
    ASSUME Good(engine), NEW v \in Window, WindowParkFailed(v) \/ WindowRestoreFailed(v)
    PROVE  Enters(engine, engine')
<1> DEFINE t == SwitchWindowSettled(engine, v, FALSE)
<1>1. engine \in EngineState
  BY DEF Good, Consistent
<1>2. Good(t) /\ Enters(engine, t)
  BY <1>1, SettledGood, SettledEnters
<1>3. engine' = t \/ engine' = StrandWindow(t, v)
  BY DEF WindowParkFailed, WindowRestoreFailed
<1>. HIDE DEF t
<1>4. Enters(t, StrandWindow(t, v))
  BY <1>2, AsideAdds, AddsEnter DEF Good, Consistent
<1> QED
  BY <1>2, <1>3, <1>4, EntersTransitive

(* The record of a window nobody waits for changes.                        *)
LEMMA RecordOrderly ==
    ASSUME NEW s \in EngineState, NEW t, NEW q, NEW dk, Orderly(s, q, dk),
           t.switch = s.switch, t.effects = s.effects, t.pending = s.pending,
           t.life = s.life, t.pool = s.pool,
           NEW v, v \notin s.switch.queued,
           \A w \in Window : w # v => t.parked[w] = s.parked[w]
    PROVE  Orderly(t, q, dk)
<1>1. /\ Spread(s, q) => Spread(t, q)
      /\ \A w : Idle(s, q, w) => Idle(t, q, w)
      /\ \A w, kind, events : Expects(s, q, w, kind, events) => Expects(t, q, w, kind, events)
      /\ \A w, n : Of(s, dk, w, n) => Of(t, dk, w, n)
  BY SameQueues
<1>2. Forth(t) = Forth(s)
  BY DEF Forth, Returning
<1>3. s.switch.queued \in SUBSET Window
  BY FieldTypes DEF Transaction
<1>4. Queued(t, q, dk)
  BY <1>1, <1>3 DEF Orderly, Queued
<1>5. Left(t, q, dk)
  BY <1>1, <1>2 DEF Orderly, Left
<1>6. Brought(t, q, dk)
  BY <1>1 DEF Orderly, Brought
<1>7. Flying(t, q, dk)
  BY <1>1, <1>2 DEF Orderly, Flying
<1>8. Sorted(t)
  BY DEF Orderly, Sorted
<1> QED
  BY <1>1, <1>4, <1>5, <1>6, <1>7, <1>8 DEF Orderly

(* A move that landed: the record changes, and the switch goes on.         *)
LEMMA LandedOrderly ==
    ASSUME Good(engine), SwitchOpen(engine), NEW q \in Seq(Message), q # << >>, NEW dk,
           Orderly(engine, q, dk), NEW t \in EngineState,
           Head(q).event \in Replying, Head(q).window \in Window,
           t.switch = engine.switch, t.effects = engine.effects, t.pending = engine.pending,
           t.life = engine.life, t.pool = engine.pool,
           \A w \in Window : w # Head(q).window => t.parked[w] = engine.parked[w],
           Head(q).window \in Going(engine.switch) => On(dk, Head(q).window, "Parked"),
           Head(q).window \in Coming(engine.switch) => On(dk, Head(q).window, "Screen"),
           engine' = SwitchWindowSettled(SettleStrandedWindow(t, Head(q).window), Head(q).window, TRUE),
           SwitchOpen(engine')
    PROVE  Orderly(engine', Tail(q), dk)
<1> DEFINE v == Head(q).window
           u == SettleStrandedWindow(t, v)
<1>1. engine \in EngineState /\ engine.switch.id # 0
  BY DEF Good, Consistent, Shape
<1>2. Orderly(engine, Tail(q), dk) /\ Idle(engine, Tail(q), v)
  BY OrderlyTail
<1>3. v \in Replies(q)
  BY ReplyTaken
<1>4. v \notin engine.switch.queued
  BY <1>3 DEF Orderly, Queued, Idle
<1>. HIDE DEF v
<1>5. Orderly(t, Tail(q), dk) /\ Idle(t, Tail(q), v)
  <2>1. Orderly(t, Tail(q), dk)
    BY <1>1, <1>2, <1>4, RecordOrderly DEF v
  <2>2. Idle(t, Tail(q), v)
    BY <1>2, SameQueues
  <2> QED
    BY <2>1, <2>2
<1>6. u \in EngineState /\ Aside(t, u, dk)
  <2>1. Good(t)
    BY FrameGood DEF Good, Consistent
  <2>2. Good(u)
    BY <2>1, StrandGood DEF v
  <2> QED
    BY <2>2, StrandedAside DEF Good, Consistent
<1>. HIDE DEF u
<1>7. Orderly(u, Tail(q), dk) /\ Idle(u, Tail(q), v) /\ u.switch = engine.switch
  <2>1. Orderly(u, Tail(q), dk)
    BY <1>5, <1>6, AsideOrderly
  <2>2. Idle(u, Tail(q), v)
    BY <1>5, <1>6 DEF Aside, Idle, Movers, Waiting
  <2> QED
    BY <1>6, <2>1, <2>2 DEF Aside
<1>8. engine' = SwitchWindowSettled(u, v, TRUE) /\ v \in Window
  BY DEF u, v
<1>9. /\ v \in Going(u.switch) => On(dk, v, "Parked")
      /\ v \in Coming(u.switch) => On(dk, v, "Screen")
      /\ SwitchOpen(u) /\ u.switch.id # 0
  BY <1>1, <1>7 DEF v, SwitchOpen
<1>10. SwitchOpen(SwitchWindowSettled(u, v, TRUE))
  BY <1>8
<1>11. Orderly(SwitchWindowSettled(u, v, TRUE), Tail(q), dk)
  BY <1>6, <1>7, <1>8, <1>9, <1>10, SettledOrderly
<1> QED
  BY <1>8, <1>11

(* The windows in flight that are answered for.                            *)
LEMMA AnswerFits ==
    ASSUME NEW q \in Seq(Message), q # << >>, NEW dk, Orderly(engine, q, dk)
    PROVE  LET m == Head(q) IN m.event \in Replying =>
           /\ m.window \in Going(engine.switch) => m.event \in ParkAnswers
           /\ m.window \in Coming(engine.switch) => m.event \in RestoreAnswers
<1>1. 1 \in 1..Len(q) /\ Head(q) = q[1]
  OBVIOUS
<1> QED
  BY <1>1 DEF Orderly, Flying, Expects

LEMMA ParkedOrderly ==
    ASSUME Good(engine), SwitchOpen(engine), NEW q \in Seq(Message), q # << >>, NEW dk,
           Orderly(engine, q, dk), Head(q).event = "WindowParked",
           Head(q).window \in Window, Head(q).entry \in Nat,
           WindowParked(Head(q).window, Head(q).entry), On(dk, Head(q).window, "Parked"),
           SwitchOpen(engine')
    PROVE  Orderly(engine', Tail(q), dk)
<1> DEFINE v == Head(q).window
           n == Head(q).entry
           mark == {[kind |-> "MarkParked", window |-> v, number |-> n]}
           parked == [engine.parked EXCEPT ![v] = n]
           intents == Append(engine.intents, mark)
           t == [engine EXCEPT !.parked = parked, !.intents = intents]
<1>1. /\ engine \in EngineState /\ engine.parked \in [Window -> Nat]
      /\ engine.intents \in Seq(SUBSET Intent)
  BY FieldTypes DEF Good, Consistent
<1>2. parked \in [Window -> Nat] /\ \A w \in Window : w # v => parked[w] = engine.parked[w]
  BY <1>1
<1>3. intents \in Seq(SUBSET Intent)
  <2>1. mark \in SUBSET Intent
    BY DEF Intent
  <2>. HIDE DEF mark
  <2> QED
    BY <1>1, <2>1
<1>4. engine' = SwitchWindowSettled(SettleStrandedWindow(t, v), v, TRUE)
  <2>1. t = [engine EXCEPT !.parked[v] = n, !.intents = Append(@, mark)]
    BY <1>1 DEF EngineState
  <2> QED
    BY <2>1 DEF WindowParked
<1>5. /\ t \in EngineState /\ t.parked = parked
      /\ t.life = engine.life /\ t.effects = engine.effects
      /\ t.switch = engine.switch /\ t.pending = engine.pending /\ t.pool = engine.pool
  <2>. HIDE DEF parked, intents
  <2> QED
    BY <1>1, <1>2, <1>3 DEF EngineState
<1>. HIDE DEF t, parked, intents
<1>6. v \notin Coming(engine.switch) /\ Head(q).event \in Replying
  BY AnswerFits DEF Replying, RestoreAnswers
<1> QED
  BY <1>2, <1>4, <1>5, <1>6, LandedOrderly

LEMMA RestoredOrderly ==
    ASSUME Good(engine), SwitchOpen(engine), NEW q \in Seq(Message), q # << >>, NEW dk,
           Orderly(engine, q, dk), Head(q).event = "WindowRestored",
           Head(q).window \in Window,
           WindowRestored(Head(q).window), On(dk, Head(q).window, "Screen"),
           SwitchOpen(engine')
    PROVE  Orderly(engine', Tail(q), dk)
<1> DEFINE v == Head(q).window
           marks == {[kind |-> "MarkRestored", window |-> x, number |-> engine.parked[x]]
                       : x \in {v} \cap Parked(engine)}
           parked == [engine.parked EXCEPT ![v] = 0]
           intents == Push(engine.intents, marks)
           t == [engine EXCEPT !.parked = parked, !.intents = intents]
<1>1. /\ engine \in EngineState /\ engine.parked \in [Window -> Nat]
      /\ engine.intents \in Seq(SUBSET Intent)
  BY FieldTypes DEF Good, Consistent
<1>2. parked \in [Window -> Nat] /\ \A w \in Window : w # v => parked[w] = engine.parked[w]
  BY <1>1
<1>3. intents \in Seq(SUBSET Intent)
  <2>1. marks \in SUBSET Intent
    BY <1>1 DEF Intent
  <2>. HIDE DEF marks
  <2> QED
    BY <1>1, <2>1, PushType
<1>4. engine' = SwitchWindowSettled(SettleStrandedWindow(t, v), v, TRUE)
  <2>1. t = [engine EXCEPT !.parked[v] = 0, !.intents = Push(@, marks)]
    BY <1>1 DEF EngineState
  <2> QED
    BY <2>1 DEF WindowRestored
<1>5. /\ t \in EngineState /\ t.parked = parked
      /\ t.life = engine.life /\ t.effects = engine.effects
      /\ t.switch = engine.switch /\ t.pending = engine.pending /\ t.pool = engine.pool
  <2>. HIDE DEF parked, intents
  <2> QED
    BY <1>1, <1>2, <1>3 DEF EngineState
<1>. HIDE DEF t, parked, intents
<1>6. v \notin Going(engine.switch) /\ Head(q).event \in Replying
  BY AnswerFits DEF Replying, ParkAnswers
<1> QED
  BY <1>2, <1>4, <1>5, <1>6, LandedOrderly

(* A move that did not.                                                    *)
LEMMA FailedOrderly ==
    ASSUME Good(engine), SwitchOpen(engine), NEW q \in Seq(Message), q # << >>, NEW dk,
           Orderly(engine, q, dk), Head(q).event \in Replying, Head(q).window \in Window,
           WindowParkFailed(Head(q).window) \/ WindowRestoreFailed(Head(q).window),
           SwitchOpen(engine')
    PROVE  Orderly(engine', Tail(q), dk)
<1> DEFINE v == Head(q).window
           t == SwitchWindowSettled(engine, v, FALSE)
<1>1. engine \in EngineState /\ engine.switch.id # 0
  BY DEF Good, Consistent, Shape
<1>2. Orderly(engine, Tail(q), dk) /\ Idle(engine, Tail(q), v) /\ v \in Window
  BY OrderlyTail
<1>3. Good(t)
  BY SettledGood
<1>4. engine' = t \/ engine' = StrandWindow(t, v)
  BY DEF WindowParkFailed, WindowRestoreFailed
<1>. HIDE DEF v
<1>5. SwitchOpen(t) => Orderly(t, Tail(q), dk)
  BY <1>1, <1>2, SettledOrderly
<1>. HIDE DEF t
<1>6. Aside(t, StrandWindow(t, v), dk) /\ t \in EngineState
  BY <1>3, StrandedAside DEF Good, Consistent
<1> QED
  BY <1>4, <1>5, <1>6, AsideOpen, AsideOrderly

(* A request that is answered belongs to the switch.                       *)
LEMMA RequestIsOurs ==
    ASSUME Good(engine), SwitchOpen(engine), NEW q, NEW dk, Orderly(engine, q, dk),
           NEW r \in engine.pending
    PROVE  /\ r.switch = engine.switch.id
           /\ <<r.batch, r.window>> \in engine.switch.recording
           /\ r.window \in Requested(engine.switch)
           /\ r.window \notin Movers(engine) /\ r.window \notin Replies(q)
           /\ engine.switch.phase \in {"Recording", "Parking", "CompensatingPark"}
<1>1. /\ r.switch # 0 /\ r.window \notin Movers(engine) /\ r.window \notin Replies(q)
  BY DEF Orderly, Spread
<1>2. r.switch = engine.switch.id /\ <<r.batch, r.window>> \in engine.switch.recording
  BY <1>1 DEF Good, Consistent, RequestsMatch
<1>3. <<r.batch, r.window>>[2] = r.window
  OBVIOUS
<1>4. r.window \in Requested(engine.switch)
  BY <1>2, <1>3 DEF Requested
<1>5. engine.switch.phase \in Phase /\ engine.switch.phase # "Idle"
  BY FieldTypes DEF Good, Consistent, Transaction, SwitchOpen
<1>6. engine.switch.phase \notin {"Restoring", "CompensatingRestore"}
  BY <1>2 DEF Orderly, Sorted
<1> QED
  BY <1>1, <1>2, <1>4, <1>5, <1>6 DEF Phase, ForwardPhase, CompensatingPhase

(* An entry is durable: its window may leave.                              *)
LEMMA DurableOrderly ==
    ASSUME Good(engine), SwitchOpen(engine), NEW q, NEW dk, Orderly(engine, q, dk),
           NEW b \in Nat, NEW v \in Window, NEW n \in Nat, RecoveryEntryDurable(b, v, n),
           SwitchOpen(engine')
    PROVE  Orderly(engine', q, dk)
<1>1. PICK r \in engine.pending :
        LET ours  == SwitchOpen(engine) /\ r.switch = engine.switch.id
            parks == IF v \in Managed(engine) THEN {v} ELSE {}
            rest  == engine.switch.recording \ {<<b, v>>}
            sw    == [engine.switch EXCEPT
                        !.recording = rest,
                        !.phase = IF @ = "Recording" /\ rest = {} THEN "Parking" ELSE @,
                        !.inFlight = @ \cup parks]
        IN  /\ r.batch = b /\ r.window = v
            /\ engine' = AdvanceSwitch(
                 [engine EXCEPT
                    !.pending = @ \ {r},
                    !.switch  = IF ours THEN sw ELSE @,
                    !.effects = Push(@, {[kind |-> "Park", window |-> x,
                                          entry |-> n] : x \in parks})])
  BY DEF RecoveryEntryDurable
<1> DEFINE parks == IF v \in Managed(engine) THEN {v} ELSE {}
           rest  == engine.switch.recording \ {<<b, v>>}
           phase == IF engine.switch.phase = "Recording" /\ rest = {} THEN "Parking" ELSE engine.switch.phase
           sw    == [engine.switch EXCEPT !.recording = rest, !.phase = phase, !.inFlight = @ \cup parks]
           moves == {[kind |-> "Park", window |-> x, entry |-> n] : x \in parks}
           effects == Push(engine.effects, moves)
           t == [engine EXCEPT !.pending = @ \ {r}, !.switch = sw, !.effects = effects]
<1>2. /\ engine \in EngineState /\ engine.switch \in Transaction /\ engine.pending \in SUBSET Request
      /\ engine.effects \in Seq(SUBSET Move) /\ RequestedOnce(engine)
  BY FieldTypes DEF Good, Consistent
<1>3. r.window = v /\ r.batch = b
  BY <1>1
<1>4. /\ r.switch = engine.switch.id /\ <<b, v>> \in engine.switch.recording
      /\ v \in Requested(engine.switch) /\ v \notin Movers(engine) /\ v \notin Replies(q)
      /\ engine.switch.phase \in {"Recording", "Parking", "CompensatingPark"}
  BY <1>3, RequestIsOurs
<1>5. engine' = AdvanceSwitch(t)
  BY <1>1, <1>4
<1>6. /\ moves \in SUBSET Move
      /\ \A m \in moves : m.kind = "Park" /\ m.window = v
      /\ \A m, x \in moves : m.window = x.window => m = x
  BY DEF Move
<1>7. /\ sw \in Transaction /\ sw.recording \subseteq engine.switch.recording
      /\ sw.inFlight = engine.switch.inFlight \cup parks /\ parks \subseteq {v}
      /\ sw.phase \in {"Recording", "Parking", "CompensatingPark"}
      /\ sw.phase = "CompensatingPark" <=> engine.switch.phase = "CompensatingPark"
      /\ sw.queued = engine.switch.queued /\ sw.parked = engine.switch.parked
      /\ sw.restored = engine.switch.restored /\ sw.target = engine.switch.target
      /\ sw.outgoing = engine.switch.outgoing
  <2>1. phase \in Phase /\ rest \in SUBSET Token /\ parks \in SUBSET Window
    BY <1>2 DEF Transaction, Phase, ForwardPhase
  <2>2. /\ phase \in {"Recording", "Parking", "CompensatingPark"}
        /\ phase = "CompensatingPark" <=> engine.switch.phase = "CompensatingPark"
    BY <1>4
  <2>3. rest \subseteq engine.switch.recording /\ parks \subseteq {v}
    OBVIOUS
  <2>. HIDE DEF phase, parks, rest
  <2> QED
    BY <1>2, <2>1, <2>2, <2>3 DEF Transaction
<1>. HIDE DEF moves, sw, parks
<1>8. /\ effects \in Seq(SUBSET Move) /\ Items(effects) = Items(engine.effects) \cup moves
      /\ SoleMoves(effects)
  <2>1. \A m \in Items(engine.effects) : m.window \in Movers(engine)
    BY DEF Movers
  <2>2. \A m \in moves, x \in Items(engine.effects) : m.window # x.window
    BY <1>4, <1>6, <2>1
  <2>3. SoleMoves(engine.effects)
    BY DEF Orderly, Spread
  <2> QED
    BY <1>2, <1>6, <2>2, <2>3, MovesPushed, PushType
<1>. HIDE DEF effects
<1>9. /\ t \in EngineState /\ t.switch = sw /\ t.effects = effects
      /\ t.pending = engine.pending \ {r}
      /\ t.life = engine.life /\ t.pool = engine.pool /\ t.parked = engine.parked
  BY <1>2, <1>7, <1>8 DEF EngineState
<1>. HIDE DEF t
<1>10. Movers(t) \subseteq Movers(engine) \cup {v}
  BY <1>6, <1>8, <1>9 DEF Movers
<1>11. Spread(t, q)
  <2>1. \A p \in t.pending : p \in engine.pending /\ p.window # v
    BY <1>2, <1>3, <1>9 DEF RequestedOnce
  <2> QED
    BY <1>4, <1>8, <1>9, <1>10, <2>1 DEF Orderly, Spread
<1>12. \A w : Idle(engine, q, w) => Idle(t, q, w)
  <2>1. Waiting(engine, v)
    BY <1>3 DEF Waiting
  <2>2. \A w : Waiting(t, w) => Waiting(engine, w)
    BY <1>9 DEF Waiting
  <2> QED
    BY <1>10, <2>1, <2>2 DEF Idle
<1>13. \A w, n1 : Of(engine, dk, w, n1) => Of(t, dk, w, n1)
  BY <1>9 DEF Of
<1>14. Forth(t) \subseteq Forth(engine)
  <2>1. Returning(t) = {} /\ Returning(engine) = {}
    BY <1>4, <1>7, <1>9 DEF Returning
  <2>2. "Park" # "Restore"
    OBVIOUS
  <2> QED
    BY <1>6, <1>8, <1>9, <2>1, <2>2 DEF Forth
<1>15. Queued(t, q, dk)
  BY <1>7, <1>9, <1>12, <1>13 DEF Orderly, Queued
<1>16. Left(t, q, dk)
  BY <1>4, <1>7, <1>9, <1>12, <1>13 DEF Orderly, Left
<1>17. Brought(t, q, dk)
  BY <1>7, <1>9, <1>12 DEF Orderly, Brought
<1>18. /\ Requested(sw) \subseteq Requested(engine.switch)
       /\ sw.inFlight \subseteq engine.switch.inFlight \cup {v}
       /\ Coming(sw) = {} /\ Coming(engine.switch) = {}
       /\ Going(sw) \subseteq Going(engine.switch) \cup {v}
  BY <1>4, <1>7 DEF Requested, Coming, Going
<1>19. Flying(t, q, dk)
  <2>1. ASSUME sw.phase \in {"Recording", "Parking"}, NEW w \in Requested(sw) \cup sw.inFlight
        PROVE  Of(t, dk, w, sw.outgoing)
    <3>1. engine.switch.phase \in {"Recording", "Parking"}
      BY <1>4, <1>7, <2>1
    <3>2. w \in Requested(engine.switch) \cup engine.switch.inFlight
      BY <1>4, <1>18, <2>1
    <3> QED
      BY <1>7, <1>13, <3>1, <3>2 DEF Orderly, Flying
  <2>2. ASSUME NEW w \in Going(sw)
        PROVE  Expects(t, q, w, "Park", ParkAnswers)
    <3>1. Expects(engine, q, w, "Park", ParkAnswers)
      <4>1. CASE w = v
        BY <1>4, <4>1 DEF Expects, Movers, Replies
      <4>2. CASE w # v
        BY <1>18, <2>2, <4>2 DEF Orderly, Flying
      <4> QED
        BY <4>1, <4>2
    <3> QED
      BY <1>6, <1>8, <1>9, <3>1 DEF Expects
  <2>3. \A m \in Forth(t) : Of(t, dk, m.window, sw.target)
    BY <1>7, <1>13, <1>14 DEF Orderly, Flying
  <2> QED
    BY <1>9, <1>18, <2>1, <2>2, <2>3 DEF Flying
<1>20. Sorted(t)
  <2>1. Outs(sw) \subseteq Outs(engine.switch) /\ Ins(sw) = Ins(engine.switch)
    BY <1>4, <1>7, <1>18 DEF Outs, Ins
  <2>2. sw.phase \in ForwardPhase => engine.switch.phase \in ForwardPhase
    BY <1>4, <1>7 DEF ForwardPhase
  <2>3. sw.phase \in CompensatingPhase => engine.switch.phase \in CompensatingPhase
    BY <1>7 DEF CompensatingPhase
  <2>4. sw.phase \notin {"Restoring", "CompensatingRestore"}
    BY <1>7
  <2>5. sw.phase \in {"Recording", "Parking", "CompensatingRestore"} =>
          engine.switch.phase \in {"Recording", "Parking", "CompensatingRestore"}
    BY <1>4, <1>7
  <2> QED
    BY <1>7, <1>9, <2>1, <2>2, <2>3, <2>4, <2>5 DEF Orderly, Sorted
<1>21. Orderly(t, q, dk)
  BY <1>11, <1>15, <1>16, <1>17, <1>19, <1>20 DEF Orderly
<1> QED
  BY <1>5, <1>9, <1>21, AdvanceOrderly

(* An entry is refused: the switch turns back.                             *)
LEMMA RefusedOrderly ==
    ASSUME Good(engine), SwitchOpen(engine), NEW q, NEW dk, Orderly(engine, q, dk),
           NEW b \in Nat, NEW v \in Window, RecoveryEntryRefused(b, v),
           SwitchOpen(engine')
    PROVE  Orderly(engine', q, dk)
<1>1. PICK r \in engine.pending :
        LET t == [engine EXCEPT !.pending = @ \ {r}] IN
        /\ r.batch = b /\ r.window = v
        /\ engine' = IF SwitchOpen(engine) /\ r.switch = engine.switch.id
                     THEN BeginSwitchCompensation(
                            [t EXCEPT !.switch.recording = @ \ {<<b, v>>}])
                     ELSE t
  BY DEF RecoveryEntryRefused
<1> DEFINE t == [engine EXCEPT !.pending = @ \ {r}]
           rest == engine.switch.recording \ {<<b, v>>}
           sw == [engine.switch EXCEPT !.recording = rest]
           u == [t EXCEPT !.switch = sw]
<1>2. /\ engine \in EngineState /\ engine.switch \in Transaction /\ engine.pending \in SUBSET Request
      /\ engine.switch.id # 0
  BY FieldTypes DEF Good, Consistent, Shape
<1>3. r.switch = engine.switch.id
  BY RequestIsOurs
<1>4. engine' = BeginSwitchCompensation(u)
  <2>1. u = [t EXCEPT !.switch.recording = @ \ {<<b, v>>}]
    BY <1>2 DEF EngineState
  <2> QED
    BY <1>1, <1>3, <2>1
<1>5. /\ sw \in Transaction /\ sw.recording \subseteq engine.switch.recording
      /\ sw.inFlight = engine.switch.inFlight /\ sw.phase = engine.switch.phase
      /\ sw.queued = engine.switch.queued /\ sw.parked = engine.switch.parked
      /\ sw.restored = engine.switch.restored /\ sw.target = engine.switch.target
      /\ sw.outgoing = engine.switch.outgoing /\ sw.id = engine.switch.id
  BY <1>2 DEF Transaction
<1>. HIDE DEF sw
<1>6. /\ u \in EngineState /\ u.switch = sw /\ u.effects = engine.effects
      /\ u.pending \subseteq engine.pending
      /\ u.life = engine.life /\ u.pool = engine.pool /\ u.parked = engine.parked
  BY <1>2, <1>5 DEF EngineState
<1>. HIDE DEF u, t
<1>7. /\ Spread(engine, q) => Spread(u, q)
      /\ \A w : Idle(engine, q, w) => Idle(u, q, w)
      /\ \A w, kind, events : Expects(engine, q, w, kind, events) => Expects(u, q, w, kind, events)
      /\ \A w, n : Of(engine, dk, w, n) => Of(u, dk, w, n)
  BY <1>6, SameQueues
<1>8. Forth(u) = Forth(engine)
  BY <1>5, <1>6 DEF Forth, Returning
<1>9. /\ Requested(sw) \subseteq Requested(engine.switch)
      /\ Going(sw) = Going(engine.switch) /\ Coming(sw) = Coming(engine.switch)
  BY <1>5 DEF Requested, Going, Coming
<1>10. Queued(u, q, dk)
  BY <1>5, <1>6, <1>7 DEF Orderly, Queued
<1>11. Left(u, q, dk)
  BY <1>5, <1>6, <1>7, <1>8 DEF Orderly, Left
<1>12. Brought(u, q, dk)
  BY <1>5, <1>6, <1>7 DEF Orderly, Brought
<1>13. Flying(u, q, dk)
  BY <1>5, <1>6, <1>7, <1>8, <1>9 DEF Orderly, Flying
<1>14. Sorted(u)
  <2>1. Outs(sw) \subseteq Outs(engine.switch) /\ Ins(sw) = Ins(engine.switch)
    BY <1>5, <1>9 DEF Outs, Ins
  <2> QED
    BY <1>5, <1>6, <2>1 DEF Orderly, Sorted
<1>15. Orderly(u, q, dk)
  BY <1>7, <1>10, <1>11, <1>12, <1>13, <1>14 DEF Orderly
<1>16. SwitchOpen(u) /\ u.switch.id # 0
  BY <1>2, <1>5, <1>6 DEF SwitchOpen
<1>17. CASE Compensating(u)
  <2>1. BeginSwitchCompensation(u) = u
    BY <1>17 DEF BeginSwitchCompensation
  <2> QED
    BY <1>4, <1>15, <2>1
<1>18. CASE ~Compensating(u)
  <2>1. SwitchOpen(BeginSwitchCompensation(u))
    BY <1>4
  <2> QED
    BY <1>4, <1>6, <1>15, <1>16, <1>18, <2>1, CompensationOrderly
<1> QED
  BY <1>17, <1>18

LEMMA ParkedEnters ==
    ASSUME Good(engine), NEW v \in Window, NEW n \in Nat, WindowParked(v, n)
    PROVE  Enters(engine, engine')
<1> DEFINE mark == {[kind |-> "MarkParked", window |-> v, number |-> n]}
           parked == [engine.parked EXCEPT ![v] = n]
           intents == Append(engine.intents, mark)
           t == [engine EXCEPT !.parked = parked, !.intents = intents]
           u == SettleStrandedWindow(t, v)
<1>1. /\ engine \in EngineState /\ engine.parked \in [Window -> Nat]
      /\ engine.intents \in Seq(SUBSET Intent)
  BY FieldTypes DEF Good, Consistent
<1>2. mark \in SUBSET Intent /\ parked \in [Window -> Nat]
  BY <1>1 DEF Intent
<1>3. intents \in Seq(SUBSET Intent) /\ Items(engine.intents) \subseteq Items(intents)
  <2>. HIDE DEF mark
  <2>1. Items(intents) = Items(engine.intents) \cup mark
    BY <1>1, <1>2, ItemsPushed
  <2> QED
    BY <1>1, <1>2, <2>1
<1>4. engine' = SwitchWindowSettled(u, v, TRUE)
  <2>1. t = [engine EXCEPT !.parked[v] = n, !.intents = Append(@, mark)]
    BY <1>1 DEF EngineState
  <2> QED
    BY <2>1 DEF WindowParked
<1>5. /\ t \in EngineState /\ t.intents = intents
      /\ t.switch = engine.switch /\ t.pending = engine.pending /\ t.pool = engine.pool
  <2>. HIDE DEF parked, intents
  <2> QED
    BY <1>1, <1>2, <1>3 DEF EngineState
<1>. HIDE DEF t, parked, intents
<1>6. Enters(engine, t) /\ Good(t)
  BY <1>3, <1>5, FrameGood DEF Enters, Asks, Good, Consistent
<1>7. u \in EngineState /\ Enters(t, u)
  BY <1>5, <1>6, StrandGood, AsideAdds, AddsEnter DEF Good, Consistent
<1>. HIDE DEF u
<1>8. Enters(u, SwitchWindowSettled(u, v, TRUE))
  BY <1>7, SettledEnters
<1> QED
  BY <1>4, <1>6, <1>7, <1>8, EntersTransitive

LEMMA RestoredEnters ==
    ASSUME Good(engine), NEW v \in Window, WindowRestored(v)
    PROVE  Enters(engine, engine')
<1> DEFINE marks == {[kind |-> "MarkRestored", window |-> x, number |-> engine.parked[x]]
                       : x \in {v} \cap Parked(engine)}
           parked == [engine.parked EXCEPT ![v] = 0]
           intents == Push(engine.intents, marks)
           t == [engine EXCEPT !.parked = parked, !.intents = intents]
           u == SettleStrandedWindow(t, v)
<1>1. /\ engine \in EngineState /\ engine.parked \in [Window -> Nat]
      /\ engine.intents \in Seq(SUBSET Intent)
  BY FieldTypes DEF Good, Consistent
<1>2. marks \in SUBSET Intent /\ parked \in [Window -> Nat]
  BY <1>1 DEF Intent
<1>3. intents \in Seq(SUBSET Intent) /\ Items(engine.intents) \subseteq Items(intents)
  <2>. HIDE DEF marks
  <2>1. Items(intents) = Items(engine.intents) \cup marks
    BY <1>1, <1>2, ItemsPushed
  <2>2. intents \in Seq(SUBSET Intent)
    BY <1>1, <1>2, PushType
  <2> QED
    BY <2>1, <2>2
<1>4. engine' = SwitchWindowSettled(u, v, TRUE)
  <2>1. t = [engine EXCEPT !.parked[v] = 0, !.intents = Push(@, marks)]
    BY <1>1 DEF EngineState
  <2> QED
    BY <2>1 DEF WindowRestored
<1>5. /\ t \in EngineState /\ t.intents = intents
      /\ t.switch = engine.switch /\ t.pending = engine.pending /\ t.pool = engine.pool
  <2>. HIDE DEF parked, intents
  <2> QED
    BY <1>1, <1>2, <1>3 DEF EngineState
<1>. HIDE DEF t, parked, intents
<1>6. Enters(engine, t) /\ Good(t)
  BY <1>3, <1>5, FrameGood DEF Enters, Asks, Good, Consistent
<1>7. u \in EngineState /\ Enters(t, u)
  BY <1>5, <1>6, StrandGood, AsideAdds, AddsEnter DEF Good, Consistent
<1>. HIDE DEF u
<1>8. Enters(u, SwitchWindowSettled(u, v, TRUE))
  BY <1>7, SettledEnters
<1> QED
  BY <1>4, <1>6, <1>7, <1>8, EntersTransitive

-----------------------------------------------------------------------------
(* The steps of the agent *)

(* What the worker has answered.                                           *)
Worded == {"RecoveryEntryDurable", "RecoveryEntryRefused"}
Heard(q) == {<<q[k].batch, q[k].window>> : k \in {i \in 1..Len(q) : q[i].event \in Worded}}

LEMMA HeardAppend ==
    ASSUME NEW q \in Seq(Message), NEW m \in Message
    PROVE  /\ Heard(q) \subseteq Heard(Append(q, m))
           /\ m.event \in Worded => <<m.batch, m.window>> \in Heard(Append(q, m))
<1> DEFINE r == Append(q, m)
<1>1. Len(r) = Len(q) + 1 /\ Len(q) \in Nat /\ r[Len(q) + 1] = m
  OBVIOUS
<1>2. \A k \in 1..Len(q) : r[k] = q[k] /\ k \in 1..Len(r)
  BY <1>1
<1>3. Len(q) + 1 \in 1..Len(r)
  BY <1>1
<1>. HIDE DEF r
<1> QED
  BY <1>1, <1>2, <1>3 DEF Heard, r

LEMMA HeardTail ==
    ASSUME NEW q \in Seq(Message), q # << >>
    PROVE  Heard(q) \subseteq Heard(Tail(q)) \cup
             (IF Head(q).event \in Worded THEN {<<Head(q).batch, Head(q).window>>} ELSE {})
<1> DEFINE r == Tail(q)
           m == Head(q)
<1>1. Len(q) \in Nat /\ Len(q) >= 1 /\ m = q[1] /\ Len(r) = Len(q) - 1
  OBVIOUS
<1>2. \A j \in 1..Len(q) - 1 : r[j] = q[j + 1]
  OBVIOUS
<1>3. \A k \in 1..Len(q) : k = 1 \/ (k - 1 \in 1..Len(r) /\ r[k - 1] = q[k])
  <2> SUFFICES ASSUME NEW k \in 1..Len(q), k # 1
               PROVE  k - 1 \in 1..Len(r) /\ r[k - 1] = q[k]
    OBVIOUS
  <2>1. k - 1 \in 1..Len(q) - 1 /\ (k - 1) + 1 = k
    BY <1>1
  <2> QED
    BY <1>1, <1>2, <2>1
<1>. HIDE DEF r, m
<1> SUFFICES ASSUME NEW k \in 1..Len(q), q[k].event \in Worded
             PROVE  \/ <<q[k].batch, q[k].window>> \in Heard(r)
                    \/ m.event \in Worded /\ q[k] = m
  BY DEF Heard, r, m
<1> QED
  BY <1>1, <1>3 DEF Heard

LEMMA EnteredMore ==
    ASSUME NEW s, NEW D, NEW E, D \subseteq E, Entered(s, D)
    PROVE  Entered(s, E)
BY DEF Entered

(* While a switch is open it is orderly; a new process has none, and what  *)
(* is requested was asked for.                                             *)
Waited ==
    /\ agent.stage = "Up" /\ SwitchOpen(engine) => Orderly(engine, inbox, desktop)
    /\ agent.stage = "Recovering" => ~SwitchOpen(engine)
    /\ agent.stage \in {"Recovering", "Up"} => Entered(engine, Heard(inbox))

(* The only answer on its way for a window tells where the window is.      *)
LEMMA AnswerPlaces ==
    ASSUME Inductive, Ledgered, agent.stage = "Up", Spread(engine, inbox), inbox # << >>,
           Head(inbox).event \in {"WindowParked", "WindowRestored"}
    PROVE  On(desktop, Head(inbox).window,
              IF Head(inbox).event = "WindowParked" THEN "Parked" ELSE "Screen")
<1> DEFINE v == Head(inbox).window
<1>1. /\ inbox \in Seq(Message) /\ desktop \in Desktop /\ 1 \in 1..Len(inbox)
      /\ inbox[1] = Head(inbox)
  BY DEF Inductive, OutsideTyped
<1>2. v \in Window /\ Head(inbox).entry \in Nat
  <2>1. inbox[1] \in Message
    BY <1>1
  <2> QED
    BY <1>1, <2>1 DEF Message
<1>3. Answers(inbox, v) = {1}
  <2>1. \A i \in Answers(inbox, v) : i = 1
    BY <1>1 DEF Answers, Answer, Spread, SoleReplies, Replying
  <2>2. 1 \in Answers(inbox, v)
    BY <1>1 DEF Answers, Answer
  <2> QED
    BY <2>1, <2>2
<1>4. /\ Told(engine, inbox, v) <=> Head(inbox).event = "WindowParked"
      /\ ~Untouched(engine, inbox, v)
  BY <1>1, <1>3 DEF Told, Untouched
<1>5. FlowOf(v)
  BY <1>2 DEF Ledgered
<1>6. Books(engine, inbox, v, desktop.life[v], desktop.place[v], agent.session)
  BY <1>5 DEF FlowOf, Flow
<1>7. desktop.place[v] \in {"Screen", "Parked"}
  BY <1>1, <1>2 DEF Desktop
<1>8. CASE desktop.life[v] = "Unopened"
  <2>1. desktop.place[v] = "Screen"
    BY <1>2, <1>8 DEF Ledgered
  <2>2. Head(inbox).event # "WindowParked"
    <3> SUFFICES ASSUME Head(inbox).event = "WindowParked"
                 PROVE  FALSE
      OBVIOUS
    <3>1. engine.life[v] = "Gone" /\ ~Held(engine, inbox, v)
      BY <1>5, <1>8 DEF FlowOf, Flow, Seen
    <3>2. At(engine, inbox, 2, 1, v, Head(inbox).entry)
      BY <1>1 DEF At, Tells
    <3>3. 2 \in 1..3 /\ 1 \in Nat
      OBVIOUS
    <3> QED
      BY <1>2, <3>1, <3>2, <3>3 DEF Held
  <2> QED
    BY <2>1, <2>2 DEF On
<1>9. CASE desktop.life[v] # "Unopened"
  BY <1>4, <1>6, <1>7, <1>9 DEF Books, On
<1> QED
  BY <1>8, <1>9

(* A report on its way finds every window the reducer knows and that has   *)
(* not closed.                                                             *)
LEMMA ReportFinds ==
    ASSUME Inductive, Ledgered, agent.stage = "Up", inbox # << >>, Reports(Head(inbox))
    PROVE  \A w \in Managed(engine) : desktop.life[w] = "Closed" \/ Head(inbox).life[w] # "Gone"
<1>1. inbox \in Seq(Message) /\ 1 \in 1..Len(inbox) /\ inbox[1] = Head(inbox)
  BY DEF Inductive, OutsideTyped
<1> SUFFICES ASSUME NEW w \in Managed(engine), desktop.life[w] # "Closed"
             PROVE  Head(inbox).life[w] # "Gone"
  OBVIOUS
<1>2. FlowOf(w) /\ engine.life[w] # "Gone"
  BY DEF Ledgered, Managed
<1>3. Seen(engine, inbox, w, desktop.life[w])
  BY <1>2 DEF FlowOf, Flow
<1> QED
  BY <1>1, <1>2, <1>3 DEF Seen

(* The reducer deals with what the channel brings: what is requested,      *)
LEMMA ReceiptsEnter ==
    ASSUME Good(engine), inbox \in Seq(Message), Receipts, Entered(engine, Heard(inbox))
    PROVE  Entered(engine', Heard(inbox'))
<1>1. PICK event : Receive(event)
  BY DEF Receipts, ReceiveObservation, ReceiveDurable, ReceiveRefused, ReceiveParked,
         ReceiveParkFailed, ReceiveRestored, ReceiveRestoreFailed, ReceiveCapability,
         ReceiveTopology, ReceiveWake
<1> DEFINE m == Head(inbox)
           D == Heard(inbox')
<1>2. inbox # << >> /\ inbox' = Tail(inbox)
  BY <1>1 DEF Receive
<1>3. m \in Message
  BY <1>2
<1>4. /\ m.event \in Worded => Entered(engine, D \cup {<<m.batch, m.window>>})
      /\ m.event \notin Worded => Entered(engine, D)
  <2>1. Heard(inbox) \subseteq D \cup
          (IF m.event \in Worded THEN {<<m.batch, m.window>>} ELSE {})
    BY <1>2, HeardTail
  <2>. HIDE DEF m, D
  <2> QED
    BY <2>1, EnteredMore
<1> SUFFICES Entered(engine', D)
  OBVIOUS
<1>. HIDE DEF m, D
<1>5. ASSUME Enters(engine, engine'), m.event \notin Worded
      PROVE  Entered(engine', D)
  BY <1>4, <1>5, EntersKeeps
<1>6. CASE ReceiveObservation
  <2>1. m.event = "WindowsObserved" /\ engine' = ReplaceInventory(engine, m.life, m.seat)
    BY <1>6 DEF ReceiveObservation, Receive, WindowsObserved, m
  <2>2. /\ m.life \in [Window -> Lifecycle] /\ m.seat \in [Window -> Display]
        /\ m.event \notin Worded
    BY <1>3, <2>1 DEF Message, Worded
  <2> QED
    BY <1>5, <2>1, <2>2, InventoryEnters
<1>7. CASE ReceiveDurable
  <2>1. /\ m.event = "RecoveryEntryDurable"
        /\ RecoveryEntryDurable(m.batch, m.window, m.entry) \/ UnknownToken(m.batch, m.window)
    BY <1>7 DEF ReceiveDurable, Receive, m
  <2>2. m.batch \in Nat /\ m.window \in Window /\ m.entry \in Nat /\ m.event \in Worded
    BY <1>3, <2>1 DEF Message, Worded
  <2> QED
    BY <1>4, <2>1, <2>2, DurableEnters, UnknownEnters
<1>8. CASE ReceiveRefused
  <2>1. /\ m.event = "RecoveryEntryRefused"
        /\ RecoveryEntryRefused(m.batch, m.window) \/ UnknownToken(m.batch, m.window)
    BY <1>8 DEF ReceiveRefused, Receive, m
  <2>2. m.batch \in Nat /\ m.window \in Window /\ m.event \in Worded
    BY <1>3, <2>1 DEF Message, Worded
  <2> QED
    BY <1>4, <2>1, <2>2, RefusedEnters, UnknownEnters
<1>9. CASE ReceiveParked \/ ReceiveParkFailed \/ ReceiveRestored \/ ReceiveRestoreFailed
  <2>1. /\ m.event \in Replying
        /\ \/ WindowParked(m.window, m.entry) \/ WindowParkFailed(m.window)
           \/ WindowRestored(m.window) \/ WindowRestoreFailed(m.window)
    BY <1>9 DEF ReceiveParked, ReceiveParkFailed, ReceiveRestored, ReceiveRestoreFailed,
                Receive, Replying, m
  <2>2. m.window \in Window /\ m.entry \in Nat /\ m.event \notin Worded
    BY <1>3, <2>1 DEF Message, Replying, Worded
  <2> QED
    BY <1>5, <2>1, <2>2, ParkedEnters, RestoredEnters, FailedEnters
<1>10. CASE ReceiveCapability
  <2>1. m.event = "ParkingCapabilityReported" /\ ParkingCapabilityReported(m.site)
    BY <1>10 DEF ReceiveCapability, Receive, m
  <2>2. /\ m.site \in Capability /\ "Healthy" \in Health /\ m.event \notin Worded
    BY <1>3, <2>1 DEF Message, Health, Worded
  <2> QED
    BY <1>5, <2>1, <2>2, FlagAdds, AddsEnter
<1>11. CASE ReceiveTopology
  <2>1. /\ m.event = "Plug"
        /\ DisplayTopologyChanged(m.displays, m.nearest) \/ UNCHANGED engine
    BY <1>11 DEF ReceiveTopology, Receive, m
  <2>2. m.displays \in SUBSET Display /\ m.nearest \in Display /\ m.event \notin Worded
    BY <1>3, <2>1 DEF Message, Worded
  <2>3. CASE UNCHANGED engine
    BY <1>4, <2>2, <2>3
  <2>4. CASE DisplayTopologyChanged(m.displays, m.nearest)
    BY <1>5, <2>2, <2>4, TopologyAdds, AddsEnter
  <2> QED
    BY <2>1, <2>3, <2>4
<1>12. CASE ReceiveWake
  <2>1. /\ m.event = "Wake"
        /\ WakeReconciliation(m.displays, m.nearest, m.enumerated, m.life, m.seat)
    BY <1>12 DEF ReceiveWake, Receive, m
  <2>2. /\ m.displays \in SUBSET Display /\ m.nearest \in Display /\ m.enumerated \in BOOLEAN
        /\ m.life \in [Window -> Lifecycle] /\ m.seat \in [Window -> Display]
        /\ m.event \notin Worded
    BY <1>3, <2>1 DEF Message, Worded
  <2> QED
    BY <1>5, <2>1, <2>2, WakeEnters
<1> QED
  BY <1>6, <1>7, <1>8, <1>9, <1>10, <1>11, <1>12 DEF Receipts

(* and the switch that stays open.                                         *)
LEMMA ReceiptsOrderly ==
    ASSUME Inductive, Ledgered, agent.stage = "Up", Receipts,
           SwitchOpen(engine), Orderly(engine, inbox, desktop), SwitchOpen(engine')
    PROVE  Orderly(engine', inbox', desktop)
<1>1. PICK event : Receive(event)
  BY DEF Receipts, ReceiveObservation, ReceiveDurable, ReceiveRefused, ReceiveParked,
         ReceiveParkFailed, ReceiveRestored, ReceiveRestoreFailed, ReceiveCapability,
         ReceiveTopology, ReceiveWake
<1> DEFINE m == Head(inbox)
           q == Tail(inbox)
<1>2. /\ inbox # << >> /\ inbox' = q /\ inbox \in Seq(Message) /\ Good(engine)
      /\ engine \in EngineState
  BY <1>1 DEF Receive, Inductive, OutsideTyped, Good, Consistent
<1>3. m \in Message
  BY <1>2
<1>4. Orderly(engine, q, desktop)
  BY <1>2, OrderlyTail
<1>5. /\ m.event \in {"WindowParked", "WindowRestored"} =>
           On(desktop, m.window, IF m.event = "WindowParked" THEN "Parked" ELSE "Screen")
      /\ Reports(m) => \A w \in Managed(engine) : desktop.life[w] = "Closed" \/ m.life[w] # "Gone"
  BY <1>2, AnswerPlaces, ReportFinds DEF Orderly
<1> SUFFICES Orderly(engine', q, desktop)
  BY <1>2
<1>6. CASE ReceiveParked
  <2>1. m.event = "WindowParked" /\ WindowParked(m.window, m.entry)
    BY <1>6 DEF ReceiveParked, Receive
  <2>2. m.window \in Window /\ m.entry \in Nat
    BY <1>3, <2>1 DEF Message
  <2>3. On(desktop, m.window, "Parked")
    BY <1>5, <2>1
  <2> QED
    BY <1>2, <2>1, <2>2, <2>3, ParkedOrderly
<1>7. CASE ReceiveRestored
  <2>1. m.event = "WindowRestored" /\ WindowRestored(m.window)
    BY <1>7 DEF ReceiveRestored, Receive
  <2>2. m.window \in Window
    BY <1>3, <2>1 DEF Message
  <2>3. On(desktop, m.window, "Screen")
    BY <1>5, <2>1
  <2> QED
    BY <1>2, <2>1, <2>2, <2>3, RestoredOrderly
<1>8. CASE ReceiveParkFailed \/ ReceiveRestoreFailed
  <2>1. /\ m.event \in {"WindowParkFailed", "WindowRestoreFailed"}
        /\ WindowParkFailed(m.window) \/ WindowRestoreFailed(m.window)
    BY <1>8 DEF ReceiveParkFailed, ReceiveRestoreFailed, Receive
  <2>2. m.window \in Window /\ m.event \in Replying
    BY <1>3, <2>1 DEF Message, Replying
  <2> QED
    BY <1>2, <2>1, <2>2, FailedOrderly
<1>. HIDE DEF m, q
<1>9. ASSUME Aside(engine, engine', desktop)
      PROVE  Orderly(engine', q, desktop)
  BY <1>2, <1>4, <1>9, AsideOrderly
<1>10. CASE ReceiveObservation
  <2>1. m.event = "WindowsObserved" /\ engine' = ReplaceInventory(engine, m.life, m.seat)
    BY <1>10 DEF ReceiveObservation, Receive, WindowsObserved, m
  <2>2. m.life \in [Window -> Lifecycle] /\ m.seat \in [Window -> Display] /\ Reports(m)
    BY <1>3, <2>1 DEF Message, Reports
  <2>3. Aside(engine, ReplaceInventory(engine, m.life, m.seat), desktop)
    BY <1>2, <1>5, <2>2, InventoryAside
  <2> QED
    BY <1>9, <2>1, <2>3
<1>11. CASE ReceiveDurable
  <2>1. /\ m.event = "RecoveryEntryDurable"
        /\ RecoveryEntryDurable(m.batch, m.window, m.entry) \/ UnknownToken(m.batch, m.window)
    BY <1>11 DEF ReceiveDurable, Receive, m
  <2>2. m.batch \in Nat /\ m.window \in Window /\ m.entry \in Nat
    BY <1>3, <2>1 DEF Message
  <2>3. CASE RecoveryEntryDurable(m.batch, m.window, m.entry)
    BY <1>2, <1>4, <2>2, <2>3, DurableOrderly
  <2>4. CASE UnknownToken(m.batch, m.window)
    <3>1. engine' = engine
      BY <2>4 DEF UnknownToken
    <3> QED
      BY <1>4, <3>1
  <2> QED
    BY <2>1, <2>3, <2>4
<1>12. CASE ReceiveRefused
  <2>1. /\ m.event = "RecoveryEntryRefused"
        /\ RecoveryEntryRefused(m.batch, m.window) \/ UnknownToken(m.batch, m.window)
    BY <1>12 DEF ReceiveRefused, Receive, m
  <2>2. m.batch \in Nat /\ m.window \in Window
    BY <1>3, <2>1 DEF Message
  <2>3. CASE RecoveryEntryRefused(m.batch, m.window)
    BY <1>2, <1>4, <2>2, <2>3, RefusedOrderly
  <2>4. CASE UnknownToken(m.batch, m.window)
    <3>1. engine' = engine
      BY <2>4 DEF UnknownToken
    <3> QED
      BY <1>4, <3>1
  <2> QED
    BY <2>1, <2>3, <2>4
<1>13. CASE ReceiveCapability
  <2>1. m.event = "ParkingCapabilityReported" /\ ParkingCapabilityReported(m.site)
    BY <1>13 DEF ReceiveCapability, Receive, m
  <2>2. m.site \in Capability /\ "Healthy" \in Health
    BY <1>3, <2>1 DEF Message, Health
  <2> QED
    BY <1>2, <1>9, <2>1, <2>2, FlagAside
<1>14. CASE ReceiveTopology
  <2>1. /\ m.event = "Plug"
        /\ DisplayTopologyChanged(m.displays, m.nearest) \/ UNCHANGED engine
    BY <1>14 DEF ReceiveTopology, Receive, m
  <2>2. m.displays \in SUBSET Display /\ m.nearest \in Display
    BY <1>3, <2>1 DEF Message
  <2>3. CASE UNCHANGED engine
    BY <1>4, <2>3
  <2>4. CASE DisplayTopologyChanged(m.displays, m.nearest)
    BY <1>2, <1>9, <2>2, <2>4, TopologyAside
  <2> QED
    BY <2>1, <2>3, <2>4
<1>15. CASE ReceiveWake
  <2>1. /\ m.event = "Wake"
        /\ WakeReconciliation(m.displays, m.nearest, m.enumerated, m.life, m.seat)
    BY <1>15 DEF ReceiveWake, Receive, m
  <2>2. /\ m.displays \in SUBSET Display /\ m.nearest \in Display /\ m.enumerated \in BOOLEAN
        /\ m.life \in [Window -> Lifecycle] /\ m.seat \in [Window -> Display] /\ Reports(m)
    BY <1>3, <2>1 DEF Message, Reports
  <2>3. Aside(engine, engine', desktop)
    BY <1>2, <1>5, <2>1, <2>2, WakeAside
  <2> QED
    BY <1>9, <2>3
<1> QED
  BY <1>6, <1>7, <1>8, <1>10, <1>11, <1>12, <1>13, <1>14, <1>15 DEF Receipts

LEMMA NamedWindows ==
    ASSUME NEW s \in EngineState
    PROVE  /\ s.switch.queued \in SUBSET Window /\ s.switch.parked \in SUBSET Window
           /\ s.switch.restored \in SUBSET Window /\ s.switch.inFlight \in SUBSET Window
           /\ Requested(s.switch) \in SUBSET Window
           /\ \A m \in Items(s.effects) : m \in Move /\ m.window \in Window
<1>1. s.switch \in Transaction /\ s.effects \in Seq(SUBSET Move)
  BY FieldTypes
<1>2. \A m \in Items(s.effects) : m \in Move /\ m.window \in Window
  BY <1>1 DEF Items, Move
<1> QED
  BY <1>1, <1>2 DEF Transaction, Requested, Token

(* A window closes, or a display comes or goes.                            *)
LEMMA ClosingOrderly ==
    ASSUME NEW s \in EngineState, NEW q, NEW dk, NEW dd, Orderly(s, q, dk),
           \A w \in Window : /\ dk.life[w] = "Closed" => dd.life[w] = "Closed"
                             /\ dd.place[w] = dk.place[w]
    PROVE  Orderly(s, q, dd)
<1>1. \A n : \A w \in Window : Of(s, dk, w, n) => Of(s, dd, w, n)
  BY DEF Of
<1>2. \A p : \A w \in Window : On(dk, w, p) => On(dd, w, p)
  BY DEF On
<1>3. /\ s.switch.queued \in SUBSET Window /\ s.switch.parked \in SUBSET Window
      /\ s.switch.restored \in SUBSET Window /\ s.switch.inFlight \in SUBSET Window
      /\ Requested(s.switch) \in SUBSET Window
      /\ \A m \in Forth(s) : m.window \in Window
  BY NamedWindows DEF Forth
<1>4. Queued(s, q, dd)
  BY <1>1, <1>3 DEF Orderly, Queued
<1>5. Left(s, q, dd)
  BY <1>1, <1>2, <1>3 DEF Orderly, Left
<1>6. Brought(s, q, dd)
  BY <1>2, <1>3 DEF Orderly, Brought
<1>7. Flying(s, q, dd)
  BY <1>1, <1>3 DEF Orderly, Flying
<1> QED
  BY <1>4, <1>5, <1>6, <1>7 DEF Orderly

(* The executor's answer takes the place of its move.                      *)
LEMMA ExecuteOrderly ==
    ASSUME NEW s \in EngineState, NEW t, NEW q \in Seq(Message), NEW a \in Message,
           NEW dk, NEW dd, Orderly(s, q, dk),
           s.effects # << >>, NEW m \in Head(s.effects),
           t.effects = NextBatch(s.effects, m), t.switch = s.switch, t.pending = s.pending,
           t.parked = s.parked, t.life = s.life, t.pool = s.pool,
           a.window = m.window, a.event \in Replying,
           m.kind = "Park" => a.event \in ParkAnswers,
           m.kind = "Restore" => a.event \in RestoreAnswers,
           \A w \in Window : /\ dd.life[w] = dk.life[w]
                             /\ w # m.window => dd.place[w] = dk.place[w],
           m.kind = "Park" => dd.place[m.window] \in {dk.place[m.window], "Parked"}
    PROVE  Orderly(t, Append(q, a), dd)
<1> DEFINE r == Append(q, a)
           F == NextBatch(s.effects, m)
           v == m.window
<1>1. /\ s.effects \in Seq(SUBSET Move)
      /\ s.switch.queued \in SUBSET Window /\ s.switch.parked \in SUBSET Window
      /\ s.switch.restored \in SUBSET Window /\ s.switch.inFlight \in SUBSET Window
      /\ Requested(s.switch) \in SUBSET Window
      /\ \A x \in Items(s.effects) : x \in Move /\ x.window \in Window
  BY FieldTypes, NamedWindows
<1>2. /\ m \in Items(s.effects) /\ Items(F) \subseteq Items(s.effects)
      /\ SoleMoves(F) /\ \A x \in Items(F) : x.window # v
      /\ \A W : Ranked(s.effects, W) =>
           /\ Ranked(F, W)
           /\ m.kind = "Restore" /\ v \in W => \A x \in Items(F) : x.kind = "Restore" => x.window \in W
  <2>1. SoleMoves(s.effects)
    BY DEF Orderly, Spread
  <2> QED
    BY <1>1, <2>1, MoveTaken
<1>. HIDE DEF F
<1>3. /\ v \in Movers(s) /\ v \notin Replies(q) /\ v \in Window
      /\ Movers(t) \subseteq Movers(s) /\ v \notin Movers(t)
      /\ m.kind \in {"Park", "Restore"}
  <2>1. v \in Movers(s)
    BY <1>2 DEF Movers
  <2>2. v \notin Replies(q)
    BY <2>1 DEF Orderly, Spread
  <2>3. Movers(t) \subseteq Movers(s) /\ v \notin Movers(t)
    BY <1>2 DEF Movers, F
  <2>4. v \in Window /\ m.kind \in {"Park", "Restore"}
    BY <1>1, <1>2 DEF Move
  <2> QED
    BY <2>1, <2>2, <2>3, <2>4
<1>4. /\ \A i \in 1..Len(r) : \/ i \in 1..Len(q) /\ r[i] = q[i]
                              \/ r[i] = a
      /\ \A w \in Replies(r) : w \in Replies(q) \/ w = v
      /\ SoleReplies(r)
  BY <1>3, ReplyAppended DEF Orderly, Spread
<1>. HIDE DEF r
<1>5. Spread(t, r)
  <2>1. t.effects = F
    BY DEF F
  <2> QED
    BY <1>2, <1>3, <1>4, <2>1 DEF Orderly, Spread
<1>6. \A w : Idle(s, q, w) => w # v /\ Idle(t, r, w)
  BY <1>3, <1>4 DEF Idle, Waiting
<1>7. \A n : \A w \in Window : Of(s, dk, w, n) => Of(t, dd, w, n)
  BY DEF Of
<1>8. \A p : \A w \in Window : w # v /\ On(dk, w, p) => On(dd, w, p)
  BY DEF On
<1>9. Forth(t) \subseteq Forth(s) /\ Returning(t) = Returning(s)
  BY <1>2 DEF Forth, Returning, F
<1>10. \A w : /\ Expects(s, q, w, "Park", ParkAnswers) => Expects(t, r, w, "Park", ParkAnswers)
              /\ Expects(s, q, w, "Restore", RestoreAnswers) =>
                   Expects(t, r, w, "Restore", RestoreAnswers)
  <2>1. "Park" # "Restore"
    OBVIOUS
  <2>2. Items(t.effects) \subseteq Items(s.effects)
    BY <1>2 DEF F
  <2>3. ASSUME NEW w, Expects(s, q, w, "Park", ParkAnswers)
        PROVE  Expects(t, r, w, "Park", ParkAnswers)
    <3>1. v = w => a.event \in ParkAnswers
      BY <1>2, <2>3 DEF Expects
    <3> QED
      BY <1>4, <2>2, <2>3, <3>1 DEF Expects
  <2>4. ASSUME NEW w, Expects(s, q, w, "Restore", RestoreAnswers)
        PROVE  Expects(t, r, w, "Restore", RestoreAnswers)
    <3>1. v = w => a.event \in RestoreAnswers
      BY <1>2, <2>4 DEF Expects
    <3> QED
      BY <1>4, <2>2, <2>4, <3>1 DEF Expects
  <2> QED
    BY <2>3, <2>4
<1>11. Queued(t, r, dd)
  BY <1>1, <1>6, <1>7 DEF Orderly, Queued
<1>12. Left(t, r, dd)
  <2> SUFFICES ASSUME NEW w \in s.switch.parked
               PROVE  /\ s.switch.phase # "CompensatingRestore" => Idle(t, r, w)
                      /\ Of(t, dd, w, s.switch.outgoing)
                      /\ On(dd, w, "Parked") \/ (s.switch.phase = "CompensatingRestore" /\ Forth(t) = {})
    BY DEF Left
  <2>1. /\ s.switch.phase # "CompensatingRestore" => Idle(s, q, w)
        /\ Of(s, dk, w, s.switch.outgoing)
        /\ On(dk, w, "Parked") \/ (s.switch.phase = "CompensatingRestore" /\ Forth(s) = {})
    BY DEF Orderly, Left
  <2>2. On(dd, w, "Parked") \/ (s.switch.phase = "CompensatingRestore" /\ Forth(t) = {})
    <3>1. CASE w # v
      BY <1>1, <1>8, <1>9, <2>1, <3>1
    <3>2. CASE w = v
      <4>1. s.switch.phase = "CompensatingRestore"
        BY <1>6, <2>1, <3>2
      <4>2. CASE m.kind = "Park"
        <5>1. On(dk, w, "Parked") => On(dd, w, "Parked")
          BY <1>3, <3>2, <4>2 DEF On
        <5> QED
          BY <1>9, <2>1, <4>1, <5>1
      <4>3. CASE m.kind = "Restore"
        <5>1. Ranked(s.effects, s.switch.inFlight) /\ v \in s.switch.inFlight
          BY <3>2, <4>1 DEF Orderly, Sorted
        <5>2. \A x \in Items(F) : x.kind = "Restore" => x.window \in s.switch.inFlight
          BY <1>2, <4>3, <5>1
        <5>3. Forth(t) = {}
          BY <4>1, <5>2 DEF Forth, Returning, F
        <5> QED
          BY <4>1, <5>3
      <4> QED
        BY <1>3, <4>2, <4>3
    <3> QED
      BY <3>1, <3>2
  <2> QED
    BY <1>1, <1>6, <1>7, <2>1, <2>2
<1>13. Brought(t, r, dd)
  BY <1>1, <1>6, <1>8 DEF Orderly, Brought
<1>14. Flying(t, r, dd)
  <2>1. \A x \in Forth(s) : x.window \in Window
    BY <1>1 DEF Forth
  <2>2. s.switch.phase \in {"Recording", "Parking"} =>
          \A w \in Requested(s.switch) \cup s.switch.inFlight : Of(t, dd, w, s.switch.outgoing)
    BY <1>1, <1>7 DEF Orderly, Flying
  <2>3. \A w \in Going(s.switch) : Expects(t, r, w, "Park", ParkAnswers)
    BY <1>10 DEF Orderly, Flying
  <2>4. \A w \in Coming(s.switch) : Expects(t, r, w, "Restore", RestoreAnswers)
    BY <1>10 DEF Orderly, Flying
  <2>5. \A x \in Forth(t) : Of(t, dd, x.window, s.switch.target)
    BY <1>7, <1>9, <2>1 DEF Orderly, Flying
  <2> QED
    BY <2>2, <2>3, <2>4, <2>5 DEF Flying
<1>15. Sorted(t)
  BY <1>2 DEF Orderly, Sorted, F
<1> QED
  BY <1>5, <1>11, <1>12, <1>13, <1>14, <1>15 DEF Orderly, r

(* The reducer takes what the channel brings.                              *)
LEMMA ReceiptsWaited ==
    ASSUME Inductive, Ledgered, Waited, Receipts
    PROVE  Waited'
<1>1. PICK event : Receive(event)
  BY DEF Receipts, ReceiveObservation, ReceiveDurable, ReceiveRefused, ReceiveParked,
         ReceiveParkFailed, ReceiveRestored, ReceiveRestoreFailed, ReceiveCapability,
         ReceiveTopology, ReceiveWake
<1>2. /\ agent' = agent /\ desktop' = desktop /\ inbox' = Tail(inbox) /\ inbox # << >> /\ inbox \in Seq(Message)
      /\ Good(engine) /\ PipelineNext
  BY <1>1 DEF Receive, Inductive, OutsideTyped, PipelineNext
<1>3. agent.stage # "Recovering"
  BY <1>2 DEF Ledgered
<1>4. ASSUME agent.stage = "Up"
      PROVE  /\ Entered(engine', Heard(inbox'))
             /\ SwitchOpen(engine') => Orderly(engine', inbox', desktop')
  <2>1. ~UserFocuses
    <3> SUFFICES ASSUME UserFocuses
                 PROVE  FALSE
      OBVIOUS
    <3>1. inbox' = inbox
      BY DEF UserFocuses, Arrives
    <3>2. Len(inbox) \in Nat /\ Len(inbox') = Len(inbox) - 1
      BY <1>2
    <3> QED
      BY <3>1, <3>2
  <2>2. SwitchOpen(engine') => SwitchOpen(engine)
    BY <1>2, <2>1, OnlyFocusOpens
  <2>3. Entered(engine', Heard(inbox'))
    BY <1>2, <1>4, ReceiptsEnter DEF Waited
  <2>4. ASSUME SwitchOpen(engine')
        PROVE  Orderly(engine', inbox', desktop')
    <3>1. SwitchOpen(engine) /\ Orderly(engine, inbox, desktop)
      BY <1>4, <2>2, <2>4 DEF Waited
    <3> QED
      BY <1>2, <1>4, <2>4, <3>1, ReceiptsOrderly
  <2> QED
    BY <2>3, <2>4
<1> QED
  BY <1>2, <1>3, <1>4 DEF Waited

(* The executor answers for a move.                                        *)
LEMMA ExecuteWaited ==
    ASSUME Inductive, Ledgered, Waited, ExecutePark \/ ExecuteRestore
    PROVE  Waited'
<1>1. PICK m, event :
        /\ Execute(m, event) /\ event \in Replying
        /\ m.kind = "Park" => event \in ParkAnswers
        /\ m.kind = "Restore" => event \in RestoreAnswers
        /\ \/ desktop' = desktop
           \/ /\ m.kind = "Park" /\ desktop' = [desktop EXCEPT !.place[m.window] = "Parked"]
           \/ /\ m.kind = "Restore" /\ desktop' = [desktop EXCEPT !.place[m.window] = "Screen"]
  BY DEF ExecutePark, ExecuteRestore, Lands, Fails, Replying, ParkAnswers, RestoreAnswers, Effects
<1>2. /\ engine \in EngineState /\ engine.effects \in Seq(SUBSET Move) /\ inbox \in Seq(Message)
      /\ desktop \in Desktop
  BY FieldTypes DEF Inductive, OutsideTyped, Good, Consistent
<1>3. PICK answer \in Message :
        /\ answer.event = event /\ answer.window = m.window /\ inbox' = Append(inbox, answer)
        /\ m \in Move /\ engine.effects # << >> /\ m \in Head(engine.effects)
        /\ agent'.stage = agent.stage /\ agent.stage \in {"Up", "Stopping"}
  BY <1>1, ExecuteTakes DEF Replying
<1> DEFINE left == NextBatch(engine.effects, m)
<1>4. engine' = [engine EXCEPT !.effects = left]
  BY <1>1 DEF Execute
<1>. HIDE DEF left
<1>5. /\ engine'.switch = engine.switch /\ engine'.pending = engine.pending
      /\ engine'.intents = engine.intents /\ engine'.life = engine.life /\ engine'.effects = left
      /\ engine'.parked = engine.parked /\ engine'.pool = engine.pool
  BY <1>2, <1>4 DEF EngineState
<1>6. m.window \in Window
  BY <1>3 DEF Move
<1>7. /\ \A w \in Window : /\ desktop'.life[w] = desktop.life[w]
                           /\ w # m.window => desktop'.place[w] = desktop.place[w]
      /\ m.kind = "Park" => desktop'.place[m.window] \in {desktop.place[m.window], "Parked"}
  <2>1. CASE desktop' = desktop
    BY <2>1
  <2>2. CASE m.kind = "Park" /\ desktop' = [desktop EXCEPT !.place[m.window] = "Parked"]
    BY <1>2, <1>6, <2>2 DEF Desktop
  <2>3. CASE m.kind = "Restore" /\ desktop' = [desktop EXCEPT !.place[m.window] = "Screen"]
    BY <1>2, <1>6, <2>3 DEF Desktop
  <2> QED
    BY <1>1, <2>1, <2>2, <2>3
<1>8. Entered(engine, Heard(inbox)) => Entered(engine', Heard(inbox'))
  <2>1. Heard(inbox) \subseteq Heard(inbox')
    BY <1>2, <1>3, HeardAppend
  <2> QED
    BY <1>5, <2>1 DEF Entered, Asks
<1>9. ASSUME Orderly(engine, inbox, desktop)
      PROVE  Orderly(engine', inbox', desktop')
  <2>1. /\ engine'.effects = NextBatch(engine.effects, m)
        /\ answer.event \in Replying /\ answer.window = m.window
        /\ m.kind = "Park" => answer.event \in ParkAnswers
        /\ m.kind = "Restore" => answer.event \in RestoreAnswers
        /\ engine.effects # << >> /\ m \in Head(engine.effects)
    BY <1>1, <1>3, <1>5 DEF left
  <2>2. Orderly(engine', Append(inbox, answer), desktop')
    BY <1>2, <1>5, <1>7, <1>9, <2>1, ExecuteOrderly
  <2> QED
    BY <1>3, <2>2
<1> QED
  BY <1>3, <1>5, <1>8, <1>9 DEF Waited, SwitchOpen

(* The worker writes, or refuses to.                                       *)
LEMMA WriteWaited ==
    ASSUME Inductive, Ledgered, Waited, WriteDraft \/ WriteMark
    PROVE  Waited'
<1>1. /\ engine \in EngineState /\ engine.intents \in Seq(SUBSET Intent) /\ inbox \in Seq(Message)
      /\ lastEntry \in Nat
  BY FieldTypes DEF Inductive, OutsideTyped, Good, Consistent
<1>2. PICK i : /\ TakeIntent(i)
               /\ \/ i.kind # "Record" /\ inbox' = inbox
                  \/ \E event \in Worded, entry \in Nat : Acknowledge(i, event, entry)
  <2>1. CASE WriteDraft
    <3>1. PICK i : /\ TakeIntent(i)
                   /\ \/ lastEntry' = lastEntry + 1 /\ Acknowledge(i, "RecoveryEntryDurable", lastEntry')
                      \/ Acknowledge(i, "RecoveryEntryRefused", 0)
      BY <2>1 DEF WriteDraft
    <3>2. lastEntry + 1 \in Nat /\ 0 \in Nat
      BY <1>1
    <3>3. "RecoveryEntryDurable" \in Worded /\ "RecoveryEntryRefused" \in Worded
      BY DEF Worded
    <3> QED
      BY <3>1, <3>2, <3>3
  <2>2. CASE WriteMark
    BY <2>2 DEF WriteMark, Intents
  <2> QED
    BY <2>1, <2>2
<1>3. i \in Intent /\ engine.intents # << >> /\ UNCHANGED <<desktop, agent>> /\ agent.stage = "Up"
  BY <1>2, BridgeTakes
<1> DEFINE left == NextBatch(engine.intents, i)
<1>4. engine' = [engine EXCEPT !.intents = left]
  BY <1>2 DEF TakeIntent
<1>5. Items(engine.intents) \ {i} \subseteq Items(left)
  BY <1>1, <1>3, ItemsTaken
<1>. HIDE DEF left
<1>6. /\ engine'.switch = engine.switch /\ engine'.pending = engine.pending
      /\ engine'.effects = engine.effects /\ engine'.life = engine.life /\ engine'.intents = left
      /\ engine'.parked = engine.parked /\ engine'.pool = engine.pool
  BY <1>1, <1>4 DEF EngineState
<1>7. /\ \/ inbox' = inbox
         \/ \E m \in Message : inbox' = Append(inbox, m) /\ m.event \notin Replying
      /\ Heard(inbox) \subseteq Heard(inbox')
      /\ i.kind = "Record" => <<i.number, i.window>> \in Heard(inbox')
  <2>1. ASSUME NEW event \in Worded, NEW entry \in Nat, Acknowledge(i, event, entry)
        PROVE  <1>7!1 /\ <1>7!2 /\ <1>7!3
    <3> DEFINE m == [event |-> event, window |-> i.window, batch |-> i.number,
                     entry |-> entry]
    <3>1. m \in Message
      BY <1>3, <2>1 DEF Intent, Message, Worded
    <3>2. inbox' = Append(inbox, m) /\ m.event \in Worded
          /\ m.batch = i.number /\ m.window = i.window
      BY <2>1 DEF Acknowledge, Send
    <3>. HIDE DEF m
    <3>3. m.event \notin Replying
      BY <3>2 DEF Worded, Replying
    <3> QED
      BY <1>1, <3>1, <3>2, <3>3, HeardAppend
  <2> QED
    BY <1>2, <2>1
<1>8. Asks(engine) \subseteq Asks(engine') \cup Heard(inbox')
  BY <1>5, <1>6, <1>7 DEF Asks
<1>9. Entered(engine, Heard(inbox)) => Entered(engine', Heard(inbox'))
  BY <1>6, <1>7, <1>8 DEF Entered
<1>10. ASSUME Orderly(engine, inbox, desktop)
       PROVE  Orderly(engine', inbox', desktop)
  <2>1. Aside(engine, engine', desktop)
    BY <1>6, FieldsAside
  <2>2. Orderly(engine', inbox, desktop)
    BY <1>1, <1>10, <2>1, AsideOrderly
  <2> QED
    BY <1>1, <1>7, <2>2, OrderlyAppend
<1> QED
  BY <1>3, <1>6, <1>9, <1>10 DEF Waited, SwitchOpen

(* The desktop only tells, and places no window.                           *)
LEMMA DesktopWaited ==
    ASSUME Inductive, Ledgered, Waited,
           WindowChanges \/ DisplaysPlugged \/ MachineWakes \/ Enumerate
    PROVE  Waited'
<1>1. /\ inbox \in Seq(Message) /\ desktop \in Desktop /\ engine \in EngineState
  BY DEF Inductive, OutsideTyped, Good, Consistent
<1>2. UNCHANGED <<engine, agent>>
  <2>1. WindowChanges \/ Enumerate => UNCHANGED <<engine, agent>>
    BY DEF WindowChanges, Enumerate
  <2>2. DisplaysPlugged \/ MachineWakes => UNCHANGED <<engine, agent>>
    BY Zenon DEF DisplaysPlugged, MachineWakes, DisplaysChange
  <2> QED
    BY <2>1, <2>2
<1>3. \A w \in Window : /\ desktop.life[w] = "Closed" => desktop'.life[w] = "Closed"
                        /\ desktop'.place[w] = desktop.place[w]
  <2>1. CASE WindowChanges
    BY <1>1, <2>1 DEF WindowChanges, Desktop
  <2>2. CASE Enumerate
    BY <2>2 DEF Enumerate
  <2>3. CASE DisplaysPlugged \/ MachineWakes
    <3>1. PICK plugged, site, seat :
            desktop' = [desktop EXCEPT !.plugged = plugged, !.site = site, !.seat = seat]
      BY <2>3, Zenon DEF DisplaysPlugged, MachineWakes, DisplaysChange
    <3> QED
      BY <1>1, <3>1 DEF Desktop
  <2> QED
    BY <2>1, <2>2, <2>3
<1>4. /\ Heard(inbox) \subseteq Heard(inbox')
      /\ Orderly(engine, inbox, desktop) => Orderly(engine, inbox', desktop)
  <2>1. CASE inbox' = inbox
    BY <2>1
  <2>2. CASE \E m \in Message : inbox' = Append(inbox, m) /\ m.event = "WindowsObserved"
    BY <1>1, <2>2, HeardAppend, OrderlyAppend DEF Replying
  <2>3. CASE \E m, n \in Message :
                /\ inbox' = Append(Append(inbox, m), n)
                /\ m.event = "ParkingCapabilityReported" /\ n.event \in {"Plug", "Wake"}
    <3>1. PICK m \in Message, n \in Message :
            /\ inbox' = Append(Append(inbox, m), n)
            /\ m.event \notin Replying /\ n.event \notin Replying
      BY <2>3 DEF Replying
    <3> DEFINE q == Append(inbox, m)
    <3>2. q \in Seq(Message) /\ inbox' = Append(q, n)
      BY <1>1, <3>1
    <3>3. Heard(inbox) \subseteq Heard(q)
      BY <1>1, HeardAppend
    <3>4. Orderly(engine, inbox, desktop) => Orderly(engine, q, desktop)
      BY <1>1, <3>1, OrderlyAppend
    <3>. HIDE DEF q
    <3>5. Heard(q) \subseteq Heard(Append(q, n))
      BY <3>2, HeardAppend
    <3>6. Orderly(engine, q, desktop) => Orderly(engine, Append(q, n), desktop)
      BY <3>1, <3>2, OrderlyAppend
    <3> QED
      BY <3>2, <3>3, <3>4, <3>5, <3>6
  <2> QED
    BY <2>1, <2>2, <2>3, DesktopSends
<1>5. Orderly(engine, inbox', desktop) => Orderly(engine, inbox', desktop')
  BY <1>1, <1>3, ClosingOrderly
<1>6. Entered(engine, Heard(inbox)) => Entered(engine, Heard(inbox'))
  BY <1>4, EnteredMore
<1> QED
  BY <1>2, <1>4, <1>5, <1>6 DEF Waited

(* A new process has no switch open.                                       *)
LEMMA ProcessWaited ==
    ASSUME Inductive, Ledgered, Waited, Process
    PROVE  Waited'
<1>1. /\ agent \in Agent /\ desktop.plugged \in SUBSET Display /\ engine.config \in Configs
  BY DEF Inductive, OutsideTyped, Desktop, Good, Consistent, EngineState
<1>2. CASE Crash \/ StartsAgain
  <2>1. engine' \in Booted(engine.config, desktop.plugged, desktop.site)
        /\ agent'.stage = "Recovering"
    BY <1>2 DEF Crash, StartsAgain, Starts, Planned
  <2>2. Busy(engine', {}, {}) /\ ~SwitchOpen(engine')
    BY <1>1, <2>1, BootBusy
  <2>3. Entered(engine', Heard(inbox'))
    BY <2>2 DEF Busy, Pends, Entered
  <2> QED
    BY <2>1, <2>2, <2>3 DEF Waited
<1>3. CASE Quit \/ ExecutorStops
  <2>1. agent'.stage \notin {"Recovering", "Up"}
    BY <1>1, <1>3, ExecutorStopsIs DEF Quit, Agent, Inductive, OutsideTyped
  <2> QED
    BY <2>1 DEF Waited
<1>4. CASE RecoverWindow \/ MarkRecovered
  <2>1. UNCHANGED <<engine, inbox>> /\ agent'.stage = agent.stage /\ agent.stage # "Up"
    BY <1>1, <1>4 DEF RecoverWindow, MarkRecovered, Agent
  <2> QED
    BY <2>1 DEF Waited
<1>5. CASE RecoveryEnds
  <2>1. UNCHANGED <<engine, inbox>> /\ agent.stage = "Recovering" /\ agent'.stage = "Up"
    BY <1>1, <1>5 DEF RecoveryEnds, Agent
  <2> QED
    BY <2>1 DEF Waited
<1> QED
  BY <1>2, <1>3, <1>4, <1>5 DEF Process

LEMMA StartsWaited ==
    ASSUME PipelineInit
    PROVE  Waited
<1>1. PICK cfg \in Configs, start \in Start : engine \in Booted(cfg, start.plugged, TRUE)
  BY DEF PipelineInit
<1>2. start.plugged \in SUBSET Display /\ agent.stage = "Up"
  BY StartAssumption DEF PipelineInit
<1>3. Busy(engine, {}, {}) /\ ~SwitchOpen(engine)
  BY <1>1, <1>2, BootBusy
<1>4. Entered(engine, Heard(inbox))
  BY <1>3 DEF Busy, Pends, Entered
<1> QED
  BY <1>2, <1>3, <1>4 DEF Waited

(* What the environment must leave alone while a switch is under way: it   *)
(* asks for no parking and no restore of its own, and focuses another      *)
(* workspace only once nothing is under way.                               *)
SwitchesAlone ==
    /\ {"Park", "RestoreWindows", "RestoreSwitch"} \cap Allowed = {}
    /\ {"Focus"} \cap Allowed \subseteq Patient

(* A parked window has not left management, unless it closed.              *)
LEMMA ParkedManaged ==
    ASSUME Inductive, Ledgered, agent.stage = "Up"
    PROVE  \A w \in Parked(engine) : desktop.life[w] = "Closed" \/ engine.life[w] # "Gone"
<1> SUFFICES ASSUME NEW w \in Parked(engine), desktop.life[w] # "Closed"
             PROVE  engine.life[w] # "Gone"
  OBVIOUS
<1>1. w \in Window /\ FlowOf(w) /\ engine.parked[w] # 0 /\ engine.parked[w] \in Nat
  BY FieldTypes DEF Ledgered, Parked, Inductive, Good, Consistent
<1>2. At(engine, inbox, 1, 0, w, engine.parked[w])
  BY <1>1 DEF At
<1>3. Held(engine, inbox, w)
  BY <1>1, <1>2 DEF Held
<1> QED
  BY <1>1, <1>3 DEF FlowOf, Flow, Seen

(* A switch that begins when nothing is under way begins in order.         *)
LEMMA FocusWaited ==
    ASSUME Inductive, Ledgered, Waited, SwitchesAlone, UserFocuses, SwitchOpen(engine')
    PROVE  Orderly(engine', inbox', desktop')
<1>1. PICK n \in Workspace, d \in Display : WorkspaceFocusRequested(n, d)
  BY DEF UserFocuses, Arrives
<1>2. Spend("Focus") /\ agent.stage = "Up" /\ UNCHANGED <<desktop, inbox>>
  BY DEF UserFocuses, Arrives
<1>3. inbox = << >> /\ engine.effects = << >> /\ engine.intents = << >>
  BY <1>2 DEF Spend, SwitchesAlone, Quiet
<1>4. Good(engine) /\ engine \in EngineState
  BY DEF Inductive, Good, Consistent
<1>5. engine.pending = {}
  <2>1. Asks(engine) = {} /\ Heard(inbox) = {}
    BY <1>3 DEF Asks, Items, Heard
  <2> QED
    BY <1>2, <2>1 DEF Waited, Entered
<1>6. ~IsDisplayed(engine.pool, n) /\ ~SwitchOpen(engine)
  BY <1>1 DEF WorkspaceFocusRequested, CanSwitch
<1>7. engine' = BeginWorkspaceSwitch(engine, n, d)
  <2> SUFFICES ASSUME engine' = [engine EXCEPT !.pool = Show(@, n, d)]
               PROVE  FALSE
    BY <1>1 DEF WorkspaceFocusRequested
  <2>1. engine'.switch = engine.switch
    BY <1>4 DEF EngineState
  <2> QED
    BY <1>6, <2>1 DEF SwitchOpen
<1>8. \A w \in Parked(engine) : desktop.life[w] = "Closed" \/ engine.life[w] # "Gone"
  BY <1>2, ParkedManaged
<1>9. SwitchOpen(BeginWorkspaceSwitch(engine, n, d))
  BY <1>7
<1>10. Orderly(BeginWorkspaceSwitch(engine, n, d), << >>, desktop)
  BY <1>3, <1>4, <1>5, <1>6, <1>8, <1>9, BeginOrderly
<1> QED
  BY <1>2, <1>3, <1>7, <1>10

(* Requests leave an open switch alone.                                    *)
LEMMA ArrivalsAside ==
    ASSUME Inductive, SwitchesAlone, Arrivals, SwitchOpen(engine)
    PROVE  Aside(engine, engine', desktop)
<1>1. Good(engine)
  BY DEF Inductive
<1>2. CASE UserFocuses \/ UserMoves
  BY <1>2 DEF UserFocuses, UserMoves, Arrives, WorkspaceFocusRequested, CanSwitch,
              WorkspaceMoveRequested
<1>3. CASE UserParks \/ UserRestoresWindows \/ UserRestoresSwitch
  BY <1>3 DEF UserParks, UserRestoresWindows, UserRestoresSwitch, Arrives, Spend, SwitchesAlone
<1>4. CASE UserCreates \/ UserDeletes
  <2>1. \E n \in Workspace : WorkspaceCreateRequested(n) \/ WorkspaceDeleteRequested(n)
    BY <1>4 DEF UserCreates, UserDeletes, Arrives
  <2> QED
    BY <1>1, <2>1, PoolAside
<1>5. CASE UserPauses \/ UserResumes \/ HealthChanges
  <2>1. "Refused" \in Capability /\ "Healthy" \in Health
    BY DEF Capability, Health
  <2>2. \E h \in Health : PauseRequested \/ ResumeRequested \/ PersistenceHealthChanged(h)
    BY <1>5, <2>1 DEF UserPauses, UserResumes, HealthChanges, Arrives
  <2> QED
    BY <1>1, <2>1, <2>2, FlagAside
<1>6. CASE ConfigReloads
  BY <1>1, <1>6, ConfigAside DEF ConfigReloads, Arrives
<1>7. CASE DatabaseLoads
  <2>1. PICK r \in Stored : WorkspacesLoaded(r.names, r.where)
    BY <1>7 DEF DatabaseLoads
  <2>2. r.names \in SUBSET Workspace /\ r.where \in [Workspace -> Display \cup {None}]
    BY StoredAssumption
  <2>3. engine' \in LoadWorkspaces(engine, r.names, r.where)
    BY <2>1 DEF WorkspacesLoaded
  <2> QED
    BY <1>1, <2>2, <2>3, LoadAside
<1> QED
  BY <1>2, <1>3, <1>4, <1>5, <1>6, <1>7 DEF Arrivals

(* A request that is made is written down.                                 *)
LEMMA ArrivalsEnter ==
    ASSUME Inductive, SwitchesAlone, Arrivals
    PROVE  Enters(engine, engine')
<1>1. Good(engine)
  BY DEF Inductive
<1>2. ASSUME Adds(engine, engine')
      PROVE  Enters(engine, engine')
  BY <1>2, AddsEnter
<1>3. CASE UserFocuses
  BY <1>1, <1>3, FocusEnters DEF UserFocuses, Arrives
<1>4. CASE UserMoves \/ UserCreates \/ UserDeletes
  <2>1. \E n \in Workspace : \E d :
          WorkspaceMoveRequested(n, d) \/ WorkspaceCreateRequested(n)
            \/ WorkspaceDeleteRequested(n)
    BY <1>4 DEF UserMoves, UserCreates, UserDeletes, Arrives
  <2> QED
    BY <1>1, <1>2, <2>1, PoolAdds
<1>5. CASE UserParks \/ UserRestoresWindows \/ UserRestoresSwitch
  BY <1>5 DEF UserParks, UserRestoresWindows, UserRestoresSwitch, Arrives, Spend, SwitchesAlone
<1>6. CASE UserPauses \/ UserResumes \/ HealthChanges
  <2>1. "Refused" \in Capability /\ "Healthy" \in Health
    BY DEF Capability, Health
  <2>2. \E h \in Health : PauseRequested \/ ResumeRequested \/ PersistenceHealthChanged(h)
    BY <1>6, <2>1 DEF UserPauses, UserResumes, HealthChanges, Arrives
  <2> QED
    BY <1>1, <1>2, <2>1, <2>2, FlagAdds
<1>7. CASE ConfigReloads
  BY <1>1, <1>2, <1>7, ConfigAdds DEF ConfigReloads, Arrives
<1>8. CASE DatabaseLoads
  <2>1. PICK r \in Stored : WorkspacesLoaded(r.names, r.where)
    BY <1>8 DEF DatabaseLoads
  <2>2. r.names \in SUBSET Workspace /\ r.where \in [Workspace -> Display \cup {None}]
    BY StoredAssumption
  <2>3. engine' \in LoadWorkspaces(engine, r.names, r.where)
    BY <2>1 DEF WorkspacesLoaded
  <2> QED
    BY <1>1, <1>2, <2>2, <2>3, LoadAdds
<1> QED
  BY <1>3, <1>4, <1>5, <1>6, <1>7, <1>8 DEF Arrivals

LEMMA ArrivalsWaited ==
    ASSUME Inductive, Ledgered, Waited, SwitchesAlone, Arrivals
    PROVE  Waited'
<1>1. UNCHANGED <<desktop, inbox>> /\ agent.stage = "Up" /\ agent'.stage = agent.stage
      /\ engine \in EngineState /\ PipelineNext
  BY DEF Arrivals, UserFocuses, UserMoves, UserCreates, UserDeletes, UserParks,
         UserRestoresWindows, UserRestoresSwitch, ConfigReloads, HealthChanges, Arrives,
         UserPauses, UserResumes, DatabaseLoads, Inductive, OutsideTyped, Agent, PipelineNext,
         Good, Consistent
<1>2. Entered(engine', Heard(inbox'))
  BY <1>1, ArrivalsEnter, EntersKeeps DEF Waited
<1>3. ASSUME SwitchOpen(engine')
      PROVE  Orderly(engine', inbox', desktop')
  <2>1. CASE SwitchOpen(engine)
    <3>1. Aside(engine, engine', desktop) /\ Orderly(engine, inbox, desktop)
      BY <1>1, <2>1, ArrivalsAside DEF Waited
    <3>2. Orderly(engine', inbox, desktop)
      BY <1>1, <3>1, AsideOrderly
    <3> QED
      BY <1>1, <3>2
  <2>2. CASE ~SwitchOpen(engine)
    <3>1. UserFocuses
      BY <1>1, <1>3, <2>2, OnlyFocusOpens
    <3> QED
      BY <1>3, <3>1, FocusWaited
  <2> QED
    BY <2>1, <2>2
<1> QED
  BY <1>1, <1>2, <1>3 DEF Waited

LEMMA WaitedAlways ==
    ASSUME SwitchesAlone
    PROVE  PipelineSpec => []Waited
<1>1. PipelineInit => Waited
  BY StartsWaited
<1>2. Inductive /\ Ledgered /\ Waited /\ [PipelineNext]_vars => Waited'
  <2> SUFFICES ASSUME Inductive, Ledgered, Waited, [PipelineNext]_vars
               PROVE  Waited'
    OBVIOUS
  <2>1. CASE UNCHANGED vars
    BY <2>1 DEF vars, outside, Waited
  <2>2. CASE PipelineNext
    BY <2>2, ArrivalsWaited, DesktopWaited, ExecuteWaited, WriteWaited, ReceiptsWaited,
       ProcessWaited DEF PipelineNext
  <2> QED
    BY <2>1, <2>2
<1> QED
  BY <1>1, <1>2, LedgeredAlways, PTL DEF PipelineSpec

-----------------------------------------------------------------------------
(* What a commit and a returning window find *)

(* advance_switch moves the displayed assignment only out of a forward     *)
(* phase that is settled.                                                  *)
LEMMA AdvanceCommits ==
    ASSUME NEW s \in EngineState, AdvanceSwitch(s).pool # s.pool
    PROVE  SwitchOpen(s) /\ PhaseIsSettled(s) /\ s.switch.phase \in ForwardPhase
<1>1. ASSUME NEW t \in EngineState, t.switch.phase = "CompensatingRestore"
      PROVE  EmitSwitchRestores(t).pool = t.pool
  BY <1>1 DEF EmitSwitchRestores, FinishCompensation, EngineState
<1>2. SwitchOpen(s) /\ PhaseIsSettled(s)
  <2> SUFFICES ASSUME ~SwitchOpen(s) \/ ~PhaseIsSettled(s)
               PROVE  AdvanceSwitch(s) = s
    OBVIOUS
  <2> QED
    BY DEF AdvanceSwitch, SwitchOpen
<1>3. s.switch.phase \in Phase
  BY FieldTypes DEF Transaction
<1>4. s.switch.phase # "CompensatingRestore"
  BY <1>2 DEF AdvanceSwitch, FinishCompensation, EngineState
<1>5. s.switch.phase # "CompensatingPark"
  <2> SUFFICES ASSUME s.switch.phase = "CompensatingPark"
               PROVE  FALSE
    OBVIOUS
  <2> DEFINE sw == [s.switch EXCEPT !.phase = "CompensatingRestore", !.inFlight = s.switch.parked]
             t == [s EXCEPT !.switch = sw]
  <2>1. sw \in Transaction /\ sw.phase = "CompensatingRestore"
    BY FieldTypes DEF Transaction, Phase, CompensatingPhase
  <2>2. AdvanceSwitch(s) = EmitSwitchRestores(t)
    <3>1. t = [s EXCEPT !.switch.phase = "CompensatingRestore",
                        !.switch.inFlight = s.switch.parked]
      BY FieldTypes DEF EngineState, Transaction
    <3> QED
      BY <1>2, <3>1 DEF AdvanceSwitch
  <2>. HIDE DEF sw
  <2>3. t \in EngineState /\ t.switch.phase = "CompensatingRestore" /\ t.pool = s.pool
    BY <2>1 DEF EngineState
  <2> QED
    BY <1>1, <2>2, <2>3
<1> QED
  BY <1>2, <1>3, <1>4, <1>5 DEF Phase, CompensatingPhase, SwitchOpen

(* A switch that is called off changes no display.                         *)
LEMMA CompensationKeepsPool ==
    ASSUME NEW s \in EngineState, RequestedOnce(s)
    PROVE  BeginSwitchCompensation(s).pool = s.pool
<1>1. CASE ~SwitchOpen(s) \/ Compensating(s)
  BY <1>1 DEF BeginSwitchCompensation
<1>2. CASE SwitchOpen(s) /\ ~Compensating(s)
  <2> DEFINE sw == [s.switch EXCEPT !.phase = "CompensatingPark", !.queued = {},
                                    !.recording = {}, !.inFlight = {}]
             left == {r \in s.pending : r.switch = 0}
             t == [s EXCEPT !.pending = left, !.switch = sw]
             W == s.switch.restored
             able == {w \in W : Parkable(t, w)}
             lost == W \ able
             asked == RequestRecoveryEntries(t, able, t.switch.id)
  <2>1. BeginSwitchCompensation(s) = RequestSwitchReparks(t, W)
    <3>1. t = [s EXCEPT !.pending = {r \in @ : r.switch = 0},
                        !.switch.phase = "CompensatingPark", !.switch.queued = {},
                        !.switch.recording = {}, !.switch.inFlight = {}]
      BY FieldTypes DEF EngineState, Transaction
    <3> QED
      BY <1>2, <3>1 DEF BeginSwitchCompensation
  <2>2. /\ sw \in Transaction /\ sw.phase = "CompensatingPark" /\ sw.id \in Nat
        /\ W \in SUBSET Window /\ left \in SUBSET Request
    BY FieldTypes DEF Transaction, Phase, CompensatingPhase
  <2>. HIDE DEF sw, left
  <2>3. /\ t \in EngineState /\ t.pool = s.pool /\ t.switch = sw /\ W = s.switch.restored
        /\ t.pending \subseteq s.pending
    BY <2>2 DEF EngineState, left
  <2>. HIDE DEF t, W
  <2>4. able \in SUBSET Window /\ lost \in SUBSET Window
    BY <2>2
  <2>5. /\ asked \in EngineState /\ asked.pool = s.pool /\ asked.switch = sw
        /\ asked.lastBatch \in Nat
    <3>1. \A w \in able : ~Waiting(t, w)
      BY DEF Parkable
    <3>2. RequestedOnce(t) /\ t.switch.id \in Nat
      BY <2>2, <2>3 DEF RequestedOnce
    <3>. HIDE DEF able
    <3>3. asked \in EngineState /\ asked.pool = t.pool /\ asked.switch = t.switch
      BY <2>3, <2>4, <3>1, <3>2, RequestsAsked
    <3> QED
      BY <2>3, <3>3, FieldTypes
  <2> DEFINE fresh == {<<asked.lastBatch, w>> : w \in able}
             sx == [sw EXCEPT !.recording = fresh, !.inFlight = able,
                              !.stranded = @ \cup lost, !.restored = @ \ lost,
                              !.parked = @ \ lost]
             u == [asked EXCEPT !.switch = sx]
  <2>6. RequestSwitchReparks(t, W) = AdvanceSwitch(u)
    <3>1. u = [asked EXCEPT !.switch.recording = fresh, !.switch.inFlight = able,
                            !.switch.stranded = @ \cup lost, !.switch.restored = @ \ lost,
                            !.switch.parked = @ \ lost]
      BY <2>2, <2>5 DEF EngineState, Transaction
    <3> QED
      BY <3>1 DEF RequestSwitchReparks
  <2>7. sx \in Transaction /\ sx.phase = "CompensatingPark"
    <3>1. fresh \in SUBSET Token
      BY <2>4, <2>5 DEF Token
    <3>. HIDE DEF fresh, able, lost
    <3> QED
      BY <2>2, <2>4, <3>1 DEF Transaction
  <2>. HIDE DEF sx, asked
  <2>8. u \in EngineState /\ u.pool = s.pool /\ u.switch.phase = "CompensatingPark"
    BY <2>5, <2>7 DEF EngineState
  <2>. HIDE DEF u
  <2>9. AdvanceSwitch(u).pool = u.pool
    BY <2>8, AdvanceCommits DEF ForwardPhase
  <2> QED
    BY <2>1, <2>6, <2>8, <2>9
<1> QED
  BY <1>1, <1>2

(* What the switch has moved is where it put it, once nothing but W is in  *)
(* flight and W has landed.                                                *)
LEMMA CommitFinds ==
    ASSUME NEW s, NEW q, NEW dk, Orderly(s, q, dk), s.switch.phase \in ForwardPhase,
           NEW W, s.switch.inFlight \subseteq W,
           \A w \in W \cap Going(s.switch) : On(dk, w, "Parked"),
           \A w \in W \cap Coming(s.switch) : On(dk, w, "Screen")
    PROVE  /\ \A w \in Leaving(s.switch) : On(dk, w, "Parked")
           /\ \A w \in Arriving(s.switch) : On(dk, w, "Screen")
<1>1. \A w \in s.switch.parked : On(dk, w, "Parked")
  BY DEF Orderly, Left, ForwardPhase
<1>2. \A w \in s.switch.restored : On(dk, w, "Screen")
  BY DEF Orderly, Brought, ForwardPhase
<1> QED
  BY <1>1, <1>2 DEF Leaving, Arriving, Going, Coming

(* switch_window_settled moves the displayed assignment only when the      *)
(* answer is the last one awaited, and a good one.                         *)
LEMMA SettledCommits ==
    ASSUME NEW s \in EngineState, RequestedOnce(s), NEW w \in Window, NEW ok \in BOOLEAN,
           SwitchWindowSettled(s, w, ok).pool # s.pool
    PROVE  ok /\ s.switch.inFlight \subseteq {w} /\ s.switch.phase \in ForwardPhase
<1> DEFINE phase == s.switch.phase
           parked == IF phase \in {"Recording", "Parking"} THEN s.switch.parked \cup {w}
                     ELSE IF phase = "CompensatingRestore" THEN s.switch.parked \ {w}
                     ELSE s.switch.parked
           restored == IF phase = "Restoring" THEN s.switch.restored \cup {w}
                       ELSE IF phase = "CompensatingPark" THEN s.switch.restored \ {w}
                       ELSE s.switch.restored
           flying == s.switch.inFlight \ {w}
           t == [s EXCEPT !.switch.inFlight = @ \ {w}]
           landed == [t EXCEPT !.switch.parked = parked, !.switch.restored = restored]
           lost == [t EXCEPT !.switch.stranded = @ \cup {w},
                             !.switch.restored = @ \ {w},
                             !.switch.parked   = @ \ {w}]
           still == [s.switch EXCEPT !.inFlight = flying]
           done == [s.switch EXCEPT !.inFlight = flying, !.parked = parked, !.restored = restored]
           gone == [s.switch EXCEPT !.inFlight = flying, !.stranded = @ \cup {w},
                                    !.restored = @ \ {w}, !.parked = @ \ {w}]
<1>1. s.switch \in Transaction /\ parked \in SUBSET Window /\ restored \in SUBSET Window
  BY FieldTypes DEF Transaction
<1>2. w \in s.switch.inFlight
  BY DEF SwitchWindowSettled
<1>3. /\ ok => SwitchWindowSettled(s, w, ok) = AdvanceSwitch(landed)
      /\ ~ok /\ Compensating(s) => SwitchWindowSettled(s, w, ok) = AdvanceSwitch(lost)
      /\ ~ok /\ ~Compensating(s) => SwitchWindowSettled(s, w, ok) = BeginSwitchCompensation(t)
  <2>1. t.switch.parked = s.switch.parked /\ t.switch.restored = s.switch.restored
    BY <1>1 DEF EngineState, Transaction
  <2>2. landed = [t EXCEPT !.switch.parked =
                       IF phase \in {"Recording", "Parking"} THEN @ \cup {w}
                       ELSE IF phase = "CompensatingRestore" THEN @ \ {w} ELSE @,
                    !.switch.restored =
                       IF phase = "Restoring" THEN @ \cup {w}
                       ELSE IF phase = "CompensatingPark" THEN @ \ {w} ELSE @]
    BY <1>1, <2>1 DEF EngineState, Transaction
  <2>. HIDE DEF parked, restored, landed, lost
  <2>3. CASE ok
    BY <1>2, <2>2, <2>3 DEF SwitchWindowSettled
  <2>4. CASE ~ok
    BY <1>2, <2>4 DEF SwitchWindowSettled, lost
  <2> QED
    BY <2>3, <2>4
<1>. HIDE DEF parked, restored
<1>4. t = [s EXCEPT !.switch = still] /\ still \in Transaction
  BY <1>1 DEF EngineState, Transaction
<1>5. landed = [s EXCEPT !.switch = done] /\ done \in Transaction
  BY <1>1 DEF EngineState, Transaction
<1>6. lost = [s EXCEPT !.switch = gone] /\ gone \in Transaction
  BY <1>1 DEF EngineState, Transaction
<1>7. done.inFlight = flying /\ done.phase = phase /\ gone.phase = phase
  BY <1>1 DEF Transaction
<1>. HIDE DEF still, done, gone, t, landed, lost
<1>8. /\ t \in EngineState /\ t.pool = s.pool /\ t.pending = s.pending
      /\ landed \in EngineState /\ landed.pool = s.pool /\ landed.switch = done
      /\ lost \in EngineState /\ lost.pool = s.pool /\ lost.switch = gone
  BY <1>4, <1>5, <1>6 DEF EngineState
<1>9. CASE ok
  <2>1. PhaseIsSettled(landed) /\ landed.switch.phase \in ForwardPhase
    BY <1>3, <1>8, <1>9, AdvanceCommits
  <2> QED
    BY <1>7, <1>8, <1>9, <2>1 DEF PhaseIsSettled
<1>10. CASE ~ok /\ Compensating(s)
  <2>1. lost.switch.phase \in ForwardPhase
    BY <1>3, <1>8, <1>10, AdvanceCommits
  <2> QED
    BY <1>7, <1>8, <1>10, <2>1 DEF Compensating, CompensatingPhase, ForwardPhase
<1>11. CASE ~ok /\ ~Compensating(s)
  <2>1. RequestedOnce(t)
    BY <1>8 DEF RequestedOnce
  <2>2. BeginSwitchCompensation(t).pool = t.pool
    BY <1>8, <2>1, CompensationKeepsPool
  <2> QED
    BY <1>3, <1>8, <1>11, <2>2
<1> QED
  BY <1>9, <1>10, <1>11

(* An entry that is durable lets the switch commit only if its window left *)
(* management and nothing else was awaited.                                *)
LEMMA DurableCommits ==
    ASSUME Good(engine), SwitchOpen(engine), NEW q, NEW dk, Orderly(engine, q, dk),
           NEW b, NEW v \in Window, NEW n \in Nat, RecoveryEntryDurable(b, v, n),
           engine'.pool # engine.pool
    PROVE  engine.switch.inFlight = {} /\ engine.switch.phase \in ForwardPhase
<1>1. PICK r \in engine.pending :
        LET ours  == SwitchOpen(engine) /\ r.switch = engine.switch.id
            parks == IF v \in Managed(engine) THEN {v} ELSE {}
            rest  == engine.switch.recording \ {<<b, v>>}
            sw    == [engine.switch EXCEPT
                        !.recording = rest,
                        !.phase = IF @ = "Recording" /\ rest = {} THEN "Parking" ELSE @,
                        !.inFlight = @ \cup parks]
        IN  /\ r.batch = b /\ r.window = v
            /\ engine' = AdvanceSwitch(
                 [engine EXCEPT
                    !.pending = @ \ {r},
                    !.switch  = IF ours THEN sw ELSE @,
                    !.effects = Push(@, {[kind |-> "Park", window |-> x,
                                          entry |-> n] : x \in parks})])
  BY DEF RecoveryEntryDurable
<1> DEFINE parks == IF v \in Managed(engine) THEN {v} ELSE {}
           rest  == engine.switch.recording \ {<<b, v>>}
           phase == IF engine.switch.phase = "Recording" /\ rest = {} THEN "Parking" ELSE engine.switch.phase
           sw    == [engine.switch EXCEPT !.recording = rest, !.phase = phase, !.inFlight = @ \cup parks]
           moves == {[kind |-> "Park", window |-> x, entry |-> n] : x \in parks}
           effects == Push(engine.effects, moves)
           t == [engine EXCEPT !.pending = @ \ {r}, !.switch = sw, !.effects = effects]
<1>2. /\ engine \in EngineState /\ engine.switch \in Transaction /\ engine.pending \in SUBSET Request
      /\ engine.effects \in Seq(SUBSET Move)
  BY FieldTypes DEF Good, Consistent
<1>3. /\ r.switch = engine.switch.id
      /\ engine.switch.phase \in {"Recording", "Parking", "CompensatingPark"}
  BY RequestIsOurs
<1>4. engine' = AdvanceSwitch(t)
  BY <1>1, <1>3
<1>5. moves \in SUBSET Move
  BY DEF Move
<1>6. /\ sw \in Transaction /\ engine.switch.inFlight \subseteq sw.inFlight
      /\ sw.phase = "CompensatingPark" <=> engine.switch.phase = "CompensatingPark"
  <2>1. phase \in Phase /\ rest \in SUBSET Token /\ parks \in SUBSET Window
    BY <1>2 DEF Transaction, Phase, ForwardPhase
  <2>2. phase = "CompensatingPark" <=> engine.switch.phase = "CompensatingPark"
    OBVIOUS
  <2>. HIDE DEF phase, parks, rest
  <2> QED
    BY <1>2, <2>1, <2>2 DEF Transaction
<1>7. effects \in Seq(SUBSET Move)
  <2>. HIDE DEF moves
  <2> QED
    BY <1>2, <1>5, PushType
<1>. HIDE DEF sw, effects
<1>8. t \in EngineState /\ t.switch = sw /\ t.pool = engine.pool
  BY <1>2, <1>6, <1>7 DEF EngineState
<1>. HIDE DEF t
<1>9. PhaseIsSettled(t) /\ t.switch.phase \in ForwardPhase
  BY <1>4, <1>8, AdvanceCommits
<1>10. engine.switch.inFlight = {}
  BY <1>6, <1>8, <1>9 DEF PhaseIsSettled
<1> QED
  BY <1>3, <1>6, <1>8, <1>9, <1>10 DEF ForwardPhase

(* A window that has landed: the state t it is recorded in.                *)
LEMMA LandedCommits ==
    ASSUME Good(engine), NEW t \in EngineState, NEW w \in Window,
           t.switch = engine.switch, t.pending = engine.pending, t.pool = engine.pool,
           engine' = SwitchWindowSettled(SettleStrandedWindow(t, w), w, TRUE),
           engine'.pool # engine.pool
    PROVE  /\ engine.switch.inFlight \subseteq {w} /\ engine.switch.phase \in ForwardPhase
<1> DEFINE u == SettleStrandedWindow(t, w)
<1>1. /\ u \in EngineState /\ u.switch = engine.switch /\ u.pending = engine.pending
      /\ u.pool = engine.pool
  BY FieldTypes DEF SettleStrandedWindow, EngineState
<1>2. engine' = SwitchWindowSettled(u, w, TRUE)
  OBVIOUS
<1>. HIDE DEF u
<1>3. RequestedOnce(u)
  BY <1>1 DEF Good, Consistent, RequestedOnce
<1> QED
  BY <1>1, <1>2, <1>3, SettledCommits

(* When the answer to w moves the displayed assignment, w is the only      *)
(* window in flight.                                                       *)
LEMMA AnswerCommits ==
    ASSUME Good(engine), NEW w \in Window, NEW n \in Nat, engine'.pool # engine.pool,
           WindowParked(w, n) \/ WindowRestored(w)
    PROVE  engine.switch.inFlight \subseteq {w} /\ engine.switch.phase \in ForwardPhase
<1>1. /\ engine \in EngineState /\ engine.parked \in [Window -> Nat] /\ RequestedOnce(engine)
      /\ engine.intents \in Seq(SUBSET Intent)
  BY FieldTypes DEF Good, Consistent
<1>2. CASE WindowParked(w, n)
  <2> DEFINE mark == {[kind |-> "MarkParked", window |-> w, number |-> n]}
             parked == [engine.parked EXCEPT ![w] = n]
             intents == Append(engine.intents, mark)
             t == [engine EXCEPT !.parked = parked, !.intents = intents]
  <2>1. mark \in SUBSET Intent /\ parked \in [Window -> Nat]
    BY <1>1 DEF Intent
  <2>2. engine' = SwitchWindowSettled(SettleStrandedWindow(t, w), w, TRUE)
    <3>1. t = [engine EXCEPT !.parked[w] = n, !.intents = Append(@, mark)]
      BY <1>1 DEF EngineState
    <3> QED
      BY <1>2, <3>1 DEF WindowParked
  <2>. HIDE DEF mark, parked
  <2>3. intents \in Seq(SUBSET Intent)
    BY <1>1, <2>1
  <2>. HIDE DEF intents
  <2>4. /\ t \in EngineState /\ t.switch = engine.switch /\ t.pending = engine.pending
        /\ t.pool = engine.pool
    BY <1>1, <2>1, <2>3 DEF EngineState
  <2>. HIDE DEF t
  <2> QED
    BY <2>2, <2>4, LandedCommits
<1>3. CASE WindowRestored(w)
  <2> DEFINE marks == {[kind |-> "MarkRestored", window |-> v, number |-> engine.parked[v]]
                         : v \in {w} \cap Parked(engine)}
             parked == [engine.parked EXCEPT ![w] = 0]
             intents == Push(engine.intents, marks)
             t == [engine EXCEPT !.parked = parked, !.intents = intents]
  <2>1. marks \in SUBSET Intent /\ parked \in [Window -> Nat]
    BY <1>1 DEF Intent, Parked
  <2>2. engine' = SwitchWindowSettled(SettleStrandedWindow(t, w), w, TRUE)
    <3>1. t = [engine EXCEPT !.parked[w] = 0, !.intents = Push(@, marks)]
      BY <1>1 DEF EngineState
    <3> QED
      BY <1>3, <3>1 DEF WindowRestored
  <2>. HIDE DEF marks, parked
  <2>3. intents \in Seq(SUBSET Intent)
    BY <1>1, <2>1, PushType
  <2>. HIDE DEF intents
  <2>4. /\ t \in EngineState /\ t.switch = engine.switch /\ t.pending = engine.pending
        /\ t.pool = engine.pool
    BY <1>1, <2>1, <2>3 DEF EngineState
  <2>. HIDE DEF t
  <2> QED
    BY <2>2, <2>4, LandedCommits
<1> QED
  BY <1>2, <1>3

(* A move that failed, and an entry that is refused, move nothing.         *)
LEMMA FailureCommits ==
    ASSUME Good(engine), NEW w \in Window, WindowParkFailed(w) \/ WindowRestoreFailed(w)
    PROVE  engine'.pool = engine.pool
<1> DEFINE t == SwitchWindowSettled(engine, w, FALSE)
<1>1. engine \in EngineState /\ RequestedOnce(engine)
  BY DEF Good, Consistent
<1>2. engine' = t \/ engine' = StrandWindow(engine, w)
  <2>1. w \notin engine.switch.inFlight => t = engine
    BY DEF SwitchWindowSettled
  <2> QED
    BY <2>1 DEF WindowParkFailed, WindowRestoreFailed
<1>3. StrandWindow(engine, w).pool = engine.pool
  BY <1>1 DEF StrandWindow, EngineState
<1>4. t.pool = engine.pool
  BY <1>1, SettledCommits
<1> QED
  BY <1>2, <1>3, <1>4

LEMMA RefusalCommits ==
    ASSUME Good(engine), NEW b, NEW w, RecoveryEntryRefused(b, w)
    PROVE  engine'.pool = engine.pool
<1>1. PICK r \in engine.pending :
        LET t == [engine EXCEPT !.pending = @ \ {r}] IN
        engine' = IF SwitchOpen(engine) /\ r.switch = engine.switch.id
                  THEN BeginSwitchCompensation([t EXCEPT !.switch.recording = @ \ {<<b, w>>}])
                  ELSE t
  BY DEF RecoveryEntryRefused
<1>2. engine \in EngineState /\ RequestedOnce(engine) /\ engine.switch \in Transaction
      /\ engine.pending \in SUBSET Request
  BY FieldTypes DEF Good, Consistent
<1> DEFINE left == engine.pending \ {r}
           rest == engine.switch.recording \ {<<b, w>>}
           sw == [engine.switch EXCEPT !.recording = rest]
           t == [engine EXCEPT !.pending = @ \ {r}]
           u == [engine EXCEPT !.pending = left, !.switch = sw]
<1>3. u = [t EXCEPT !.switch.recording = @ \ {<<b, w>>}]
  BY <1>2 DEF EngineState, Transaction
<1>4. sw \in Transaction /\ left \subseteq engine.pending
  BY <1>2 DEF Transaction
<1>5. t.pool = engine.pool
  BY <1>2 DEF EngineState
<1>6. engine' \in {BeginSwitchCompensation(u), t}
  BY <1>1, <1>3
<1>. HIDE DEF sw, left, t
<1>7. u \in EngineState /\ u.pool = engine.pool /\ u.pending \subseteq engine.pending
  BY <1>2, <1>4 DEF EngineState
<1>. HIDE DEF u
<1>8. BeginSwitchCompensation(u).pool = u.pool
  BY <1>2, <1>7, CompensationKeepsPool DEF RequestedOnce
<1> QED
  BY <1>5, <1>6, <1>7, <1>8

(* When the channel brings the answer on which the switch commits, what    *)
(* the switch moved is where it moved it.                                  *)
LEMMA ReceiptCommits ==
    ASSUME Inductive, Ledgered, agent.stage = "Up", Receipts,
           SwitchOpen(engine), Orderly(engine, inbox, desktop),
           ~SwitchOpen(engine'), engine'.pool # engine.pool
    PROVE  /\ \A w \in Leaving(engine.switch) : On(desktop, w, "Parked")
           /\ \A w \in Arriving(engine.switch) : On(desktop, w, "Screen")
<1>1. PICK event : Receive(event)
  BY DEF Receipts, ReceiveObservation, ReceiveDurable, ReceiveRefused, ReceiveParked,
         ReceiveParkFailed, ReceiveRestored, ReceiveRestoreFailed, ReceiveCapability,
         ReceiveTopology, ReceiveWake
<1> DEFINE m == Head(inbox)
<1>2. /\ inbox # << >> /\ inbox \in Seq(Message) /\ Good(engine) /\ engine \in EngineState
      /\ RequestedOnce(engine)
  BY <1>1 DEF Receive, Inductive, OutsideTyped, Good, Consistent
<1>3. m \in Message
  BY <1>2
<1>4. /\ m.event \in {"WindowParked", "WindowRestored"} =>
           On(desktop, m.window, IF m.event = "WindowParked" THEN "Parked" ELSE "Screen")
      /\ Reports(m) => \A w \in Managed(engine) : desktop.life[w] = "Closed" \/ m.life[w] # "Gone"
  BY <1>2, AnswerPlaces, ReportFinds DEF Orderly
<1>5. m.event \in Replying =>
           /\ m.window \in Going(engine.switch) => m.event \in ParkAnswers
           /\ m.window \in Coming(engine.switch) => m.event \in RestoreAnswers
  BY <1>2, AnswerFits
<1>6. ~Aside(engine, engine', desktop)
  BY AsideOpen
<1>7. ASSUME NEW W, engine.switch.inFlight \subseteq W, engine.switch.phase \in ForwardPhase,
             \A w \in W \cap Going(engine.switch) : On(desktop, w, "Parked"),
             \A w \in W \cap Coming(engine.switch) : On(desktop, w, "Screen")
      PROVE  /\ \A w \in Leaving(engine.switch) : On(desktop, w, "Parked")
             /\ \A w \in Arriving(engine.switch) : On(desktop, w, "Screen")
  BY <1>7, CommitFinds
<1>. HIDE DEF m
<1>8. CASE ReceiveParked \/ ReceiveRestored \/ ReceiveParkFailed \/ ReceiveRestoreFailed
  <2>1. /\ m.event \in Replying
        /\ \/ m.event = "WindowParked" /\ WindowParked(m.window, m.entry)
           \/ m.event = "WindowRestored" /\ WindowRestored(m.window)
           \/ m.event = "WindowParkFailed" /\ WindowParkFailed(m.window)
           \/ m.event = "WindowRestoreFailed" /\ WindowRestoreFailed(m.window)
    BY <1>8 DEF ReceiveParked, ReceiveRestored, ReceiveParkFailed, ReceiveRestoreFailed,
                Receive, Replying, m
  <2>2. m.window \in Window /\ m.entry \in Nat
    BY <1>3, <2>1 DEF Message, Replying
  <2>3. /\ m.event \in {"WindowParked", "WindowRestored"}
        /\ WindowParked(m.window, m.entry) \/ WindowRestored(m.window)
    <3>1. ~(WindowParkFailed(m.window) \/ WindowRestoreFailed(m.window))
      BY <1>2, <2>2, FailureCommits
    <3> QED
      BY <2>1, <3>1
  <2>4. engine.switch.inFlight \subseteq {m.window} /\ engine.switch.phase \in ForwardPhase
    BY <1>2, <2>2, <2>3, AnswerCommits
  <2>5. m.window \in Going(engine.switch) => On(desktop, m.window, "Parked")
    BY <1>4, <1>5, <2>1, <2>3 DEF ParkAnswers
  <2>6. m.window \in Coming(engine.switch) => On(desktop, m.window, "Screen")
    BY <1>4, <1>5, <2>1, <2>3 DEF RestoreAnswers
  <2> QED
    BY <1>7, <2>4, <2>5, <2>6
<1>9. CASE ReceiveDurable
  <2>1. /\ m.event = "RecoveryEntryDurable"
        /\ RecoveryEntryDurable(m.batch, m.window, m.entry) \/ UnknownToken(m.batch, m.window)
    BY <1>9 DEF ReceiveDurable, Receive, m
  <2>2. m.window \in Window /\ m.entry \in Nat
    BY <1>3, <2>1 DEF Message
  <2>3. RecoveryEntryDurable(m.batch, m.window, m.entry)
    BY <2>1 DEF UnknownToken
  <2>4. engine.switch.inFlight = {} /\ engine.switch.phase \in ForwardPhase
    BY <1>2, <2>2, <2>3, DurableCommits
  <2> QED
    BY <1>7, <2>4
<1>10. CASE ReceiveRefused
  <2>1. engine'.pool = engine.pool
    <3>1. \/ RecoveryEntryRefused(m.batch, m.window) \/ UnknownToken(m.batch, m.window)
      BY <1>10 DEF ReceiveRefused, Receive, m
    <3> QED
      BY <1>2, <3>1, RefusalCommits DEF UnknownToken
  <2> QED
    BY <2>1
<1>11. CASE ReceiveObservation
  <2>1. m.event = "WindowsObserved" /\ engine' = ReplaceInventory(engine, m.life, m.seat)
    BY <1>11 DEF ReceiveObservation, Receive, WindowsObserved, m
  <2>2. m.life \in [Window -> Lifecycle] /\ m.seat \in [Window -> Display] /\ Reports(m)
    BY <1>3, <2>1 DEF Message, Reports
  <2>3. Aside(engine, ReplaceInventory(engine, m.life, m.seat), desktop)
    BY <1>2, <1>4, <2>2, InventoryAside
  <2> QED
    BY <1>6, <2>1, <2>3
<1>12. CASE ReceiveCapability
  <2>1. m.event = "ParkingCapabilityReported" /\ ParkingCapabilityReported(m.site)
    BY <1>12 DEF ReceiveCapability, Receive, m
  <2>2. m.site \in Capability /\ "Healthy" \in Health
    BY <1>3, <2>1 DEF Message, Health
  <2> QED
    BY <1>2, <1>6, <2>1, <2>2, FlagAside
<1>13. CASE ReceiveTopology
  <2>1. /\ m.event = "Plug"
        /\ DisplayTopologyChanged(m.displays, m.nearest) \/ UNCHANGED engine
    BY <1>13 DEF ReceiveTopology, Receive, m
  <2>2. m.displays \in SUBSET Display /\ m.nearest \in Display
    BY <1>3, <2>1 DEF Message
  <2> QED
    BY <1>2, <1>6, <2>1, <2>2, TopologyAside
<1>14. CASE ReceiveWake
  <2>1. /\ m.event = "Wake"
        /\ WakeReconciliation(m.displays, m.nearest, m.enumerated, m.life, m.seat)
    BY <1>14 DEF ReceiveWake, Receive, m
  <2>2. /\ m.displays \in SUBSET Display /\ m.nearest \in Display /\ m.enumerated \in BOOLEAN
        /\ m.life \in [Window -> Lifecycle] /\ m.seat \in [Window -> Display] /\ Reports(m)
    BY <1>3, <2>1 DEF Message, Reports
  <2> QED
    BY <1>2, <1>4, <1>6, <2>1, <2>2, WakeAside
<1> QED
  BY <1>8, <1>9, <1>10, <1>11, <1>12, <1>13, <1>14 DEF Receipts

(* The running agent does not stay up in a step of its process.            *)
LEMMA ProcessLeaves ==
    ASSUME Inductive, agent.stage = "Up", agent'.stage = "Up"
    PROVE  ~Process
<1>1. ledger \in SUBSET L!Entry /\ agent \in Agent /\ agent.session \in Nat
  BY DEF Inductive, OutsideTyped, Agent
<1>2. ~Crash /\ ~StartsAgain
  BY <1>1, StartsIs DEF Crash, StartsAgain
<1>3. ~Quit
  BY <1>1 DEF Quit, Agent
<1> QED
  BY <1>2, <1>3 DEF Process, ExecutorStops, RecoverWindow, MarkRecovered, RecoveryEnds

(* Only what the channel brings closes a switch of a process that runs on. *)
LEMMA ReceiptCloses ==
    ASSUME Inductive, SwitchesAlone, PipelineNext, Running, SwitchOpen(engine),
           ~SwitchOpen(engine')
    PROVE  Receipts
<1> SUFFICES ASSUME ~Receipts
             PROVE  engine'.switch = engine.switch
  BY DEF SwitchOpen
<1>1. engine \in EngineState /\ agent.stage = "Up" /\ agent'.stage = "Up" /\ agent \in Agent
  BY DEF Inductive, OutsideTyped, Good, Consistent, Running
<1>2. CASE Arrivals
  BY <1>2, ArrivalsAside DEF Aside
<1>3. CASE WindowChanges \/ Enumerate
  BY <1>3 DEF WindowChanges, Enumerate
<1>4. CASE DisplaysPlugged \/ MachineWakes
  <2>1. engine' = engine
    BY <1>4, Zenon DEF DisplaysPlugged, MachineWakes, DisplaysChange
  <2> QED
    BY <2>1
<1>5. CASE ExecutePark \/ ExecuteRestore
  <2>1. PICK moves : engine' = [engine EXCEPT !.effects = moves]
    BY <1>5 DEF ExecutePark, ExecuteRestore, Lands, Fails, Execute
  <2> QED
    BY <1>1, <2>1 DEF EngineState
<1>6. CASE WriteDraft \/ WriteMark
  <2>1. PICK left : engine' = [engine EXCEPT !.intents = left]
    BY <1>6 DEF WriteDraft, WriteMark, TakeIntent
  <2> QED
    BY <1>1, <2>1 DEF EngineState
<1>7. ~Process
  BY <1>1, ProcessLeaves
<1> QED
  BY <1>2, <1>3, <1>4, <1>5, <1>6, <1>7 DEF PipelineNext

(* When a switch commits, each window it parked is off the screen and each *)
(* window it restored is on it (commit_switch): no answer it counts is one *)
(* that an earlier switch still had coming, whichever moves fail, entries  *)
(* are refused, windows close and processes are killed meanwhile.          *)
THEOREM CommitsLand ==
    ASSUME SwitchesAlone
    PROVE  PipelineSpec => CommitLands
<1> DEFINE Landing ==
             Running /\ SwitchOpen(engine) /\ ~SwitchOpen(engine')
               /\ engine'.pool.displayed # engine.pool.displayed
             => /\ Leaving(engine.switch) \cap Alive \subseteq AwayFromScreen
                /\ Arriving(engine.switch) \cap AwayFromScreen = {}
<1>1. Inductive /\ Ledgered /\ Waited /\ [PipelineNext]_vars => Landing
  <2> SUFFICES ASSUME Inductive, Ledgered, Waited, [PipelineNext]_vars,
                      Running, SwitchOpen(engine), ~SwitchOpen(engine'),
                      engine'.pool.displayed # engine.pool.displayed
               PROVE  /\ Leaving(engine.switch) \cap Alive \subseteq AwayFromScreen
                      /\ Arriving(engine.switch) \cap AwayFromScreen = {}
    OBVIOUS
  <2>1. PipelineNext
    BY DEF vars
  <2>2. Receipts
    BY <2>1, ReceiptCloses
  <2>3. agent.stage = "Up" /\ Orderly(engine, inbox, desktop) /\ engine'.pool # engine.pool
    BY DEF Running, Waited
  <2>4. /\ \A w \in Leaving(engine.switch) : On(desktop, w, "Parked")
        /\ \A w \in Arriving(engine.switch) : On(desktop, w, "Screen")
    BY <2>2, <2>3, ReceiptCommits
  <2> QED
    BY <2>4 DEF On, Alive, AwayFromScreen
<1>2. [][Landing]_vars => CommitLands
  BY PTL DEF CommitLands
<1>. HIDE DEF Landing
<1> QED
  BY <1>1, <1>2, LedgeredAlways, WaitedAlways, PTL DEF PipelineSpec

(* A window comes back on the screen while a process runs only when the    *)
(* executor restores it.                                                   *)
LEMMA ReturnIsRestore ==
    ASSUME Inductive, PipelineNext, Running, NEW w \in Window,
           w \in AwayFromScreen, w \in Alive', w \notin AwayFromScreen'
    PROVE  \E m \in Items(engine.effects) : m.kind = "Restore" /\ m.window = w
<1>1. /\ desktop \in Desktop /\ agent \in Agent /\ agent.stage = "Up" /\ agent'.stage = "Up"
  BY DEF Inductive, OutsideTyped, Running
<1>2. desktop.place[w] = "Parked" /\ desktop'.place[w] # "Parked"
  BY DEF AwayFromScreen
<1>3. CASE WindowChanges
  BY <1>1, <1>2, <1>3 DEF WindowChanges, Desktop
<1>4. CASE DisplaysPlugged \/ MachineWakes
  <2>1. PICK plugged, site, seat :
          desktop' = [desktop EXCEPT !.plugged = plugged, !.site = site, !.seat = seat]
    BY <1>4, Zenon DEF DisplaysPlugged, MachineWakes, DisplaysChange
  <2> QED
    BY <1>1, <1>2, <2>1 DEF Desktop
<1>5. CASE ExecutePark
  <2>1. PICK v : desktop' \in {desktop, [desktop EXCEPT !.place[v] = "Parked"]}
    BY <1>5 DEF ExecutePark, Lands, Fails
  <2> QED
    BY <1>1, <1>2, <2>1 DEF Desktop
<1>6. CASE ExecuteRestore
  <2>1. PICK m \in Effects("Restore") :
          desktop' \in {desktop, [desktop EXCEPT !.place[m.window] = "Screen"]}
    BY <1>6 DEF ExecuteRestore, Lands, Fails
  <2>2. m \in Items(engine.effects) /\ m.kind = "Restore"
    BY <2>1 DEF Effects, Items
  <2>3. m.window = w
    BY <1>1, <1>2, <2>1 DEF Desktop
  <2> QED
    BY <2>2, <2>3
<1>7. CASE Arrivals \/ Enumerate \/ WriteDraft \/ WriteMark
  <2>1. desktop' = desktop
    BY <1>7
     DEF Arrivals, UserFocuses, UserMoves, UserCreates, UserDeletes, UserParks,
         UserRestoresWindows, UserRestoresSwitch, ConfigReloads, HealthChanges, Arrives,
         UserPauses, UserResumes, DatabaseLoads, Enumerate, WriteDraft, WriteMark, TakeIntent
  <2> QED
    BY <1>2, <2>1
<1>8. CASE Receipts
  <2>1. desktop' = desktop
    BY <1>8 DEF Receipts, ReceiveObservation, ReceiveDurable, ReceiveRefused, ReceiveParked,
         ReceiveParkFailed, ReceiveRestored, ReceiveRestoreFailed, ReceiveCapability,
         ReceiveTopology, ReceiveWake, Receive
  <2> QED
    BY <1>2, <2>1
<1>9. ~Process
  BY <1>1, ProcessLeaves
<1> QED
  BY <1>3, <1>4, <1>5, <1>6, <1>7, <1>8, <1>9 DEF PipelineNext

(* No window of one of the two workspaces comes back on the screen while a *)
(* window the switch has moved of the other is on it                       *)
(* (begin_switch_compensation, "never on the monitor at once"), neither on *)
(* the way forth nor when a failed switch is taken back.                   *)
THEOREM NeverBoth ==
    ASSUME SwitchesAlone
    PROVE  PipelineSpec => NeverMixed
<1> DEFINE Apart ==
             \A w \in Window :
                LET sw == engine.switch
                    home == engine.pool.member[w]
                IN  Running /\ SwitchOpen(engine)
                    /\ w \in AwayFromScreen /\ w \in Alive' /\ w \notin AwayFromScreen'
                    => /\ home = sw.target   => sw.parked \cap Alive \subseteq AwayFromScreen
                       /\ home = sw.outgoing => sw.restored \cap Alive \subseteq AwayFromScreen
<1>1. Inductive /\ Ledgered /\ Waited /\ [PipelineNext]_vars => Apart
  <2> SUFFICES ASSUME Inductive, Ledgered, Waited, [PipelineNext]_vars, NEW w \in Window,
                      Running, SwitchOpen(engine),
                      w \in AwayFromScreen, w \in Alive', w \notin AwayFromScreen'
               PROVE  LET sw == engine.switch
                          home == engine.pool.member[w]
                      IN  /\ home = sw.target   => sw.parked \cap Alive \subseteq AwayFromScreen
                          /\ home = sw.outgoing => sw.restored \cap Alive \subseteq AwayFromScreen
    OBVIOUS
  <2>1. PipelineNext
    <3>1. desktop' # desktop
      BY DEF AwayFromScreen, Alive
    <3> QED
      BY <3>1 DEF vars, outside
  <2>2. Orderly(engine, inbox, desktop)
    BY DEF Running, Waited
  <2>3. PICK m \in Items(engine.effects) : m.kind = "Restore" /\ m.window = w
    BY <2>1, ReturnIsRestore
  <2>4. desktop.life[w] # "Closed" /\ engine.switch.target # engine.switch.outgoing
    BY <2>2 DEF AwayFromScreen, Alive, Orderly, Sorted
  <2>5. CASE w \notin Returning(engine)
    <3>1. m \in Forth(engine)
      BY <2>3, <2>5 DEF Forth
    <3>2. engine.pool.member[w] = engine.switch.target
      BY <2>2, <2>3, <2>4, <3>1 DEF Orderly, Flying, Of
    <3>3. \A v \in engine.switch.parked : On(desktop, v, "Parked")
      BY <2>2, <3>1 DEF Orderly, Left
    <3> QED
      BY <2>4, <3>2, <3>3 DEF On, Alive, AwayFromScreen
  <2>6. CASE w \in Returning(engine)
    <3>1. engine.switch.phase = "CompensatingRestore" /\ w \in engine.switch.inFlight
      BY <2>6 DEF Returning
    <3>2. w \in engine.switch.parked /\ engine.switch.restored = {}
      BY <2>2, <3>1 DEF Orderly, Sorted
    <3>3. engine.pool.member[w] = engine.switch.outgoing
      BY <2>2, <2>4, <3>2 DEF Orderly, Left, Of
    <3> QED
      BY <2>4, <3>2, <3>3
  <2> QED
    BY <2>5, <2>6
<1>2. [][Apart]_vars => NeverMixed
  BY PTL DEF NeverMixed
<1>. HIDE DEF Apart
<1> QED
  BY <1>1, <1>2, LedgeredAlways, WaitedAlways, PTL DEF PipelineSpec
=============================================================================

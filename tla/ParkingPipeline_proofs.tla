----------------------- MODULE ParkingPipeline_proofs -----------------------
(***************************************************************************)
(* The reducer inside the running agent: what SwitchEngine_proofs shows of *)
(* it alone survives the threads around it, crashes and restarts included, *)
(* for every number of windows, workspaces and displays and every budget.  *)
(***************************************************************************)
EXTENDS ParkingPipeline, SwitchEngine_proofs

(* What the other threads keep. *)
Agent == [stage : Stage, session : Nat, plan : SUBSET L!Entry,
          failed : SUBSET L!Entry, cut : BOOLEAN, backlog : Nat, loaded : BOOLEAN]

OutsideTyped ==
    /\ desktop \in Desktop
    /\ inbox \in Seq(Message)
    /\ ledger \in SUBSET L!Entry /\ lastEntry \in Nat
    /\ agent \in Agent
    /\ dirty \in BOOLEAN /\ budget \in 0..Budget

Inductive == Good(engine) /\ OutsideTyped

-----------------------------------------------------------------------------
(* Types of what the threads compute *)

(* RecoveryLedger::record, ::mark_parked, ::mark_restored, ::prune and     *)
(* plan_recovery return entries.                                           *)
LEMMA LedgerTypes ==
    ASSUME NEW entries \in SUBSET L!Entry, NEW id \in Nat, NEW session \in Nat, NEW live
    PROVE  /\ \A w \in Window : L!Recorded(entries, id, w, session) \in SUBSET L!Entry
           /\ L!MarkedParked(entries, id) \in SUBSET L!Entry
           /\ L!MarkedRestored(entries, id) \in SUBSET L!Entry
           /\ L!Pruned(entries, session) \in SUBSET L!Entry
           /\ L!VerifiedEntries(entries, live) \in SUBSET L!Entry
<1>1. ASSUME NEW w \in Window
      PROVE  L!Recorded(entries, id, w, session) \in SUBSET L!Entry
  <2>1. [id |-> id, window |-> w, session |-> session, parked |-> FALSE, restored |-> FALSE]
          \in L!Entry
    BY DEF L!Entry
  <2> QED
    BY <2>1 DEF L!Recorded
<1>2. ASSUME NEW e \in L!Entry
      PROVE  /\ [e EXCEPT !.parked = TRUE] \in L!Entry
             /\ [e EXCEPT !.restored = TRUE] \in L!Entry
  BY DEF L!Entry
<1>3. /\ L!MarkedParked(entries, id) \in SUBSET L!Entry
      /\ L!MarkedRestored(entries, id) \in SUBSET L!Entry
  BY <1>2 DEF L!MarkedParked, L!MarkedRestored
<1>4. /\ L!Pruned(entries, session) \in SUBSET L!Entry
      /\ L!VerifiedEntries(entries, live) \in SUBSET L!Entry
  BY DEF L!Pruned, L!VerifiedEntries, L!OpenEntries
<1> QED
  BY <1>1, <1>3, <1>4

(* An enumeration reports a life cycle the reducer knows. *)
LEMMA InventoryType ==
    ASSUME desktop \in Desktop
    PROVE  Inventory \in [Window -> Lifecycle]
BY DEF Inventory, Alive, Desktop, NativeLife, Lifecycle

(* Taking one item off the first batch of a queue leaves a queue. *)
LEMMA NextBatchType ==
    ASSUME NEW S, NEW queue \in Seq(SUBSET S), queue # << >>, NEW item
    PROVE  NextBatch(queue, item) \in Seq(SUBSET S)
<1> DEFINE rest == Head(queue) \ {item}
<1>1. Tail(queue) \in Seq(SUBSET S) /\ rest \in SUBSET S
  OBVIOUS
<1>2. NextBatch(queue, item) = IF Head(queue) = {item} THEN Tail(queue)
                               ELSE <<rest>> \o Tail(queue)
  BY DEF NextBatch
<1>. HIDE DEF rest
<1>3. <<rest>> \in Seq(SUBSET S)
  BY <1>1
<1>4. <<rest>> \o Tail(queue) \in Seq(SUBSET S)
  BY <1>1, <1>3
<1> QED
  BY <1>1, <1>2, <1>4

(* A message joins the channel. *)
LEMMA SendType ==
    ASSUME inbox \in Seq(Message), NEW message \in Message, Send(message)
    PROVE  inbox' \in Seq(Message)
BY DEF Send

(* Spending leaves the budget in its range. *)
LEMMA SpendType ==
    ASSUME budget \in 0..Budget, NEW kind, Spend(kind)
    PROVE  budget' \in 0..Budget
BY EnvironmentAssumption DEF Spend

(* A queue the executor or the bridge has read from is one the reducer may *)
(* find.                                                                   *)
LEMMA QueuesGood ==
    ASSUME Good(engine), NEW effects \in Seq(SUBSET Move), NEW intents \in Seq(SUBSET Intent),
           engine' = [engine EXCEPT !.effects = effects, !.intents = intents]
    PROVE  Good(engine')
BY ConsumedGood DEF Consumed

(* A new process starts from a good state. *)
LEMMA BootedGood ==
    ASSUME NEW cfg \in Configs, NEW displays \in SUBSET Display, NEW site \in BOOLEAN,
           NEW t \in Booted(cfg, displays, site)
    PROVE  Good(t)
<1>1. PICK s \in BootStates(cfg, displays) :
        t = [s EXCEPT !.site = IF site THEN "Verified" ELSE "Refused"]
  BY DEF Booted
<1>2. Good(s)
  BY BootGood
<1>3. s \in EngineState /\ DisplayedOnce(s.pool)
  BY <1>2 DEF Good, Consistent
<1>4. t \in EngineState /\ t.switch = s.switch /\ t.pending = s.pending /\ t.pool = s.pool
  BY <1>1, <1>3 DEF EngineState, Capability
<1> QED
  BY <1>2, <1>3, <1>4, FrameGood

-----------------------------------------------------------------------------
(* The steps of the threads *)

(* An event the reducer applies while the other threads keep their types. *)
LEMMA ReducerKeeps ==
    ASSUME Inductive, Next, OutsideTyped'
    PROVE  Inductive'
BY StepGood DEF Inductive

(* Requests, reloads, health and what the database holds.                  *)
LEMMA ArrivalsKeep ==
    ASSUME Inductive, Arrivals
    PROVE  Inductive'
<1>1. Next
  <2>1. CASE UserFocuses \/ UserMoves
    BY <2>1 DEF UserFocuses, UserMoves, Arrives, Next, Command
  <2>2. CASE UserCreates \/ UserDeletes
    BY <2>2 DEF UserCreates, UserDeletes, Arrives, Next, Command
  <2>3. CASE \/ UserParks \/ UserRestoresWindows \/ UserRestoresSwitch
             \/ UserPauses \/ UserResumes
    BY <2>3 DEF UserParks, UserRestoresWindows, UserRestoresSwitch, UserPauses, UserResumes,
                Arrives, Next, Command
  <2>4. CASE ConfigReloads \/ HealthChanges
    BY <2>4 DEF ConfigReloads, HealthChanges, Arrives, Next, Fact
  <2>5. CASE DatabaseLoads
    <3>1. PICK r \in Stored : WorkspacesLoaded(r.names, r.where)
      BY <2>5 DEF DatabaseLoads
    <3>2. r.names \in SUBSET Workspace /\ r.where \in [Workspace -> Display \cup {None}]
      BY StoredAssumption
    <3> QED
      BY <3>1, <3>2 DEF Next, Fact
  <2> QED
    BY <2>1, <2>2, <2>3, <2>4, <2>5 DEF Arrivals
<1>2. agent \in Agent /\ budget \in 0..Budget
  BY DEF Inductive, OutsideTyped
<1>3. UNCHANGED <<desktop, inbox, ledger, lastEntry, dirty>>
  BY DEF Arrivals, UserFocuses, UserMoves, UserCreates, UserDeletes, UserParks,
         UserRestoresWindows, UserRestoresSwitch, ConfigReloads, HealthChanges, Arrives,
         UserPauses, UserResumes, DatabaseLoads
<1>4. budget' \in 0..Budget
  BY <1>2, SpendType
     DEF Arrivals, UserFocuses, UserMoves, UserCreates, UserDeletes, UserParks,
         UserRestoresWindows, UserRestoresSwitch, ConfigReloads, HealthChanges, Arrives,
         UserPauses, UserResumes, DatabaseLoads
<1>5. agent' \in Agent
  <2>1. CASE UserPauses
    <3>1. PICK k \in 0..Len(engine.effects) : agent' = [agent EXCEPT !.backlog = k]
      BY <2>1 DEF UserPauses
    <3>2. k \in Nat
      OBVIOUS
    <3> QED
      BY <1>2, <3>1, <3>2 DEF Agent
  <2>2. CASE UserResumes
    BY <1>2, <2>2 DEF UserResumes, Agent
  <2>3. CASE DatabaseLoads
    BY <1>2, <2>3 DEF DatabaseLoads, Agent
  <2>4. CASE ~(UserPauses \/ UserResumes \/ DatabaseLoads)
    BY <1>2, <2>4
       DEF Arrivals, UserFocuses, UserMoves, UserCreates, UserDeletes, UserParks,
           UserRestoresWindows, UserRestoresSwitch, ConfigReloads, HealthChanges, Arrives
  <2> QED
    BY <2>1, <2>2, <2>3, <2>4
<1> QED
  BY <1>1, <1>3, <1>4, <1>5, ReducerKeeps DEF Inductive, OutsideTyped

(* What windows, displays and the refresher do.                            *)
LEMMA DesktopKeeps ==
    ASSUME Inductive, WindowChanges \/ DisplaysPlugged \/ MachineWakes \/ Enumerate
    PROVE  Inductive'
<1>1. /\ Good(engine) /\ desktop \in Desktop /\ inbox \in Seq(Message)
      /\ ledger \in SUBSET L!Entry /\ lastEntry \in Nat /\ agent \in Agent
      /\ dirty \in BOOLEAN /\ budget \in 0..Budget
  BY DEF Inductive, OutsideTyped
<1>2. CASE WindowChanges
  <2>1. PICK w \in Window, to \in NativeLife :
          /\ Spend(to)
          /\ desktop' = [desktop EXCEPT !.life[w] = to]
          /\ dirty' = TRUE
          /\ UNCHANGED <<engine, inbox, ledger, lastEntry, agent>>
    BY <1>2 DEF WindowChanges
  <2>2. desktop' \in Desktop
    BY <1>1, <2>1 DEF Desktop
  <2> QED
    BY <1>1, <2>1, <2>2, SpendType DEF Inductive, OutsideTyped
<1>3. CASE Enumerate
  <2>1. [event |-> "WindowsObserved", life |-> Inventory, seat |-> desktop.seat] \in Message
    BY <1>1, InventoryType DEF Message, Desktop
  <2>2. inbox' \in Seq(Message)
    BY <1>1, <1>3, <2>1, SendType DEF Enumerate
  <2> QED
    BY <1>1, <1>3, <2>2 DEF Enumerate, Inductive, OutsideTyped
<1>4. ASSUME NEW kind \in {"Plug", "Wake"}, DisplaysChange(kind)
      PROVE  Inductive'
  <2>1. PICK new \in (SUBSET Display) \ {{}}, site \in BOOLEAN :
          \E near \in new, seen \in BOOLEAN :
            /\ agent.stage = "Up"
            /\ Spend(kind)
            /\ kind = "Plug" => new # desktop.plugged /\ ~seen
            /\ desktop' = [desktop EXCEPT !.plugged = new, !.site = site,
                 !.seat = [w \in Window |-> IF desktop.seat[w] \in new THEN desktop.seat[w]
                                            ELSE near]]
            /\ dirty' = TRUE
            /\ inbox' = inbox \o
                 << [event |-> "ParkingCapabilityReported",
                     site |-> IF site THEN "Verified" ELSE "Refused"],
                    [event |-> kind, displays |-> new, nearest |-> near,
                     enumerated |-> seen, life |-> Inventory,
                     seat |-> [w \in Window |-> IF desktop.seat[w] \in new
                                                THEN desktop.seat[w] ELSE near]] >>
            /\ UNCHANGED <<engine, ledger, lastEntry, agent>>
    BY <1>4, Zenon DEF DisplaysChange
  <2>2. PICK near \in new, seen \in BOOLEAN :
            /\ Spend(kind)
            /\ desktop' = [desktop EXCEPT !.plugged = new, !.site = site,
                 !.seat = [w \in Window |-> IF desktop.seat[w] \in new THEN desktop.seat[w]
                                            ELSE near]]
            /\ dirty' = TRUE
            /\ inbox' = inbox \o
                 << [event |-> "ParkingCapabilityReported",
                     site |-> IF site THEN "Verified" ELSE "Refused"],
                    [event |-> kind, displays |-> new, nearest |-> near,
                     enumerated |-> seen, life |-> Inventory,
                     seat |-> [w \in Window |-> IF desktop.seat[w] \in new
                                                THEN desktop.seat[w] ELSE near]] >>
            /\ UNCHANGED <<engine, ledger, lastEntry, agent>>
    BY <2>1
  <2> DEFINE seat == [w \in Window |-> IF desktop.seat[w] \in new THEN desktop.seat[w] ELSE near]
             first == [event |-> "ParkingCapabilityReported",
                       site |-> IF site THEN "Verified" ELSE "Refused"]
             second == [event |-> kind, displays |-> new, nearest |-> near,
                        enumerated |-> seen, life |-> Inventory, seat |-> seat]
  <2>3. seat \in [Window -> Display]
    BY <1>1 DEF Desktop
  <2>4. /\ Spend(kind) /\ dirty' = TRUE
        /\ desktop' = [desktop EXCEPT !.plugged = new, !.site = site, !.seat = seat]
        /\ inbox' = inbox \o <<first, second>>
        /\ UNCHANGED <<engine, ledger, lastEntry, agent>>
    BY <2>2
  <2>. HIDE DEF seat
  <2>5. desktop' \in Desktop
    BY <1>1, <2>3, <2>4 DEF Desktop
  <2>6. first \in Message
    BY DEF Message, Capability
  <2>7. second \in Message
    BY <1>1, <2>3, InventoryType DEF Message
  <2>. HIDE DEF first, second
  <2>8. inbox' \in Seq(Message)
    <3>1. <<first, second>> \in Seq(Message)
      BY <2>6, <2>7
    <3> QED
      BY <1>1, <2>4, <3>1
  <2> QED
    BY <1>1, <2>4, <2>5, <2>8, SpendType DEF Inductive, OutsideTyped
<1> QED
  BY <1>2, <1>3, <1>4 DEF DisplaysPlugged, MachineWakes

(* The executor: a native move answers with an event, whether it landed,   *)
(* failed or could not be tried.                                           *)
LEMMA ExecuteKeeps ==
    ASSUME Inductive, ExecutePark \/ ExecuteRestore
    PROVE  Inductive'
<1>1. /\ Good(engine) /\ desktop \in Desktop /\ inbox \in Seq(Message)
      /\ ledger \in SUBSET L!Entry /\ lastEntry \in Nat /\ agent \in Agent
      /\ dirty \in BOOLEAN /\ budget \in 0..Budget
      /\ engine.effects \in Seq(SUBSET Move) /\ engine.intents \in Seq(SUBSET Intent)
      /\ engine \in EngineState
  BY FieldTypes DEF Inductive, OutsideTyped, Good, Consistent
<1> DEFINE Answers == {"WindowParked", "WindowParkFailed", "WindowRestored", "WindowRestoreFailed"}
<1>2. ASSUME NEW m, NEW event \in Answers, Execute(m, event)
      PROVE  /\ Good(engine') /\ inbox' \in Seq(Message) /\ agent' \in Agent
             /\ UNCHANGED <<ledger, lastEntry>>
  <2>1. engine.effects # << >> /\ m \in Head(engine.effects)
    BY <1>2 DEF Execute, ExecutorRuns
  <2>2. m \in Move
    BY <1>1, <2>1
  <2>3. Good(engine')
    <3> DEFINE left == NextBatch(engine.effects, m)
    <3>1. left \in Seq(SUBSET Move)
      BY <1>1, <2>1, NextBatchType
    <3>2. engine' = [engine EXCEPT !.effects = left, !.intents = engine.intents]
      BY <1>1, <1>2 DEF Execute, EngineState
    <3>. HIDE DEF left
    <3> QED
      BY <1>1, <3>1, <3>2, QueuesGood
  <2>4. [event |-> event, window |-> m.window, entry |-> m.entry] \in Message
    BY <2>2 DEF Message, Move
  <2>5. inbox' \in Seq(Message)
    BY <1>1, <1>2, <2>4, SendType DEF Execute
  <2>6. agent' \in Agent
    <3>1. CASE engine.paused /\ Head(engine.effects) = {m}
      <4>1. agent' = [agent EXCEPT !.backlog = @ - 1] /\ agent.backlog > 0
        BY <1>2, <3>1 DEF Execute, ExecutorRuns
      <4>2. agent.backlog - 1 \in Nat
        BY <1>1, <4>1 DEF Agent
      <4> QED
        BY <1>1, <4>1, <4>2 DEF Agent
    <3>2. CASE ~(engine.paused /\ Head(engine.effects) = {m})
      BY <1>1, <1>2, <3>2 DEF Execute
    <3> QED
      BY <3>1, <3>2
  <2> QED
    BY <1>2, <2>3, <2>5, <2>6 DEF Execute
<1>3. ASSUME NEW m, NEW event \in Answers, NEW place \in {"Screen", "Parked"},
             Lands(m, event, place)
      PROVE  Inductive'
  <2>1. desktop' \in Desktop /\ dirty' \in BOOLEAN /\ budget' = budget
    BY <1>1, <1>3 DEF Lands, Desktop
  <2>2. Execute(m, event)
    BY <1>3 DEF Lands
  <2> QED
    BY <1>1, <1>2, <2>1, <2>2 DEF Inductive, OutsideTyped
<1>4. ASSUME NEW m, NEW event \in Answers, NEW kind, Fails(m, event, kind)
      PROVE  Inductive'
  <2>1. budget' \in 0..Budget
    BY <1>1, <1>4, SpendType DEF Fails
  <2>2. Execute(m, event) /\ UNCHANGED <<desktop, dirty>>
    BY <1>4 DEF Fails
  <2> QED
    BY <1>1, <1>2, <2>1, <2>2 DEF Inductive, OutsideTyped
<1> QED
  BY <1>3, <1>4 DEF ExecutePark, ExecuteRestore

(* The bridge and the worker.                                              *)
LEMMA WriteKeeps ==
    ASSUME Inductive, WriteDraft \/ WriteMark
    PROVE  Inductive'
<1>1. /\ Good(engine) /\ desktop \in Desktop /\ inbox \in Seq(Message)
      /\ ledger \in SUBSET L!Entry /\ lastEntry \in Nat /\ agent \in Agent
      /\ dirty \in BOOLEAN /\ budget \in 0..Budget
      /\ engine.effects \in Seq(SUBSET Move) /\ engine.intents \in Seq(SUBSET Intent)
      /\ engine \in EngineState
  BY FieldTypes DEF Inductive, OutsideTyped, Good, Consistent
<1>2. ASSUME NEW i, TakeIntent(i)
      PROVE  Good(engine') /\ i \in Intent /\ UNCHANGED <<desktop, agent, dirty>>
  <2>1. engine.intents # << >> /\ i \in Head(engine.intents)
    BY <1>2 DEF TakeIntent
  <2> DEFINE left == NextBatch(engine.intents, i)
  <2>2. left \in Seq(SUBSET Intent)
    BY <1>1, <2>1, NextBatchType
  <2>3. engine' = [engine EXCEPT !.effects = engine.effects, !.intents = left]
    BY <1>1, <1>2 DEF TakeIntent, EngineState
  <2>4. i \in Intent
    BY <1>1, <2>1
  <2>. HIDE DEF left
  <2> QED
    BY <1>1, <1>2, <2>2, <2>3, <2>4, QueuesGood DEF TakeIntent
<1>3. ASSUME NEW i \in Intent, NEW event \in {"RecoveryEntryDurable", "RecoveryEntryRefused"},
             NEW entry \in Nat, Acknowledge(i, event, entry)
      PROVE  inbox' \in Seq(Message)
  <2>1. [event |-> event, window |-> i.window, batch |-> i.number, entry |-> entry] \in Message
    BY DEF Message, Intent
  <2> QED
    BY <1>1, <1>3, <2>1, SendType DEF Acknowledge
<1>4. CASE WriteDraft
  <2>1. PICK i :
          /\ TakeIntent(i)
          /\ \/ /\ lastEntry' = lastEntry + 1
                /\ ledger' = L!Recorded(ledger, lastEntry', i.window, agent.session)
                /\ Acknowledge(i, "RecoveryEntryDurable", lastEntry')
                /\ UNCHANGED budget
             \/ /\ Spend("Refuse")
                /\ Acknowledge(i, "RecoveryEntryRefused", 0)
                /\ UNCHANGED <<ledger, lastEntry>>
    BY <1>4 DEF WriteDraft
  <2>2. Good(engine') /\ i \in Intent /\ UNCHANGED <<desktop, agent, dirty>>
    BY <1>2, <2>1
  <2>3. i.window \in Window /\ agent.session \in Nat
    BY <1>1, <2>2 DEF Intent, Agent
  <2>4. ledger' \in SUBSET L!Entry /\ lastEntry' \in Nat /\ budget' \in 0..Budget
    <3>1. lastEntry + 1 \in Nat
      BY <1>1
    <3>2. L!Recorded(ledger, lastEntry + 1, i.window, agent.session) \in SUBSET L!Entry
      BY <1>1, <2>3, <3>1, LedgerTypes
    <3>3. CASE lastEntry' = lastEntry + 1 /\ UNCHANGED budget
               /\ ledger' = L!Recorded(ledger, lastEntry', i.window, agent.session)
      BY <1>1, <3>1, <3>2, <3>3
    <3>4. CASE Spend("Refuse") /\ UNCHANGED <<ledger, lastEntry>>
      BY <1>1, <3>4, SpendType
    <3> QED
      BY <2>1, <3>3, <3>4
  <2>5. inbox' \in Seq(Message)
    BY <1>3, <2>1, <2>2, <2>4
  <2> QED
    BY <1>1, <2>2, <2>4, <2>5 DEF Inductive, OutsideTyped
<1>5. CASE WriteMark
  <2>1. PICK i :
          /\ TakeIntent(i)
          /\ \/ /\ ledger' = IF i.kind = "MarkParked" THEN L!MarkedParked(ledger, i.number)
                             ELSE L!MarkedRestored(ledger, i.number)
                /\ UNCHANGED budget
             \/ /\ Spend("MarkLost")
                /\ UNCHANGED ledger
          /\ UNCHANGED <<inbox, lastEntry>>
    BY <1>5 DEF WriteMark
  <2>2. Good(engine') /\ i \in Intent /\ UNCHANGED <<desktop, agent, dirty>>
    BY <1>2, <2>1
  <2>3. i.number \in Nat /\ agent.session \in Nat
    BY <1>1, <2>2 DEF Intent, Agent
  <2>4. ledger' \in SUBSET L!Entry /\ budget' \in 0..Budget
    BY <1>1, <2>1, <2>3, LedgerTypes, SpendType
  <2> QED
    BY <1>1, <2>1, <2>2, <2>4 DEF Inductive, OutsideTyped
<1> QED
  BY <1>4, <1>5

(* The reducer takes an event off the channel.                             *)
LEMMA ReceiptsKeep ==
    ASSUME Inductive, Receipts
    PROVE  Inductive'
<1>1. PICK event : Receive(event)
  BY DEF Receipts, ReceiveObservation, ReceiveDurable, ReceiveRefused, ReceiveParked,
         ReceiveParkFailed, ReceiveRestored, ReceiveRestoreFailed, ReceiveCapability,
         ReceiveTopology, ReceiveWake
<1> DEFINE m == Head(inbox)
<1>2. /\ m \in Message
      /\ OutsideTyped'
  <2>1. inbox \in Seq(Message) /\ inbox # << >>
    BY <1>1 DEF Inductive, OutsideTyped, Receive
  <2>2. m \in Message /\ Tail(inbox) \in Seq(Message)
    BY <2>1
  <2>. HIDE DEF m
  <2> QED
    BY <1>1, <2>2 DEF Inductive, OutsideTyped, Receive
<1>. HIDE DEF m
<1>3. Next \/ UNCHANGED engine
  <2>1. CASE ReceiveObservation
    <3>1. m.event = "WindowsObserved" /\ WindowsObserved(m.life, m.seat)
      BY <2>1 DEF ReceiveObservation, Receive, m
    <3>2. m.life \in [Window -> Lifecycle] /\ m.seat \in [Window -> Display]
      BY <1>2, <3>1 DEF Message
    <3> QED
      BY <3>1, <3>2 DEF Next, Fact
  <2>2. CASE ReceiveDurable \/ ReceiveRefused
    <3>1. /\ m.event \in {"RecoveryEntryDurable", "RecoveryEntryRefused"}
          /\ \/ RecoveryEntryDurable(m.batch, m.window, m.entry)
             \/ RecoveryEntryRefused(m.batch, m.window)
             \/ UnknownToken(m.batch, m.window)
      BY <2>2 DEF ReceiveDurable, ReceiveRefused, Receive, m
    <3>2. m.batch \in Nat /\ m.window \in Window /\ m.entry \in Nat
      BY <1>2, <3>1 DEF Message
    <3> QED
      BY <3>1, <3>2 DEF Next, Reply
  <2>3. CASE ReceiveParked \/ ReceiveParkFailed \/ ReceiveRestored \/ ReceiveRestoreFailed
    <3>1. /\ m.event \in {"WindowParked", "WindowParkFailed", "WindowRestored",
                          "WindowRestoreFailed"}
          /\ \/ WindowParked(m.window, m.entry) \/ WindowParkFailed(m.window)
             \/ WindowRestored(m.window) \/ WindowRestoreFailed(m.window)
      BY <2>3 DEF ReceiveParked, ReceiveParkFailed, ReceiveRestored, ReceiveRestoreFailed,
                  Receive, m
    <3>2. m.window \in Window /\ m.entry \in Nat
      BY <1>2, <3>1 DEF Message
    <3> QED
      BY <3>1, <3>2 DEF Next, Reply
  <2>4. CASE ReceiveCapability
    <3>1. m.event = "ParkingCapabilityReported" /\ ParkingCapabilityReported(m.site)
      BY <2>4 DEF ReceiveCapability, Receive, m
    <3>2. m.site \in Capability
      BY <1>2, <3>1 DEF Message
    <3> QED
      BY <3>1, <3>2 DEF Next, Fact
  <2>5. CASE ReceiveTopology \/ ReceiveWake
    <3>1. /\ m.event \in {"Plug", "Wake"}
          /\ \/ DisplayTopologyChanged(m.displays, m.nearest)
             \/ UNCHANGED engine
             \/ WakeReconciliation(m.displays, m.nearest, m.enumerated, m.life, m.seat)
      BY <2>5 DEF ReceiveTopology, ReceiveWake, Receive, m
    <3>2. /\ m.displays \in SUBSET Display /\ m.nearest \in Display /\ m.enumerated \in BOOLEAN
          /\ m.life \in [Window -> Lifecycle] /\ m.seat \in [Window -> Display]
      BY <1>2, <3>1 DEF Message
    <3> QED
      BY <3>1, <3>2 DEF Next, Fact
  <2> QED
    BY <2>1, <2>2, <2>3, <2>4, <2>5 DEF Receipts
<1>4. CASE Next
  BY <1>2, <1>4, ReducerKeeps
<1>5. CASE UNCHANGED engine
  BY <1>2, <1>5 DEF Inductive
<1> QED
  BY <1>3, <1>4, <1>5

(* A recovery pass begins with what it has verified, or with an error.     *)
LEMMA PlannedIs ==
    ASSUME ledger \in SUBSET L!Entry, NEW t \in Agent, NEW u \in Planned(t)
    PROVE  /\ u \in Agent /\ u.stage = t.stage /\ u.session = t.session /\ u.failed = t.failed
           /\ u.cut \/ u.plan = L!VerifiedEntries(ledger, Alive)
           /\ u.plan \subseteq L!VerifiedEntries(ledger, Alive)
<1> DEFINE planned == L!VerifiedEntries(ledger, Alive)
<1>1. planned \in SUBSET L!Entry
  BY LedgerTypes
<1>2. \/ u = [t EXCEPT !.plan = planned, !.cut = FALSE]
      \/ u = [t EXCEPT !.plan = {}, !.cut = TRUE]
  BY DEF Planned
<1>. HIDE DEF planned
<1>3. /\ u \in Agent /\ u.stage = t.stage /\ u.session = t.session /\ u.failed = t.failed
      /\ u.cut \/ u.plan = planned
      /\ u.plan \subseteq planned
  BY <1>1, <1>2 DEF Agent
<1> QED
  BY <1>3 DEF planned

LEMMA StartsIs ==
    ASSUME ledger \in SUBSET L!Entry, agent.session \in Nat, Starts
    PROVE  /\ agent' \in Agent /\ agent'.stage = "Recovering"
           /\ agent'.session = agent.session + 1 /\ agent'.failed = {}
           /\ agent'.cut \/ agent'.plan = L!VerifiedEntries(ledger, Alive)
           /\ agent'.plan \subseteq L!VerifiedEntries(ledger, Alive)
<1> DEFINE t == [stage |-> "Recovering", session |-> agent.session + 1, plan |-> {},
                 failed |-> {}, cut |-> FALSE, backlog |-> 0, loaded |-> FALSE]
<1>1. agent' \in Planned(t)
  BY DEF Starts
<1>2. /\ t \in Agent /\ t.stage = "Recovering" /\ t.session = agent.session + 1
      /\ t.failed = {}
  BY DEF Agent, Stage
<1>. HIDE DEF t
<1> QED
  BY <1>1, <1>2, PlannedIs

LEMMA ExecutorStopsIs ==
    ASSUME ledger \in SUBSET L!Entry, agent \in Agent, ExecutorStops
    PROVE  /\ agent' \in Agent /\ agent'.stage = "Exiting" /\ agent'.session = agent.session
           /\ agent'.plan \subseteq L!VerifiedEntries(ledger, Alive)
<1> DEFINE t == [agent EXCEPT !.stage = "Exiting"]
<1>1. agent' \in Planned(t)
  BY DEF ExecutorStops
<1>2. t \in Agent /\ t.stage = "Exiting" /\ t.session = agent.session
  BY DEF Agent, Stage
<1>. HIDE DEF t
<1> QED
  BY <1>1, <1>2, PlannedIs

(* The life of the process: a new one starts from the ledger alone.        *)
LEMMA ProcessKeeps ==
    ASSUME Inductive, Process
    PROVE  Inductive'
<1>1. /\ Good(engine) /\ desktop \in Desktop /\ inbox \in Seq(Message)
      /\ ledger \in SUBSET L!Entry /\ lastEntry \in Nat /\ agent \in Agent
      /\ dirty \in BOOLEAN /\ budget \in 0..Budget
      /\ engine.effects \in Seq(SUBSET Move) /\ engine.config \in Configs
      /\ engine \in EngineState
  BY FieldTypes DEF Inductive, OutsideTyped, Good, Consistent
<1>2. /\ desktop.plugged \in SUBSET Display /\ desktop.site \in BOOLEAN
      /\ agent.session \in Nat /\ agent.plan \in SUBSET L!Entry /\ agent.failed \in SUBSET L!Entry
  BY <1>1 DEF Desktop, Agent
<1>3. CASE Crash \/ StartsAgain
  <2>1. Starts /\ budget' \in 0..Budget
    BY <1>1, <1>3, SpendType DEF Crash, StartsAgain
  <2>2. Good(engine')
    BY <1>1, <1>2, <2>1, BootedGood DEF Starts
  <2>3. agent' \in Agent
    BY <1>1, <1>2, <2>1, StartsIs
  <2> QED
    BY <1>1, <2>1, <2>2, <2>3 DEF Starts, Inductive, OutsideTyped
<1>4. CASE Quit
  <2>1. engine' = [engine EXCEPT !.effects = engine.effects, !.intents = << >>]
    BY <1>1, <1>4 DEF Quit, EngineState
  <2>2. Good(engine')
    <3>1. << >> \in Seq(SUBSET Intent)
      OBVIOUS
    <3> QED
      BY <1>1, <2>1, <3>1, QueuesGood
  <2>3. agent' \in Agent
    BY <1>1, <1>4 DEF Quit, Agent, Stage
  <2> QED
    BY <1>1, <1>4, <2>2, <2>3, SpendType DEF Quit, Inductive, OutsideTyped
<1>5. CASE ExecutorStops
  <2>1. agent' \in Agent
    BY <1>1, <1>5, ExecutorStopsIs
  <2> QED
    BY <1>1, <1>5, <2>1 DEF ExecutorStops, Inductive, OutsideTyped
<1>6. CASE RecoverWindow
  <2>1. PICK e \in agent.plan :
          /\ \/ /\ desktop' = [desktop EXCEPT !.place[e.window] = "Screen"]
                /\ dirty' = TRUE
                /\ UNCHANGED <<agent, budget>>
             \/ /\ Spend("RestoreFails")
                /\ agent' = [agent EXCEPT !.plan = @ \ {e}, !.failed = @ \cup {e}]
                /\ UNCHANGED <<desktop, dirty>>
          /\ UNCHANGED <<engine, inbox, ledger, lastEntry>>
    BY <1>6 DEF RecoverWindow
  <2>2. desktop' \in Desktop /\ dirty' \in BOOLEAN
    <3>1. [desktop EXCEPT !.place[e.window] = "Screen"] \in Desktop
      BY <1>1 DEF Desktop
    <3> QED
      BY <1>1, <2>1, <3>1
  <2>3. agent' \in Agent
    <3>1. agent.plan \ {e} \in SUBSET L!Entry /\ agent.failed \cup {e} \in SUBSET L!Entry
      BY <1>2
    <3>2. [agent EXCEPT !.plan = @ \ {e}, !.failed = @ \cup {e}] \in Agent
      BY <1>1, <3>1 DEF Agent
    <3> QED
      BY <1>1, <2>1, <3>2
  <2>4. budget' \in 0..Budget
    BY <1>1, <2>1, SpendType
  <2> QED
    BY <1>1, <2>1, <2>2, <2>3, <2>4 DEF Inductive, OutsideTyped
<1>7. CASE MarkRecovered
  <2>1. PICK e \in agent.plan :
          /\ \/ /\ ledger' = IF e.window \in Alive THEN L!MarkedRestored(ledger, e.id) ELSE ledger
                /\ agent' = [agent EXCEPT !.plan = @ \ {e}]
                /\ UNCHANGED budget
             \/ /\ Spend("MarkLost")
                /\ agent' = [agent EXCEPT !.plan = {}, !.cut = TRUE]
                /\ UNCHANGED ledger
          /\ UNCHANGED <<engine, desktop, inbox, lastEntry, dirty>>
    BY <1>7 DEF MarkRecovered
  <2>2. e.id \in Nat
    BY <1>2 DEF L!Entry
  <2>3. ledger' \in SUBSET L!Entry
    <3>1. L!MarkedRestored(ledger, e.id) \in SUBSET L!Entry
      BY <1>1, <2>2, LedgerTypes
    <3>2. ledger' = L!MarkedRestored(ledger, e.id) \/ ledger' = ledger
      BY <2>1
    <3> QED
      BY <1>1, <3>1, <3>2
  <2>4. agent' \in Agent
    BY <1>1, <2>1 DEF Agent
  <2>5. budget' \in 0..Budget
    BY <1>1, <2>1, SpendType
  <2> QED
    BY <1>1, <2>1, <2>3, <2>4, <2>5 DEF Inductive, OutsideTyped
<1>8. CASE RecoveryEnds
  <2>1. ledger' \in SUBSET L!Entry
    <3>1. L!Pruned(ledger, agent.session) \in SUBSET L!Entry
      BY <1>1, <1>2, LedgerTypes
    <3> QED
      BY <1>1, <1>8, <3>1 DEF RecoveryEnds
  <2>2. agent' \in Agent
    BY <1>1, <1>8 DEF RecoveryEnds, Agent, Stage
  <2>3. budget' \in 0..Budget
    BY <1>1, <1>8, SpendType DEF RecoveryEnds
  <2> QED
    BY <1>1, <1>8, <2>1, <2>2, <2>3 DEF RecoveryEnds, Inductive, OutsideTyped
<1> QED
  BY <1>3, <1>4, <1>5, <1>6, <1>7, <1>8 DEF Process

-----------------------------------------------------------------------------
(* The agent *)

(* It first starts on a desktop nobody has parked anything on.             *)
LEMMA StartsInductive ==
    ASSUME PipelineInit
    PROVE  Inductive
<1>1. PICK cfg \in Configs, start \in Start :
        /\ desktop = [life |-> [w \in Window |-> IF w \in start.open THEN "Normal"
                                                ELSE "Unopened"],
                      place |-> [w \in Window |-> "Screen"],
                      seat |-> start.seat, plugged |-> start.plugged, site |-> TRUE]
        /\ engine \in Booted(cfg, start.plugged, TRUE)
  BY DEF PipelineInit
<1>2. start.plugged \in SUBSET Display /\ start.seat \in [Window -> Display]
  BY StartAssumption
<1>3. Good(engine)
  BY <1>1, <1>2, BootedGood
<1>4. desktop \in Desktop
  BY <1>1, <1>2 DEF Desktop, NativeLife
<1>5. agent \in Agent
  BY DEF PipelineInit, Agent, Stage
<1>6. /\ inbox \in Seq(Message) /\ ledger \in SUBSET L!Entry /\ lastEntry \in Nat
      /\ dirty \in BOOLEAN /\ budget \in 0..Budget
  BY EnvironmentAssumption DEF PipelineInit
<1> QED
  BY <1>3, <1>4, <1>5, <1>6 DEF Inductive, OutsideTyped

(* Inductive holds of the whole agent, with its crashes, restarts, lost    *)
(* writes, late answers and overlapping requests.                          *)
THEOREM InductiveAlways == PipelineSpec => []Inductive
<1>1. PipelineInit => Inductive
  BY StartsInductive
<1>2. Inductive /\ [PipelineNext]_vars => Inductive'
  <2>1. ASSUME Inductive, PipelineNext
        PROVE  Inductive'
    BY <2>1, ArrivalsKeep, DesktopKeeps, ExecuteKeeps, WriteKeeps, ReceiptsKeep, ProcessKeeps
       DEF PipelineNext
  <2>2. ASSUME Inductive, UNCHANGED vars
        PROVE  Inductive'
    BY <2>2 DEF vars, outside, Inductive, OutsideTyped
  <2> QED
    BY <2>1, <2>2
<1> QED
  BY <1>1, <1>2, PTL DEF PipelineSpec

(* Every variable of the agent keeps its type: no answer, observation or   *)
(* restart ever hands the reducer a value it does not know.                *)
THEOREM TypeCorrect == PipelineSpec => []TypeOK
<1>1. Inductive => TypeOK
  BY DEF Inductive, OutsideTyped, Agent, Good, Consistent, TypeOK, EngineTypeOK
<1> QED
  BY <1>1, InductiveAlways, PTL

(* In the running agent, too, a switch waits for exactly the ledger writes *)
(* that are pending on its behalf (begin_switch_compensation and the arms  *)
(* RecoveryEntryDurable and RecoveryEntryRefused).                         *)
THEOREM SwitchWaitsForItsOwn == PipelineSpec => []RequestsMatchSwitch
<1>1. Inductive => RequestsMatchSwitch
  BY DEF Inductive, Good, Consistent, RequestsMatchSwitch
<1> QED
  BY <1>1, InductiveAlways, PTL

(* No window has two recovery entries being written at once, whoever asked *)
(* (request_recovery_entries behind parkable_window).                      *)
THEOREM RequestsAreSingle == PipelineSpec => []OneRequestPerWindow
<1>1. Inductive => OneRequestPerWindow
  BY DEF Inductive, Good, Consistent, OneRequestPerWindow
<1> QED
  BY <1>1, InductiveAlways, PTL

(* Compensation forgets no window it still has to undo, even when answers  *)
(* of earlier switches arrive during it (switch_window_settled).           *)
THEOREM CompensationRemembers == PipelineSpec => []CompensationOwes
<1>1. Inductive => CompensationOwes
  BY DEF Inductive, Good, CompensationOwes
<1> QED
  BY <1>1, InductiveAlways, PTL

(* No sequence of requests, topologies, wakes, reloads and restarts shows  *)
(* a workspace on two displays (the slots of WorkspacePool).               *)
THEOREM WorkspaceHasOneDisplay == PipelineSpec => []DisplayedAtMostOnce
<1>1. Inductive => DisplayedAtMostOnce
  BY DEF Inductive, Good, Consistent, DisplayedAtMostOnce
<1> QED
  BY <1>1, InductiveAlways, PTL

-----------------------------------------------------------------------------
(* Names and displays                                                      *)

(* What a deletion and a topology may not do to a switch that stays open.  *)
TargetSpared ==
    SwitchOpen(engine) /\ SwitchOpen(engine') => engine.switch.target \in Names(engine'.pool)
DisplayStays ==
    SwitchOpen(engine) /\ SwitchOpen(engine') => engine.switch.display \in engine'.displays

(* A new process.                                                          *)
LEMMA BootedTidy ==
    ASSUME NEW cfg, NEW displays, NEW site, NEW t \in Booted(cfg, displays, site)
    PROVE  /\ Placed(t) /\ Connected(t) /\ Untold(t) /\ ~SwitchOpen(t)
           /\ t.displays = displays
<1>1. PICK u \in BootStates(cfg, displays) :
        t = [u EXCEPT !.site = IF site THEN "Verified" ELSE "Refused"]
  BY DEF Booted
<1>2. /\ Placed(u) /\ Connected(u) /\ Untold(u) /\ ~SwitchOpen(u)
      /\ u.displays = displays /\ Fields(u)
  BY BootTidy
<1>3. /\ Fields(t) /\ t.pool = u.pool /\ t.remembered = u.remembered
      /\ t.displays = u.displays /\ t.switch = u.switch
  BY <1>1, <1>2 DEF Fields
<1>4. Tidies(u, t)
  BY <1>3, SameTidies
<1> QED
  BY <1>2, <1>3, <1>4 DEF Tidies, Preserves, SwitchOpen

(* No row of the database names the display of a workspace.                *)
NowhereStored == \A r \in Stored, n \in Workspace : r.where[n] = None

(* Only a deletion can spoil the names, only a topology the displays, and  *)
(* only what is stored tells where a workspace was.                        *)
LEMMA ArrivalsPreserve ==
    ASSUME Inductive, Arrivals
    PROVE  \/ Preserves(engine, engine')
           \/ \E n \in Workspace : UserDeletes /\ WorkspaceDeleteRequested(n)
           \/ /\ DatabaseLoads /\ ~NowhereStored
              /\ engine'.displays = engine.displays
              /\ Placed(engine) => Placed(engine')
              /\ Connected(engine) => Connected(engine')
<1>1. Good(engine)
  BY DEF Inductive
<1>2. CASE UserFocuses \/ UserMoves \/ UserCreates
  BY <1>1, <1>2, FocusPreserves, MovePreserves, CreatePreserves
     DEF UserFocuses, UserMoves, UserCreates, Arrives
<1>3. CASE UserDeletes
  BY <1>3 DEF UserDeletes, Arrives
<1>4. CASE \/ UserParks \/ UserRestoresWindows \/ UserRestoresSwitch
           \/ UserPauses \/ UserResumes \/ HealthChanges
  <2>1. \/ \E w \in Window : ParkingAuthorizationRequested(w)
        \/ RestoreParkedWindowsRequested \/ WorkspaceSwitchRestoreRequested
        \/ PauseRequested \/ ResumeRequested
        \/ \E h \in Health : PersistenceHealthChanged(h)
    BY <1>4 DEF UserParks, UserRestoresWindows, UserRestoresSwitch, UserPauses, UserResumes,
                HealthChanges, Arrives
  <2>2. Tidies(engine, engine')
    BY <1>1, <2>1, AsideTidies
  <2> QED
    BY <2>2 DEF Tidies
<1>5. CASE ConfigReloads
  BY <1>1, <1>5, ConfigPreserves DEF ConfigReloads, Arrives
<1>6. CASE DatabaseLoads
  <2>1. PICK r \in Stored : WorkspacesLoaded(r.names, r.where)
    BY <1>6 DEF DatabaseLoads
  <2>2. r.names \in SUBSET Workspace /\ r.where \in [Workspace -> Display \cup {None}]
    BY StoredAssumption
  <2>3. engine' \in LoadWorkspaces(engine, r.names, r.where)
    BY <2>1 DEF WorkspacesLoaded
  <2>4. /\ engine'.displays = engine.displays
        /\ Placed(engine) => Placed(engine')
        /\ Connected(engine) => Connected(engine')
        /\ (\A n \in Workspace : r.where[n] = None) => Tidies(engine, engine')
    BY <1>1, <2>2, <2>3, LoadKeeps
  <2> QED
    BY <1>6, <2>4 DEF Tidies, NowhereStored
<1> QED
  BY <1>2, <1>3, <1>4, <1>5, <1>6 DEF Arrivals

LEMMA ReceiptsPreserve ==
    ASSUME Inductive, Receipts
    PROVE  \/ Preserves(engine, engine')
           \/ /\ ReceiveTopology \/ ReceiveWake
              /\ Placed(engine) => Placed(engine')
              /\ Untold(engine) => Untold(engine')
              /\ Connected(engine) /\ DisplayStays => Connected(engine')
<1>1. PICK event : Receive(event)
  BY DEF Receipts, ReceiveObservation, ReceiveDurable, ReceiveRefused, ReceiveParked,
         ReceiveParkFailed, ReceiveRestored, ReceiveRestoreFailed, ReceiveCapability,
         ReceiveTopology, ReceiveWake
<1> DEFINE m == Head(inbox)
<1>2. m \in Message
  <2>1. inbox \in Seq(Message) /\ inbox # << >>
    BY <1>1 DEF Inductive, OutsideTyped, Receive
  <2> QED
    BY <2>1
<1>. HIDE DEF m
<1>3. Good(engine) /\ Fields(engine)
  BY StateFields DEF Inductive, Good, Consistent
<1>4. Preserves(engine, engine)
  BY <1>3, SameTidies DEF Tidies
<1>5. CASE ReceiveObservation
  <2>1. m.event = "WindowsObserved" /\ engine' = ReplaceInventory(engine, m.life, m.seat)
    BY <1>5 DEF ReceiveObservation, Receive, WindowsObserved, m
  <2>2. m.life \in [Window -> Lifecycle] /\ m.seat \in [Window -> Display]
    BY <1>2, <2>1 DEF Message
  <2> QED
    BY <1>3, <2>1, <2>2, InventoryTidies DEF Tidies
<1>6. CASE ReceiveDurable \/ ReceiveRefused
  <2>1. /\ m.event \in {"RecoveryEntryDurable", "RecoveryEntryRefused"}
        /\ \/ RecoveryEntryDurable(m.batch, m.window, m.entry)
           \/ RecoveryEntryRefused(m.batch, m.window)
           \/ UnknownToken(m.batch, m.window)
    BY <1>6 DEF ReceiveDurable, ReceiveRefused, Receive, m
  <2>2. m.batch \in Nat /\ m.window \in Window /\ m.entry \in Nat
    BY <1>2, <2>1 DEF Message
  <2> QED
    BY <1>3, <1>4, <2>1, <2>2, DurablePreserves, RefusedPreserves DEF UnknownToken
<1>7. CASE ReceiveParked \/ ReceiveParkFailed \/ ReceiveRestored \/ ReceiveRestoreFailed
  <2>1. /\ m.event \in {"WindowParked", "WindowParkFailed", "WindowRestored",
                        "WindowRestoreFailed"}
        /\ \/ WindowParked(m.window, m.entry) \/ WindowParkFailed(m.window)
           \/ WindowRestored(m.window) \/ WindowRestoreFailed(m.window)
    BY <1>7 DEF ReceiveParked, ReceiveParkFailed, ReceiveRestored, ReceiveRestoreFailed,
                Receive, m
  <2>2. m.window \in Window /\ m.entry \in Nat
    BY <1>2, <2>1 DEF Message
  <2> QED
    BY <1>3, <2>1, <2>2, AnswerPreserves
<1>8. CASE ReceiveCapability
  <2>1. m.event = "ParkingCapabilityReported" /\ ParkingCapabilityReported(m.site)
    BY <1>8 DEF ReceiveCapability, Receive, m
  <2>2. m.site \in Capability
    BY <1>2, <2>1 DEF Message
  <2>3. Tidies(engine, engine')
    BY <1>3, <2>1, <2>2, AsideTidies
  <2> QED
    BY <2>3 DEF Tidies
<1>9. CASE ReceiveTopology \/ ReceiveWake
  <2>1. /\ m.event \in {"Plug", "Wake"}
        /\ \/ DisplayTopologyChanged(m.displays, m.nearest)
           \/ UNCHANGED engine
           \/ WakeReconciliation(m.displays, m.nearest, m.enumerated, m.life, m.seat)
    BY <1>9 DEF ReceiveTopology, ReceiveWake, Receive, m
  <2>2. /\ m.displays \in SUBSET Display /\ m.nearest \in Display /\ m.enumerated \in BOOLEAN
        /\ m.life \in [Window -> Lifecycle] /\ m.seat \in [Window -> Display]
    BY <1>2, <2>1 DEF Message
  <2>3. CASE UNCHANGED engine
    BY <1>4, <2>3
  <2>4. CASE \/ DisplayTopologyChanged(m.displays, m.nearest)
             \/ WakeReconciliation(m.displays, m.nearest, m.enumerated, m.life, m.seat)
    <3>1. /\ engine'.switch = engine.switch /\ engine'.displays = m.displays
          /\ Placed(engine) => Placed(engine')
          /\ Untold(engine) => Untold(engine')
          /\ Connected(engine) /\ (SwitchOpen(engine) => engine.switch.display \in m.displays) =>
                Connected(engine')
      <4>1. CASE DisplayTopologyChanged(m.displays, m.nearest)
        BY <1>3, <2>2, <4>1, TopologyParts
      <4>2. CASE WakeReconciliation(m.displays, m.nearest, m.enumerated, m.life, m.seat)
        BY <1>3, <2>2, <4>2, WakeParts
      <4> QED
        BY <2>4, <4>1, <4>2
    <3>2. SwitchOpen(engine') <=> SwitchOpen(engine)
      BY <3>1 DEF SwitchOpen
    <3> QED
      BY <1>9, <3>1, <3>2 DEF DisplayStays
  <2> QED
    BY <2>1, <2>3, <2>4
<1> QED
  BY <1>5, <1>6, <1>7, <1>8, <1>9 DEF Receipts

(* The other threads take from the reducer's queues; a new process starts  *)
(* from the configuration and the displays that are there.                 *)
LEMMA OthersPreserve ==
    ASSUME Inductive,
           \/ WindowChanges \/ DisplaysPlugged \/ MachineWakes
           \/ Enumerate \/ ExecutePark \/ ExecuteRestore \/ WriteDraft \/ WriteMark
           \/ Process
    PROVE  \/ Preserves(engine, engine')
           \/ /\ agent'.stage = "Recovering"
              /\ Placed(engine') /\ Connected(engine') /\ Untold(engine')
<1>1. Good(engine) /\ Fields(engine)
  BY StateFields DEF Inductive, Good, Consistent
<1>2. Preserves(engine, engine)
  BY <1>1, SameTidies DEF Tidies
<1>3. ASSUME NEW effects, NEW intents,
             engine' = [engine EXCEPT !.effects = effects, !.intents = intents]
      PROVE  Preserves(engine, engine')
  BY <1>1, <1>3, AsideTidies DEF Tidies
<1>4. CASE WindowChanges \/ Enumerate
  BY <1>2, <1>4 DEF WindowChanges, Enumerate
<1>5. CASE DisplaysPlugged \/ MachineWakes
  <2>1. engine' = engine
    BY <1>5, Zenon DEF DisplaysPlugged, MachineWakes, DisplaysChange
  <2> QED
    BY <1>2, <2>1
<1>6. CASE ExecutePark \/ ExecuteRestore
  <2>1. PICK m, event : Execute(m, event)
    BY <1>6 DEF ExecutePark, ExecuteRestore, Lands, Fails
  <2>2. engine' = [engine EXCEPT !.effects = NextBatch(engine.effects, m), !.intents = engine.intents]
    BY <1>1, <2>1 DEF Execute, Fields
  <2> QED
    BY <1>3, <2>2
<1>7. CASE WriteDraft \/ WriteMark
  <2>1. PICK i : TakeIntent(i)
    BY <1>7 DEF WriteDraft, WriteMark
  <2>2. engine' = [engine EXCEPT !.effects = engine.effects, !.intents = NextBatch(engine.intents, i)]
    BY <1>1, <2>1 DEF TakeIntent, Fields
  <2> QED
    BY <1>3, <2>2
<1>8. CASE Process
  <2>1. CASE Crash \/ StartsAgain
    <3>1. /\ engine' \in Booted(engine.config, desktop.plugged, desktop.site)
          /\ agent'.stage = "Recovering"
      BY <2>1 DEF Crash, StartsAgain, Starts, Planned
    <3> QED
      BY <3>1, BootedTidy
  <2>2. CASE Quit
    <3>1. engine' = [engine EXCEPT !.effects = engine.effects, !.intents = << >>]
      BY <1>1, <2>2 DEF Quit, Fields
    <3> QED
      BY <1>3, <3>1
  <2>3. CASE ExecutorStops \/ RecoverWindow \/ MarkRecovered \/ RecoveryEnds
    BY <1>2, <2>3 DEF ExecutorStops, RecoverWindow, MarkRecovered, RecoveryEnds
  <2> QED
    BY <1>8, <2>1, <2>2, <2>3 DEF Process
<1> QED
  BY <1>4, <1>5, <1>6, <1>7, <1>8

LEMMA StepPlaces ==
    ASSUME Inductive, PipelineNext, Placed(engine), UserDeletes => TargetSpared
    PROVE  Placed(engine')
<1>1. CASE Arrivals
  <2>1. Good(engine)
    BY DEF Inductive
  <2> QED
    BY <1>1, <2>1, ArrivalsPreserve, DeleteParts DEF Preserves, TargetSpared
<1>2. CASE Receipts
  BY <1>2, ReceiptsPreserve DEF Preserves
<1> QED
  BY <1>1, <1>2, OthersPreserve DEF PipelineNext, Preserves

LEMMA StepConnects ==
    ASSUME Inductive, PipelineNext, Connected(engine),
           ReceiveTopology \/ ReceiveWake => DisplayStays
    PROVE  Connected(engine')
<1>1. CASE Arrivals
  <2>1. Good(engine)
    BY DEF Inductive
  <2> QED
    BY <1>1, <2>1, ArrivalsPreserve, DeleteParts DEF Preserves
<1>2. CASE Receipts
  BY <1>2, ReceiptsPreserve DEF Preserves
<1> QED
  BY <1>1, <1>2, OthersPreserve DEF PipelineNext, Preserves

LEMMA StartsTidy ==
    ASSUME PipelineInit
    PROVE  Placed(engine) /\ Connected(engine) /\ Untold(engine) /\ ~SwitchOpen(engine)
BY BootedTidy DEF PipelineInit

(* Unless a deletion takes the target of an open switch, the pool shows,   *)
(* and has members in, only workspaces that exist.                         *)
THEOREM PoolKeepsItsNames == PipelineSpec /\ [][TargetSpared]_vars => []PoolHoldsItsNames
<1>1. PipelineInit => Placed(engine)
  BY StartsTidy
<1>2. Inductive /\ Placed(engine) /\ [PipelineNext]_vars /\ [TargetSpared]_vars => Placed(engine)'
  BY StepPlaces DEF vars
<1>3. Placed(engine) => PoolHoldsItsNames
  BY DEF Placed, PoolHoldsItsNames
<1> QED
  BY <1>1, <1>2, <1>3, InductiveAlways, PTL DEF PipelineSpec

(* And whenever nobody deletes workspaces at all.                          *)
THEOREM PoolKeepsItsNamesUndeleted ==
    ASSUME "Delete" \notin Allowed
    PROVE  PipelineSpec => []PoolHoldsItsNames
<1>1. PipelineInit => Placed(engine)
  BY StartsTidy
<1>2. ~UserDeletes
  BY DEF UserDeletes, Arrives, Spend
<1>3. Inductive /\ Placed(engine) /\ [PipelineNext]_vars => Placed(engine)'
  BY <1>2, StepPlaces DEF vars
<1>4. Placed(engine) => PoolHoldsItsNames
  BY DEF Placed, PoolHoldsItsNames
<1> QED
  BY <1>1, <1>3, <1>4, InductiveAlways, PTL DEF PipelineSpec

(* Unless the display of an open switch goes away, only connected displays *)
(* show a workspace.                                                       *)
THEOREM ShownWhereConnected == PipelineSpec /\ [][DisplayStays]_vars => []DisplayedOnlyWhereConnected
<1>1. PipelineInit => Connected(engine)
  BY StartsTidy
<1>2. Inductive /\ Connected(engine) /\ [PipelineNext]_vars /\ [DisplayStays]_vars => Connected(engine)'
  BY StepConnects DEF vars
<1>3. Connected(engine) => DisplayedOnlyWhereConnected
  BY DEF Connected, DisplayedOnlyWhereConnected
<1> QED
  BY <1>1, <1>2, <1>3, InductiveAlways, PTL DEF PipelineSpec
-----------------------------------------------------------------------------
(* Displays that appear                                                    *)

(* fill_empty_displays, where nothing is remembered: an empty display gets *)
(* a workspace that is hidden and empty.                                   *)
LEMMA FillShows ==
    ASSUME NEW s, Fields(s), Untold(s), NEW t \in FillEmptyDisplays(s)
    PROVE  /\ t.config = s.config
           /\ \A d \in Display : \/ t.pool.displayed[d] = s.pool.displayed[d]
                                 \/ MembersOf(s.pool, t.pool.displayed[d]) = {}
<1>1. PICK fill \in Fills(s) :
        t = [s EXCEPT
               !.pool.displayed = [d \in Display |-> IF fill[d] = None THEN @[d] ELSE fill[d]],
               !.remembered = [n \in Workspace |-> IF \E d \in Display : fill[d] = n
                                                   THEN None ELSE @[n]]]
  BY DEF FillEmptyDisplays
<1>2. \A d \in Display : RememberedFor(s, d) = {}
  BY NoneAssumption DEF RememberedFor, Names, Untold
<1>3. \A d \in Display : fill[d] = None \/ MembersOf(s.pool, fill[d]) = {}
  BY <1>2 DEF Fills, HiddenAndEmpty
<1> DEFINE displayed == [d \in Display |-> IF fill[d] = None THEN s.pool.displayed[d] ELSE fill[d]]
           remembered == [n \in Workspace |-> IF \E d \in Display : fill[d] = n
                                              THEN None ELSE s.remembered[n]]
<1>4. t = [s EXCEPT !.pool.displayed = displayed, !.remembered = remembered]
  BY <1>1 DEF Fields
<1>. HIDE DEF remembered
<1>5. t.config = s.config /\ t.pool.displayed = displayed
  <2>. HIDE DEF displayed
  <2> QED
    BY <1>4 DEF Fields
<1> QED
  BY <1>3, <1>5

(* apply_switching_mapping shows what it showed, or what the profile names.*)
LEMMA MappingShows ==
    ASSUME NEW s, Fields(s), NEW d \in Display,
           ApplySwitchingMapping(s).pool.displayed[d] # None
    PROVE  ApplySwitchingMapping(s).pool.displayed[d] \in {s.pool.displayed[d], s.config.mapping[d]}
<1> DEFINE displayed == [e \in Display |->
                           IF e \in s.displays THEN s.config.mapping[e]
                           ELSE IF \E f \in s.displays : s.pool.displayed[e] = s.config.mapping[f] THEN None
                           ELSE s.pool.displayed[e]]
           t == ApplySwitchingMapping(s)
<1>1. t.pool.displayed \in {displayed, s.pool.displayed}
  <2> DEFINE asked == ProfileMatches(s) /\ s.config.experimental
             shows == [s EXCEPT !.unavailable = FALSE, !.pool.displayed = displayed]
             stays == [s EXCEPT !.unavailable = asked]
  <2>1. t \in {shows, stays}
    BY DEF ApplySwitchingMapping, Fields
  <2>. HIDE DEF t, displayed, asked
  <2>2. shows.pool.displayed = displayed
    BY DEF Fields
  <2>3. stays.pool = s.pool
    BY DEF Fields
  <2>. HIDE DEF shows, stays
  <2> QED
    BY <2>1, <2>2, <2>3
<1> QED
  BY <1>1

(* Windows that are assigned, parked, restored or listed anew change no    *)
(* display.                                                                *)
LEMMA WindowsShowNothing ==
    ASSUME NEW s, Fields(s)
    PROVE  /\ LET t == AssignUnassignedWindows(s) IN
              Fields(t) /\ t.displays = s.displays /\ t.pool.displayed = s.pool.displayed
           /\ LET t == ReconcileHiddenWorkspaceWindows(s) IN
              Fields(t) /\ t.displays = s.displays /\ t.pool.displayed = s.pool.displayed
           /\ \A life, seat : LET t == ReplaceInventory(s, life, seat) IN
              t.displays = s.displays /\ t.pool.displayed = s.pool.displayed
<1>1. ASSUME NEW u, Fields(u)
      PROVE  LET t == AssignUnassignedWindows(u) IN
             Fields(t) /\ t.displays = u.displays /\ t.pool.displayed = u.pool.displayed
  <2> DEFINE to == [w \in Window |-> IF w \in Managed(u) /\ u.pool.member[w] = None
                                     THEN u.pool.displayed[u.seat[w]] ELSE None]
  <2>1. AssignUnassignedWindows(u) = [u EXCEPT !.pool = Assign(@, to)]
    BY DEF AssignUnassignedWindows
  <2>. HIDE DEF to
  <2> QED
    BY <1>1, <2>1 DEF Fields, Assign
<1>2. ASSUME NEW u, Fields(u)
      PROVE  LET t == ReconcileHiddenWorkspaceWindows(u) IN
             Fields(t) /\ t.displays = u.displays /\ t.pool.displayed = u.pool.displayed
  <2> DEFINE toPark == {w \in Managed(u) : Hidden(u, w) /\ w \notin Parked(u) /\ Parkable(u, w)}
             asked == RequestRecoveryEntries(u, toPark, 0)
             moves == Push(asked.effects, RestoreMoves(u, {w \in Managed(u) : ~Hidden(u, w) /\ w \in Parked(u)}))
             v == [asked EXCEPT !.effects = moves]
  <2>1. ReconcileHiddenWorkspaceWindows(u) \in {u, v}
    BY DEF ReconcileHiddenWorkspaceWindows
  <2>. HIDE DEF moves, toPark
  <2>2. Fields(asked) /\ asked.pool = u.pool /\ asked.displays = u.displays
    BY <1>2 DEF Fields, RequestRecoveryEntries
  <2>. HIDE DEF asked
  <2>3. Fields(v) /\ v.pool = u.pool /\ v.displays = u.displays
    BY <2>2 DEF Fields
  <2> QED
    BY <1>2, <2>1, <2>3
<1>3. ASSUME NEW life, NEW seat
      PROVE  LET t == ReplaceInventory(s, life, seat) IN
             t.displays = s.displays /\ t.pool.displayed = s.pool.displayed
  <2> DEFINE seen == {w \in Window : life[w] # "Gone"}
             parked == [w \in Window |-> IF w \in seen THEN s.parked[w] ELSE 0]
             intents == Push(s.intents, {[kind |-> "MarkRestored", window |-> w, number |-> s.parked[w]]
                                          : w \in Parked(s) \ seen})
             to == [w \in Window |-> IF w \in seen \ Managed(s) /\ RuleTarget[w] \in Names(s.pool)
                                     THEN RuleTarget[w] ELSE None]
             pool == Assign(RetainMembers(s.pool, seen), to)
             t == [s EXCEPT !.life = life, !.seat = seat, !.parked = parked,
                            !.intents = intents, !.pool = pool]
  <2>1. ReplaceInventory(s, life, seat) = ReconcileHiddenWorkspaceWindows(AssignUnassignedWindows(t))
    BY DEF ReplaceInventory
  <2>2. pool.displayed = s.pool.displayed /\ DOMAIN pool = {"origin", "displayed", "member"}
    <3>. HIDE DEF to, seen
    <3> QED
      BY DEF Assign, RetainMembers, Fields
  <2>. HIDE DEF pool, parked, intents
  <2>3. Fields(t) /\ t.displays = s.displays /\ t.pool.displayed = s.pool.displayed
    BY <2>2 DEF Fields
  <2>. HIDE DEF t
  <2> QED
    BY <1>1, <1>2, <2>1, <2>3
<1> QED
  BY <1>1, <1>2, <1>3

(* What is on a display after the topology has changed, before and after   *)
(* the mapping is applied.                                                 *)
LEMMA TopologyShows ==
    ASSUME Fields(engine), Untold(engine), NEW new, NEW nearest,
           NEW f \in FillEmptyDisplays(SyncWorkspacesFromConfig(
                       LeaveVanishedDisplays(engine, new, nearest))),
           NEW d \in Display
    PROVE  LET t == ApplySwitchingMapping(f)
               n == t.pool.displayed[d]
           IN  /\ Fields(t)
               /\ n # None /\ ~IsDisplayed(engine.pool, n) =>
                    n = engine.config.mapping[d] \/ MembersOf(engine.pool, n) = {}
<1> DEFINE left == LeaveVanishedDisplays(engine, new, nearest)
           synced == SyncWorkspacesFromConfig(left)
           t == ApplySwitchingMapping(f)
           n == t.pool.displayed[d]
<1>1. /\ Fields(left) /\ Untold(left) /\ left.config = engine.config
      /\ left.pool.member = engine.pool.member
      /\ \A e \in Display : left.pool.displayed[e] \in {None, engine.pool.displayed[e]}
  <2>1. Fields(left) /\ Untold(left)
    BY LeaveParts
  <2> DEFINE seat == [w \in Window |-> IF w \in Managed(engine) /\ engine.seat[w] \in engine.displays \ new
                                       THEN nearest ELSE engine.seat[w]]
  <2>2. left = [engine EXCEPT !.seat = seat, !.pool = RetainDisplays(@, new), !.displays = new]
    BY DEF LeaveVanishedDisplays
  <2>. HIDE DEF seat
  <2>3. left.config = engine.config /\ left.pool = RetainDisplays(engine.pool, new)
    BY <2>2 DEF Fields
  <2>. HIDE DEF left
  <2> QED
    BY <2>1, <2>3 DEF RetainDisplays, Fields
<1>. HIDE DEF left
<1>2. /\ Fields(synced) /\ Untold(synced) /\ synced.config = left.config
      /\ synced.pool.member = left.pool.member /\ synced.pool.displayed = left.pool.displayed
  <2>1. Fields(synced) /\ Untold(synced)
    BY <1>1, SyncTidies DEF Tidies, Preserves
  <2> DEFINE origin == [m \in Workspace |-> IF m \in Declared(left) THEN "Configuration"
                                            ELSE IF m \in Names(left.pool) THEN "Command" ELSE "Absent"]
  <2>2. synced = [left EXCEPT !.pool.origin = origin]
    BY DEF SyncWorkspacesFromConfig
  <2>. HIDE DEF origin, synced
  <2> QED
    BY <1>1, <2>1, <2>2 DEF Fields
<1>3. f \in FillEmptyDisplays(synced)
  BY DEF left
<1>. HIDE DEF synced
<1>4. /\ Fields(f) /\ f.config = synced.config
      /\ \/ f.pool.displayed[d] = synced.pool.displayed[d]
         \/ MembersOf(synced.pool, f.pool.displayed[d]) = {}
  BY <1>2, <1>3, FillShows, FillTidies DEF Tidies, Preserves
<1>5. Fields(t) /\ (n # None => n \in {f.pool.displayed[d], f.config.mapping[d]})
  BY <1>4, MappingShows, MappingTidies DEF Tidies, Preserves
<1>. HIDE DEF t
<1>6. \A m : MembersOf(synced.pool, m) = MembersOf(engine.pool, m)
  BY <1>1, <1>2 DEF MembersOf
<1>7. n # None /\ ~IsDisplayed(engine.pool, n) =>
        n = engine.config.mapping[d] \/ MembersOf(engine.pool, n) = {}
  BY <1>1, <1>2, <1>4, <1>5, <1>6 DEF IsDisplayed
<1> QED
  BY <1>5, <1>7 DEF t

(* Outside a topology or a wake no display comes or goes, and only what is *)
(* stored is ever remembered.                                              *)
LEMMA StepForgets ==
    ASSUME Inductive, PipelineNext, Untold(engine), DatabaseLoads => NowhereStored
    PROVE  Untold(engine')
<1>1. Good(engine)
  BY DEF Inductive
<1>2. CASE Arrivals
  BY <1>1, <1>2, ArrivalsPreserve, DeleteParts DEF Preserves
<1>3. CASE Receipts
  BY <1>3, ReceiptsPreserve DEF Preserves
<1> QED
  BY <1>2, <1>3, OthersPreserve DEF PipelineNext, Preserves

LEMMA StepKeepsDisplays ==
    ASSUME Inductive, PipelineNext, Running, engine'.displays # engine.displays
    PROVE  ReceiveTopology \/ ReceiveWake
<1>1. Good(engine)
  BY DEF Inductive
<1>2. CASE Arrivals
  BY <1>1, <1>2, ArrivalsPreserve, DeleteParts DEF Preserves
<1>3. CASE Receipts
  BY <1>3, ReceiptsPreserve DEF Preserves
<1> QED
  BY <1>2, <1>3, OthersPreserve DEF PipelineNext, Preserves, Running

(* Where no stored row names the display of a workspace, a display that    *)
(* appears reveals no hidden workspace that has windows, unless the        *)
(* profile names it (fill_empty_displays), whatever was asked for before.  *)
THEOREM AppearingRevealsNothing ==
    ASSUME "Load" \notin Allowed \/ NowhereStored
    PROVE  PipelineSpec => ConnectRevealsNothing
<1> DEFINE Reveals ==
             Running /\ engine.displays # engine'.displays =>
               \A d \in Display :
                 LET n == engine'.pool.displayed[d] IN
                 n # None /\ ~IsDisplayed(engine.pool, n) =>
                   n = engine.config.mapping[d] \/ MembersOf(engine.pool, n) = {}
<1>1. PipelineInit => Untold(engine)
  BY StartsTidy
<1>2. Inductive /\ Untold(engine) /\ [PipelineNext]_vars => Untold(engine)'
  <2>1. DatabaseLoads => NowhereStored
    BY DEF DatabaseLoads, Spend
  <2> QED
    BY <2>1, StepForgets DEF vars
<1>3. Inductive /\ Untold(engine) /\ [PipelineNext]_vars => Reveals
  <2> SUFFICES ASSUME Inductive, Untold(engine), [PipelineNext]_vars,
                      Running, engine.displays # engine'.displays, NEW d \in Display
               PROVE  LET n == engine'.pool.displayed[d] IN
                      n # None /\ ~IsDisplayed(engine.pool, n) =>
                        n = engine.config.mapping[d] \/ MembersOf(engine.pool, n) = {}
    OBVIOUS
  <2>1. Fields(engine)
    BY StateFields DEF Inductive, Good, Consistent
  <2>2. ReceiveTopology \/ ReceiveWake
    BY StepKeepsDisplays DEF vars
  <2> DEFINE m == Head(inbox)
             filled == FillEmptyDisplays(SyncWorkspacesFromConfig(
                         LeaveVanishedDisplays(engine, m.displays, m.nearest)))
  <2>3. PICK f \in filled : engine'.pool.displayed = ApplySwitchingMapping(f).pool.displayed
    <3>1. CASE ReceiveTopology
      <4>1. engine' \in Resettle(LeaveVanishedDisplays(engine, m.displays, m.nearest))
        BY <3>1 DEF ReceiveTopology, DisplayTopologyChanged
      <4>2. PICK f \in filled :
              engine' = ReconcileHiddenWorkspaceWindows(
                          AssignUnassignedWindows(ApplySwitchingMapping(f)))
        BY <4>1 DEF Resettle
      <4>3. Fields(ApplySwitchingMapping(f))
        BY <2>1, TopologyShows
      <4>. HIDE DEF filled, m
      <4> QED
        BY <4>2, <4>3, WindowsShowNothing
    <3>2. CASE ReceiveWake
      <4>1. WakeReconciliation(m.displays, m.nearest, m.enumerated, m.life, m.seat)
        BY <3>2 DEF ReceiveWake
      <4>2. m.displays # engine.displays
        <5>1. CASE m.displays = engine.displays
          <6>1. engine' \in {engine, ReplaceInventory(engine, m.life, m.seat)}
            BY <4>1, <5>1 DEF WakeReconciliation
          <6> QED
            BY <2>1, <6>1, WindowsShowNothing
        <5> QED
          BY <5>1
      <4>3. PICK f \in filled :
              LET t == ApplySwitchingMapping(f) IN
              engine' = IF m.enumerated THEN ReplaceInventory(t, m.life, m.seat) ELSE t
        BY <4>1, <4>2 DEF WakeReconciliation
      <4>4. Fields(ApplySwitchingMapping(f))
        BY <2>1, TopologyShows
      <4>. HIDE DEF filled, m
      <4> QED
        BY <4>3, <4>4, WindowsShowNothing
    <3> QED
      BY <2>2, <3>1, <3>2
  <2> QED
    BY <2>1, <2>3, TopologyShows
<1> QED
  BY <1>1, <1>2, <1>3, InductiveAlways, PTL DEF PipelineSpec, ConnectRevealsNothing
=============================================================================

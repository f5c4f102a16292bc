------------------------- MODULE ControlPlane_proofs -------------------------
(***************************************************************************)
(* The running agent around its configuration directory: it is the         *)
(* directory of ConfigDirectory_proofs with the agent's own writers, so it *)
(* keeps that promise, and only what validates ever reaches the reducer.   *)
(* For every set of commands, combinations, names and clients and every    *)
(* scenario.                                                               *)
(***************************************************************************)
EXTENDS ControlPlane, ConfigDirectory_proofs, FiniteSetTheorems

ValidPair == {pair \in Pair : Valid(pair)}
Bound     == Tables(Commands, Combos)

EngineState  == [set : ValidPair, holds : Nat, suspended : BOOLEAN, unregistered : SUBSET Commands]
Event        == [kind : {"config"}, set : ValidPair] \cup [kind : {"started", "ended"}]
                    \cup [kind : {"report"}, commands : SUBSET Commands]
WatcherState == [touched : BOOLEAN, reading : BOOLEAN, base : Base \cup {Garbage}]
PollerState  == [hotkeys : Bound, suspended : BOOLEAN, busy : BOOLEAN, failed : BOOLEAN]
ClientState  == [alive : BOOLEAN, open : BOOLEAN, capturing : BOOLEAN,
                 link : {"up", "broken", "none"}, held : BOOLEAN]

ClientOK(client) ==
    /\ client \in ClientState
    /\ client.held => client.link = "up"
    /\ client.capturing => client.alive /\ client.open

(* The invariant: types, and that whatever waits in a queue validates. *)
ReducerInv ==
    /\ scenario \in Scenarios
    /\ agent \in {"running", "starting", "dead"}
    /\ engine \in EngineState /\ (engine.suspended <=> engine.holds > 0)
    /\ mail \in Seq(Event) /\ reports \in Seq(ValidPair)
    /\ watcher \in WatcherState
KeysInv ==
    /\ poller \in PollerState
    /\ registered \in Tables(Commands, Combos \ taken)
ClientsInv ==
    /\ clients \in [Clients -> ClientState] /\ \A c \in Clients : ClientOK(clients[c])
    /\ agent = "dead" => \A c \in Clients : clients[c].link # "up"
    /\ ending \subseteq Clients

ControlInv == DirectoryInv /\ ReducerInv /\ KeysInv /\ ClientsInv

LEMMA ImpliesTypeOK == ControlInv => TypeOK
  BY DEF ControlInv, ReducerInv, KeysInv, ClientsInv, TypeOK, DirectoryInv, EngineState, ValidPair,
         ClientOK, ClientState

(* What a configuration binds. *)
LEMMA RuntimeTyped ==
    ASSUME NEW set \in ValidPair
    PROVE  Runtime(set) \in Bound
<1>1. set \in Pair /\ Parses(set)
  BY DEF ValidPair, Valid
<1>2. Resolved(set).hotkeys \in Tables(Commands, Combos)
  BY <1>1, ResolvedTyped DEF Profile
<1>3. PICK D \in SUBSET Commands : Resolved(set).hotkeys \in [D -> Combos]
  BY <1>2 DEF Tables
<1>4. RuntimeCommands(Resolved(set)) \subseteq D
  BY <1>3 DEF RuntimeCommands
<1>5. RuntimeHotkeys(Resolved(set)) \in [RuntimeCommands(Resolved(set)) -> Combos]
  BY <1>3, <1>4 DEF RuntimeHotkeys
<1> QED
  BY <1>4, <1>5 DEF Runtime, Tables, Bound

LEMMA LoadedIsValid == ASSUME files \in Pair PROVE Loaded(files) \in ValidPair
<1>1. EmptyTable \in Tables(Names, Cells)
  BY EmptyTyped
<1>2. FallbackPair \in Pair
  BY <1>1, LayersAssumption DEF FallbackPair, Pair, Base
<1> QED
  BY <1>2, DefaultsAssumption DEF Loaded, ValidPair

LEMMA FreshTyped ==
    ASSUME NEW set \in ValidPair
    PROVE  FreshEngine(set) \in EngineState /\ (FreshEngine(set).suspended <=> FreshEngine(set).holds > 0)
<1>1. FreshEngine(set) \in EngineState
  BY DEF FreshEngine, EngineState
<1>2. FreshEngine(set).holds = 0 /\ FreshEngine(set).suspended = FALSE
  BY DEF FreshEngine
<1> QED
  BY <1>1, <1>2

LEMMA WantedTyped ==
    ASSUME engine \in EngineState
    PROVE  Wanted \in PollerState /\ Wanted.hotkeys \in Bound
<1>1. Runtime(engine.set) \in Bound /\ engine.suspended \in BOOLEAN
  BY RuntimeTyped DEF EngineState
<1> QED
  BY <1>1 DEF Wanted, PollerState

LEMMA EventsTyped ==
    /\ \A set \in ValidPair : Config(set) \in Event
    /\ Started \in Event /\ Ended \in Event
    /\ \A commands \in SUBSET Commands : Report(commands) \in Event
  BY DEF Config, Started, Ended, Report, Event

LEMMA EmptyTyping == EmptyTable \in Bound /\ \A combos : EmptyTable \in Tables(Commands, combos)
  BY EmptyTyped DEF Bound

(* Every step of the agent is a step of the directory, or leaves it alone. *)
LEMMA AskIsDirectory ==
    ASSUME ControlInv, NEW w \in Writers, NEW edit \in scenario.asks, ReadBase(w, edit)
    PROVE  DirectoryNext
<1>1. edit \in Edit
  BY ScenariosAssumption DEF ControlInv, ReducerInv
<1> QED
  BY <1>1 DEF DirectoryNext

LEMMA HandIsDirectory ==
    ASSUME ControlInv, HandEdit
    PROVE  DirectoryNext
<1>1. PICK hand \in scenario.hands : SaveByHand([files EXCEPT ![hand.file] = hand.content])
  BY DEF HandEdit
<1>2. hand \in Hand /\ files \in Pair
  BY ScenariosAssumption DEF ControlInv, ReducerInv, DirectoryInv, DirectoryTypeOK
<1>3. CASE hand.file = "base"
  <2>1. [files EXCEPT !.base = hand.content] \in Pair
    BY <1>2, <1>3 DEF Hand, Pair
  <2> QED
    BY <1>1, <1>3, <2>1 DEF DirectoryNext
<1>4. CASE hand.file = "profile"
  <2>1. [files EXCEPT !.profile = hand.content] \in Pair
    BY <1>2, <1>4 DEF Hand, Pair
  <2> QED
    BY <1>1, <1>4, <2>1 DEF DirectoryNext
<1> QED
  BY <1>2, <1>3, <1>4 DEF Hand

LEMMA DirectoryStep ==
    ASSUME ControlInv, [Next]_vars
    PROVE  [DirectoryNext]_directory
<1>1. Clients \subseteq Writers /\ Page \in Writers
  BY ClientsAssumption
<1>2. ASSUME NEW w \in Writers, ReadOn(w) \/ Write(w) \/ Answer(w) \/ Fail(w)
      PROVE  DirectoryNext
  BY <1>2 DEF ReadOn, Write, Answer, Fail, DirectoryNext
<1>3. CASE \/ Watch \/ Reload \/ Forward \/ Reduce \/ Poll \/ Register \/ RegistrationFails
           \/ StartWatching \/ OtherProgram \/ Restart
  BY <1>3 DEF Watch, Reload, Forward, Reduce, Poll, Register, RegistrationFails, StartWatching, OtherProgram, Restart
<1>4. ASSUME NEW c \in Clients, AskEdit(c)
      PROVE  DirectoryNext
  BY <1>1, <1>4, AskIsDirectory DEF AskEdit
<1>5. ASSUME NEW c \in Clients,
             Release(c) \/ OpenEditor(c) \/ CloseEditor(c) \/ Request(c) \/ HangUp(c) \/ Kill(c) \/ Launch(c)
      PROVE  UNCHANGED directory
  BY <1>5 DEF Release, OpenEditor, CloseEditor, Request, HangUp, Kill, Launch
<1>6. CASE SaveTiling
  BY <1>1, <1>6, AskIsDirectory DEF SaveTiling
<1>7. CASE HandEdit
  BY <1>7, HandIsDirectory
<1>8. CASE Crash
  BY <1>1, <1>8 DEF Crash, DirectoryNext
<1>9. CASE UNCHANGED vars
  BY <1>9 DEF vars
<1> QED
  BY <1>2, <1>3, <1>4, <1>5, <1>6, <1>7, <1>8, <1>9 DEF Next, Working

LEMMA DirectoryKept ==
    ASSUME ControlInv, [Next]_vars
    PROVE  DirectoryInv'
<1>1. DirectoryInv /\ [DirectoryNext]_directory
  BY DirectoryStep DEF ControlInv
<1> QED
  BY <1>1, StepKeeps

(* Parts an action does not touch. *)
LEMMA SameReducer ==
    ASSUME ReducerInv, UNCHANGED <<scenario, agent, engine, mail, reports, watcher>> PROVE ReducerInv'
  BY DEF ReducerInv
LEMMA SameKeys == ASSUME KeysInv, UNCHANGED keys PROVE KeysInv'
  BY DEF KeysInv, keys
LEMMA SameClients == ASSUME ClientsInv, UNCHANGED <<clients, ending, agent>> PROVE ClientsInv'
  BY DEF ClientsInv

(* The directory's writers. *)
LEMMA NoticedKeeps == ASSUME ReducerInv, Noticed, UNCHANGED <<wire, scenario>> PROVE ReducerInv'
<1>1. [watcher EXCEPT !.touched = TRUE] \in WatcherState
  BY Zenon DEF ReducerInv, WatcherState
<1>2. watcher' \in WatcherState
  BY <1>1 DEF Noticed, ReducerInv
<1> QED
  BY <1>2 DEF ReducerInv, Noticed, wire

LEMMA AnswerKeeps ==
    ASSUME ControlInv, NEW w \in Writers, Answer(w)
    PROVE  ReducerInv'
<1>1. edits[w] \in EditState /\ edits[w].phase = "written" /\ edits[w] # NoEdit
  BY DEF Answer, Confirm, ControlInv, DirectoryInv, DirectoryTypeOK
<1>2. Accepted(edits[w].seen, edits[w].edit)
  BY <1>1 DEF ControlInv, DirectoryInv, SeenIsCurrent, Sound
<1>3. Plan(w) \in ValidPair
  BY <1>1, <1>2, PlannedTyped DEF EditState, Plan, Accepted, ValidPair
<1>4. Config(Plan(w)) \in Event
  BY <1>3, EventsTyped
<1>5. mail \in Seq(Event) /\ mail' \in Seq(Event)
  BY <1>4 DEF Answer, ControlInv, ReducerInv
<1> QED
  BY <1>5 DEF Answer, ControlInv, ReducerInv, rest

LEMMA WritersKeep ==
    ASSUME ControlInv, NEW w \in Writers, ReadOn(w) \/ Write(w) \/ Answer(w) \/ Fail(w)
    PROVE  ReducerInv' /\ KeysInv' /\ ClientsInv'
<1>1. KeysInv' /\ ClientsInv'
  BY SameKeys, SameClients DEF ControlInv, ReadOn, Write, Answer, Fail, Noticed, edges, rest
<1>2. ASSUME ReadOn(w) \/ Fail(w)
      PROVE  ReducerInv'
  BY <1>2, SameReducer DEF ControlInv, ReadOn, Fail, wire, rest
<1>3. ASSUME Write(w)
      PROVE  ReducerInv'
  BY <1>3, NoticedKeeps DEF ControlInv, Write
<1>4. ASSUME Answer(w)
      PROVE  ReducerInv'
  BY <1>4, AnswerKeeps
<1> QED
  BY <1>1, <1>2, <1>3, <1>4

LEMMA PeopleKeep ==
    ASSUME ControlInv, SaveTiling \/ HandEdit \/ \E c \in Clients : AskEdit(c)
    PROVE  ReducerInv' /\ KeysInv' /\ ClientsInv'
<1>1. KeysInv' /\ ClientsInv'
  BY SameKeys, SameClients DEF ControlInv, SaveTiling, HandEdit, AskEdit, Noticed, edges, rest
<1>2. ASSUME SaveTiling \/ \E c \in Clients : AskEdit(c)
      PROVE  ReducerInv'
  BY <1>2, SameReducer DEF ControlInv, SaveTiling, AskEdit, wire, rest
<1>3. ASSUME HandEdit
      PROVE  ReducerInv'
  BY <1>3, NoticedKeeps DEF ControlInv, HandEdit
<1> QED
  BY <1>1, <1>2, <1>3

(* Watcher, forwarder, reducer. *)
LEMMA WatcherKeeps ==
    ASSUME ControlInv, Watch \/ Reload
    PROVE  ReducerInv' /\ KeysInv' /\ ClientsInv'
<1>1. files \in Pair /\ files.base \in Base \cup {Garbage} /\ files.profile \in Profile \cup {NoProfile, Garbage}
  BY DEF ControlInv, DirectoryInv, DirectoryTypeOK, Pair
<1>2. KeysInv' /\ ClientsInv'
  BY SameKeys, SameClients DEF ControlInv, Watch, Reload, edges
<1>3. ASSUME Watch
      PROVE  ReducerInv'
  <2>1. watcher' = [touched |-> FALSE, reading |-> TRUE, base |-> files.base]
    BY <1>3 DEF Watch
  <2>2. watcher' \in WatcherState
    BY <1>1, <2>1 DEF WatcherState
  <2> QED
    BY <1>3, <2>2 DEF Watch, ControlInv, ReducerInv, wire
<1>4. ASSUME Reload
      PROVE  ReducerInv'
  <2> DEFINE pair == [base |-> watcher.base, profile |-> files.profile]
  <2>1. watcher \in WatcherState /\ reports \in Seq(ValidPair)
    BY DEF ControlInv, ReducerInv
  <2>2. pair \in Pair
    BY <1>1, <2>1 DEF Pair, WatcherState
  <2>3. watcher' \in WatcherState
    BY <1>4, <2>1, Zenon DEF Reload, WatcherState
  <2>4. reports' = IF Valid(pair) THEN Append(reports, pair) ELSE reports
    BY <1>4 DEF Reload
  <2> HIDE DEF pair
  <2>5. Valid(pair) => Append(reports, pair) \in Seq(ValidPair)
    BY <2>1, <2>2 DEF ValidPair
  <2>6. reports' \in Seq(ValidPair)
    BY <2>1, <2>4, <2>5
  <2> QED
    BY <1>4, <2>3, <2>6 DEF Reload, ControlInv, ReducerInv, wire
<1> QED
  BY <1>2, <1>3, <1>4

LEMMA ForwardKeeps ==
    ASSUME ControlInv, Forward
    PROVE  ReducerInv' /\ KeysInv' /\ ClientsInv'
<1>1. KeysInv' /\ ClientsInv'
  BY SameKeys, SameClients DEF ControlInv, Forward, edges
<1>2. mail \in Seq(Event) /\ reports \in Seq(ValidPair) /\ reports # <<>>
  BY DEF ControlInv, ReducerInv, Forward
<1>3. Head(reports) \in ValidPair /\ reports' \in Seq(ValidPair)
  BY <1>2 DEF Forward
<1>4. Config(Head(reports)) \in Event
  BY <1>3, EventsTyped
<1>5. mail' \in Seq(Event)
  BY <1>2, <1>4 DEF Forward
<1>6. ReducerInv'
  BY <1>3, <1>5 DEF Forward, ControlInv, ReducerInv
<1> QED
  BY <1>1, <1>6

LEMMA ReducedTyped ==
    ASSUME NEW state \in EngineState, state.suspended <=> state.holds > 0, NEW event \in Event
    PROVE  /\ Reduced(state, event) \in EngineState
           /\ Reduced(state, event).suspended <=> Reduced(state, event).holds > 0
<1>1. state.holds \in Nat
  BY DEF EngineState
<1>2. CASE event.kind = "config"
  <2>1. event.set \in ValidPair
    BY <1>2 DEF Event
  <2>2. Reduced(state, event) = [state EXCEPT !.set = event.set]
    BY <1>2 DEF Reduced
  <2> QED
    BY <2>1, <2>2 DEF EngineState
<1>3. CASE event.kind = "started"
  <2>1. Reduced(state, event) = [state EXCEPT !.holds = state.holds + 1, !.suspended = TRUE]
    BY <1>3 DEF Reduced, HotkeyCaptureStarted
  <2>2. state.holds + 1 \in Nat /\ state.holds + 1 > 0
    BY <1>1
  <2>3. Reduced(state, event) \in EngineState
    BY <2>1, <2>2, Zenon DEF EngineState
  <2>4. Reduced(state, event).holds = state.holds + 1 /\ Reduced(state, event).suspended = TRUE
    BY <2>1, Zenon DEF EngineState
  <2> QED
    BY <2>2, <2>3, <2>4
<1>4. CASE event.kind = "ended"
  <2>1. CASE state.holds = 0
    BY <1>4, <2>1 DEF Reduced, HotkeyCaptureEnded
  <2>2. CASE state.holds # 0
    <3> DEFINE more == state.holds > 1
    <3>1. more \in BOOLEAN
      OBVIOUS
    <3>2. Reduced(state, event) = [state EXCEPT !.holds = state.holds - 1, !.suspended = more]
      BY <1>4, <2>2 DEF Reduced, HotkeyCaptureEnded
    <3>3. state.holds - 1 \in Nat /\ (state.holds - 1 > 0 <=> more)
      BY <1>1, <2>2
    <3> HIDE DEF more
    <3>4. Reduced(state, event) \in EngineState
      BY <3>1, <3>2, <3>3, Zenon DEF EngineState
    <3>5. Reduced(state, event).holds = state.holds - 1 /\ Reduced(state, event).suspended = more
      BY <3>2, Zenon DEF EngineState
    <3> QED
      BY <3>3, <3>4, <3>5
  <2> QED
    BY <2>1, <2>2
<1>5. CASE event.kind = "report"
  <2>1. event.commands \in SUBSET Commands
    BY <1>5 DEF Event
  <2>2. Reduced(state, event) = [state EXCEPT !.unregistered = event.commands]
    BY <1>5 DEF Reduced
  <2> QED
    BY <2>1, <2>2 DEF EngineState
<1> QED
  BY <1>2, <1>3, <1>4, <1>5 DEF Event

LEMMA ReduceKeeps ==
    ASSUME ControlInv, Reduce
    PROVE  ReducerInv' /\ KeysInv' /\ ClientsInv'
<1>1. KeysInv' /\ ClientsInv'
  BY SameKeys, SameClients DEF ControlInv, Reduce, edges, rest
<1>2. mail \in Seq(Event) /\ mail # <<>> /\ engine \in EngineState /\ (engine.suspended <=> engine.holds > 0)
  BY DEF ControlInv, ReducerInv, Reduce
<1>3. Head(mail) \in Event /\ mail' \in Seq(Event)
  BY <1>2 DEF Reduce
<1>4. engine' \in EngineState /\ (engine'.suspended <=> engine'.holds > 0)
  BY <1>2, <1>3, ReducedTyped DEF Reduce
<1>5. ReducerInv'
  BY <1>3, <1>4 DEF Reduce, ControlInv, ReducerInv, rest
<1> QED
  BY <1>1, <1>5

(* The rebind poller, and other programs. *)
LEMMA FreeTyped ==
    ASSUME NEW table \in Bound
    PROVE  /\ Registration(table) \in Tables(Commands, Combos \ taken)
           /\ DOMAIN Registration(table) = Free(table) /\ Free(table) \subseteq Keyed(table)
           /\ \A c \in Free(table) : Registration(table)[c] = table[c]
           /\ Keyed(table) \ Free(table) \in SUBSET Commands
<1>1. PICK D \in SUBSET Commands : table \in [D -> Combos]
  BY DEF Bound, Tables
<1>2. Free(table) \in SUBSET Commands /\ Keyed(table) \in SUBSET Commands /\ Free(table) \subseteq Keyed(table)
  BY <1>1 DEF Free, Keyed
<1>3. Registration(table) \in [Free(table) -> Combos \ taken]
  BY <1>1 DEF Registration, Free, Keyed
<1>4. Registration(table) \in Tables(Commands, Combos \ taken)
  BY <1>2, <1>3 DEF Tables
<1> QED
  BY <1>2, <1>4 DEF Registration

LEMMA PollerKeeps ==
    ASSUME ControlInv, Poll \/ Register \/ RegistrationFails \/ StartWatching
    PROVE  ReducerInv' /\ KeysInv' /\ ClientsInv'
<1>1. ClientsInv'
  <2>1. CASE Poll \/ Register \/ RegistrationFails
    BY <2>1, SameClients DEF ControlInv, Poll, Register, RegistrationFails, edges, rest
  <2>2. CASE StartWatching
    BY <2>2 DEF ControlInv, ClientsInv, StartWatching, edges
  <2> QED
    BY <2>1, <2>2
<1>2. engine \in EngineState /\ poller \in PollerState /\ mail \in Seq(Event)
  BY DEF ControlInv, ReducerInv, KeysInv
<1>3. Wanted \in PollerState
  BY <1>2, WantedTyped
<1>4. ASSUME Poll
      PROVE  ReducerInv' /\ KeysInv'
  <2>1. registered' \in Tables(Commands, Combos \ taken')
    BY <1>4, EmptyTyping DEF Poll
  <2>2. KeysInv'
    BY <1>3, <1>4, <2>1 DEF Poll, KeysInv
  <2> QED
    BY <1>4, <2>2, SameReducer DEF Poll, ControlInv, wire, rest
<1>5. ASSUME Register
      PROVE  ReducerInv' /\ KeysInv'
  <2>1. poller' \in PollerState
    BY <1>2, <1>5, Zenon DEF Register, PollerState
  <2>2. poller.hotkeys \in Bound
    BY <1>2 DEF PollerState
  <2>3. registered' \in Tables(Commands, Combos \ taken)
    BY <1>5, <2>2, FreeTyped DEF Register, ControlInv, KeysInv
  <2>4. mail' \in Seq(Event)
    <3>1. Report(Keyed(poller.hotkeys) \ Free(poller.hotkeys)) \in Event
      BY <2>2, FreeTyped, EventsTyped
    <3> QED
      BY <1>2, <1>5, <3>1 DEF Register
  <2> QED
    BY <1>5, <2>1, <2>3, <2>4 DEF Register, ControlInv, ReducerInv, KeysInv, rest
<1>6. ASSUME StartWatching
      PROVE  ReducerInv' /\ KeysInv'
  <2>1. poller' \in PollerState
    BY <1>3, <1>6, Zenon DEF StartWatching, PollerState
  <2> QED
    BY <1>6, <2>1 DEF StartWatching, ControlInv, ReducerInv, KeysInv, wire
<1>7. ASSUME RegistrationFails
      PROVE  ReducerInv' /\ KeysInv'
  <2>1. poller' \in PollerState
    BY <1>2, <1>7, Zenon DEF RegistrationFails, PollerState
  <2>2. KeysInv'
    BY <1>7, <2>1 DEF RegistrationFails, ControlInv, KeysInv
  <2> QED
    BY <1>7, <2>2, SameReducer DEF RegistrationFails, ControlInv, wire, rest
<1> QED
  BY <1>1, <1>4, <1>5, <1>6, <1>7

LEMMA OtherProgramKeeps ==
    ASSUME ControlInv, OtherProgram
    PROVE  ReducerInv' /\ KeysInv' /\ ClientsInv'
<1>1. ReducerInv' /\ ClientsInv'
  BY SameReducer, SameClients DEF ControlInv, OtherProgram, edges, wire, rest
<1>2. PICK D \in SUBSET Commands : registered \in [D -> Combos \ taken]
  BY DEF ControlInv, KeysInv, Tables
<1>3. registered \in [D -> Combos \ taken']
  BY <1>2 DEF OtherProgram
<1> QED
  BY <1>1, <1>3 DEF OtherProgram, ControlInv, KeysInv, Tables

(* The settings applications. *)
LEMMA ClientMoves ==
    ASSUME NEW client, ClientOK(client)
    PROVE  /\ ~client.held =>
                /\ ClientOK([client EXCEPT !.open = TRUE, !.link = "none"])
                /\ ClientOK([client EXCEPT !.open = FALSE, !.capturing = FALSE, !.link = "none"])
                /\ ClientOK([client EXCEPT !.link = "none"])
           /\ ClientOK([client EXCEPT !.link = "up", !.held = client.capturing])
           /\ ClientOK([client EXCEPT !.link = "broken", !.held = FALSE])
           /\ ~client.capturing =>
                /\ ClientOK([client EXCEPT !.alive = TRUE, !.link = "up"])
                /\ ~client.held => ClientOK([client EXCEPT !.alive = TRUE, !.link = "none"])
           /\ ClientOK([client EXCEPT !.held = FALSE])
<1>1. /\ ~client.held =>
           /\ ClientOK([client EXCEPT !.open = TRUE, !.link = "none"])
           /\ ClientOK([client EXCEPT !.open = FALSE, !.capturing = FALSE, !.link = "none"])
           /\ ClientOK([client EXCEPT !.link = "none"])
  BY Zenon DEF ClientOK, ClientState
<1>2. /\ ClientOK([client EXCEPT !.link = "up", !.held = client.capturing])
      /\ ClientOK([client EXCEPT !.link = "broken", !.held = FALSE])
      /\ ClientOK([client EXCEPT !.held = FALSE])
  BY Zenon DEF ClientOK, ClientState
<1>3. /\ ~client.capturing =>
           /\ ClientOK([client EXCEPT !.alive = TRUE, !.link = "up"])
           /\ ~client.held => ClientOK([client EXCEPT !.alive = TRUE, !.link = "none"])
  BY Zenon DEF ClientOK, ClientState
<1> QED
  BY <1>1, <1>2, <1>3

LEMMA ClientChanged ==
    ASSUME ClientsInv, NEW c \in Clients, NEW client, ClientOK(client),
           clients' = [clients EXCEPT ![c] = client], agent' = agent,
           agent = "dead" => client.link # "up", ending' \subseteq Clients
    PROVE  ClientsInv'
<1>1. client \in ClientState
  BY DEF ClientOK
<1>2. clients' \in [Clients -> ClientState]
  BY <1>1 DEF ClientsInv
<1>3. \A d \in Clients : clients'[d] = IF d = c THEN client ELSE clients[d]
  BY DEF ClientsInv
<1>4. \A d \in Clients : ClientOK(clients'[d])
  BY <1>3 DEF ClientsInv
<1>5. agent' = "dead" => \A d \in Clients : clients'[d].link # "up"
  BY <1>3 DEF ClientsInv
<1> QED
  BY <1>2, <1>4, <1>5 DEF ClientsInv

\* What is mailed besides: the start or the end of a capture.
LEMMA MailKeeps ==
    ASSUME ReducerInv, UNCHANGED <<scenario, agent, engine, reports, watcher>>,
           mail' = mail \/ mail' = Append(mail, Started) \/ mail' = Append(mail, Ended)
    PROVE  ReducerInv'
<1>1. mail \in Seq(Event) /\ Started \in Event /\ Ended \in Event
  BY EventsTyped DEF ReducerInv
<1>2. Append(mail, Started) \in Seq(Event) /\ Append(mail, Ended) \in Seq(Event)
  BY <1>1
<1> QED
  BY <1>1, <1>2 DEF ReducerInv

LEMMA EditorKeeps ==
    ASSUME ControlInv, NEW c \in Clients, OpenEditor(c) \/ CloseEditor(c)
    PROVE  ReducerInv' /\ KeysInv' /\ ClientsInv'
<1>1. ReducerInv' /\ KeysInv'
  BY MailKeeps, SameKeys DEF ControlInv, OpenEditor, CloseEditor, rest
<1>2. ClientsInv /\ ClientOK(clients[c]) /\ agent' = agent /\ ending' \subseteq Clients
      /\ (agent = "dead" => clients[c].link # "up")
  <2>1. agent' = agent /\ ending' = ending
    BY DEF OpenEditor, CloseEditor, rest
  <2> QED
    BY <2>1 DEF ControlInv, ClientsInv
<1>3. clients[c].link = "broken" \/ agent = "dead" => ~clients[c].held
  BY <1>2 DEF ClientOK
<1>4. ASSUME OpenEditor(c)
      PROVE  ClientsInv'
  <2>1. CASE clients[c].link # "broken" /\ agent # "dead"
    <3> DEFINE client == [alive |-> TRUE, open |-> TRUE, capturing |-> TRUE, link |-> "up", held |-> TRUE]
    <3>1. ClientOK(client)
      BY DEF ClientOK, ClientState
    <3>2. clients' = [clients EXCEPT ![c] = client]
      BY <1>4, <2>1 DEF OpenEditor
    <3> HIDE DEF client
    <3> QED
      BY <1>2, <2>1, <3>1, <3>2, ClientChanged
  <2>2. CASE clients[c].link = "broken" \/ agent = "dead"
    <3> DEFINE client == [clients[c] EXCEPT !.open = TRUE, !.link = "none"]
    <3>1. ClientOK(client) /\ client.link # "up"
      <4>1. ClientOK(client)
        BY <1>2, <1>3, <2>2, ClientMoves
      <4>2. client.link = "none"
        BY <1>2, Zenon DEF ClientOK, ClientState
      <4> QED
        BY <4>1, <4>2
    <3>2. clients' = [clients EXCEPT ![c] = client]
      BY <1>4, <2>2 DEF OpenEditor
    <3> HIDE DEF client
    <3> QED
      BY <1>2, <3>1, <3>2, ClientChanged
  <2> QED
    BY <2>1, <2>2
<1>5. ASSUME CloseEditor(c)
      PROVE  ClientsInv'
  <2>1. CASE clients[c].link # "broken" /\ agent # "dead"
    <3> DEFINE client == [alive |-> TRUE, open |-> FALSE, capturing |-> FALSE, link |-> "up", held |-> FALSE]
    <3>1. ClientOK(client)
      BY DEF ClientOK, ClientState
    <3>2. clients' = [clients EXCEPT ![c] = client]
      BY <1>5, <2>1 DEF CloseEditor
    <3> HIDE DEF client
    <3> QED
      BY <1>2, <2>1, <3>1, <3>2, ClientChanged
  <2>2. CASE clients[c].link = "broken" \/ agent = "dead"
    <3> DEFINE client == [clients[c] EXCEPT !.open = FALSE, !.capturing = FALSE, !.link = "none"]
    <3>1. ClientOK(client) /\ client.link # "up"
      <4>1. ClientOK(client)
        BY <1>2, <1>3, <2>2, ClientMoves
      <4>2. client.link = "none"
        BY <1>2, Zenon DEF ClientOK, ClientState
      <4> QED
        BY <4>1, <4>2
    <3>2. clients' = [clients EXCEPT ![c] = client]
      BY <1>5, <2>2 DEF CloseEditor
    <3> HIDE DEF client
    <3> QED
      BY <1>2, <3>1, <3>2, ClientChanged
  <2> QED
    BY <2>1, <2>2
<1> QED
  BY <1>1, <1>4, <1>5

LEMMA RequestKeeps ==
    ASSUME ControlInv, NEW c \in Clients, Request(c)
    PROVE  ReducerInv' /\ KeysInv' /\ ClientsInv'
<1>1. ReducerInv' /\ KeysInv'
  BY MailKeeps, SameKeys DEF ControlInv, Request, rest
<1>2. ClientsInv /\ ClientOK(clients[c]) /\ agent' = agent /\ ending' \subseteq Clients
      /\ clients[c].link # "up"
  BY DEF ControlInv, ClientsInv, Request, rest
<1>3. CASE clients[c].link = "broken"
  <2> DEFINE client == [clients[c] EXCEPT !.link = "none"]
  <2>1. ClientOK(client)
    BY <1>2, ClientMoves DEF ClientOK
  <2>2. client.link = "none"
    BY <1>2, Zenon DEF ClientOK, ClientState
  <2>3. clients' = [clients EXCEPT ![c] = client]
    BY <1>3 DEF Request
  <2> HIDE DEF client
  <2>4. ClientsInv'
    BY <1>2, <2>1, <2>2, <2>3, ClientChanged
  <2> QED
    BY <1>1, <2>4
<1>4. CASE clients[c].link # "broken"
  <2> DEFINE client == [clients[c] EXCEPT !.link = "up", !.held = clients[c].capturing]
  <2>1. ClientOK(client)
    BY <1>2, ClientMoves
  <2>2. clients' = [clients EXCEPT ![c] = client] /\ agent # "dead"
    BY <1>4 DEF Request
  <2> HIDE DEF client
  <2>3. ClientsInv'
    BY <1>2, <2>1, <2>2, ClientChanged
  <2> QED
    BY <1>1, <2>3
<1> QED
  BY <1>3, <1>4

LEMMA ConnectionKeeps ==
    ASSUME ControlInv, NEW c \in Clients, HangUp(c) \/ Kill(c) \/ Launch(c)
    PROVE  ReducerInv' /\ KeysInv' /\ ClientsInv'
<1>1. ReducerInv' /\ KeysInv' /\ agent' = agent
  BY SameReducer, SameKeys DEF ControlInv, HangUp, Kill, Launch, wire, rest
<1>2. ClientsInv /\ ClientOK(clients[c]) /\ ending' \subseteq Clients
  BY DEF ControlInv, ClientsInv, HangUp, Kill, Launch, Owes
<1>3. ASSUME HangUp(c)
      PROVE  ClientsInv'
  <2> DEFINE client == [clients[c] EXCEPT !.link = "broken", !.held = FALSE]
  <2>1. ClientOK(client)
    BY <1>2, ClientMoves
  <2>2. client.link = "broken"
    BY <1>2, Zenon DEF ClientOK, ClientState
  <2>3. clients' = [clients EXCEPT ![c] = client]
    BY <1>3 DEF HangUp
  <2> HIDE DEF client
  <2> QED
    BY <1>1, <1>2, <2>1, <2>2, <2>3, ClientChanged
<1>4. ASSUME Kill(c)
      PROVE  ClientsInv'
  <2> DEFINE client == [alive |-> FALSE, open |-> FALSE, capturing |-> FALSE, link |-> "none", held |-> FALSE]
  <2>1. ClientOK(client) /\ client.link = "none"
    BY DEF ClientOK, ClientState
  <2>2. clients' = [clients EXCEPT ![c] = client]
    BY <1>4 DEF Kill
  <2> HIDE DEF client
  <2> QED
    BY <1>1, <1>2, <2>1, <2>2, ClientChanged
<1>5. ASSUME Launch(c), agent = "dead"
      PROVE  ClientsInv'
  <2> DEFINE client == [clients[c] EXCEPT !.alive = TRUE, !.link = "none"]
  <2>1. ~clients[c].capturing /\ ~clients[c].held
    BY <1>2, <1>5 DEF Launch, ClientOK, ClientsInv
  <2>2. ClientOK(client)
    BY <1>2, <2>1, ClientMoves
  <2>3. client.link = "none"
    BY <1>2, Zenon DEF ClientOK, ClientState
  <2>4. clients' = [clients EXCEPT ![c] = client]
    BY <1>5 DEF Launch
  <2> HIDE DEF client
  <2> QED
    BY <1>1, <1>2, <2>2, <2>3, <2>4, ClientChanged
<1>6. ASSUME Launch(c), agent # "dead"
      PROVE  ClientsInv'
  <2> DEFINE client == [clients[c] EXCEPT !.alive = TRUE, !.link = "up"]
  <2>1. ~clients[c].capturing
    BY <1>2, <1>6 DEF Launch, ClientOK
  <2>2. ClientOK(client)
    BY <1>2, <2>1, ClientMoves
  <2>3. clients' = [clients EXCEPT ![c] = client]
    BY <1>6 DEF Launch
  <2> HIDE DEF client
  <2> QED
    BY <1>1, <1>2, <1>6, <2>2, <2>3, ClientChanged
<1> QED
  BY <1>1, <1>3, <1>4, <1>5, <1>6

LEMMA ReleaseKeeps ==
    ASSUME ControlInv, NEW c \in Clients, Release(c)
    PROVE  ReducerInv' /\ KeysInv' /\ ClientsInv'
<1>1. ReducerInv' /\ KeysInv'
  BY MailKeeps, SameKeys DEF ControlInv, Release, rest
<1>2. ClientsInv'
  BY DEF ControlInv, ClientsInv, Release, rest
<1> QED
  BY <1>1, <1>2

(* The agent's life. *)
LEMMA CrashKeeps ==
    ASSUME ControlInv, Crash
    PROVE  ReducerInv' /\ KeysInv' /\ ClientsInv'
<1>1. AtRestWatcher \in WatcherState
  BY DEF AtRestWatcher, WatcherState
<1>2. ReducerInv'
  <2>1. agent' = "dead" /\ mail' = <<>> /\ reports' = <<>> /\ watcher' = AtRestWatcher
        /\ engine' = engine /\ scenario' = scenario
    BY DEF Crash
  <2> QED
    BY <1>1, <2>1 DEF ControlInv, ReducerInv
<1>3. [hotkeys |-> EmptyTable, suspended |-> FALSE, busy |-> FALSE, failed |-> FALSE] \in PollerState
  BY EmptyTyping DEF PollerState
<1>4. KeysInv'
  BY <1>3, EmptyTyping DEF KeysInv, Crash
<1>5. ASSUME NEW c \in Clients
      PROVE  clients'[c] \in ClientState /\ ClientOK(clients'[c]) /\ clients'[c].link # "up"
  <2>1. ClientOK(clients[c])
    BY DEF ControlInv, ClientsInv
  <2>2. CASE clients[c].link = "up"
    <3>1. clients'[c] = [clients[c] EXCEPT !.held = FALSE, !.link = "broken"]
      BY <2>2 DEF Crash
    <3> QED
      BY <2>1, <3>1, Zenon DEF ClientOK, ClientState
  <2>3. CASE clients[c].link # "up"
    <3>1. clients'[c] = [clients[c] EXCEPT !.held = FALSE, !.link = clients[c].link]
      BY <2>3 DEF Crash
    <3> QED
      BY <2>1, <2>3, <3>1, Zenon DEF ClientOK, ClientState
  <2> QED
    BY <2>2, <2>3
<1>6. clients' = [c \in Clients |-> clients'[c]] /\ ending' = {}
  BY DEF Crash
<1>7. ClientsInv'
  BY <1>5, <1>6 DEF ClientsInv
<1> QED
  BY <1>2, <1>4, <1>7

LEMMA RestartKeeps ==
    ASSUME ControlInv, Restart
    PROVE  ReducerInv' /\ KeysInv' /\ ClientsInv'
<1>1. Loaded(files) \in ValidPair
  BY LoadedIsValid DEF ControlInv, DirectoryInv, DirectoryTypeOK
<1>2. engine' \in EngineState /\ (engine'.suspended <=> engine'.holds > 0)
  BY <1>1, FreshTyped DEF Restart
<1>3. ReducerInv'
  BY <1>2 DEF ControlInv, ReducerInv, Restart
<1>4. KeysInv' /\ ClientsInv'
  BY DEF ControlInv, KeysInv, ClientsInv, Restart, keys, edges
<1> QED
  BY <1>3, <1>4

(* The theorems. *)
LEMMA ControlStep == ControlInv /\ [Next]_vars => ControlInv'
<1> SUFFICES ASSUME ControlInv, [Next]_vars
             PROVE  ControlInv'
  OBVIOUS
<1>1. DirectoryInv'
  BY DirectoryKept
<1>2. ReducerInv' /\ KeysInv' /\ ClientsInv'
  <2>1. ASSUME NEW w \in Writers, ReadOn(w) \/ Write(w) \/ Answer(w) \/ Fail(w)
        PROVE  ReducerInv' /\ KeysInv' /\ ClientsInv'
    BY <2>1, WritersKeep
  <2>2. CASE SaveTiling \/ HandEdit \/ \E c \in Clients : AskEdit(c)
    BY <2>2, PeopleKeep
  <2>3. CASE Watch \/ Reload
    BY <2>3, WatcherKeeps
  <2>4. CASE Forward
    BY <2>4, ForwardKeeps
  <2>5. CASE Reduce
    BY <2>5, ReduceKeeps
  <2>6. CASE Poll \/ Register \/ RegistrationFails \/ StartWatching
    BY <2>6, PollerKeeps
  <2>7. CASE OtherProgram
    BY <2>7, OtherProgramKeeps
  <2>8. ASSUME NEW c \in Clients, OpenEditor(c) \/ CloseEditor(c)
        PROVE  ReducerInv' /\ KeysInv' /\ ClientsInv'
    BY <2>8, EditorKeeps
  <2>9. ASSUME NEW c \in Clients, Request(c)
        PROVE  ReducerInv' /\ KeysInv' /\ ClientsInv'
    BY <2>9, RequestKeeps
  <2>10. ASSUME NEW c \in Clients, HangUp(c) \/ Kill(c) \/ Launch(c)
         PROVE  ReducerInv' /\ KeysInv' /\ ClientsInv'
    BY <2>10, ConnectionKeeps
  <2>11. ASSUME NEW c \in Clients, Release(c)
         PROVE  ReducerInv' /\ KeysInv' /\ ClientsInv'
    BY <2>11, ReleaseKeeps
  <2>12. CASE Crash
    BY <2>12, CrashKeeps
  <2>13. CASE Restart
    BY <2>13, RestartKeeps
  <2>14. CASE UNCHANGED vars
    BY <2>14, SameReducer, SameKeys, SameClients DEF ControlInv, vars, wire, keys, rest, edges
  <2> QED
    BY <2>1, <2>2, <2>3, <2>4, <2>5, <2>6, <2>7, <2>8, <2>9, <2>10, <2>11, <2>12, <2>13, <2>14
       DEF Next, Working
<1> QED
  BY <1>1, <1>2 DEF ControlInv

LEMMA ControlStart == Init => ControlInv /\ DirectoryInit(Pair)
<1> SUFFICES ASSUME Init
             PROVE  ControlInv /\ DirectoryInit(Pair)
  OBVIOUS
<1>1. scenario \in Scenarios /\ scenario.pair \in Pair
  BY ScenariosAssumption DEF Init
<1>2. DirectoryInit(Pair) /\ DirectoryInv /\ files \in Pair
  BY <1>1, InitKeeps DEF Init, DirectoryInit
<1>3. Loaded(files) \in ValidPair
  BY <1>2, LoadedIsValid
<1>4. engine \in EngineState /\ (engine.suspended <=> engine.holds > 0)
  BY <1>3, FreshTyped DEF Init
<1>5. ReducerInv
  <2>1. watcher \in WatcherState
    BY DEF Init, AtRestWatcher, WatcherState
  <2>2. agent = "running" /\ mail = <<>> /\ reports = <<>>
    BY DEF Init
  <2> QED
    BY <1>1, <1>4, <2>1, <2>2 DEF ReducerInv
<1>6. KeysInv
  <2>1. engine.set \in ValidPair
    BY <1>4 DEF EngineState
  <2>2. Runtime(engine.set) \in Bound
    BY <2>1, RuntimeTyped
  <2>3. poller = [hotkeys |-> Runtime(engine.set), suspended |-> FALSE, busy |-> FALSE, failed |-> FALSE]
        /\ registered = Registration(poller.hotkeys)
    BY DEF Init
  <2>4. poller \in PollerState
    BY <2>2, <2>3 DEF PollerState
  <2> QED
    BY <2>2, <2>3, <2>4, FreeTyped DEF KeysInv
<1>7. ClientsInv
  <2> DEFINE fresh == [alive |-> TRUE, open |-> FALSE, capturing |-> FALSE, link |-> "up", held |-> FALSE]
  <2>1. clients = [c \in Clients |-> fresh]
    BY DEF Init
  <2>2. fresh \in ClientState /\ ClientOK(fresh)
    BY DEF ClientState, ClientOK
  <2>3. agent = "running" /\ ending = {}
    BY DEF Init
  <2> HIDE DEF fresh
  <2> QED
    BY <2>1, <2>2, <2>3 DEF ClientsInv
<1> QED
  BY <1>2, <1>5, <1>6, <1>7 DEF ControlInv

\* The invariant holds throughout: whatever threads, clients, hands and crashes
\* do, all that travels to the reducer validates, no client that was cut off is
\* owed keys, and no writer holds a reading it should have thrown away.
THEOREM ControlInvariant == Spec => []ControlInv
  BY ControlStart, ControlStep, PTL DEF Spec

\* Every variable of the control plane keeps its type.
THEOREM ControlTypeCorrect == Spec => []TypeOK
  BY ControlInvariant, ImpliesTypeOK, PTL

\* The agent, its clients, the page, hands and crashes keep the promise of an
\* edit: the settings in effect change once, to what it names, or not at all.
THEOREM EditsKeepTheirPromise == Spec => EditsAtOnce
<1>1. Init => DirectoryInit(Pair)
  BY ControlStart
<1>2. ControlInv /\ [Next]_vars => [DirectoryNext]_directory
  BY DirectoryStep
<1>3. Spec => DirectorySpec
  BY <1>1, <1>2, ControlInvariant, PTL DEF Spec, DirectorySpec
<1> QED
  BY <1>3, DirectoryImplements DEF EditsAtOnce

\* No step of writing of an edit nobody overtook leaves a valid directory
\* invalid: not while a file is being replaced, and not between the two.
THEOREM WritesKeepTheDirectoryValid == Spec => DirectoryStaysValid
<1>1. ASSUME ControlInv, NEW w \in Writers, Valid(files), ~edits[w].raced, Write(w)
      PROVE  Valid(files')
  BY <1>1, WriteKeepsValid DEF ControlInv, Write
<1>2. ControlInv /\ [Next]_vars =>
        [\A w \in Writers : Valid(files) /\ Pending(w) /\ ~edits[w].raced /\ Write(w) => Valid(files')]_vars
  BY <1>1
<1> QED
  BY <1>2, ControlInvariant, PTL DEF Spec, DirectoryStaysValid

\* What the agent runs on is valid, whatever is on disk: half a file, an edit
\* by hand that does not validate, a crash between two writes.
THEOREM AgentRunsOnValid == Spec => OnlyValidGoesLive
<1>1. ControlInv' => Valid(engine'.set)
  BY DEF ControlInv, ReducerInv, EngineState, ValidPair
<1>2. ControlInv' => [engine'.set # engine.set => Valid(engine'.set)]_vars
  BY <1>1
<1> QED
  BY <1>2, ControlInvariant, PTL DEF Spec, OnlyValidGoesLive

-----------------------------------------------------------------------------
(* Where the control plane comes to rest: the agent then runs on what the  *)
(* directory says and every binding with a key code is registered or       *)
(* reported, unless a registration did not start.  Both are about what is  *)
(* still on its way: the last configuration in the queue, or in the        *)
(* watcher's reports, is the one that was read after the last write, and   *)
(* the last report in the queue is about what is registered.               *)

\* A client whose thread has written what it had to and not sent it.
Unsent(c) == edits[c] # NoEdit /\ edits[c].phase = "written"

Carried(event) == IF event.kind = "config" THEN event.set ELSE event.commands

\* The value is there now, or the last event of this kind in the queue brings it.
Latest(queue, kind, now, value) ==
    /\ (\A j \in 1..Len(queue) : queue[j].kind # kind) => now = value
    /\ \A i \in 1..Len(queue) :
         queue[i].kind = kind /\ (\A j \in (i + 1)..Len(queue) : queue[j].kind # kind) => Carried(queue[i]) = value

\* What was read last, on its way to the reducer or there, is what is written.
Delivered ==
    IF reports # <<>> THEN reports[Len(reports)] = files
    ELSE Latest(mail, "config", engine.set, files)

\* A thread that has not sent what it wrote leaves the watcher something to
\* read; what the watcher has read of the base is current unless it will read
\* again; and what it read last is delivered.
WatchInv ==
    /\ agent # "dead" => \A c \in Clients : Unsent(c) => watcher.touched \/ missed
    /\ watcher.reading => \A c \in Clients : Unsent(c) => watcher.touched
    /\ watcher.reading => agent = "running" /\ (watcher.touched \/ watcher.base = files.base)
    /\ agent # "dead" /\ ~watcher.touched /\ ~watcher.reading /\ ~missed /\ Valid(files) => Delivered

\* A dead agent leaves nothing under way.
DeadInv ==
    agent = "dead" =>
        /\ mail = <<>> /\ reports = <<>> /\ ending = {}
        /\ ~watcher.touched /\ ~watcher.reading
        /\ \A c \in Clients : edits[c] = NoEdit

\* What is registered is what the poller wanted and has a key code, but for
\* what it has reported; nothing is after a registration that did not start.
Accounted ==
    IF poller.suspended \/ poller.failed THEN registered = EmptyTable
    ELSE /\ DOMAIN registered \subseteq Keyed(poller.hotkeys)
         /\ \A c \in DOMAIN registered : registered[c] = poller.hotkeys[c]
         /\ Latest(mail, "report", engine.unregistered, Keyed(poller.hotkeys) \ DOMAIN registered)

RegisteredInv ==
    /\ poller.busy => ~poller.failed
    /\ poller.busy \/ agent # "running" => registered = EmptyTable
    /\ agent # "running" => ~poller.busy
    /\ agent = "running" /\ ~poller.busy => Accounted

AtRestInv == ControlInv /\ WatchInv /\ DeadInv /\ RegisteredInv

(* The last event of a kind. *)
LEMMA LatestBrought ==
    ASSUME NEW queue \in Seq(Event), NEW event \in Event, NEW now
    PROVE  Latest(Append(queue, event), event.kind, now, Carried(event))
<1> DEFINE longer == Append(queue, event)
<1>1. Len(longer) = Len(queue) + 1 /\ longer[Len(queue) + 1] = event /\ Len(queue) \in Nat
  OBVIOUS
<1> HIDE DEF longer
<1>2. ASSUME NEW i \in 1..Len(longer), \A j \in (i + 1)..Len(longer) : longer[j].kind # event.kind
      PROVE  i = Len(queue) + 1
  BY <1>1, <1>2
<1>3. \E j \in 1..Len(longer) : longer[j].kind = event.kind
  BY <1>1
<1>4. Latest(longer, event.kind, now, Carried(event))
  BY <1>1, <1>2, <1>3 DEF Latest
<1> QED
  BY <1>4 DEF longer

LEMMA LatestPassed ==
    ASSUME NEW queue \in Seq(Event), NEW event \in Event, NEW kind, event.kind # kind,
           NEW now, NEW value, Latest(queue, kind, now, value)
    PROVE  Latest(Append(queue, event), kind, now, value)
<1> DEFINE longer == Append(queue, event)
<1>1. /\ Len(longer) = Len(queue) + 1 /\ longer[Len(queue) + 1] = event /\ Len(queue) \in Nat
      /\ \A i \in 1..Len(queue) : longer[i] = queue[i]
  OBVIOUS
<1> HIDE DEF longer
<1>2. (\A j \in 1..Len(longer) : longer[j].kind # kind) => now = value
  BY <1>1 DEF Latest
<1>3. ASSUME NEW i \in 1..Len(longer), longer[i].kind = kind,
             \A j \in (i + 1)..Len(longer) : longer[j].kind # kind
      PROVE  Carried(longer[i]) = value
  <2>1. i \in 1..Len(queue)
    BY <1>1, <1>3
  <2>2. \A j \in (i + 1)..Len(queue) : queue[j].kind # kind
    BY <1>1, <1>3, <2>1
  <2> QED
    BY <1>1, <1>3, <2>1, <2>2 DEF Latest
<1>4. Latest(longer, kind, now, value)
  BY <1>2, <1>3 DEF Latest
<1> QED
  BY <1>4 DEF longer

LEMMA LatestTaken ==
    ASSUME NEW queue \in Seq(Event), queue # <<>>, NEW kind, NEW now, NEW value, NEW then,
           Latest(queue, kind, now, value),
           then = IF Head(queue).kind = kind THEN Carried(Head(queue)) ELSE now
    PROVE  Latest(Tail(queue), kind, then, value)
<1> DEFINE shorter == Tail(queue)
<1>1. /\ Len(queue) = Len(shorter) + 1 /\ Head(queue) = queue[1] /\ Len(shorter) \in Nat
      /\ \A i \in 1..Len(shorter) : shorter[i] = queue[i + 1]
  OBVIOUS
<1> HIDE DEF shorter
<1>2. \A j \in 2..Len(queue) : j - 1 \in 1..Len(shorter) /\ queue[j] = shorter[j - 1]
  BY <1>1
<1>3. ASSUME \A j \in 1..Len(shorter) : shorter[j].kind # kind
      PROVE  then = value
  <2>1. \A j \in 2..Len(queue) : queue[j].kind # kind
    BY <1>2, <1>3
  <2>2. CASE queue[1].kind = kind
    BY <1>1, <2>1, <2>2 DEF Latest
  <2>3. CASE queue[1].kind # kind
    <3>1. \A j \in 1..Len(queue) : queue[j].kind # kind
      BY <1>1, <2>1, <2>3
    <3> QED
      BY <1>1, <2>3, <3>1 DEF Latest
  <2> QED
    BY <2>2, <2>3
<1>4. ASSUME NEW i \in 1..Len(shorter), shorter[i].kind = kind,
             \A j \in (i + 1)..Len(shorter) : shorter[j].kind # kind
      PROVE  Carried(shorter[i]) = value
  <2>1. i + 1 \in 1..Len(queue) /\ queue[i + 1] = shorter[i]
    BY <1>1
  <2>2. \A j \in ((i + 1) + 1)..Len(queue) : queue[j].kind # kind
    BY <1>1, <1>2, <1>4
  <2>3. \A k \in 1..Len(queue) :
          queue[k].kind = kind /\ (\A j \in (k + 1)..Len(queue) : queue[j].kind # kind) => Carried(queue[k]) = value
    BY DEF Latest
  <2>4. queue[i + 1].kind = kind
    BY <1>4, <2>1
  <2> QED
    BY <2>1, <2>2, <2>3, <2>4
<1>5. Latest(shorter, kind, then, value)
  BY <1>3, <1>4 DEF Latest
<1> QED
  BY <1>5 DEF shorter

LEMMA LatestThere ==
    ASSUME NEW kind, NEW now, NEW value
    PROVE  Latest(<<>>, kind, now, value) <=> now = value
  BY DEF Latest

(* What most steps do. *)
\* Nothing of this kind is put into the queue, and nothing taken from it.
NoneSent(kind) == mail' = mail \/ \E event \in Event : event.kind # kind /\ mail' = Append(mail, event)

\* No client has come to what it must send; who was idle stays so.
NoneWrote == \A c \in Clients : Unsent(c)' => Unsent(c)
NoneBegan == \A c \in Clients : edits[c] = NoEdit => edits'[c] = NoEdit

LEMMA LatestStays ==
    ASSUME mail \in Seq(Event), NEW kind, NEW now, NEW value, NoneSent(kind), Latest(mail, kind, now, value)
    PROVE  Latest(mail', kind, now, value)
<1>1. CASE mail' = mail
  BY <1>1
<1>2. ASSUME NEW event \in Event, event.kind # kind, mail' = Append(mail, event)
      PROVE  Latest(mail', kind, now, value)
  BY <1>2, LatestPassed
<1> QED
  BY <1>1, <1>2 DEF NoneSent

LEMMA WatchStays ==
    ASSUME WatchInv, ReducerInv, UNCHANGED <<agent, watcher, missed, reports, files, engine>>,
           NoneSent("config"), NoneWrote
    PROVE  WatchInv'
<1>1. ASSUME Delivered
      PROVE  Delivered'
  <2>1. CASE reports # <<>>
    BY <1>1, <2>1 DEF Delivered
  <2>2. CASE reports = <<>>
    <3>1. Latest(mail', "config", engine.set, files)
      BY <1>1, <2>2, LatestStays DEF Delivered, ReducerInv
    <3> QED
      BY <2>2, <3>1 DEF Delivered, Latest, Carried
  <2> QED
    BY <2>1, <2>2
<1> QED
  BY <1>1 DEF WatchInv, NoneWrote

LEMMA DeadStays ==
    ASSUME DeadInv, agent' = agent,
           agent = "dead" => NoneBegan /\ UNCHANGED <<mail, reports, ending, watcher>>
    PROVE  DeadInv'
  BY DEF DeadInv, NoneBegan

LEMMA RegisteredStays ==
    ASSUME RegisteredInv, ReducerInv, UNCHANGED <<agent, poller, registered, engine>>, NoneSent("report")
    PROVE  RegisteredInv'
<1>1. ASSUME Accounted
      PROVE  Accounted'
  <2>1. CASE poller.suspended \/ poller.failed
    BY <1>1, <2>1 DEF Accounted
  <2>2. CASE ~(poller.suspended \/ poller.failed)
    <3>1. Latest(mail', "report", engine.unregistered, Keyed(poller.hotkeys) \ DOMAIN registered)
      BY <1>1, <2>2, LatestStays DEF Accounted, ReducerInv
    <3> QED
      BY <1>1, <2>2, <3>1 DEF Accounted, Latest, Carried, Keyed
  <2> QED
    BY <2>1, <2>2
<1> QED
  BY <1>1 DEF RegisteredInv

LEMMA SentOrNot ==
    /\ mail' = mail => \A kind : NoneSent(kind)
    /\ mail' = Append(mail, Started) \/ mail' = Append(mail, Ended) => NoneSent("config") /\ NoneSent("report")
    /\ \A set \in ValidPair : mail' = Append(mail, Config(set)) => NoneSent("report")
    /\ \A commands \in SUBSET Commands : mail' = Append(mail, Report(commands)) => NoneSent("config")
<1>1. Started.kind = "started" /\ Ended.kind = "ended"
  BY DEF Started, Ended
<1>2. /\ \A set \in ValidPair : Config(set).kind = "config"
      /\ \A commands \in SUBSET Commands : Report(commands).kind = "report"
  BY DEF Config, Report
<1> QED
  BY <1>1, <1>2, EventsTyped DEF NoneSent

LEMMA NobodyMoved == ASSUME edits' = edits PROVE NoneWrote /\ NoneBegan
  BY DEF NoneWrote, NoneBegan, Unsent

(* The directory's writers. *)
LEMMA InsteadIsSmall ==
    ASSUME NEW w \in Writers, NEW e, edits' = Instead(w, e), e = NoEdit \/ e.phase # "written",
           edits[w] # NoEdit \/ w \notin Clients
    PROVE  NoneWrote /\ NoneBegan
<1>1. \A c \in Clients : edits'[c] = IF c = w THEN e ELSE edits[c]
  BY ClientsAssumption DEF Instead
<1> QED
  BY <1>1 DEF NoneWrote, NoneBegan, Unsent

LEMMA BegunIsUnwritten ==
    ASSUME ControlInv, NEW w \in Writers, NEW edit, ReadBase(w, edit)
    PROVE  NoneWrote /\ files' = files /\ (w \notin Clients => NoneBegan)
<1> DEFINE e == Begun(edit)
<1>1. e.phase # "written"
  BY DEF Begun
<1>2. files' = files /\ edits' = Instead(w, e)
  BY StartedIs DEF ControlInv, DirectoryInv
<1> HIDE DEF e
<1>3. \A c \in Clients : edits'[c] = IF c = w THEN e ELSE edits[c]
  BY <1>2, ClientsAssumption DEF Instead
<1> QED
  BY <1>1, <1>2, <1>3 DEF NoneWrote, NoneBegan, Unsent

LEMMA ReadOnIsUnwritten ==
    ASSUME ControlInv, NEW w \in Writers, ReadOn(w) \/ Answer(w) \/ Fail(w)
    PROVE  NoneWrote /\ NoneBegan /\ files' = files
<1>1. DirectoryTypeOK
  BY DEF ControlInv, DirectoryInv
<1>2. ASSUME ReadProfile(w)
      PROVE  NoneWrote /\ NoneBegan /\ files' = files
  <2> DEFINE e == MovedOn(edits[w], "read", [base |-> edits[w].seen.base, profile |-> files.profile])
  <2>1. e.phase # "written"
    BY DEF MovedOn
  <2>2. edits' = Instead(w, e) /\ files' = files /\ edits[w] # NoEdit
    BY <1>1, <1>2, ReadProfileIs DEF ReadProfile
  <2> HIDE DEF e
  <2> QED
    BY <2>1, <2>2, InsteadIsSmall
<1>3. ASSUME Refuse(w) \/ ReplaceFails(w) \/ Confirm(w) \/ WriteFails(w)
      PROVE  NoneWrote /\ NoneBegan /\ files' = files
  <2>1. edits' = Instead(w, NoEdit) /\ files' = files /\ edits[w] # NoEdit
    BY <1>1, <1>3, EndedIs DEF Refuse, ReplaceFails, Due, Confirm, WriteFails
  <2> QED
    BY <2>1, InsteadIsSmall
<1> QED
  BY <1>2, <1>3 DEF ReadOn, Answer, Fail

LEMMA ReadingRests ==
    ASSUME AtRestInv, NEW w \in Writers, ReadOn(w) \/ Fail(w)
    PROVE  WatchInv' /\ DeadInv' /\ RegisteredInv'
<1>1. NoneWrote /\ NoneBegan /\ files' = files
  BY ReadOnIsUnwritten DEF AtRestInv
<1>2. UNCHANGED <<wire, keys, rest, edges>>
  BY DEF ReadOn, Fail
<1>3. UNCHANGED <<agent, watcher, missed, reports, engine, mail, poller, registered, ending>>
  BY <1>2 DEF wire, keys, rest, edges
<1> QED
  BY <1>1, <1>3, SentOrNot, WatchStays, DeadStays, RegisteredStays DEF AtRestInv, ControlInv

LEMMA AskingRests ==
    ASSUME AtRestInv, SaveTiling \/ \E c \in Clients : AskEdit(c)
    PROVE  WatchInv' /\ DeadInv' /\ RegisteredInv'
<1>1. UNCHANGED <<agent, watcher, missed, reports, engine, mail, poller, registered, ending>>
  BY DEF SaveTiling, AskEdit, wire, keys, rest, edges
<1>2. NoneWrote /\ files' = files /\ (agent = "dead" => NoneBegan)
  <2>1. CASE SaveTiling
    BY <2>1, BegunIsUnwritten, ClientsAssumption DEF SaveTiling, AtRestInv
  <2>2. ASSUME NEW c \in Clients, AskEdit(c)
        PROVE  NoneWrote /\ files' = files /\ agent # "dead"
    BY <2>2, BegunIsUnwritten, ClientsAssumption DEF AskEdit, AtRestInv, ControlInv, ClientsInv
  <2> QED
    BY <2>1, <2>2
<1> QED
  BY <1>1, <1>2, SentOrNot, WatchStays, DeadStays, RegisteredStays DEF AtRestInv, ControlInv

LEMMA AnsweringRests ==
    ASSUME AtRestInv, NEW w \in Writers, Answer(w)
    PROVE  WatchInv' /\ DeadInv' /\ RegisteredInv'
<1>1. NoneWrote /\ NoneBegan /\ files' = files
  BY ReadOnIsUnwritten DEF AtRestInv
<1>2. UNCHANGED <<agent, watcher, missed, reports, engine, poller, registered, ending>>
  BY DEF Answer, keys, rest, edges
<1>3. CASE w \notin Clients
  <2>1. mail' = mail
    BY <1>3 DEF Answer
  <2> QED
    BY <1>1, <1>2, <2>1, SentOrNot, WatchStays, DeadStays, RegisteredStays DEF AtRestInv, ControlInv
<1>4. CASE w \in Clients
  <2>1. Unsent(w)
    BY DEF Answer, Confirm, Unsent
  <2>2. agent # "dead" /\ (watcher.touched \/ missed) /\ (watcher.reading => watcher.touched)
    BY <1>4, <2>1 DEF AtRestInv, DeadInv, WatchInv, Unsent
  <2>3. WatchInv'
    BY <1>1, <1>2, <2>2 DEF AtRestInv, WatchInv, NoneWrote
  <2>4. edits[w] \in EditState /\ edits[w].phase = "written" /\ edits[w] # NoEdit
    BY DEF Answer, Confirm, AtRestInv, ControlInv, DirectoryInv, DirectoryTypeOK
  <2>5. Accepted(edits[w].seen, edits[w].edit)
    BY <2>4 DEF AtRestInv, ControlInv, DirectoryInv, SeenIsCurrent, Sound
  <2>6. Plan(w) \in ValidPair
    BY <2>4, <2>5, PlannedTyped DEF EditState, Plan, Accepted, ValidPair
  <2>7. mail' = Append(mail, Config(Plan(w)))
    BY <1>4 DEF Answer
  <2>8. RegisteredInv'
    BY <1>2, <2>6, <2>7, SentOrNot, RegisteredStays DEF AtRestInv, ControlInv
  <2>9. DeadInv'
    BY <1>2, <2>2 DEF DeadInv
  <2> QED
    BY <2>3, <2>8, <2>9
<1> QED
  BY <1>3, <1>4

\* After a write the watcher has something to read, or nobody watches.
LEMMA WritingRests ==
    ASSUME AtRestInv, HandEdit \/ \E w \in Writers : Write(w)
    PROVE  WatchInv' /\ DeadInv' /\ RegisteredInv'
<1>1. UNCHANGED <<agent, reports, engine, mail, poller, registered, ending>> /\ Noticed
  BY DEF HandEdit, Write, Noticed, wire, keys, edges
<1>2. agent # "running" => watcher' = watcher
  BY <1>1 DEF Noticed
<1>3. agent = "running" => watcher'.touched /\ watcher'.reading = watcher.reading
  <2>1. watcher \in WatcherState
    BY DEF AtRestInv, ControlInv, ReducerInv
  <2>2. [watcher EXCEPT !.touched = TRUE].touched /\ [watcher EXCEPT !.touched = TRUE].reading = watcher.reading
    BY <2>1, Zenon DEF WatcherState
  <2> QED
    BY <1>1, <2>2 DEF Noticed
<1>4. agent # "dead" => watcher'.touched \/ missed'
  BY <1>1, <1>3 DEF Noticed, AtRestInv, ControlInv, ReducerInv
<1>5. WatchInv'
  BY <1>1, <1>2, <1>3, <1>4 DEF WatchInv, AtRestInv
<1>6. agent = "dead" => NoneBegan
  <2>1. DirectoryTypeOK
    BY DEF AtRestInv, ControlInv, DirectoryInv
  <2>2. CASE HandEdit
    <3>1. edits' = Overtaken(NoEdit)
      BY <2>2 DEF HandEdit, SaveByHand
    <3> QED
      BY <3>1, ClientsAssumption DEF Overtaken, Pending, NoneBegan
  <2>3. ASSUME NEW w \in Writers, Write(w)
        PROVE  NoneBegan
    <3>1. Pending(w) /\ \E e, stages : edits' = OthersMarked(w, e, stages)
      BY <2>1, <2>3, OpenTempIs, FillTempIs, ReplaceFileIs DEF Write
    <3>2. PICK e, stages : edits' = OthersMarked(w, e, stages)
      BY <3>1
    <3> QED
      BY <3>1, <3>2, ClientsAssumption DEF OthersMarked, Pending, NoneBegan
  <2> QED
    BY <2>2, <2>3
<1>7. DeadInv'
  BY <1>1, <1>2, <1>6, DeadStays DEF AtRestInv
<1>8. RegisteredInv'
  BY <1>1, SentOrNot, RegisteredStays DEF AtRestInv, ControlInv
<1> QED
  BY <1>5, <1>7, <1>8

(* Watcher, forwarder and reducer. *)
LEMMA WatcherSame ==
    ASSUME AtRestInv, Watch \/ Reload \/ Forward
    PROVE  DeadInv' /\ NoneWrote /\ NoneBegan /\ files' = files
           /\ UNCHANGED <<agent, engine, poller, registered>>
<1>1. UNCHANGED <<agent, engine, poller, registered, files, edits, ending>>
  BY DEF Watch, Reload, Forward, directory, wire, keys, edges
<1>2. agent # "dead"
  BY DEF Watch, Reload, Forward, AtRestInv, DeadInv
<1> QED
  BY <1>1, <1>2, NobodyMoved DEF DeadInv

LEMMA WatchRests ==
    ASSUME AtRestInv, Watch
    PROVE  WatchInv' /\ DeadInv' /\ RegisteredInv'
<1>1. DeadInv' /\ NoneWrote /\ files' = files /\ UNCHANGED <<agent, engine, poller, registered>>
  BY WatcherSame
<1>2. mail' = mail /\ reports' = reports /\ missed' = missed /\ agent = "running"
  BY DEF Watch, wire
<1>3. \A c \in Clients : ~Unsent(c)
  BY ClientsAssumption DEF Watch, Debounced, Unsent
<1>4. watcher'.reading /\ ~watcher'.touched /\ watcher'.base = files.base
  BY DEF Watch
<1>5. WatchInv'
  BY <1>1, <1>2, <1>3, <1>4 DEF WatchInv, NoneWrote
<1>6. RegisteredInv'
  BY <1>1, <1>2, SentOrNot, RegisteredStays DEF AtRestInv, ControlInv
<1> QED
  BY <1>1, <1>5, <1>6

\* What it has read whole while nobody wrote is what is written.
LEMMA ReloadRests ==
    ASSUME AtRestInv, Reload
    PROVE  WatchInv' /\ DeadInv' /\ RegisteredInv'
<1> DEFINE pair == [base |-> watcher.base, profile |-> files.profile]
<1>1. DeadInv' /\ NoneWrote /\ files' = files /\ UNCHANGED <<agent, engine, poller, registered>>
  BY WatcherSame
<1>2. mail' = mail /\ watcher.reading /\ missed' = FALSE
      /\ reports' = (IF Valid(pair) THEN Append(reports, pair) ELSE reports)
  BY DEF Reload, wire
<1>3. ~watcher'.reading /\ watcher'.touched = watcher.touched
  <2>1. watcher \in WatcherState
    BY DEF AtRestInv, ControlInv, ReducerInv
  <2> QED
    BY <2>1, Zenon DEF Reload, WatcherState
<1>4. ASSUME ~watcher.touched, Valid(files)
      PROVE  Delivered'
  <2>1. files \in Pair
    BY DEF AtRestInv, ControlInv, DirectoryInv, DirectoryTypeOK
  <2>2. pair = files
    BY <1>2, <1>4, <2>1 DEF AtRestInv, WatchInv, Pair
  <2> HIDE DEF pair
  <2>3. reports \in Seq(ValidPair) /\ files \in ValidPair
    BY <1>4, <2>1 DEF AtRestInv, ControlInv, ReducerInv, ValidPair
  <2>4. reports' = Append(reports, files)
    BY <1>2, <1>4, <2>2
  <2>5. reports' # <<>> /\ reports'[Len(reports')] = files
    BY <2>3, <2>4
  <2> QED
    BY <1>1, <2>5 DEF Delivered
<1> HIDE DEF pair
<1>5. WatchInv'
  BY <1>1, <1>2, <1>3, <1>4 DEF WatchInv, NoneWrote, AtRestInv
<1>6. RegisteredInv'
  BY <1>1, <1>2, SentOrNot, RegisteredStays DEF AtRestInv, ControlInv
<1> QED
  BY <1>1, <1>5, <1>6

LEMMA ForwardRests ==
    ASSUME AtRestInv, Forward
    PROVE  WatchInv' /\ DeadInv' /\ RegisteredInv'
<1>1. DeadInv' /\ NoneWrote /\ files' = files /\ UNCHANGED <<agent, engine, poller, registered>>
  BY WatcherSame
<1>2. UNCHANGED <<watcher, missed>> /\ reports # <<>> /\ reports' = Tail(reports)
      /\ mail' = Append(mail, Config(Head(reports)))
  BY DEF Forward
<1>3. mail \in Seq(Event) /\ reports \in Seq(ValidPair)
  BY DEF AtRestInv, ControlInv, ReducerInv
<1>4. Head(reports) \in ValidPair
  BY <1>2, <1>3
<1>5. Config(Head(reports)) \in Event /\ Config(Head(reports)).kind = "config"
      /\ Carried(Config(Head(reports))) = Head(reports)
  BY <1>4, EventsTyped DEF Config, Carried
<1>6. ASSUME Delivered
      PROVE  Delivered'
  <2>1. reports[Len(reports)] = files
    BY <1>2, <1>6 DEF Delivered
  <2>2. CASE Tail(reports) # <<>>
    <3>1. Tail(reports)[Len(Tail(reports))] = reports[Len(reports)]
      BY <1>2, <1>3, <2>2
    <3> QED
      BY <1>1, <1>2, <2>1, <2>2, <3>1 DEF Delivered
  <2>3. CASE Tail(reports) = <<>>
    <3>1. Head(reports) = files
      BY <1>2, <1>3, <2>1, <2>3
    <3>2. Latest(mail', "config", engine.set, files)
      BY <1>2, <1>3, <1>5, <3>1, LatestBrought
    <3> QED
      BY <1>1, <1>2, <2>3, <3>2 DEF Delivered, Latest, Carried
  <2> QED
    BY <2>2, <2>3
<1>7. WatchInv'
  BY <1>1, <1>2, <1>6 DEF WatchInv, NoneWrote, AtRestInv
<1>8. RegisteredInv'
  BY <1>1, <1>2, <1>4, SentOrNot, RegisteredStays DEF AtRestInv, ControlInv
<1> QED
  BY <1>1, <1>7, <1>8

LEMMA ReducedTakes ==
    ASSUME engine \in EngineState, NEW event \in Event
    PROVE  /\ Reduced(engine, event).set = IF event.kind = "config" THEN Carried(event) ELSE engine.set
           /\ Reduced(engine, event).unregistered =
                IF event.kind = "report" THEN Carried(event) ELSE engine.unregistered
<1>1. CASE event.kind = "config"
  BY <1>1, Zenon DEF Reduced, Carried, EngineState
<1>2. CASE event.kind = "started"
  BY <1>2, Zenon DEF Reduced, HotkeyCaptureStarted, EngineState
<1>3. CASE event.kind = "ended"
  BY <1>3, Zenon DEF Reduced, HotkeyCaptureEnded, EngineState
<1>4. CASE event.kind = "report"
  BY <1>4, Zenon DEF Reduced, Carried, EngineState
<1> QED
  BY <1>1, <1>2, <1>3, <1>4 DEF Event

LEMMA ReduceRests ==
    ASSUME AtRestInv, Reduce
    PROVE  WatchInv' /\ DeadInv' /\ RegisteredInv'
<1>1. UNCHANGED <<agent, watcher, missed, reports, files, edits, poller, registered, ending>>
  BY DEF Reduce, directory, keys, rest, edges
<1>2. mail # <<>> /\ mail' = Tail(mail) /\ engine' = Reduced(engine, Head(mail)) /\ agent # "dead"
  BY DEF Reduce
<1>3. mail \in Seq(Event) /\ engine \in EngineState
  BY DEF AtRestInv, ControlInv, ReducerInv
<1>4. Head(mail) \in Event
  BY <1>2, <1>3
<1>5. /\ engine'.set = IF Head(mail).kind = "config" THEN Carried(Head(mail)) ELSE engine.set
      /\ engine'.unregistered = IF Head(mail).kind = "report" THEN Carried(Head(mail)) ELSE engine.unregistered
  BY <1>2, <1>3, <1>4, ReducedTakes
<1>6. ASSUME Delivered
      PROVE  Delivered'
  <2>1. CASE reports # <<>>
    BY <1>1, <1>6, <2>1 DEF Delivered
  <2>2. CASE reports = <<>>
    <3>1. Latest(mail', "config", engine'.set, files)
      BY <1>2, <1>3, <1>5, <1>6, <2>2, LatestTaken DEF Delivered
    <3> QED
      BY <1>1, <2>2, <3>1 DEF Delivered, Latest, Carried
  <2> QED
    BY <2>1, <2>2
<1>7. ASSUME Accounted
      PROVE  Accounted'
  <2>1. CASE poller.suspended \/ poller.failed
    BY <1>1, <1>7, <2>1 DEF Accounted
  <2>2. CASE ~(poller.suspended \/ poller.failed)
    <3>1. Latest(mail', "report", engine'.unregistered, Keyed(poller.hotkeys) \ DOMAIN registered)
      BY <1>2, <1>3, <1>5, <1>7, <2>2, LatestTaken DEF Accounted
    <3> QED
      BY <1>1, <1>7, <2>2, <3>1 DEF Accounted, Latest, Carried, Keyed
  <2> QED
    BY <2>1, <2>2
<1>8. WatchInv'
  BY <1>1, <1>6, NobodyMoved DEF WatchInv, NoneWrote, AtRestInv
<1>9. RegisteredInv' /\ DeadInv'
  BY <1>1, <1>2, <1>7 DEF RegisteredInv, DeadInv, AtRestInv
<1> QED
  BY <1>8, <1>9

(* The rebind poller. *)
LEMMA PollerSame ==
    ASSUME AtRestInv, Poll \/ Register \/ RegistrationFails \/ OtherProgram
    PROVE  NoneWrote /\ NoneBegan
           /\ UNCHANGED <<agent, watcher, missed, reports, files, engine, edits, ending>>
  BY NobodyMoved DEF Poll, Register, RegistrationFails, OtherProgram, directory, wire, rest, edges

LEMMA PollRests ==
    ASSUME AtRestInv, Poll
    PROVE  WatchInv' /\ DeadInv' /\ RegisteredInv'
<1>1. NoneWrote /\ UNCHANGED <<agent, watcher, missed, reports, files, engine>>
  BY PollerSame
<1>2. mail' = mail /\ agent = "running" /\ registered' = EmptyTable /\ poller'.busy /\ ~poller'.failed
  BY DEF Poll, Wanted, wire
<1>3. WatchInv'
  BY <1>1, <1>2, SentOrNot, WatchStays DEF AtRestInv, ControlInv
<1> QED
  BY <1>1, <1>2, <1>3 DEF DeadInv, RegisteredInv

LEMMA RegisterRests ==
    ASSUME AtRestInv, Register
    PROVE  WatchInv' /\ DeadInv' /\ RegisteredInv'
<1>1. NoneWrote /\ UNCHANGED <<agent, watcher, missed, reports, files, engine>>
  BY PollerSame
<1>2. poller.busy /\ ~poller.failed /\ agent = "running" /\ registered = EmptyTable
  BY DEF Register, AtRestInv, RegisteredInv, ControlInv, ReducerInv
<1>3. poller'.hotkeys = poller.hotkeys /\ poller'.suspended = poller.suspended /\ ~poller'.busy /\ ~poller'.failed
  <2>1. poller \in PollerState
    BY DEF AtRestInv, ControlInv, KeysInv
  <2>2. poller'.failed = poller.failed
    BY <2>1, Zenon DEF Register, PollerState
  <2>3. poller'.hotkeys = poller.hotkeys /\ poller'.suspended = poller.suspended /\ ~poller'.busy
    BY <2>1, Zenon DEF Register, PollerState
  <2> QED
    BY <1>2, <2>2, <2>3
<1>4. poller.hotkeys \in Bound /\ mail \in Seq(Event)
  BY DEF AtRestInv, ControlInv, KeysInv, PollerState, ReducerInv
<1>5. CASE poller.suspended
  <2>1. mail' = mail /\ registered' = registered
    BY <1>5 DEF Register
  <2>2. WatchInv'
    BY <1>1, <2>1, SentOrNot, WatchStays DEF AtRestInv, ControlInv
  <2>3. Accounted'
    BY <1>2, <1>3, <1>5, <2>1 DEF Accounted
  <2> QED
    BY <1>1, <1>2, <1>3, <2>2, <2>3 DEF DeadInv, RegisteredInv
<1>6. CASE ~poller.suspended
  <2> DEFINE table   == poller.hotkeys
             refused == Keyed(table) \ Free(table)
  <2>1. registered' = Registration(table) /\ mail' = Append(mail, Report(refused))
    BY <1>6 DEF Register
  <2>2. refused \in SUBSET Commands /\ Free(table) \subseteq Keyed(table)
    BY <1>4, FreeTyped
  <2>3. DOMAIN registered' = Free(table) /\ \A c \in Free(table) : registered'[c] = table[c]
    BY <1>4, <2>1, FreeTyped
  <2>4. refused = Keyed(table) \ DOMAIN registered'
    BY <2>3
  <2> HIDE DEF refused
  <2>5. Report(refused) \in Event /\ Report(refused).kind = "report" /\ Carried(Report(refused)) = refused
    BY <2>2, EventsTyped DEF Report, Carried
  <2>6. WatchInv'
    BY <1>1, <2>1, <2>2, SentOrNot, WatchStays DEF AtRestInv, ControlInv
  <2>7. Latest(mail', "report", engine.unregistered, refused)
    BY <1>4, <2>1, <2>5, LatestBrought
  <2>8. Keyed(poller'.hotkeys) = Keyed(table)
    BY <1>3 DEF Keyed
  <2>9. Latest(mail', "report", engine'.unregistered, Keyed(poller'.hotkeys) \ DOMAIN registered')
    BY <1>1, <2>4, <2>7, <2>8 DEF Latest, Carried
  <2>10. Accounted'
    BY <1>3, <1>6, <2>2, <2>3, <2>8, <2>9 DEF Accounted, Latest, Carried, Keyed
  <2> QED
    BY <1>1, <1>2, <1>3, <2>6, <2>10 DEF DeadInv, RegisteredInv
<1> QED
  BY <1>5, <1>6

LEMMA RegistrationFailsRests ==
    ASSUME AtRestInv, RegistrationFails
    PROVE  WatchInv' /\ DeadInv' /\ RegisteredInv'
<1>1. NoneWrote /\ UNCHANGED <<agent, watcher, missed, reports, files, engine>>
  BY PollerSame
<1>2. poller.busy /\ agent = "running" /\ registered' = EmptyTable /\ mail' = mail
  BY DEF RegistrationFails, AtRestInv, RegisteredInv, ControlInv, ReducerInv, wire
<1>3. ~poller'.busy /\ poller'.failed
  <2>1. poller \in PollerState
    BY DEF AtRestInv, ControlInv, KeysInv
  <2> QED
    BY <2>1, Zenon DEF RegistrationFails, PollerState
<1>4. WatchInv'
  BY <1>1, <1>2, SentOrNot, WatchStays DEF AtRestInv, ControlInv
<1>5. Accounted'
  BY <1>2, <1>3 DEF Accounted
<1> QED
  BY <1>1, <1>2, <1>3, <1>4, <1>5 DEF DeadInv, RegisteredInv

LEMMA OtherProgramRests ==
    ASSUME AtRestInv, OtherProgram
    PROVE  WatchInv' /\ DeadInv' /\ RegisteredInv'
<1>1. NoneWrote /\ NoneBegan /\ UNCHANGED <<agent, watcher, missed, reports, files, engine, ending>>
  BY PollerSame
<1>2. mail' = mail /\ UNCHANGED <<poller, registered>>
  BY DEF OtherProgram, wire
<1> QED
  BY <1>1, <1>2, SentOrNot, WatchStays, DeadStays, RegisteredStays DEF AtRestInv, ControlInv

(* The settings applications. *)
\* A dead agent's clients have no connection and hold nothing, so what they
\* do sends nothing and owes nothing.
LEMMA ClientsRest ==
    ASSUME AtRestInv, NEW c \in Clients,
           OpenEditor(c) \/ CloseEditor(c) \/ Request(c) \/ HangUp(c) \/ Kill(c) \/ Launch(c) \/ Release(c)
    PROVE  WatchInv' /\ DeadInv' /\ RegisteredInv'
<1>1. UNCHANGED <<agent, watcher, missed, reports, files, edits, engine, poller, registered>>
  BY DEF OpenEditor, CloseEditor, Request, HangUp, Kill, Launch, Release, directory, wire, keys, rest
<1>2. mail' = mail \/ mail' = Append(mail, Started) \/ mail' = Append(mail, Ended)
  BY DEF OpenEditor, CloseEditor, Request, HangUp, Kill, Launch, Release, wire
<1>3. NoneSent("config") /\ NoneSent("report") /\ NoneWrote /\ NoneBegan
  BY <1>1, <1>2, SentOrNot, NobodyMoved
<1>4. ASSUME agent = "dead"
      PROVE  mail' = mail /\ ending' = ending
  <2>1. clients[c].link # "up" /\ ~clients[c].held /\ ending = {}
    BY <1>4 DEF AtRestInv, ControlInv, ClientsInv, ClientOK, DeadInv
  <2> QED
    BY <1>4, <2>1 DEF OpenEditor, CloseEditor, Request, HangUp, Kill, Launch, Release, Owes, wire
<1> QED
  BY <1>1, <1>3, <1>4, WatchStays, DeadStays, RegisteredStays DEF AtRestInv, ControlInv

(* The agent's life. *)
LEMMA CrashRests ==
    ASSUME AtRestInv, Crash
    PROVE  WatchInv' /\ DeadInv' /\ RegisteredInv'
<1>1. agent' = "dead" /\ mail' = <<>> /\ reports' = <<>> /\ ending' = {} /\ watcher' = AtRestWatcher
      /\ registered' = EmptyTable
      /\ poller' = [hotkeys |-> EmptyTable, suspended |-> FALSE, busy |-> FALSE, failed |-> FALSE]
  BY DEF Crash
<1>2. ~watcher'.touched /\ ~watcher'.reading /\ ~poller'.busy
  BY <1>1 DEF AtRestWatcher
<1>3. \A c \in Clients : edits'[c] = NoEdit
  BY ClientsAssumption DEF Crash, Perish
<1> QED
  BY <1>1, <1>2, <1>3 DEF WatchInv, DeadInv, RegisteredInv

LEMMA RestartRests ==
    ASSUME AtRestInv, Restart
    PROVE  WatchInv' /\ DeadInv' /\ RegisteredInv'
<1>1. agent = "dead" /\ agent' = "starting" /\ engine' = FreshEngine(Loaded(files))
  BY DEF Restart
<1>2. UNCHANGED <<files, edits, mail, reports, watcher, missed, poller, registered, ending>>
  BY DEF Restart, directory, keys, edges
<1>3. mail = <<>> /\ reports = <<>> /\ ~watcher.touched /\ ~watcher.reading /\ \A c \in Clients : ~Unsent(c)
  BY <1>1 DEF AtRestInv, DeadInv, Unsent
<1>4. Valid(files) => Delivered'
  <2>1. Valid(files) => engine'.set = files
    BY <1>1 DEF FreshEngine, Loaded
  <2> QED
    BY <1>2, <1>3, <2>1, LatestThere DEF Delivered
<1>5. NoneWrote
  BY <1>2, NobodyMoved
<1> QED
  BY <1>1, <1>2, <1>3, <1>4, <1>5 DEF WatchInv, DeadInv, RegisteredInv, AtRestInv, NoneWrote

LEMMA StartWatchingRests ==
    ASSUME AtRestInv, StartWatching
    PROVE  WatchInv' /\ DeadInv' /\ RegisteredInv'
<1>1. agent = "starting" /\ agent' = "running"
  BY DEF StartWatching
<1>2. UNCHANGED <<files, edits, engine, mail, reports, watcher, missed, registered, ending>>
  BY DEF StartWatching, directory, wire, edges
<1>3. poller'.busy /\ ~poller'.failed
  <2>1. Wanted \in PollerState
    BY WantedTyped DEF AtRestInv, ControlInv, ReducerInv
  <2>2. Wanted.busy /\ ~Wanted.failed
    BY DEF Wanted
  <2> QED
    BY <2>1, <2>2, Zenon DEF StartWatching, PollerState
<1>4. registered = EmptyTable
  BY <1>1 DEF AtRestInv, RegisteredInv
<1>5. NoneWrote
  BY <1>2, NobodyMoved
<1>6. Delivered => Delivered'
  BY <1>2 DEF Delivered, Latest, Carried
<1> QED
  BY <1>1, <1>2, <1>3, <1>4, <1>5, <1>6 DEF WatchInv, DeadInv, RegisteredInv, AtRestInv, NoneWrote

(* The theorems. *)
LEMMA AtRestStep == AtRestInv /\ [Next]_vars => AtRestInv'
<1> SUFFICES ASSUME AtRestInv, [Next]_vars
             PROVE  AtRestInv'
  OBVIOUS
<1>1. ControlInv'
  BY ControlStep DEF AtRestInv
<1>2. WatchInv' /\ DeadInv' /\ RegisteredInv'
  <2>1. ASSUME NEW w \in Writers, ReadOn(w) \/ Fail(w)
        PROVE  WatchInv' /\ DeadInv' /\ RegisteredInv'
    BY <2>1, ReadingRests
  <2>2. ASSUME NEW w \in Writers, Answer(w)
        PROVE  WatchInv' /\ DeadInv' /\ RegisteredInv'
    BY <2>2, AnsweringRests
  <2>3. CASE HandEdit \/ \E w \in Writers : Write(w)
    BY <2>3, WritingRests
  <2>4. CASE SaveTiling \/ \E c \in Clients : AskEdit(c)
    BY <2>4, AskingRests
  <2>5. CASE Watch
    BY <2>5, WatchRests
  <2>6. CASE Reload
    BY <2>6, ReloadRests
  <2>7. CASE Forward
    BY <2>7, ForwardRests
  <2>8. CASE Reduce
    BY <2>8, ReduceRests
  <2>9. CASE Poll
    BY <2>9, PollRests
  <2>10. CASE Register \/ RegistrationFails
    BY <2>10, RegisterRests, RegistrationFailsRests
  <2>11. CASE OtherProgram
    BY <2>11, OtherProgramRests
  <2>12. ASSUME NEW c \in Clients,
                OpenEditor(c) \/ CloseEditor(c) \/ Request(c) \/ HangUp(c) \/ Kill(c) \/ Launch(c) \/ Release(c)
         PROVE  WatchInv' /\ DeadInv' /\ RegisteredInv'
    BY <2>12, ClientsRest
  <2>13. CASE Crash
    BY <2>13, CrashRests
  <2>14. CASE Restart
    BY <2>14, RestartRests
  <2>15. CASE StartWatching
    BY <2>15, StartWatchingRests
  <2>16. CASE UNCHANGED vars
    <3>1. UNCHANGED <<agent, watcher, missed, reports, files, edits, engine, poller, registered, mail, ending>>
      BY <2>16 DEF vars, directory, wire, keys, rest, edges
    <3> QED
      BY <3>1, SentOrNot, NobodyMoved, WatchStays, DeadStays, RegisteredStays DEF AtRestInv, ControlInv
  <2> QED
    BY <2>1, <2>2, <2>3, <2>4, <2>5, <2>6, <2>7, <2>8, <2>9, <2>10, <2>11, <2>12, <2>13, <2>14, <2>15, <2>16
       DEF Next, Working
<1> QED
  BY <1>1, <1>2 DEF AtRestInv

LEMMA AtRestStart == Init => AtRestInv
<1> SUFFICES ASSUME Init
             PROVE  AtRestInv
  OBVIOUS
<1>1. ControlInv
  BY ControlStart
<1>2. agent = "running" /\ mail = <<>> /\ reports = <<>> /\ ~missed
      /\ engine = FreshEngine(Loaded(files)) /\ registered = Registration(poller.hotkeys) /\ taken = {}
  BY DEF Init
<1>3. ~watcher.touched /\ ~watcher.reading
  BY DEF Init, AtRestWatcher
<1>4. \A c \in Clients : ~Unsent(c)
  BY ClientsAssumption DEF Init, DirectoryInit, Unsent
<1>5. Valid(files) => Delivered
  <2>1. Valid(files) => engine.set = files
    BY <1>2 DEF FreshEngine, Loaded
  <2> QED
    BY <1>2, <2>1, LatestThere DEF Delivered
<1>6. WatchInv
  BY <1>2, <1>3, <1>4, <1>5 DEF WatchInv
<1>7. DeadInv
  BY <1>2 DEF DeadInv
<1>8. RegisteredInv
  <2>1. engine.unregistered = {}
    BY <1>2 DEF FreshEngine
  <2>2. ~poller.busy /\ ~poller.suspended /\ ~poller.failed
    BY DEF Init
  <2>3. Free(poller.hotkeys) = Keyed(poller.hotkeys)
    BY <1>2 DEF Free
  <2>4. poller.hotkeys \in Bound
    BY <1>1 DEF ControlInv, KeysInv, PollerState
  <2>5. DOMAIN registered = Keyed(poller.hotkeys) /\ \A c \in DOMAIN registered : registered[c] = poller.hotkeys[c]
    BY <1>2, <2>3, <2>4, FreeTyped
  <2>6. Latest(mail, "report", engine.unregistered, Keyed(poller.hotkeys) \ DOMAIN registered)
    BY <1>2, <2>1, <2>5 DEF Latest
  <2> QED
    BY <1>2, <2>2, <2>5, <2>6 DEF RegisteredInv, Accounted
<1> QED
  BY <1>1, <1>6, <1>7, <1>8 DEF AtRestInv

\* What was read last is on its way or in force; and what is registered is what
\* the poller was told to register and has a key code, but for what it has
\* reported, or nothing after a registration that did not start.
THEOREM AtRestInvariant == Spec => []AtRestInv
  BY AtRestStart, AtRestStep, PTL DEF Spec

\* An agent with nothing under way runs on what the directory says, in
\* whatever order edits were answered, reloads were read and crashes came.
THEOREM AgentFollowsTheDirectory == Spec => []LiveIsWritten
<1>1. AtRestInv => LiveIsWritten
  BY LatestThere DEF AtRestInv, WatchInv, Delivered, LiveIsWritten, AtRest, Quiet
<1> QED
  BY <1>1, AtRestInvariant, PTL

\* An agent with nothing under way has registered every binding in force whose
\* key has a code or said that it has not, and none while a capture suspends
\* them or after a registration that did not start.
THEOREM BindingsAreAccountedFor == Spec => []BindingsAccountedFor
<1>1. ASSUME AtRestInv, AtRest
      PROVE  IF engine.suspended \/ poller.failed THEN registered = EmptyTable
             ELSE LET wanted == Runtime(engine.set) IN
                  /\ DOMAIN registered = Keyed(wanted) \ engine.unregistered
                  /\ engine.unregistered \subseteq Keyed(wanted)
                  /\ \A c \in DOMAIN registered : registered[c] = wanted[c]
  <2>1. agent = "running" /\ mail = <<>> /\ ~poller.busy
        /\ poller.hotkeys = Wanted.hotkeys /\ poller.suspended = Wanted.suspended
    BY <1>1 DEF AtRest, Quiet
  <2>2. poller.hotkeys = Runtime(engine.set) /\ poller.suspended = engine.suspended
    BY <2>1 DEF Wanted
  <2>3. Accounted
    BY <1>1, <2>1 DEF AtRestInv, RegisteredInv
  <2>4. CASE engine.suspended \/ poller.failed
    BY <2>2, <2>3, <2>4 DEF Accounted
  <2>5. CASE ~(engine.suspended \/ poller.failed)
    <3>1. Latest(mail, "report", engine.unregistered, Keyed(poller.hotkeys) \ DOMAIN registered)
          /\ DOMAIN registered \subseteq Keyed(poller.hotkeys)
          /\ \A c \in DOMAIN registered : registered[c] = poller.hotkeys[c]
      BY <2>2, <2>3, <2>5 DEF Accounted
    <3>2. engine.unregistered = Keyed(poller.hotkeys) \ DOMAIN registered
      BY <2>1, <3>1, LatestThere
    <3> QED
      BY <2>2, <2>5, <3>1, <3>2
  <2> QED
    BY <2>4, <2>5
<1>2. AtRestInv => BindingsAccountedFor
  BY <1>1 DEF BindingsAccountedFor
<1> QED
  BY <1>2, AtRestInvariant, PTL

-----------------------------------------------------------------------------
(* The account of capture.  The reducer's count of holds, once its queue   *)
(* is taken into account, is the number of connections that hold capture   *)
(* or died holding it; and no end of a capture in the queue comes before   *)
(* the start it belongs to, so none of them finds the count at zero, where *)
(* it would be ignored.                                                    *)

\* How many of the first k events are of this kind.
Places(queue, kind, k)  == {i \in 1..k : queue[i].kind = kind}
Counted(queue, kind, k) == Cardinality(Places(queue, kind, k))

\* What one event adds to the count of holds.
Adds(event) == IF event.kind = "started" THEN 1 ELSE IF event.kind = "ended" THEN -1 ELSE 0

\* The count of holds once the first k events are taken into account.
Tally(holds, queue, k) == holds + Counted(queue, "started", k) - Counted(queue, "ended", k)

Covered(holds, queue) == \A k \in 0..Len(queue) : Tally(holds, queue, k) >= 0

Holding(apps) == {c \in Clients : apps[c].held}

Balanced(holds, queue, apps, dying) ==
    /\ IsFiniteSet(Holding(apps)) /\ IsFiniteSet(dying)
    /\ Covered(holds, queue)
    /\ Tally(holds, queue, Len(queue)) = Cardinality(Holding(apps)) + Cardinality(dying)

\* Only an open page holds, and one that captures over a live connection does.
Honest(client) ==
    /\ client.held => client.capturing
    /\ client.capturing /\ client.link = "up" => client.held

HoldsInv ==
    /\ \A c \in Clients : Honest(clients[c])
    /\ agent # "dead" /\ ~stray => Balanced(engine.holds, mail, clients, ending)

(* Counting events. *)
LEMMA CountedType ==
    ASSUME NEW queue, NEW kind, NEW k \in Nat
    PROVE  /\ IsFiniteSet(Places(queue, kind, k))
           /\ Counted(queue, kind, k) \in Nat
           /\ k = 0 => Counted(queue, kind, k) = 0
<1>1. IsFiniteSet(1..k)
  BY FS_Interval
<1>2. IsFiniteSet(Places(queue, kind, k))
  BY <1>1, FS_Subset DEF Places
<1>3. k = 0 => Places(queue, kind, k) = {}
  BY DEF Places
<1> QED
  BY <1>2, <1>3, FS_CardinalityType, FS_EmptySet DEF Counted

LEMMA CountedAppend ==
    ASSUME NEW queue \in Seq(Event), NEW event \in Event, NEW kind
    PROVE  /\ \A k \in 0..Len(queue) :
                Counted(Append(queue, event), kind, k) = Counted(queue, kind, k)
           /\ Counted(Append(queue, event), kind, Len(queue) + 1)
                = Counted(queue, kind, Len(queue)) + (IF event.kind = kind THEN 1 ELSE 0)
<1> DEFINE longer == Append(queue, event)
<1>1. /\ Len(queue) \in Nat /\ longer[Len(queue) + 1] = event
      /\ \A i \in 1..Len(queue) : longer[i] = queue[i]
  OBVIOUS
<1> HIDE DEF longer
<1>2. \A k \in 0..Len(queue) : Places(longer, kind, k) = Places(queue, kind, k)
  BY <1>1 DEF Places
<1> DEFINE n == Len(queue)
           old == Places(queue, kind, n)
<1>3. Places(longer, kind, n + 1) = IF event.kind = kind THEN old \cup {n + 1} ELSE old
  BY <1>1 DEF Places
<1>4. n + 1 \notin old /\ IsFiniteSet(old) /\ Cardinality(old) \in Nat
  <2>1. n + 1 \notin old
    BY <1>1 DEF Places
  <2> HIDE DEF old
  <2>2. IsFiniteSet(old) /\ Cardinality(old) = Counted(queue, kind, n) /\ Counted(queue, kind, n) \in Nat
    BY <1>1, CountedType DEF Counted, old
  <2> QED
    BY <2>1, <2>2
<1> HIDE DEF old
<1>5. Cardinality(old \cup {n + 1}) = Cardinality(old) + 1
  BY <1>4, FS_AddElement
<1>6. Counted(longer, kind, n + 1) = Cardinality(old) + (IF event.kind = kind THEN 1 ELSE 0)
  BY <1>3, <1>4, <1>5 DEF Counted
<1> QED
  BY <1>2, <1>6 DEF Counted, old, longer

LEMMA CountedTail ==
    ASSUME NEW queue \in Seq(Event), queue # <<>>, NEW kind, NEW k \in 0..(Len(queue) - 1)
    PROVE  Counted(queue, kind, k + 1)
             = Counted(Tail(queue), kind, k) + (IF Head(queue).kind = kind THEN 1 ELSE 0)
<1> DEFINE shorter == Tail(queue)
<1>1. /\ Len(queue) \in Nat /\ Len(queue) >= 1 /\ Head(queue) = queue[1]
      /\ \A i \in 1..(Len(queue) - 1) : shorter[i] = queue[i + 1]
  OBVIOUS
<1> HIDE DEF shorter
<1> DEFINE later == {i \in 2..(k + 1) : queue[i].kind = kind}
           f == [i \in Places(shorter, kind, k) |-> i + 1]
<1>2. f \in Bijection(Places(shorter, kind, k), later)
  <2>0. /\ \A i \in 1..k : i \in 1..(Len(queue) - 1) /\ i + 1 \in 2..(k + 1)
        /\ \A j \in 2..(k + 1) : j - 1 \in 1..k /\ j = (j - 1) + 1
    BY <1>1
  <2>1. \A i \in Places(shorter, kind, k) : i + 1 \in later
    BY <1>1, <2>0 DEF Places
  <2>2. \A j \in later : j - 1 \in Places(shorter, kind, k) /\ f[j - 1] = j
    <3>1. \A j \in later : j - 1 \in Places(shorter, kind, k) /\ j = (j - 1) + 1
      BY <1>1, <2>0 DEF Places
    <3> QED
      BY <3>1
  <2>3. Places(shorter, kind, k) \subseteq Nat
    BY DEF Places
  <2> HIDE DEF later
  <2>4. f \in [Places(shorter, kind, k) -> later]
    BY <2>1
  <2>5. \A x, y \in Places(shorter, kind, k) : f[x] = f[y] => x = y
    BY <2>3
  <2> HIDE DEF f
  <2> QED
    BY <2>2, <2>4, <2>5 DEF Bijection, Injection, Surjection, IsInjective
<1>3. ExistsBijection(Places(shorter, kind, k), later)
  BY <1>2 DEF ExistsBijection
<1>4. IsFiniteSet(later) /\ Cardinality(later) = Counted(shorter, kind, k) /\ Cardinality(later) \in Nat
  BY <1>3, CountedType, FS_Bijection DEF Counted
<1>5. Places(queue, kind, k + 1) = IF Head(queue).kind = kind THEN later \cup {1} ELSE later
  BY <1>1 DEF Places
<1>6. 1 \notin later
  OBVIOUS
<1> HIDE DEF later
<1>7. Cardinality(later \cup {1}) = Cardinality(later) + 1
  BY <1>4, <1>6, FS_AddElement
<1> QED
  BY <1>4, <1>5, <1>7 DEF Counted, shorter

(* The account as the queue grows and shrinks. *)
LEMMA TallyAppend ==
    ASSUME NEW holds \in Nat, NEW queue \in Seq(Event), NEW event \in Event
    PROVE  /\ \A k \in 0..Len(queue) : Tally(holds, Append(queue, event), k) = Tally(holds, queue, k)
           /\ Len(Append(queue, event)) = Len(queue) + 1 /\ Len(queue) \in Nat
           /\ Tally(holds, queue, Len(queue)) \in Int
           /\ Tally(holds, Append(queue, event), Len(queue) + 1)
                = Tally(holds, queue, Len(queue)) + Adds(event)
<1>1. Len(Append(queue, event)) = Len(queue) + 1 /\ Len(queue) \in Nat
  OBVIOUS
<1>2. \A kind : Counted(queue, kind, Len(queue)) \in Nat
  BY <1>1, CountedType
<1>3. \A k \in 0..Len(queue) : Tally(holds, Append(queue, event), k) = Tally(holds, queue, k)
  BY CountedAppend DEF Tally
<1>4. \A kind : Counted(Append(queue, event), kind, Len(queue) + 1)
                  = Counted(queue, kind, Len(queue)) + (IF event.kind = kind THEN 1 ELSE 0)
  BY CountedAppend
<1> QED
  BY <1>1, <1>2, <1>3, <1>4 DEF Tally, Adds

LEMMA TallyTail ==
    ASSUME NEW holds \in Nat, NEW queue \in Seq(Event), queue # <<>>, Covered(holds, queue),
           NEW then \in Nat,
           (Head(queue).kind = "ended" /\ holds = 0) \/ then = holds + Adds(Head(queue))
    PROVE  /\ Covered(then, Tail(queue))
           /\ Tally(then, Tail(queue), Len(Tail(queue))) = Tally(holds, queue, Len(queue))
<1>1. Len(Tail(queue)) = Len(queue) - 1 /\ Len(queue) \in Nat /\ Len(queue) >= 1
  OBVIOUS
<1>2. \A kind, k \in 0..(Len(queue) - 1) : Counted(Tail(queue), kind, k) \in Nat
  BY CountedType
<1>3. Head(queue).kind = "ended" => holds # 0
  <2>1. Tally(holds, queue, 0 + 1) >= 0
    BY <1>1 DEF Covered
  <2>2. /\ Counted(queue, "started", 0 + 1)
             = Counted(Tail(queue), "started", 0) + (IF Head(queue).kind = "started" THEN 1 ELSE 0)
        /\ Counted(queue, "ended", 0 + 1)
             = Counted(Tail(queue), "ended", 0) + (IF Head(queue).kind = "ended" THEN 1 ELSE 0)
    BY <1>1, CountedTail
  <2>3. Counted(Tail(queue), "started", 0) = 0 /\ Counted(Tail(queue), "ended", 0) = 0
    BY CountedType
  <2> QED
    BY <2>1, <2>2, <2>3 DEF Tally
<1>4. ASSUME NEW k \in 0..(Len(queue) - 1)
      PROVE  Tally(then, Tail(queue), k) = Tally(holds, queue, k + 1)
  <2> DEFINE one  == IF Head(queue).kind = "started" THEN 1 ELSE 0
             less == IF Head(queue).kind = "ended" THEN 1 ELSE 0
  <2>1. /\ Counted(queue, "started", k + 1) = Counted(Tail(queue), "started", k) + one
        /\ Counted(queue, "ended", k + 1) = Counted(Tail(queue), "ended", k) + less
    BY CountedTail
  <2>2. Counted(Tail(queue), "started", k) \in Nat /\ Counted(Tail(queue), "ended", k) \in Nat
    BY CountedType
  <2>3. then = holds + one - less /\ one \in Int /\ less \in Int
    BY <1>3 DEF Adds
  <2> HIDE DEF one, less
  <2> QED
    BY <2>1, <2>2, <2>3 DEF Tally
<1>5. \A k \in 0..(Len(queue) - 1) : k + 1 \in 0..Len(queue)
  BY <1>1
<1> QED
  BY <1>1, <1>4, <1>5 DEF Covered

LEMMA BalancedAppend ==
    ASSUME NEW holds \in Nat, NEW queue \in Seq(Event), NEW event \in Event,
           NEW apps, NEW dying, NEW then, NEW dead, Balanced(holds, queue, apps, dying),
           IsFiniteSet(Holding(then)), IsFiniteSet(dead),
           Cardinality(Holding(then)) + Cardinality(dead)
             = Cardinality(Holding(apps)) + Cardinality(dying) + Adds(event)
    PROVE  Balanced(holds, Append(queue, event), then, dead)
<1> DEFINE longer == Append(queue, event)
<1>1. /\ \A k \in 0..Len(queue) : Tally(holds, longer, k) = Tally(holds, queue, k)
      /\ Len(longer) = Len(queue) + 1 /\ Len(queue) \in Nat
      /\ Tally(holds, longer, Len(queue) + 1) = Tally(holds, queue, Len(queue)) + Adds(event)
  BY TallyAppend
<1>2. Cardinality(Holding(then)) \in Nat /\ Cardinality(dead) \in Nat
  BY FS_CardinalityType
<1> HIDE DEF longer
<1>3. Tally(holds, longer, Len(longer)) = Cardinality(Holding(then)) + Cardinality(dead)
  BY <1>1 DEF Balanced
<1>4. Covered(holds, longer)
  BY <1>1, <1>2, <1>3 DEF Balanced, Covered
<1> QED
  BY <1>3, <1>4 DEF Balanced, longer

LEMMA BalancedEmpty ==
    ASSUME NEW apps, Holding(apps) = {}
    PROVE  Balanced(0, <<>>, apps, {})
<1>1. Tally(0, <<>>, 0) = 0
  BY CountedType DEF Tally
<1> QED
  BY <1>1, FS_EmptySet DEF Balanced, Covered

(* What becomes of one client. *)
LEMMA HoldingChanged ==
    ASSUME NEW apps \in [Clients -> ClientState], NEW c \in Clients, NEW client,
           NEW then, then = [apps EXCEPT ![c] = client], IsFiniteSet(Holding(apps))
    PROVE  /\ IsFiniteSet(Holding(then)) /\ Cardinality(Holding(apps)) \in Nat
           /\ Cardinality(Holding(then)) + (IF apps[c].held THEN 1 ELSE 0)
                = Cardinality(Holding(apps)) + (IF client.held THEN 1 ELSE 0)
<1> DEFINE held == Holding(apps)
<1>1. \A d \in Clients : then[d] = IF d = c THEN client ELSE apps[d]
  OBVIOUS
<1>2. Holding(then) = IF client.held THEN held \cup {c} ELSE held \ {c}
  BY <1>1 DEF Holding
<1>3. c \in held <=> apps[c].held
  BY DEF Holding
<1> HIDE DEF held
<1>4. Cardinality(held) \in Nat
  BY FS_CardinalityType DEF held
<1>5. /\ IsFiniteSet(held \cup {c}) /\ IsFiniteSet(held \ {c})
      /\ Cardinality(held \cup {c}) = IF c \in held THEN Cardinality(held) ELSE Cardinality(held) + 1
      /\ Cardinality(held \ {c}) = IF c \in held THEN Cardinality(held) - 1 ELSE Cardinality(held)
  BY FS_AddElement, FS_RemoveElement DEF held
<1>6. IsFiniteSet(Holding(then))
  BY <1>2, <1>5
<1>7. Cardinality(Holding(then)) + (IF c \in held THEN 1 ELSE 0)
        = Cardinality(held) + (IF client.held THEN 1 ELSE 0)
  BY <1>2, <1>4, <1>5
<1> QED
  BY <1>3, <1>4, <1>6, <1>7 DEF held

LEMMA HonestChanged ==
    ASSUME ClientsInv, HoldsInv, NEW c \in Clients, NEW client, Honest(client),
           clients' = [clients EXCEPT ![c] = client]
    PROVE  \A d \in Clients : Honest(clients'[d])
<1>1. \A d \in Clients : clients'[d] = IF d = c THEN client ELSE clients[d]
  BY DEF ClientsInv
<1> QED
  BY <1>1 DEF HoldsInv

(* What most steps do: nothing, or a configuration or a report is sent. *)
LEMMA HoldsStay ==
    ASSUME HoldsInv, ReducerInv, ReducerInv', UNCHANGED <<engine, clients, ending, stray>>,
           agent' # "dead" => agent # "dead",
           mail' = mail \/ \E event : Adds(event) = 0 /\ mail' = Append(mail, event)
    PROVE  HoldsInv'
<1>1. mail \in Seq(Event) /\ mail' \in Seq(Event) /\ engine.holds \in Nat
  BY DEF ReducerInv, EngineState
<1>2. CASE mail' = mail
  BY <1>2 DEF HoldsInv
<1>3. ASSUME NEW event, Adds(event) = 0, mail' = Append(mail, event), agent # "dead", ~stray
      PROVE  Balanced(engine.holds, mail', clients, ending)
  <2>1. event \in Event
    BY <1>1, <1>3
  <2>2. Balanced(engine.holds, mail, clients, ending)
    BY <1>3 DEF HoldsInv
  <2>3. Cardinality(Holding(clients)) \in Nat /\ Cardinality(ending) \in Nat
    BY <2>2, FS_CardinalityType DEF Balanced
  <2>4. Balanced(engine.holds, Append(mail, event), clients, ending)
    BY <1>1, <1>3, <2>1, <2>2, <2>3, BalancedAppend DEF Balanced
  <2> QED
    BY <1>3, <2>4
<1> QED
  BY <1>2, <1>3 DEF HoldsInv

LEMMA AddsNothing ==
    /\ \A set : Adds(Config(set)) = 0
    /\ \A commands : Adds(Report(commands)) = 0
    /\ Adds(Started) = 1 /\ Adds(Ended) = -1
  BY DEF Adds, Config, Report, Started, Ended

LEMMA ThreadsHold ==
    ASSUME ControlInv, ControlInv', HoldsInv,
           \/ \E w \in Writers : ReadOn(w) \/ Write(w) \/ Answer(w) \/ Fail(w)
           \/ SaveTiling \/ HandEdit \/ \E c \in Clients : AskEdit(c)
           \/ Watch \/ Reload \/ Forward \/ Poll \/ Register \/ RegistrationFails \/ StartWatching \/ OtherProgram
           \/ UNCHANGED vars
    PROVE  HoldsInv'
<1>1. ReducerInv /\ ReducerInv'
  BY DEF ControlInv
<1>2. CASE \/ \E w \in Writers : ReadOn(w) \/ Write(w) \/ Fail(w)
           \/ SaveTiling \/ HandEdit \/ \E c \in Clients : AskEdit(c)
           \/ Watch \/ Reload \/ Poll \/ RegistrationFails \/ StartWatching \/ OtherProgram
           \/ UNCHANGED vars
  <2>1. UNCHANGED <<engine, clients, ending, stray, mail>> /\ (agent' # "dead" => agent # "dead")
    BY <1>2 DEF ReadOn, Write, Fail, SaveTiling, HandEdit, AskEdit, Noticed, Watch, Reload, Poll,
                RegistrationFails, StartWatching, OtherProgram, vars, wire, rest, edges
  <2> QED
    BY <1>1, <2>1, HoldsStay
<1>3. ASSUME NEW w \in Writers, Answer(w)
      PROVE  HoldsInv'
  <2>1. UNCHANGED <<engine, clients, ending, stray, agent>>
    BY <1>3 DEF Answer, rest, edges
  <2>2. mail' = mail \/ \E event : Adds(event) = 0 /\ mail' = Append(mail, event)
    BY <1>3, AddsNothing DEF Answer
  <2> QED
    BY <1>1, <2>1, <2>2, HoldsStay
<1>4. CASE Forward
  <2>1. UNCHANGED <<engine, clients, ending, stray, agent>>
    BY <1>4 DEF Forward, edges
  <2>2. \E event : Adds(event) = 0 /\ mail' = Append(mail, event)
    BY <1>4, AddsNothing DEF Forward
  <2> QED
    BY <1>1, <2>1, <2>2, HoldsStay
<1>5. CASE Register
  <2>1. UNCHANGED <<engine, clients, ending, stray, agent>>
    BY <1>5 DEF Register, rest, edges
  <2>2. mail' = mail \/ \E event : Adds(event) = 0 /\ mail' = Append(mail, event)
    BY <1>5, AddsNothing DEF Register
  <2> QED
    BY <1>1, <2>1, <2>2, HoldsStay
<1> QED
  BY <1>2, <1>3, <1>4, <1>5

(* The reducer counts: no end of a capture finds nothing to end. *)
LEMMA ReduceHolds ==
    ASSUME ControlInv, ControlInv', HoldsInv, Reduce
    PROVE  HoldsInv'
<1>1. mail \in Seq(Event) /\ mail # <<>> /\ engine \in EngineState /\ engine.holds \in Nat
      /\ engine'.holds \in Nat
  BY DEF ControlInv, ReducerInv, EngineState, Reduce
<1>2. UNCHANGED <<clients, ending, stray, agent>> /\ mail' = Tail(mail)
      /\ engine' = Reduced(engine, Head(mail))
  BY DEF Reduce, edges, rest
<1> DEFINE event == Head(mail)
<1>3. event \in Event
  BY <1>1
<1> HIDE DEF event
<1>4. (event.kind = "ended" /\ engine.holds = 0) \/ Reduced(engine, event).holds = engine.holds + Adds(event)
  <2>1. CASE event.kind \in {"config", "report"}
    <3>1. Reduced(engine, event).holds = engine.holds
      BY <1>1, <2>1, Zenon DEF Reduced, EngineState
    <3> QED
      BY <1>1, <2>1, <3>1 DEF Adds
  <2>2. CASE event.kind = "started"
    <3>1. Reduced(engine, event).holds = engine.holds + 1
      BY <1>1, <2>2, Zenon DEF Reduced, HotkeyCaptureStarted, EngineState
    <3> QED
      BY <2>2, <3>1 DEF Adds
  <2>3. CASE event.kind = "ended" /\ engine.holds # 0
    <3>1. Reduced(engine, event).holds = engine.holds - 1
      BY <1>1, <2>3, Zenon DEF Reduced, HotkeyCaptureEnded, EngineState
    <3> QED
      BY <1>1, <2>3, <3>1 DEF Adds
  <2> QED
    BY <1>3, <2>1, <2>2, <2>3 DEF Event
<1>5. ASSUME agent # "dead", ~stray
      PROVE  Balanced(engine'.holds, mail', clients, ending)
  <2>1. Balanced(engine.holds, mail, clients, ending)
    BY <1>5 DEF HoldsInv
  <2>2. /\ Covered(engine'.holds, Tail(mail))
        /\ Tally(engine'.holds, Tail(mail), Len(Tail(mail))) = Tally(engine.holds, mail, Len(mail))
    BY <1>1, <1>2, <1>4, <2>1, TallyTail DEF Balanced, event
  <2> QED
    BY <1>2, <2>1, <2>2 DEF Balanced
<1> QED
  BY <1>2, <1>5 DEF HoldsInv

(* The settings applications. *)
LEMMA ClientHolds ==
    ASSUME ControlInv, HoldsInv, NEW c \in Clients, NEW client, Honest(client),
           clients' = [clients EXCEPT ![c] = client], UNCHANGED <<agent, engine>>,
           agent # "dead" /\ ~stray' =>
               /\ ~stray /\ (IsFiniteSet(ending) => IsFiniteSet(ending'))
               /\ \/ /\ mail' = mail
                     /\ IsFiniteSet(ending) =>
                          Cardinality(ending') + (IF client.held THEN 1 ELSE 0)
                            = Cardinality(ending) + (IF clients[c].held THEN 1 ELSE 0)
                  \/ /\ mail' = Append(mail, Started) /\ ending' = ending
                     /\ client.held /\ ~clients[c].held
                  \/ /\ mail' = Append(mail, Ended) /\ ending' = ending
                     /\ ~client.held /\ clients[c].held
    PROVE  HoldsInv'
<1>1. \A d \in Clients : Honest(clients'[d])
  BY HonestChanged DEF ControlInv
<1>2. ASSUME agent # "dead", ~stray'
      PROVE  Balanced(engine.holds, mail', clients', ending')
  <2>1. Balanced(engine.holds, mail, clients, ending)
    BY <1>2 DEF HoldsInv
  <2>2. /\ IsFiniteSet(Holding(clients')) /\ Cardinality(Holding(clients)) \in Nat
        /\ Cardinality(Holding(clients')) + (IF clients[c].held THEN 1 ELSE 0)
             = Cardinality(Holding(clients)) + (IF client.held THEN 1 ELSE 0)
    BY <2>1, HoldingChanged DEF ControlInv, ClientsInv, Balanced
  <2>3. IsFiniteSet(ending) /\ IsFiniteSet(ending') /\ Cardinality(ending) \in Nat /\ Cardinality(ending') \in Nat
        /\ Cardinality(Holding(clients')) \in Nat
    BY <1>2, <2>1, <2>2, FS_CardinalityType DEF Balanced
  <2>4. mail \in Seq(Event) /\ engine.holds \in Nat /\ Started \in Event /\ Ended \in Event
    BY EventsTyped DEF ControlInv, ReducerInv, EngineState
  <2> DEFINE held == Cardinality(Holding(clients))
             now  == Cardinality(Holding(clients'))
             owed == Cardinality(ending)
             due  == Cardinality(ending')
             was  == clients[c].held
  <2>0. /\ held \in Nat /\ now \in Nat /\ owed \in Nat /\ due \in Nat
        /\ now + (IF was THEN 1 ELSE 0) = held + (IF client.held THEN 1 ELSE 0)
        /\ ending' = ending => due = owed
    BY <2>2, <2>3
  <2>5. CASE /\ mail' = mail
             /\ due + (IF client.held THEN 1 ELSE 0) = owed + (IF was THEN 1 ELSE 0)
    <3> HIDE DEF held, now, owed, due, was
    <3>1. now + due = held + owed
      BY <2>0, <2>5
    <3> USE DEF held, now, owed, due, was
    <3> QED
      BY <2>1, <2>2, <2>3, <2>5, <3>1 DEF Balanced
  <2>6. CASE mail' = Append(mail, Started) /\ ending' = ending /\ client.held /\ ~was
    <3> HIDE DEF held, now, owed, due, was
    <3>1. now + due = held + owed + 1
      BY <2>0, <2>6
    <3>2. now + due = held + owed + Adds(Started)
      BY <3>1, AddsNothing
    <3> USE DEF held, now, owed, due, was
    <3> QED
      BY <2>1, <2>2, <2>3, <2>4, <2>6, <3>2, BalancedAppend
  <2>7. CASE mail' = Append(mail, Ended) /\ ending' = ending /\ ~client.held /\ was
    <3> HIDE DEF held, now, owed, due, was
    <3>1. now + due = held + owed + (-1)
      BY <2>0, <2>7
    <3>2. now + due = held + owed + Adds(Ended)
      BY <3>1, AddsNothing
    <3> USE DEF held, now, owed, due, was
    <3> QED
      BY <2>1, <2>2, <2>3, <2>4, <2>7, <3>2, BalancedAppend
  <2> HIDE DEF held, now
  <2> QED
    BY <1>2, <2>3, <2>5, <2>6, <2>7
<1> QED
  BY <1>1, <1>2 DEF HoldsInv

LEMMA EditorHolds ==
    ASSUME ControlInv, HoldsInv, NEW c \in Clients, OpenEditor(c) \/ CloseEditor(c)
    PROVE  HoldsInv'
<1>1. /\ ClientOK(clients[c]) /\ Honest(clients[c]) /\ clients[c] \in ClientState
      /\ (agent = "dead" => clients[c].link # "up")
      /\ UNCHANGED <<agent, engine, ending>>
  BY DEF ControlInv, ClientsInv, HoldsInv, OpenEditor, CloseEditor, rest
<1>2. clients[c].link = "broken" \/ agent = "dead" => ~clients[c].held
  BY <1>1 DEF ClientOK
<1>3. ASSUME OpenEditor(c), clients[c].link # "broken", agent # "dead"
      PROVE  HoldsInv'
  <2> DEFINE client == [alive |-> TRUE, open |-> TRUE, capturing |-> TRUE, link |-> "up", held |-> TRUE]
  <2>1. Honest(client) /\ client.held
    BY DEF Honest
  <2>2. clients' = [clients EXCEPT ![c] = client] /\ mail' = Append(mail, Started) /\ stray' = stray
    BY <1>3 DEF OpenEditor
  <2>3. ~clients[c].held
    BY <1>1, <1>3 DEF OpenEditor, Honest, ClientOK
  <2> HIDE DEF client
  <2> QED
    BY <1>1, <2>1, <2>2, <2>3, ClientHolds
<1>4. ASSUME OpenEditor(c), clients[c].link = "broken" \/ agent = "dead"
      PROVE  HoldsInv'
  <2> DEFINE client == [clients[c] EXCEPT !.open = TRUE, !.link = "none"]
  <2>1. client.link = "none" /\ client.held = clients[c].held
    BY <1>1, Zenon DEF ClientState
  <2>2. clients' = [clients EXCEPT ![c] = client] /\ mail' = mail /\ stray' = stray
    BY <1>4 DEF OpenEditor
  <2> HIDE DEF client
  <2>3. Honest(client)
    BY <1>2, <1>4, <2>1 DEF Honest
  <2> QED
    BY <1>1, <2>1, <2>2, <2>3, ClientHolds
<1>5. ASSUME CloseEditor(c), clients[c].link # "broken", agent # "dead"
      PROVE  HoldsInv'
  <2> DEFINE client == [alive |-> TRUE, open |-> FALSE, capturing |-> FALSE, link |-> "up", held |-> FALSE]
  <2>1. Honest(client) /\ ~client.held
    BY DEF Honest
  <2>2. clients' = [clients EXCEPT ![c] = client] /\ mail' = Append(mail, Ended)
        /\ stray' = (stray \/ ~clients[c].held)
    BY <1>5 DEF CloseEditor
  <2>3. clients[c].held \in BOOLEAN
    BY <1>1 DEF ClientState
  <2> HIDE DEF client
  <2>4. ~stray' => ~stray /\ clients[c].held
    BY <2>2, <2>3
  <2> QED
    BY <1>1, <2>1, <2>2, <2>4, ClientHolds
<1>6. ASSUME CloseEditor(c), clients[c].link = "broken" \/ agent = "dead"
      PROVE  HoldsInv'
  <2> DEFINE client == [clients[c] EXCEPT !.open = FALSE, !.capturing = FALSE, !.link = "none"]
  <2>1. client.link = "none" /\ client.held = clients[c].held
    BY <1>1, Zenon DEF ClientState
  <2>2. clients' = [clients EXCEPT ![c] = client] /\ mail' = mail /\ stray' = stray
    BY <1>6 DEF CloseEditor
  <2> HIDE DEF client
  <2>3. Honest(client)
    BY <1>2, <1>6, <2>1 DEF Honest
  <2> QED
    BY <1>1, <2>1, <2>2, <2>3, ClientHolds
<1> QED
  BY <1>3, <1>4, <1>5, <1>6

LEMMA RequestHolds ==
    ASSUME ControlInv, HoldsInv, NEW c \in Clients, Request(c)
    PROVE  HoldsInv'
<1>1. /\ ClientOK(clients[c]) /\ clients[c] \in ClientState /\ clients[c].link # "up" /\ ~clients[c].held
      /\ clients[c].capturing \in BOOLEAN
      /\ UNCHANGED <<agent, engine, ending, stray>>
  BY DEF ControlInv, ClientsInv, ClientOK, ClientState, Request, rest
<1>2. CASE clients[c].link = "broken"
  <2> DEFINE client == [clients[c] EXCEPT !.link = "none"]
  <2>1. client.link = "none" /\ client.held = clients[c].held
    BY <1>1, Zenon DEF ClientState
  <2>2. clients' = [clients EXCEPT ![c] = client] /\ mail' = mail
    BY <1>2 DEF Request
  <2> HIDE DEF client
  <2>3. Honest(client)
    BY <1>1, <2>1 DEF Honest
  <2> QED
    BY <1>1, <2>1, <2>2, <2>3, ClientHolds
<1>3. CASE clients[c].link # "broken"
  <2> DEFINE client == [clients[c] EXCEPT !.link = "up", !.held = clients[c].capturing]
  <2>1. client.held = clients[c].capturing /\ client.capturing = clients[c].capturing
    BY <1>1, Zenon DEF ClientState
  <2>2. clients' = [clients EXCEPT ![c] = client]
        /\ mail' = IF clients[c].capturing THEN Append(mail, Started) ELSE mail
    BY <1>3 DEF Request
  <2> HIDE DEF client
  <2>3. Honest(client)
    BY <2>1 DEF Honest
  <2>4. CASE clients[c].capturing
    <3>1. mail' = Append(mail, Started) /\ client.held
      BY <2>1, <2>2, <2>4
    <3> QED
      BY <1>1, <2>2, <2>3, <3>1, ClientHolds
  <2>5. CASE ~clients[c].capturing
    <3>1. mail' = mail /\ client.held = clients[c].held
      BY <1>1, <2>1, <2>2, <2>5 DEF ClientState
    <3> QED
      BY <1>1, <2>2, <2>3, <3>1, ClientHolds
  <2> QED
    BY <2>4, <2>5
<1> QED
  BY <1>2, <1>3

LEMMA OwesHolds ==
    ASSUME NEW c, NEW before, c \notin before, NEW holds \in BOOLEAN, NEW after,
           after = (IF holds THEN before \cup {c} ELSE before), IsFiniteSet(before)
    PROVE  /\ IsFiniteSet(after)
           /\ Cardinality(after) + 0 = Cardinality(before) + (IF holds THEN 1 ELSE 0)
<1>1. /\ IsFiniteSet(before \cup {c}) /\ Cardinality(before) \in Nat
      /\ Cardinality(before \cup {c}) = Cardinality(before) + 1
  BY FS_AddElement, FS_CardinalityType
<1> QED
  BY <1>1

LEMMA ConnectionHolds ==
    ASSUME ControlInv, HoldsInv, NEW c \in Clients, HangUp(c) \/ Kill(c) \/ Launch(c)
    PROVE  HoldsInv'
<1>1. /\ ClientOK(clients[c]) /\ Honest(clients[c]) /\ clients[c] \in ClientState
      /\ clients[c].held \in BOOLEAN
      /\ UNCHANGED <<agent, engine, stray, mail>>
  BY DEF ControlInv, ClientsInv, ClientState, HoldsInv, HangUp, Kill, Launch, rest, wire
<1>2. ASSUME NEW client, ~client.held, Honest(client), clients' = [clients EXCEPT ![c] = client],
             c \notin ending, Owes(c)
      PROVE  HoldsInv'
  <2>1. ending' = IF clients[c].held THEN ending \cup {c} ELSE ending
    BY <1>2 DEF Owes
  <2>2. IsFiniteSet(ending) =>
          /\ IsFiniteSet(ending')
          /\ Cardinality(ending') + 0 = Cardinality(ending) + (IF clients[c].held THEN 1 ELSE 0)
    BY <1>1, <1>2, <2>1, OwesHolds
  <2>3. (IF client.held THEN 1 ELSE 0) = 0
    BY <1>2
  <2> QED
    BY <1>1, <1>2, <2>2, <2>3, ClientHolds
<1>3. ASSUME HangUp(c)
      PROVE  HoldsInv'
  <2> DEFINE client == [clients[c] EXCEPT !.link = "broken", !.held = FALSE]
  <2>1. client.link = "broken" /\ client.held = FALSE
    BY <1>1, Zenon DEF ClientState
  <2>2. clients' = [clients EXCEPT ![c] = client] /\ c \notin ending /\ Owes(c)
    BY <1>3 DEF HangUp
  <2> HIDE DEF client
  <2>3. Honest(client)
    BY <2>1 DEF Honest
  <2> QED
    BY <1>2, <2>1, <2>2, <2>3
<1>4. ASSUME Kill(c)
      PROVE  HoldsInv'
  <2> DEFINE client == [alive |-> FALSE, open |-> FALSE, capturing |-> FALSE, link |-> "none", held |-> FALSE]
  <2>1. client.held = FALSE /\ Honest(client)
    BY DEF Honest
  <2>2. clients' = [clients EXCEPT ![c] = client] /\ c \notin ending /\ Owes(c)
    BY <1>4 DEF Kill
  <2> HIDE DEF client
  <2> QED
    BY <1>2, <2>1, <2>2
<1>5. ASSUME Launch(c)
      PROVE  HoldsInv'
  <2> DEFINE client == [clients[c] EXCEPT !.alive = TRUE, !.link = IF agent = "dead" THEN "none" ELSE "up"]
  <2>1. client.held = clients[c].held /\ client.capturing = clients[c].capturing
    BY <1>1, Zenon DEF ClientState
  <2>2. clients' = [clients EXCEPT ![c] = client] /\ ending' = ending
    BY <1>5 DEF Launch
  <2>3. ~clients[c].held /\ ~clients[c].capturing
    BY <1>1, <1>5 DEF Launch, ClientOK, Honest
  <2> HIDE DEF client
  <2>4. Honest(client)
    BY <2>1, <2>3 DEF Honest
  <2> QED
    BY <1>1, <2>1, <2>2, <2>4, ClientHolds
<1> QED
  BY <1>3, <1>4, <1>5

LEMMA ReleaseHolds ==
    ASSUME ControlInv, HoldsInv, NEW c \in Clients, Release(c)
    PROVE  HoldsInv'
<1>1. /\ c \in ending /\ ending' = ending \ {c} /\ mail' = Append(mail, Ended)
      /\ UNCHANGED <<agent, engine, clients, stray>>
  BY DEF Release, rest
<1>2. ASSUME agent # "dead", ~stray
      PROVE  Balanced(engine.holds, mail', clients, ending')
  <2>1. Balanced(engine.holds, mail, clients, ending)
    BY <1>2 DEF HoldsInv
  <2>2. /\ IsFiniteSet(ending \ {c}) /\ Cardinality(ending) \in Nat
        /\ Cardinality(ending \ {c}) = Cardinality(ending) - 1
        /\ Cardinality(Holding(clients)) \in Nat
    BY <1>1, <2>1, FS_RemoveElement, FS_CardinalityType DEF Balanced
  <2>3. Cardinality(Holding(clients)) + Cardinality(ending \ {c})
          = Cardinality(Holding(clients)) + Cardinality(ending) + Adds(Ended)
    BY <2>2, AddsNothing
  <2>4. mail \in Seq(Event) /\ engine.holds \in Nat /\ Ended \in Event
    BY EventsTyped DEF ControlInv, ReducerInv, EngineState
  <2>5. Balanced(engine.holds, Append(mail, Ended), clients, ending \ {c})
    BY <2>1, <2>2, <2>3, <2>4, BalancedAppend DEF Balanced
  <2> QED
    BY <1>1, <2>5
<1> QED
  BY <1>1, <1>2 DEF HoldsInv

(* The agent's life: a dead agent counts nothing and nobody holds. *)
LEMMA LifeHolds ==
    ASSUME AtRestInv, HoldsInv, Crash \/ Restart
    PROVE  HoldsInv'
<1>1. CASE Crash
  <2>1. \A c \in Clients : clients[c] \in ClientState
    BY DEF AtRestInv, ControlInv, ClientsInv
  <2>2. ASSUME NEW c \in Clients
        PROVE  Honest(clients'[c])
    <3> DEFINE client == [clients[c] EXCEPT !.held = FALSE, !.link = IF @ = "up" THEN "broken" ELSE @]
    <3>1. client.held = FALSE /\ client.link = IF clients[c].link = "up" THEN "broken" ELSE clients[c].link
      BY <2>1, Zenon DEF ClientState
    <3>2. clients'[c] = client
      BY <1>1 DEF Crash
    <3> HIDE DEF client
    <3> QED
      BY <3>1, <3>2 DEF Honest
  <2>3. agent' = "dead"
    BY <1>1 DEF Crash
  <2> QED
    BY <2>2, <2>3 DEF HoldsInv
<1>2. CASE Restart
  <2>1. mail = <<>> /\ ending = {} /\ \A c \in Clients : ~clients[c].held
    BY <1>2 DEF Restart, AtRestInv, DeadInv, ControlInv, ClientsInv, ClientOK
  <2>2. Holding(clients) = {}
    BY <2>1 DEF Holding
  <2>3. engine'.holds = 0 /\ UNCHANGED <<mail, clients, ending>>
    BY <1>2 DEF Restart, FreshEngine, edges
  <2>4. Balanced(engine'.holds, mail', clients', ending')
    BY <2>1, <2>2, <2>3, BalancedEmpty
  <2> QED
    BY <2>3, <2>4 DEF HoldsInv
<1> QED
  BY <1>1, <1>2

LEMMA HoldsStart == Init => HoldsInv
<1> SUFFICES ASSUME Init
             PROVE  HoldsInv
  OBVIOUS
<1>1. /\ engine.holds = 0 /\ mail = <<>> /\ ending = {}
      /\ \A c \in Clients : ~clients[c].held /\ ~clients[c].capturing
  BY DEF Init, FreshEngine
<1>2. Holding(clients) = {}
  BY <1>1 DEF Holding
<1> QED
  BY <1>1, <1>2, BalancedEmpty DEF HoldsInv, Honest

LEMMA HoldsStep == AtRestInv /\ HoldsInv /\ [Next]_vars => HoldsInv'
<1> SUFFICES ASSUME AtRestInv, HoldsInv, [Next]_vars
             PROVE  HoldsInv'
  OBVIOUS
<1>1. ControlInv /\ ControlInv'
  BY ControlStep DEF AtRestInv
<1> QED
  BY <1>1, ThreadsHold, ReduceHolds, EditorHolds, RequestHolds, ConnectionHolds, ReleaseHolds, LifeHolds
     DEF Next, Working

THEOREM HoldsInvariant == Spec => []HoldsInv
  BY HoldsStart, HoldsStep, AtRestInvariant, PTL DEF Spec

\* The reducer's count, its queue taken into account, is the number of
\* connections that hold capture or died holding it, whatever is hung up on,
\* killed, asserted again or overtaken by a restart.
THEOREM HoldsAreCounted == Spec => []HoldsMatchEditors
<1>1. HoldsInv => HoldsMatchEditors
  <2> SUFFICES ASSUME HoldsInv, agent # "dead", ~stray
               PROVE  engine.holds + Count("started") - Count("ended")
                        = Cardinality({c \in Clients : clients[c].held}) + Cardinality(ending)
    BY DEF HoldsMatchEditors
  <2> QED
    BY DEF HoldsInv, Balanced, Tally, Counted, Places, Holding, Count
<1> QED
  BY <1>1, HoldsInvariant, PTL

\* A page that captures over a live connection has suspended the hotkeys once
\* the agent has caught up, and none is registered.
THEOREM EditorsOwnTheKeys == Spec => []EditorOwnsKeys
<1>1. ASSUME AtRestInv, HoldsInv, AtRest, ~stray, NEW c \in Clients,
             clients[c].capturing, clients[c].link = "up"
      PROVE  engine.suspended /\ registered = EmptyTable
  <2>1. agent = "running" /\ mail = <<>> /\ ending = {} /\ ~poller.busy /\ poller.suspended = engine.suspended
    BY <1>1 DEF AtRest, Quiet, Wanted
  <2>2. Balanced(engine.holds, mail, clients, ending) /\ c \in Holding(clients)
    BY <1>1, <2>1 DEF HoldsInv, Honest, Holding
  <2>3. Tally(engine.holds, mail, Len(mail)) = engine.holds
    <3>1. Len(mail) = 0 /\ engine.holds \in Nat
      BY <1>1, <2>1 DEF AtRestInv, ControlInv, ReducerInv, EngineState
    <3> QED
      BY <3>1, CountedType DEF Tally
  <2>4. Cardinality(ending) = 0 /\ Cardinality(Holding(clients)) \in Nat /\ Cardinality(Holding(clients)) # 0
    BY <2>1, <2>2, FS_EmptySet, FS_CardinalityType DEF Balanced
  <2>5. engine.holds > 0
    BY <2>2, <2>3, <2>4 DEF Balanced
  <2>6. engine.suspended
    BY <1>1, <2>5 DEF AtRestInv, ControlInv, ReducerInv
  <2> QED
    BY <1>1, <2>1, <2>6 DEF AtRestInv, RegisteredInv, Accounted
<1>2. AtRestInv /\ HoldsInv => EditorOwnsKeys
  BY <1>1 DEF EditorOwnsKeys
<1> QED
  BY <1>2, AtRestInvariant, HoldsInvariant, PTL
=============================================================================

------------------------ MODULE SwitchEngine_proofs -------------------------
(***************************************************************************)
(* The reducer of the engine, for every number of windows, workspaces and  *)
(* displays, every configuration and every sequence of events: Good is     *)
(* inductive in every environment.  ParkingPipeline_proofs takes it to the *)
(* agent.  There is one lemma per function a handler calls and one per arm *)
(* of `apply`.                                                             *)
(***************************************************************************)
EXTENDS SwitchEngine, SequenceTheorems, TLAPS

(* A switch that is not open leaves nothing behind; an open one has a      *)
(* number and a display.                                                   *)
Shape(s) ==
    /\ ~SwitchOpen(s) => s.switch = NoSwitch
    /\ SwitchOpen(s) => s.switch.id # 0 /\ s.switch.display \in Display

(* What every step keeps, even in the middle of a handler: the pieces of   *)
(* state a switch is spread over agree with each other.                    *)
Consistent(s) ==
    /\ s \in EngineState
    /\ Shape(s)
    /\ RequestsMatch(s)
    /\ RequestedOnce(s)
    /\ DisplayedOnce(s.pool)

(* The inductive invariant.  Neither half is inductive alone: Owes needs the *)
(* shape of the closed switch, and RequestsMatch needs RequestedOnce, or one *)
(* answer would settle two requests.                                       *)
Good(s) == Consistent(s) /\ Owes(s)

-----------------------------------------------------------------------------
(* The operations of the workspace pool: each returns a pool, and none     *)
(* shows one workspace on two displays.                                    *)

(* WorkspacePool::create and ::delete touch the owners only.               *)
LEMMA CreateKeeps ==
    ASSUME NEW p \in Pool, NEW n \in Workspace, NEW origin \in Origin
    PROVE  /\ Create(p, n, origin) \in Pool
           /\ DisplayedOnce(p) => DisplayedOnce(Create(p, n, origin))
BY DEF Create, Pool, DisplayedOnce

LEMMA DeleteKeeps ==
    ASSUME NEW p \in Pool, NEW n \in Workspace
    PROVE  /\ Delete(p, n) \in Pool
           /\ DisplayedOnce(p) => DisplayedOnce(Delete(p, n))
BY DEF Delete, Pool, Origin, DisplayedOnce

(* WorkspacePool::display: the workspace leaves the display it came from,  *)
(* so however it got there, it is shown once afterwards.                   *)
LEMMA ShowKeeps ==
    ASSUME NEW p \in Pool, NEW n \in Workspace \cup {None}, NEW d \in Display
    PROVE  /\ Show(p, n, d) \in Pool
           /\ DisplayedOnce(p) => DisplayedOnce(Show(p, n, d))
BY DEF Show, Pool, DisplayedOnce

(* WorkspacePool::swap_displays                                            *)
LEMMA SwapDisplaysKeeps ==
    ASSUME NEW p \in Pool, NEW from \in Display, NEW to \in Display
    PROVE  /\ SwapDisplays(p, from, to) \in Pool
           /\ DisplayedOnce(p) => DisplayedOnce(SwapDisplays(p, from, to))
BY DEF SwapDisplays, Pool, DisplayedOnce

(* WorkspacePool::retain_displays                                          *)
LEMMA RetainDisplaysKeeps ==
    ASSUME NEW p \in Pool, NEW live
    PROVE  /\ RetainDisplays(p, live) \in Pool
           /\ DisplayedOnce(p) => DisplayedOnce(RetainDisplays(p, live))
BY DEF RetainDisplays, Pool, DisplayedOnce

(* WorkspacePool::retain_members and ::assign touch the members only.      *)
LEMMA RetainMembersKeeps ==
    ASSUME NEW p \in Pool, NEW live
    PROVE  /\ RetainMembers(p, live) \in Pool
           /\ DisplayedOnce(p) => DisplayedOnce(RetainMembers(p, live))
BY DEF RetainMembers, Pool, DisplayedOnce

LEMMA AssignKeeps ==
    ASSUME NEW p \in Pool, NEW to \in [Window -> Workspace \cup {None}]
    PROVE  /\ Assign(p, to) \in Pool
           /\ DisplayedOnce(p) => DisplayedOnce(Assign(p, to))
BY DEF Assign, Pool, DisplayedOnce

-----------------------------------------------------------------------------
(* Types *)

(* switch_transaction = None is a value of its type.                       *)
LEMMA NoSwitchType == NoSwitch \in Transaction
BY DEF NoSwitch, Transaction, Phase, ForwardPhase, CompensatingPhase

(* The fields of a typed state, one by one, for the leaves that need few.  *)
LEMMA FieldTypes ==
    ASSUME NEW s \in EngineState
    PROVE  /\ s.pool \in Pool
           /\ s.displays \in SUBSET Display
           /\ s.config \in Configs
           /\ s.remembered \in [Workspace -> Display \cup {None}]
           /\ s.life \in [Window -> Lifecycle] /\ s.seat \in [Window -> Display]
           /\ s.parked \in [Window -> Nat]
           /\ s.pending \in SUBSET Request
           /\ s.switch \in Transaction
           /\ s.degraded \in SUBSET Window
           /\ s.lastBatch \in Nat /\ s.lastSwitch \in Nat
           /\ s.effects \in Seq(SUBSET Move) /\ s.intents \in Seq(SUBSET Intent)
<1>1. /\ s.pool \in Pool /\ s.displays \in SUBSET Display /\ s.config \in Configs
      /\ s.remembered \in [Workspace -> Display \cup {None}]
      /\ s.life \in [Window -> Lifecycle] /\ s.seat \in [Window -> Display]
  BY DEF EngineState
<1>2. /\ s.parked \in [Window -> Nat]
      /\ s.pending \in SUBSET Request
      /\ s.switch \in Transaction
      /\ s.degraded \in SUBSET Window
      /\ s.lastBatch \in Nat /\ s.lastSwitch \in Nat
      /\ s.effects \in Seq(SUBSET Move) /\ s.intents \in Seq(SUBSET Intent)
  BY DEF EngineState
<1> QED
  BY <1>1, <1>2

(* A batch joins a queue; an empty one does not (request_recovery_entries  *)
(* and the callers that return early).                                     *)
LEMMA PushType ==
    ASSUME NEW S, NEW queue \in Seq(SUBSET S), NEW batch \in SUBSET S
    PROVE  Push(queue, batch) \in Seq(SUBSET S)
BY DEF Push

(* restore_effect builds restores of windows that exist.                   *)
LEMMA RestoreMovesType ==
    ASSUME NEW s \in EngineState, NEW W \in SUBSET Window
    PROVE  RestoreMoves(s, W) \in SUBSET Move
BY FieldTypes DEF RestoreMoves, Move

-----------------------------------------------------------------------------
(* The steps a handler is made of *)

(* commit_switch, reached only once nothing is being recorded.             *)
LEMMA CommitGood ==
    ASSUME NEW s, Consistent(s), SwitchOpen(s), s.switch.recording = {}
    PROVE  Good(CommitSwitch(s))
<1> DEFINE t == CommitSwitch(s)
<1>1. s \in EngineState /\ s.pool \in Pool /\ s.switch \in Transaction
  BY FieldTypes DEF Consistent
<1>2. /\ Show(s.pool, s.switch.target, s.switch.display) \in Pool
      /\ DisplayedOnce(Show(s.pool, s.switch.target, s.switch.display))
  BY <1>1, ShowKeeps DEF Transaction, Consistent, Shape
<1>3. t \in EngineState
  BY <1>1, <1>2, NoSwitchType DEF CommitSwitch, EngineState
<1>4. /\ t.pool = Show(s.pool, s.switch.target, s.switch.display)
      /\ t.switch = NoSwitch /\ t.pending = s.pending
  BY <1>1 DEF CommitSwitch, EngineState
<1>5. \A r \in s.pending : r.switch = 0
  BY DEF Consistent, RequestsMatch
<1>. HIDE DEF t
<1>6. RequestsMatch(t) /\ RequestedOnce(t) /\ Shape(t) /\ Owes(t)
  BY <1>4, <1>5 DEF RequestsMatch, RequestedOnce, Consistent, Shape, SwitchOpen, Owes, NoSwitch
<1> QED
  BY <1>2, <1>3, <1>4, <1>6 DEF Good, Consistent, t

(* finish_compensation, reached only once nothing is being recorded.       *)
LEMMA FinishGood ==
    ASSUME NEW s, Consistent(s), SwitchOpen(s), s.switch.recording = {}
    PROVE  Good(FinishCompensation(s))
<1> DEFINE t == FinishCompensation(s)
<1>1. s \in EngineState /\ s.switch.stranded \in SUBSET Window
  BY FieldTypes DEF Consistent, Transaction
<1>3. t \in EngineState
  BY <1>1, NoSwitchType DEF FinishCompensation, EngineState
<1>4. t.switch = NoSwitch /\ t.pending = s.pending /\ t.pool = s.pool
  BY <1>1 DEF FinishCompensation, EngineState
<1>5. \A r \in s.pending : r.switch = 0
  BY DEF Consistent, RequestsMatch
<1>. HIDE DEF t
<1>6. RequestsMatch(t) /\ RequestedOnce(t) /\ Shape(t) /\ Owes(t)
  BY <1>4, <1>5 DEF RequestsMatch, RequestedOnce, Consistent, Shape, SwitchOpen, Owes, NoSwitch
<1> QED
  BY <1>3, <1>4, <1>6 DEF Good, Consistent, t

(* emit_switch_restores: restoring starts with nothing yet brought back.   *)
LEMMA EmitGood ==
    ASSUME NEW s, Good(s), s.switch.recording = {},
           s.switch.phase \in {"Restoring", "CompensatingRestore"}
    PROVE  Good(EmitSwitchRestores(s))
<1> DEFINE here == s.switch.inFlight \ Parked(s)
           away == s.switch.inFlight \cap Parked(s)
           forward == s.switch.phase = "Restoring"
           restored == IF forward THEN s.switch.restored \cup here ELSE s.switch.restored
           parked == IF forward THEN s.switch.parked ELSE s.switch.parked \ here
           effects == Push(s.effects, RestoreMoves(s, away))
           t == [s EXCEPT !.effects = effects,
                          !.switch.inFlight = away,
                          !.switch.restored = restored,
                          !.switch.parked   = parked]
<1>1. s \in EngineState /\ s.switch \in Transaction /\ SwitchOpen(s)
  BY FieldTypes DEF Good, Consistent, SwitchOpen
<1>2. /\ away \in SUBSET Window /\ here \in SUBSET Window
      /\ restored \in SUBSET Window /\ parked \in SUBSET Window
  BY <1>1 DEF Transaction
<1>3. effects \in Seq(SUBSET Move)
  <2>1. RestoreMoves(s, away) \in SUBSET Move
    BY <1>1, <1>2, RestoreMovesType
  <2> QED
    BY <1>1, <2>1, PushType, FieldTypes
<1>4. s.switch.phase = "CompensatingRestore" => s.switch.restored = {} /\ s.switch.parked \subseteq s.switch.inFlight
  BY DEF Good, Owes
<1>5. ~forward => restored = {} /\ parked \subseteq away
  BY <1>4
<1>6. Good(t)
  <2>. HIDE DEF effects, restored, parked, away, here
  <2>1. t \in EngineState
    BY <1>1, <1>2, <1>3 DEF EngineState, Transaction
  <2>2. /\ t.pool = s.pool /\ t.pending = s.pending
        /\ t.switch.id = s.switch.id /\ t.switch.phase = s.switch.phase
        /\ t.switch.recording = s.switch.recording /\ t.switch.display = s.switch.display
        /\ t.switch.inFlight = away /\ t.switch.restored = restored /\ t.switch.parked = parked
    BY <1>1 DEF EngineState, Transaction
  <2>. HIDE DEF t
  <2>3. Consistent(t)
    BY <2>1, <2>2, <1>1 DEF Good, Consistent, Shape, SwitchOpen, RequestsMatch, RequestedOnce
  <2> QED
    BY <2>2, <2>3, <1>5 DEF Good, Owes
<1>7. SwitchOpen(t) /\ t.switch.recording = {}
  BY <1>1 DEF EngineState, Transaction, SwitchOpen
<1>. HIDE DEF t
<1>8. Consistent(t) /\ Good(CommitSwitch(t)) /\ Good(FinishCompensation(t))
  BY <1>6, <1>7, CommitGood, FinishGood DEF Good
<1>9. EmitSwitchRestores(s) = IF away # {} THEN t ELSE IF forward THEN CommitSwitch(t) ELSE FinishCompensation(t)
  BY DEF EmitSwitchRestores, t
<1> QED
  BY <1>6, <1>8, <1>9

(* advance_switch, in every phase.                                         *)
LEMMA AdvanceGood ==
    ASSUME NEW s, Good(s)
    PROVE  Good(AdvanceSwitch(s))
<1>1. CASE ~SwitchOpen(s) \/ ~PhaseIsSettled(s)
  BY <1>1 DEF AdvanceSwitch, SwitchOpen
<1>2. CASE SwitchOpen(s) /\ PhaseIsSettled(s)
  <2> DEFINE forth == [s EXCEPT !.switch.phase = "Restoring", !.switch.queued = {},
                                !.switch.inFlight = s.switch.queued]
             back == [s EXCEPT !.switch.phase = "CompensatingRestore",
                               !.switch.inFlight = s.switch.parked]
  <2>1. /\ s \in EngineState /\ s.switch \in Transaction /\ Consistent(s)
        /\ s.switch.recording = {} /\ s.switch.inFlight = {}
    BY <1>2, FieldTypes DEF Good, Consistent, PhaseIsSettled
  <2>2. CASE s.switch.phase \in {"Recording", "Parking"}
    <3>1. forth \in EngineState
      <4>1. "Restoring" \in Phase
        BY DEF Phase, ForwardPhase
      <4> QED
        BY <4>1, <2>1 DEF EngineState, Transaction
    <3>2. /\ forth.pool = s.pool /\ forth.pending = s.pending
          /\ forth.switch.id = s.switch.id /\ forth.switch.phase = "Restoring"
          /\ forth.switch.recording = s.switch.recording /\ forth.switch.display = s.switch.display
      BY <2>1 DEF EngineState, Transaction
    <3>. HIDE DEF forth
    <3>3. Good(forth)
      BY <3>1, <3>2, <2>1, <1>2 DEF Good, Consistent, Shape, SwitchOpen, RequestsMatch, RequestedOnce, Owes
    <3>4. Good(EmitSwitchRestores(forth)) /\ Good(CommitSwitch(s))
      BY <3>3, <3>2, <2>1, <1>2, EmitGood, CommitGood
    <3>5. AdvanceSwitch(s) = IF s.switch.queued = {} THEN CommitSwitch(s) ELSE EmitSwitchRestores(forth)
      BY <1>2, <2>2 DEF AdvanceSwitch, forth
    <3> QED
      BY <3>4, <3>5
  <2>3. CASE s.switch.phase = "Restoring"
    <3>1. AdvanceSwitch(s) = CommitSwitch(s)
      BY <1>2, <2>3 DEF AdvanceSwitch
    <3> QED
      BY <3>1, <2>1, <1>2, CommitGood
  <2>4. CASE s.switch.phase = "CompensatingPark"
    <3>1. back \in EngineState
      BY <2>1 DEF EngineState, Transaction, Phase, CompensatingPhase
    <3>2. /\ back.pool = s.pool /\ back.pending = s.pending
          /\ back.switch.id = s.switch.id /\ back.switch.phase = "CompensatingRestore"
          /\ back.switch.recording = s.switch.recording /\ back.switch.display = s.switch.display
          /\ back.switch.inFlight = s.switch.parked /\ back.switch.parked = s.switch.parked
          /\ back.switch.restored = s.switch.restored
      BY <2>1 DEF EngineState, Transaction
    <3>3. s.switch.restored = {}
      BY <2>1, <2>4 DEF Good, Owes
    <3>. HIDE DEF back
    <3>4. Good(back)
      BY <3>1, <3>2, <3>3, <2>1, <1>2 DEF Good, Consistent, Shape, SwitchOpen, RequestsMatch, RequestedOnce, Owes
    <3>5. AdvanceSwitch(s) = EmitSwitchRestores(back)
      BY <1>2, <2>4 DEF AdvanceSwitch, back
    <3> QED
      BY <3>2, <3>4, <3>5, <2>1, EmitGood
  <2>5. CASE s.switch.phase = "CompensatingRestore"
    <3>1. AdvanceSwitch(s) = FinishCompensation(s)
      BY <1>2, <2>5 DEF AdvanceSwitch
    <3> QED
      BY <3>1, <2>1, <1>2, FinishGood
  <2> QED
    BY <1>2, <2>1, <2>2, <2>3, <2>4, <2>5 DEF SwitchOpen, Transaction, Phase, ForwardPhase, CompensatingPhase
<1> QED
  BY <1>1, <1>2

(* The fields request_recovery_entries writes.                             *)
LEMMA AskType ==
    ASSUME NEW s \in EngineState, NEW pending \in SUBSET Request,
           NEW intents \in Seq(SUBSET Intent), NEW batch \in Nat
    PROVE  [s EXCEPT !.lastBatch = batch, !.pending = pending,
                     !.intents = intents] \in EngineState
BY DEF EngineState

(* request_recovery_entries adds one request per window, under a batch     *)
(* number of its own.                                                      *)
LEMMA RequestsAsked ==
    ASSUME NEW s \in EngineState, NEW W \in SUBSET Window, NEW id \in Nat,
           RequestedOnce(s), \A w \in W : ~Waiting(s, w)
    PROVE  LET t == RequestRecoveryEntries(s, W, id) IN
           /\ t \in EngineState
           /\ t.pool = s.pool /\ t.switch = s.switch /\ t.lastSwitch = s.lastSwitch
           /\ t.pending = s.pending \cup {[batch |-> t.lastBatch, window |-> w, switch |-> id] : w \in W}
           /\ RequestedOnce(t)
<1> DEFINE batch == s.lastBatch + 1
           asked == {[batch |-> batch, window |-> w, switch |-> id] : w \in W}
           records == {[kind |-> "Record", window |-> w, number |-> batch] : w \in W}
           t == [s EXCEPT !.lastBatch = batch, !.pending = @ \cup asked,
                          !.intents = Append(@, records)]
<1>1. /\ s.lastBatch \in Nat /\ s.pending \in SUBSET Request /\ s.intents \in Seq(SUBSET Intent)
  BY FieldTypes
<1>2. batch \in Nat /\ asked \in SUBSET Request /\ records \in SUBSET Intent
  BY <1>1 DEF Request, Intent
<1>3. t \in EngineState
  <2>. HIDE DEF asked, records, batch
  <2>1. s.pending \cup asked \in SUBSET Request
    BY <1>1, <1>2
  <2>2. Append(s.intents, records) \in Seq(SUBSET Intent)
    BY <1>1, <1>2
  <2> QED
    BY <1>2, <2>1, <2>2, AskType
<1>4. /\ t.pool = s.pool /\ t.switch = s.switch /\ t.lastSwitch = s.lastSwitch
      /\ t.lastBatch = batch /\ t.pending = s.pending \cup asked
  <2>. HIDE DEF asked, records, batch
  <2> QED
    BY DEF EngineState
<1>5. RequestedOnce(t)
  <2>1. \A q, r \in asked : q.window = r.window => q = r
    OBVIOUS
  <2>2. \A q \in asked, r \in s.pending : q.window # r.window
    BY DEF Waiting
  <2>. HIDE DEF asked, t
  <2> QED
    BY <2>1, <2>2, <1>4 DEF RequestedOnce
<1>6. CASE W = {}
  <2>1. RequestRecoveryEntries(s, W, id) = s
    BY <1>6 DEF RequestRecoveryEntries
  <2> QED
    BY <1>6, <2>1
<1>7. CASE W # {}
  <2>1. RequestRecoveryEntries(s, W, id) = t
    BY <1>7 DEF RequestRecoveryEntries
  <2>. HIDE DEF t
  <2> QED
    BY <2>1, <1>3, <1>4, <1>5
<1> QED
  BY <1>6, <1>7

(* request_switch_reparks: whatever is not asked for again goes to         *)
(* `stranded`, and the rest is in flight.                                  *)
LEMMA ReparksGood ==
    ASSUME NEW s \in EngineState, NEW W,
           Shape(s), RequestedOnce(s), DisplayedOnce(s.pool),
           s.switch.phase = "CompensatingPark",
           s.switch.restored = W,
           \A r \in s.pending : r.switch = 0
    PROVE  Good(RequestSwitchReparks(s, W))
<1> DEFINE able == {w \in W : Parkable(s, w)}
           lost == W \ able
           t == RequestRecoveryEntries(s, able, s.switch.id)
           tokens == {<<t.lastBatch, w>> : w \in able}
           u == [t EXCEPT !.switch.recording = tokens,
                          !.switch.inFlight  = able,
                          !.switch.stranded  = @ \cup lost,
                          !.switch.restored  = @ \ lost,
                          !.switch.parked    = @ \ lost]
<1>1. s.switch \in Transaction /\ W \in SUBSET Window /\ able \in SUBSET Window
  BY FieldTypes DEF Transaction
<1>2. \A w \in able : ~Waiting(s, w)
  BY DEF Parkable
<1>3. s.switch.id \in Nat /\ s.switch.id # 0
  BY <1>1 DEF Transaction, Shape, SwitchOpen
<1>4. /\ t \in EngineState
      /\ t.pool = s.pool /\ t.switch = s.switch
      /\ t.pending = s.pending \cup {[batch |-> t.lastBatch, window |-> w, switch |-> s.switch.id] : w \in able}
      /\ RequestedOnce(t)
  <2>. HIDE DEF able
  <2> QED
    BY <1>1, <1>2, <1>3, RequestsAsked
<1>5. t.lastBatch \in Nat
  BY <1>4, FieldTypes
<1>6. tokens \in SUBSET Token
  BY <1>1, <1>5 DEF Token
<1>7. u \in EngineState
  <2>1. lost \in SUBSET Window
    BY <1>1
  <2>. HIDE DEF tokens, able, lost, t
  <2> DEFINE sw == [t.switch EXCEPT !.recording = tokens, !.inFlight = able,
                                    !.stranded = @ \cup lost, !.restored = @ \ lost,
                                    !.parked = @ \ lost]
  <2>2. sw \in Transaction
    BY <1>1, <1>4, <1>6, <2>1 DEF Transaction
  <2>3. [t EXCEPT !.switch = sw] \in EngineState
    <3>. HIDE DEF sw
    <3> QED
      BY <1>4, <2>2 DEF EngineState
  <2>4. u = [t EXCEPT !.switch = sw]
    BY <1>4 DEF EngineState, Transaction
  <2> QED
    BY <2>3, <2>4
<1>8. /\ u.pool = s.pool /\ u.pending = t.pending
      /\ u.switch.id = s.switch.id /\ u.switch.display = s.switch.display
      /\ u.switch.phase = "CompensatingPark"
      /\ u.switch.recording = tokens /\ u.switch.inFlight = able
      /\ u.switch.restored = W \ lost
  <2>. HIDE DEF tokens, able, lost, t
  <2> QED
    BY <1>1, <1>4 DEF EngineState, Transaction
<1>9. RequestsMatch(u)
  <2> DEFINE asked == {[batch |-> t.lastBatch, window |-> w, switch |-> s.switch.id] : w \in able}
  <2>. HIDE DEF u, t, able
  <2>1. {r \in u.pending : r.switch # 0} = asked
    BY <1>3, <1>4, <1>8
  <2>2. {<<r.batch, r.window>> : r \in asked} = tokens
    <3>1. \A r \in asked : <<r.batch, r.window>> \in tokens
      OBVIOUS
    <3>2. ASSUME NEW w \in able
          PROVE  \E r \in asked : <<t.lastBatch, w>> = <<r.batch, r.window>>
      <4>. WITNESS [batch |-> t.lastBatch, window |-> w, switch |-> s.switch.id] \in asked
      <4> QED
        OBVIOUS
    <3> QED
      BY <3>1, <3>2
  <2>3. \A r \in asked : r.switch = u.switch.id
    BY <1>8
  <2>. HIDE DEF asked, tokens, u
  <2> QED
    BY <2>1, <2>2, <2>3, <1>8 DEF RequestsMatch
<1>10. Good(u)
  <2>. HIDE DEF u, t
  <2> QED
    BY <1>4, <1>7, <1>8, <1>9 DEF Good, Consistent, Shape, SwitchOpen, RequestedOnce, Owes
<1>11. RequestSwitchReparks(s, W) = AdvanceSwitch(u)
  BY DEF RequestSwitchReparks
<1> QED
  BY <1>10, <1>11, AdvanceGood

(* begin_switch_compensation withdraws the requests of the switch it cancels. *)
LEMMA CompensationGood ==
    ASSUME NEW s, Good(s)
    PROVE  Good(BeginSwitchCompensation(s))
<1>1. CASE ~SwitchOpen(s) \/ Compensating(s)
  BY <1>1 DEF BeginSwitchCompensation
<1>2. CASE SwitchOpen(s) /\ ~Compensating(s)
  <2> DEFINE t == [s EXCEPT !.pending = {r \in @ : r.switch = 0},
                            !.switch.phase     = "CompensatingPark",
                            !.switch.queued    = {},
                            !.switch.recording = {},
                            !.switch.inFlight  = {}]
  <2>1. s \in EngineState /\ s.switch \in Transaction /\ s.pending \in SUBSET Request
    BY FieldTypes DEF Good, Consistent
  <2>2. t \in EngineState
    <3>1. "CompensatingPark" \in Phase
      BY DEF Phase, CompensatingPhase
    <3> QED
      BY <3>1, <2>1 DEF EngineState, Transaction
  <2>3. /\ t.pool = s.pool /\ t.pending = {r \in s.pending : r.switch = 0}
        /\ t.switch.id = s.switch.id /\ t.switch.display = s.switch.display
        /\ t.switch.phase = "CompensatingPark" /\ t.switch.restored = s.switch.restored
    BY <2>1 DEF EngineState, Transaction
  <2>4. BeginSwitchCompensation(s) = RequestSwitchReparks(t, s.switch.restored)
    BY <1>2 DEF BeginSwitchCompensation
  <2>. HIDE DEF t
  <2>5. Shape(t) /\ RequestedOnce(t) /\ DisplayedOnce(t.pool)
    BY <1>2, <2>3 DEF Good, Consistent, Shape, SwitchOpen, RequestedOnce
  <2> QED
    BY <2>2, <2>3, <2>4, <2>5, ReparksGood
<1> QED
  BY <1>1, <1>2

(* switch_window_settled, for a landing or a failure, expected or late.    *)
LEMMA SettledGood ==
    ASSUME NEW s, Good(s), NEW w \in Window, NEW ok \in BOOLEAN
    PROVE  Good(SwitchWindowSettled(s, w, ok))
<1> DEFINE phase == s.switch.phase
           parked == IF phase \in {"Recording", "Parking"} THEN s.switch.parked \cup {w}
                     ELSE IF phase = "CompensatingRestore" THEN s.switch.parked \ {w}
                     ELSE s.switch.parked
           restored == IF phase = "Restoring" THEN s.switch.restored \cup {w}
                       ELSE IF phase = "CompensatingPark" THEN s.switch.restored \ {w}
                       ELSE s.switch.restored
           t == [s EXCEPT !.switch.inFlight = @ \ {w}]
           landed == [t EXCEPT !.switch.parked = parked, !.switch.restored = restored]
           lost == [t EXCEPT !.switch.stranded = @ \cup {w},
                             !.switch.restored = @ \ {w},
                             !.switch.parked   = @ \ {w}]
<1>1. s \in EngineState /\ s.switch \in Transaction /\ Consistent(s) /\ Owes(s)
  BY FieldTypes DEF Good, Consistent
<1>2. CASE w \notin s.switch.inFlight
  BY <1>2 DEF SwitchWindowSettled
<1>3. CASE w \in s.switch.inFlight /\ ok
  <2>1. parked \in SUBSET Window /\ restored \in SUBSET Window
    BY <1>1 DEF Transaction
  <2>2. landed \in EngineState
    <3>. HIDE DEF parked, restored
    <3> QED
      BY <1>1, <2>1 DEF EngineState, Transaction
  <2>3. /\ landed.pool = s.pool /\ landed.pending = s.pending
        /\ landed.switch.id = s.switch.id /\ landed.switch.display = s.switch.display
        /\ landed.switch.phase = phase /\ landed.switch.recording = s.switch.recording
        /\ landed.switch.inFlight = s.switch.inFlight \ {w}
        /\ landed.switch.parked = parked /\ landed.switch.restored = restored
    <3>. HIDE DEF parked, restored
    <3> QED
      BY <1>1 DEF EngineState, Transaction
  <2>4. SwitchOpen(s)
    BY <1>1, <1>3 DEF Consistent, Shape, NoSwitch
  <2>5. SwitchWindowSettled(s, w, ok) = AdvanceSwitch(landed)
    BY <1>3 DEF SwitchWindowSettled
  <2>6. Owes(landed)
    <3>. HIDE DEF landed
    <3> QED
      BY <1>1, <2>3 DEF Owes
  <2>. HIDE DEF landed, parked, restored
  <2>7. Good(landed)
    BY <1>1, <2>2, <2>3, <2>4, <2>6 DEF Good, Consistent, Shape, SwitchOpen, RequestsMatch, RequestedOnce
  <2> QED
    BY <2>5, <2>7, AdvanceGood
<1>4. CASE w \in s.switch.inFlight /\ ~ok
  <2>1. SwitchOpen(s)
    BY <1>1, <1>4 DEF Consistent, Shape, NoSwitch
  <2>2. t \in EngineState /\ lost \in EngineState
    <3>1. t \in EngineState
      BY <1>1 DEF EngineState, Transaction
    <3>2. t.switch \in Transaction
      BY <3>1, FieldTypes
    <3>. HIDE DEF t
    <3>3. lost \in EngineState
      BY <3>1, <3>2 DEF EngineState, Transaction
    <3> QED
      BY <3>1, <3>3
  <2>3. /\ t.pool = s.pool /\ t.pending = s.pending
        /\ t.switch.id = s.switch.id /\ t.switch.display = s.switch.display
        /\ t.switch.phase = phase /\ t.switch.recording = s.switch.recording
    BY <1>1 DEF EngineState, Transaction
  <2>4. /\ lost.pool = s.pool /\ lost.pending = s.pending
        /\ lost.switch.id = s.switch.id /\ lost.switch.display = s.switch.display
        /\ lost.switch.phase = phase /\ lost.switch.recording = s.switch.recording
        /\ lost.switch.inFlight = s.switch.inFlight \ {w}
        /\ lost.switch.parked = s.switch.parked \ {w}
        /\ lost.switch.restored = s.switch.restored \ {w}
    BY <1>1 DEF EngineState, Transaction
  <2>5. SwitchWindowSettled(s, w, ok) = IF Compensating(s) THEN AdvanceSwitch(lost)
                                        ELSE BeginSwitchCompensation(t)
    BY <1>4 DEF SwitchWindowSettled
  <2>. HIDE DEF t, lost
  <2>6. Good(lost)
    BY <1>1, <2>1, <2>2, <2>4 DEF Good, Consistent, Shape, SwitchOpen, RequestsMatch, RequestedOnce, Owes
  <2>7. ~Compensating(s) => Good(t)
    BY <1>1, <2>1, <2>2, <2>3 DEF Good, Consistent, Shape, SwitchOpen, RequestsMatch, RequestedOnce, Owes, Compensating, CompensatingPhase
  <2> QED
    BY <2>5, <2>6, <2>7, AdvanceGood, CompensationGood
<1> QED
  BY <1>2, <1>3, <1>4

(* A step that leaves pool, switch and requests alone keeps the invariant. *)
LEMMA FrameGood ==
    ASSUME NEW s, Good(s), NEW t \in EngineState,
           t.switch = s.switch, t.pending = s.pending, DisplayedOnce(t.pool)
    PROVE  Good(t)
BY DEF Good, Consistent, Shape, SwitchOpen, RequestsMatch, RequestedOnce, Owes

(* request_recovery_entries on behalf of no switch.                        *)
LEMMA OutsideGood ==
    ASSUME NEW s, Good(s), NEW W \in SUBSET Window, \A w \in W : ~Waiting(s, w)
    PROVE  /\ Good(RequestRecoveryEntries(s, W, 0))
           /\ RequestRecoveryEntries(s, W, 0).pool = s.pool
<1> DEFINE t == RequestRecoveryEntries(s, W, 0)
<1>1. s \in EngineState /\ RequestedOnce(s)
  BY DEF Good, Consistent
<1>2. /\ t \in EngineState
      /\ t.pool = s.pool /\ t.switch = s.switch
      /\ t.pending = s.pending \cup {[batch |-> t.lastBatch, window |-> w, switch |-> 0] : w \in W}
      /\ RequestedOnce(t)
  BY <1>1, RequestsAsked
<1>. HIDE DEF t
<1>3. {r \in t.pending : r.switch # 0} = {r \in s.pending : r.switch # 0}
  BY <1>2
<1>4. RequestsMatch(t)
  BY <1>2, <1>3 DEF Good, Consistent, RequestsMatch
<1> QED
  BY <1>2, <1>4 DEF Good, Consistent, Shape, SwitchOpen, Owes, t

(* Restores queued on behalf of no switch.                                 *)
LEMMA EffectsGood ==
    ASSUME NEW s, Good(s), NEW W \in SUBSET Window, NEW r, r \in EngineState
    PROVE  Good([s EXCEPT !.effects = Push(@, RestoreMoves(r, W))])
<1> DEFINE moves == Push(s.effects, RestoreMoves(r, W))
           t == [s EXCEPT !.effects = moves]
<1>1. s \in EngineState /\ s.effects \in Seq(SUBSET Move)
  BY FieldTypes DEF Good, Consistent
<1>2. moves \in Seq(SUBSET Move)
  BY <1>1, RestoreMovesType, PushType
<1>. HIDE DEF moves
<1>3. t \in EngineState /\ t.switch = s.switch /\ t.pending = s.pending /\ t.pool = s.pool
  BY <1>1, <1>2 DEF EngineState
<1>. HIDE DEF t
<1>4. Good(t)
  BY <1>3, FrameGood DEF Good, Consistent
<1> QED
  BY <1>4 DEF t, moves

(* begin_workspace_switch: the tokens it waits for are the ones it asked for. *)
LEMMA BeginGood ==
    ASSUME NEW s, Good(s), NEW n \in Workspace, NEW d \in Display, CanSwitch(s, n, d),
           ToPark(s, d) \cup ToRestore(s, n) # {}
    PROVE  Good(BeginWorkspaceSwitch(s, n, d))
<1> DEFINE id == s.lastSwitch + 1
           park == ToPark(s, d)
           t == RequestRecoveryEntries(s, park, id)
           tokens == {<<t.lastBatch, w>> : w \in park}
           sw == [NoSwitch EXCEPT
                    !.id = id, !.phase = "Recording", !.display = d,
                    !.target = n, !.outgoing = s.pool.displayed[d],
                    !.queued = ToRestore(s, n), !.recording = tokens]
           u == [t EXCEPT !.lastSwitch = id, !.switch = sw]
<1>1. /\ s \in EngineState /\ s.pool \in Pool /\ s.lastSwitch \in Nat /\ RequestedOnce(s)
      /\ s.switch = NoSwitch
  BY FieldTypes DEF Good, Consistent, Shape, CanSwitch
<1>2. park \in SUBSET Window /\ ToRestore(s, n) \in SUBSET Window
  BY DEF ToPark, OnScreenMembers, Managed, ToRestore, MembersOf
<1>3. \A w \in park : ~Waiting(s, w)
  BY DEF CanSwitch, Parkable
<1>4. id \in Nat /\ id # 0
  BY <1>1
<1>5. \A r \in s.pending : r.switch = 0
  BY <1>1 DEF Good, Consistent, RequestsMatch, NoSwitch
<1>6. /\ t \in EngineState
      /\ t.pool = s.pool
      /\ t.pending = s.pending \cup {[batch |-> t.lastBatch, window |-> w, switch |-> id] : w \in park}
      /\ RequestedOnce(t)
  <2>. HIDE DEF park, id
  <2> QED
    BY <1>1, <1>2, <1>3, <1>4, RequestsAsked
<1>7. t.lastBatch \in Nat
  BY <1>6, FieldTypes
<1>8. tokens \in SUBSET Token
  BY <1>2, <1>7 DEF Token
<1>9. s.pool.displayed[d] \in Workspace \cup {None}
  BY <1>1 DEF Pool
<1>10. sw \in Transaction
  <2>1. "Recording" \in Phase
    BY DEF Phase, ForwardPhase
  <2>. HIDE DEF tokens, id
  <2> QED
    BY <1>2, <1>4, <1>8, <1>9, <2>1 DEF Transaction, NoSwitch
<1>11. /\ sw.id = id /\ sw.phase = "Recording" /\ sw.display = d /\ sw.recording = tokens
  BY DEF NoSwitch
<1>12. /\ u \in EngineState
       /\ u.pool = s.pool /\ u.pending = t.pending /\ u.switch = sw
  <2>. HIDE DEF sw, t, id
  <2> QED
    BY <1>4, <1>6, <1>10 DEF EngineState
<1>13. RequestsMatch(u)
  <2> DEFINE asked == {[batch |-> t.lastBatch, window |-> w, switch |-> id] : w \in park}
  <2>. HIDE DEF u, t, park, id, sw
  <2>1. {r \in u.pending : r.switch # 0} = asked
    BY <1>4, <1>5, <1>6, <1>12
  <2>2. {<<r.batch, r.window>> : r \in asked} = tokens
    <3>1. \A r \in asked : <<r.batch, r.window>> \in tokens
      OBVIOUS
    <3>2. ASSUME NEW w \in park
          PROVE  \E r \in asked : <<t.lastBatch, w>> = <<r.batch, r.window>>
      <4>. WITNESS [batch |-> t.lastBatch, window |-> w, switch |-> id] \in asked
      <4> QED
        OBVIOUS
    <3> QED
      BY <3>1, <3>2
  <2>3. \A r \in asked : r.switch = u.switch.id
    BY <1>11, <1>12
  <2>. HIDE DEF asked, tokens
  <2> QED
    BY <2>1, <2>2, <2>3, <1>11, <1>12 DEF RequestsMatch
<1>14. Good(u)
  <2>. HIDE DEF u, t, sw, id
  <2> QED
    BY <1>4, <1>6, <1>11, <1>12, <1>13 DEF Good, Consistent, Shape, SwitchOpen, RequestedOnce, Owes
<1>15. BeginWorkspaceSwitch(s, n, d) = AdvanceSwitch(u)
  BY DEF BeginWorkspaceSwitch
<1> QED
  BY <1>14, <1>15, AdvanceGood

(* reconcile_hidden_workspace_windows                                      *)
LEMMA ReconcileGood ==
    ASSUME NEW s, Good(s)
    PROVE  Good(ReconcileHiddenWorkspaceWindows(s))
<1> DEFINE toPark == {w \in Managed(s) : Hidden(s, w) /\ w \notin Parked(s) /\ Parkable(s, w)}
           toRestore == {w \in Managed(s) : ~Hidden(s, w) /\ w \in Parked(s)}
           t == RequestRecoveryEntries(s, toPark, 0)
<1>1. toPark \in SUBSET Window /\ toRestore \in SUBSET Window
  BY DEF Managed
<1>2. \A w \in toPark : ~Waiting(s, w)
  BY DEF Parkable
<1>3. Good(t)
  <2>. HIDE DEF toPark
  <2> QED
    BY <1>1, <1>2, OutsideGood
<1>4. s \in EngineState
  BY DEF Good, Consistent
<1>5. Good([t EXCEPT !.effects = Push(@, RestoreMoves(s, toRestore))])
  <2>. HIDE DEF toPark, toRestore, t
  <2> QED
    BY <1>1, <1>3, <1>4, EffectsGood
<1> QED
  BY <1>5 DEF ReconcileHiddenWorkspaceWindows

(* A step that only replaces the pool, by one that shows nothing twice.    *)
LEMMA PoolGood ==
    ASSUME NEW s, Good(s), NEW pool \in Pool, DisplayedOnce(pool)
    PROVE  Good([s EXCEPT !.pool = pool])
<1> DEFINE t == [s EXCEPT !.pool = pool]
<1>1. s \in EngineState
  BY DEF Good, Consistent
<1>2. t \in EngineState /\ t.switch = s.switch /\ t.pending = s.pending /\ t.pool = pool
  BY <1>1 DEF EngineState
<1>. HIDE DEF t
<1>3. Good(t)
  BY <1>2, FrameGood
<1> QED
  BY <1>3 DEF t

(* assign_unassigned_windows                                               *)
LEMMA AssignGood ==
    ASSUME NEW s, Good(s)
    PROVE  Good(AssignUnassignedWindows(s))
<1> DEFINE to == [w \in Window |-> IF w \in Managed(s) /\ s.pool.member[w] = None
                                   THEN s.pool.displayed[s.seat[w]] ELSE None]
<1>1. s.pool \in Pool /\ s.seat \in [Window -> Display] /\ DisplayedOnce(s.pool)
  BY FieldTypes DEF Good, Consistent
<1>2. to \in [Window -> Workspace \cup {None}]
  BY <1>1 DEF Pool
<1>3. Assign(s.pool, to) \in Pool /\ DisplayedOnce(Assign(s.pool, to))
  BY <1>1, <1>2, AssignKeeps
<1>4. AssignUnassignedWindows(s) = [s EXCEPT !.pool = Assign(s.pool, to)]
  BY DEF AssignUnassignedWindows
<1> QED
  BY <1>3, <1>4, PoolGood

(* A step that only replaces switch_degraded.                              *)
LEMMA DegradedGood ==
    ASSUME NEW s, Good(s), NEW W \in SUBSET Window
    PROVE  Good([s EXCEPT !.degraded = W])
<1> DEFINE t == [s EXCEPT !.degraded = W]
<1>1. s \in EngineState
  BY DEF Good, Consistent
<1>2. t \in EngineState /\ t.switch = s.switch /\ t.pending = s.pending /\ t.pool = s.pool
  BY <1>1 DEF EngineState
<1>. HIDE DEF t
<1>3. Good(t)
  BY <1>2, FrameGood DEF Good, Consistent
<1> QED
  BY <1>3 DEF t

(* settle_stranded_window and strand_window                                *)
LEMMA StrandGood ==
    ASSUME NEW s, Good(s), NEW w \in Window
    PROVE  Good(SettleStrandedWindow(s, w)) /\ Good(StrandWindow(s, w))
<1>1. s.degraded \in SUBSET Window
  BY FieldTypes DEF Good, Consistent
<1>2. Good([s EXCEPT !.degraded = s.degraded \ {w}]) /\ Good([s EXCEPT !.degraded = s.degraded \cup {w}])
  BY <1>1, DegradedGood
<1> QED
  BY <1>2 DEF SettleStrandedWindow, StrandWindow

(* replace_inventory_from_observations                                     *)
LEMMA InventoryGood ==
    ASSUME NEW s, Good(s), NEW life \in [Window -> Lifecycle], NEW seat \in [Window -> Display]
    PROVE  Good(ReplaceInventory(s, life, seat))
<1> DEFINE seen   == {w \in Window : life[w] # "Gone"}
           closed == Parked(s) \ seen
           parked == [w \in Window |-> IF w \in seen THEN s.parked[w] ELSE 0]
           marks  == {[kind |-> "MarkRestored", window |-> w, number |-> s.parked[w]] : w \in closed}
           intents == Push(s.intents, marks)
           to == [w \in Window |-> IF w \in seen \ Managed(s) /\ RuleTarget[w] \in Names(s.pool)
                                   THEN RuleTarget[w] ELSE None]
           pool == Assign(RetainMembers(s.pool, seen), to)
           t == [s EXCEPT !.life = life, !.seat = seat, !.parked = parked,
                          !.intents = intents, !.pool = pool]
<1>1. /\ s \in EngineState /\ s.pool \in Pool /\ s.parked \in [Window -> Nat]
      /\ s.intents \in Seq(SUBSET Intent) /\ DisplayedOnce(s.pool)
  BY FieldTypes DEF Good, Consistent
<1>2. parked \in [Window -> Nat]
  BY <1>1
<1>3. intents \in Seq(SUBSET Intent)
  <2>1. marks \in SUBSET Intent
    BY <1>1 DEF Parked, Intent
  <2> QED
    BY <1>1, <2>1, PushType
<1>4. pool \in Pool /\ DisplayedOnce(pool)
  <2>1. to \in [Window -> Workspace \cup {None}]
    BY DEF Names
  <2>. HIDE DEF to, seen
  <2>2. RetainMembers(s.pool, seen) \in Pool /\ DisplayedOnce(RetainMembers(s.pool, seen))
    BY <1>1, RetainMembersKeeps
  <2> QED
    BY <2>1, <2>2, AssignKeeps
<1>5. Good(t)
  <2>. HIDE DEF parked, intents, pool
  <2>1. t \in EngineState /\ t.switch = s.switch /\ t.pending = s.pending /\ t.pool = pool
    BY <1>1, <1>2, <1>3, <1>4 DEF EngineState
  <2>. HIDE DEF t
  <2> QED
    BY <2>1, <1>4, FrameGood
<1>6. ReplaceInventory(s, life, seat) = ReconcileHiddenWorkspaceWindows(AssignUnassignedWindows(t))
  BY DEF ReplaceInventory
<1>. HIDE DEF t
<1> QED
  BY <1>5, <1>6, AssignGood, ReconcileGood

(* sync_workspaces_from_config                                             *)
LEMMA SyncGood ==
    ASSUME NEW s, Good(s)
    PROVE  Good(SyncWorkspacesFromConfig(s))
<1> DEFINE origin == [n \in Workspace |-> IF n \in Declared(s) THEN "Configuration"
                                          ELSE IF n \in Names(s.pool) THEN "Command"
                                          ELSE "Absent"]
           pool == [s.pool EXCEPT !.origin = origin]
<1>1. s \in EngineState /\ s.pool \in Pool /\ DisplayedOnce(s.pool)
  BY FieldTypes DEF Good, Consistent
<1>2. origin \in [Workspace -> Origin]
  BY DEF Origin
<1>3. pool \in Pool /\ DisplayedOnce(pool)
  <2>. HIDE DEF origin
  <2> QED
    BY <1>1, <1>2 DEF Pool, DisplayedOnce
<1>4. SyncWorkspacesFromConfig(s) = [s EXCEPT !.pool = pool]
  BY <1>1 DEF SyncWorkspacesFromConfig
<1> QED
  BY <1>3, <1>4, PoolGood

(* fill_empty_displays: a hidden workspace goes to one empty display only. *)
LEMMA FillGood ==
    ASSUME NEW s, Good(s), NEW t \in FillEmptyDisplays(s)
    PROVE  Good(t)
<1> DEFINE empty == {d \in s.displays : s.pool.displayed[d] = None}
<1>1. /\ s \in EngineState /\ s.pool \in Pool /\ s.displays \in SUBSET Display
      /\ s.remembered \in [Workspace -> Display \cup {None}] /\ DisplayedOnce(s.pool)
  BY FieldTypes DEF Good, Consistent
<1>2. PICK fill \in Fills(s) :
        t = [s EXCEPT
               !.pool.displayed =
                   [d \in Display |-> IF fill[d] = None THEN @[d] ELSE fill[d]],
               !.remembered =
                   [n \in Workspace |-> IF \E d \in Display : fill[d] = n
                                        THEN None ELSE @[n]]]
  BY DEF FillEmptyDisplays
<1> DEFINE displayed == [d \in Display |-> IF fill[d] = None THEN s.pool.displayed[d] ELSE fill[d]]
           remembered == [n \in Workspace |-> IF \E d \in Display : fill[d] = n
                                              THEN None ELSE s.remembered[n]]
           pool == [s.pool EXCEPT !.displayed = displayed]
<1>3. /\ fill \in [Display -> Workspace \cup {None}]
      /\ \A d \in Display \ empty : fill[d] = None
      /\ \A d, e \in empty : fill[d] = fill[e] /\ fill[d] # None => d = e
      /\ \A d \in empty : fill[d] # None => fill[d] \in Workspace /\ ~IsDisplayed(s.pool, fill[d])
  BY <1>2 DEF Fills, RememberedFor, HiddenAndEmpty, Names
<1>4. displayed \in [Display -> Workspace \cup {None}] /\ remembered \in [Workspace -> Display \cup {None}]
  BY <1>1, <1>3 DEF Pool
<1>5. \A d, e \in Display : displayed[d] # None /\ displayed[d] = displayed[e] => d = e
  <2> TAKE d, e \in Display
  <2>1. CASE fill[d] # None /\ fill[e] # None
    BY <2>1, <1>3
  <2>2. CASE fill[d] # None /\ fill[e] = None
    BY <2>2, <1>3 DEF IsDisplayed
  <2>3. CASE fill[d] = None /\ fill[e] # None
    BY <2>3, <1>3 DEF IsDisplayed
  <2>4. CASE fill[d] = None /\ fill[e] = None
    BY <2>4, <1>1 DEF DisplayedOnce
  <2> QED
    BY <2>1, <2>2, <2>3, <2>4
<1>6. pool \in Pool /\ DisplayedOnce(pool)
  <2>. HIDE DEF displayed
  <2> QED
    BY <1>1, <1>4, <1>5 DEF Pool, DisplayedOnce
<1>7. t = [s EXCEPT !.pool = pool, !.remembered = remembered]
  BY <1>1, <1>2 DEF EngineState, Pool
<1>8. t \in EngineState /\ t.switch = s.switch /\ t.pending = s.pending /\ t.pool = pool
  <2>. HIDE DEF pool, remembered
  <2> QED
    BY <1>1, <1>4, <1>6, <1>7 DEF EngineState
<1> QED
  BY <1>6, <1>8, FrameGood

(* apply_switching_mapping: configurations map displays one to one, and a  *)
(* display that is not mapped gives up a workspace the mapping claims.     *)
LEMMA MappingGood ==
    ASSUME NEW s, Good(s)
    PROVE  Good(ApplySwitchingMapping(s))
<1> DEFINE m == s.config.mapping
           asked == ProfileMatches(s) /\ s.config.experimental
           complete == \A d \in Display : IF d \in s.displays
                                          THEN m[d] \in Names(s.pool) ELSE m[d] = None
           displayed == [d \in Display |-> IF d \in s.displays THEN m[d]
                                           ELSE IF \E e \in s.displays : s.pool.displayed[d] = m[e] THEN None
                                           ELSE s.pool.displayed[d]]
           pool == [s.pool EXCEPT !.displayed = displayed]
<1>1. /\ s \in EngineState /\ s.pool \in Pool /\ s.displays \in SUBSET Display
      /\ s.config \in Configs /\ DisplayedOnce(s.pool)
  BY FieldTypes DEF Good, Consistent
<1>2. /\ m \in [Display -> Workspace \cup {None}] /\ s.config.experimental \in BOOLEAN
      /\ \A d, e \in Display : m[d] # None /\ m[d] = m[e] => d = e
  BY <1>1, ConfigsAssumption DEF Config
<1>3. CASE asked /\ complete
  <2>1. displayed \in [Display -> Workspace \cup {None}]
    BY <1>1, <1>2 DEF Pool
  <2>2. \A d, e \in Display : displayed[d] # None /\ displayed[d] = displayed[e] => d = e
    BY <1>1, <1>2 DEF DisplayedOnce
  <2>3. pool \in Pool /\ DisplayedOnce(pool)
    <3>. HIDE DEF displayed
    <3> QED
      BY <1>1, <2>1, <2>2 DEF Pool, DisplayedOnce
  <2>4. ApplySwitchingMapping(s) = [s EXCEPT !.unavailable = FALSE, !.pool = pool]
    BY <1>1, <1>3 DEF ApplySwitchingMapping, EngineState, Pool
  <2>. HIDE DEF pool
  <2> DEFINE t == [s EXCEPT !.unavailable = FALSE, !.pool = pool]
  <2>5. t \in EngineState /\ t.switch = s.switch /\ t.pending = s.pending /\ t.pool = pool
    BY <1>1, <2>3 DEF EngineState
  <2>. HIDE DEF t
  <2>6. Good(t)
    BY <2>3, <2>5, FrameGood
  <2> QED
    BY <2>4, <2>6 DEF t
<1>4. CASE ~(asked /\ complete)
  <2> DEFINE t == [s EXCEPT !.unavailable = asked]
  <2>1. ApplySwitchingMapping(s) = t
    BY <1>4 DEF ApplySwitchingMapping
  <2>2. asked \in BOOLEAN
    BY <1>2 DEF ProfileMatches
  <2>. HIDE DEF asked
  <2>3. t \in EngineState /\ t.switch = s.switch /\ t.pending = s.pending /\ t.pool = s.pool
    BY <1>1, <2>2 DEF EngineState
  <2>. HIDE DEF t
  <2> QED
    BY <1>1, <2>1, <2>3, FrameGood
<1> QED
  BY <1>3, <1>4

(* The tail of ConfigChanged and DisplayTopologyChanged.                   *)
LEMMA ResettleGood ==
    ASSUME NEW s, Good(s), NEW t \in Resettle(s)
    PROVE  Good(t)
BY SyncGood, FillGood, MappingGood, AssignGood, ReconcileGood DEF Resettle

(* migrate_orphaned_windows and hide_workspaces_on_vanished_displays       *)
LEMMA LeaveGood ==
    ASSUME NEW s, Good(s), NEW new \in SUBSET Display, NEW nearest \in new
    PROVE  Good(LeaveVanishedDisplays(s, new, nearest))
<1> DEFINE seat == [w \in Window |-> IF w \in Managed(s) /\ s.seat[w] \in s.displays \ new
                                     THEN nearest ELSE s.seat[w]]
           pool == RetainDisplays(s.pool, new)
           t == [s EXCEPT !.seat = seat, !.pool = pool, !.displays = new]
<1>1. s \in EngineState /\ s.pool \in Pool /\ s.seat \in [Window -> Display] /\ DisplayedOnce(s.pool)
  BY FieldTypes DEF Good, Consistent
<1>2. seat \in [Window -> Display]
  BY <1>1
<1>3. pool \in Pool /\ DisplayedOnce(pool)
  BY <1>1, RetainDisplaysKeeps
<1>4. LeaveVanishedDisplays(s, new, nearest) = t
  BY DEF LeaveVanishedDisplays
<1>. HIDE DEF seat, pool
<1>5. t \in EngineState /\ t.switch = s.switch /\ t.pending = s.pending /\ t.pool = pool
  BY <1>1, <1>2, <1>3 DEF EngineState
<1>. HIDE DEF t
<1> QED
  BY <1>3, <1>4, <1>5, FrameGood

(* WorkspacesLoaded, one stored display: it forgets at most the name it    *)
(* handles, so the other names keep theirs.                                *)
LEMMA LoadDisplayedGood ==
    ASSUME NEW s, Good(s), NEW n \in Workspace, s.remembered[n] \in Display
    PROVE  /\ Good(LoadDisplayed(s, n))
           /\ \A m \in Workspace \ {n} : LoadDisplayed(s, n).remembered[m] = s.remembered[m]
<1> DEFINE d == s.remembered[n]
           forget == [s.remembered EXCEPT ![n] = None]
           pool == Show(s.pool, n, d)
           t == [s EXCEPT !.remembered = forget]
           u == [s EXCEPT !.pool = pool, !.remembered = forget]
<1>1. /\ s \in EngineState /\ s.pool \in Pool /\ DisplayedOnce(s.pool)
      /\ s.remembered \in [Workspace -> Display \cup {None}]
  BY FieldTypes DEF Good, Consistent
<1>2. /\ forget \in [Workspace -> Display \cup {None}]
      /\ \A m \in Workspace \ {n} : forget[m] = s.remembered[m]
  BY <1>1
<1>3. pool \in Pool /\ DisplayedOnce(pool)
  BY <1>1, ShowKeeps
<1>4. LoadDisplayed(s, n) \in {s, t, u}
  BY DEF LoadDisplayed
<1>. HIDE DEF pool, forget
<1>5. /\ t \in EngineState /\ t.switch = s.switch /\ t.pending = s.pending /\ t.pool = s.pool
      /\ t.remembered = forget
  BY <1>1, <1>2 DEF EngineState
<1>6. /\ u \in EngineState /\ u.switch = s.switch /\ u.pending = s.pending /\ u.pool = pool
      /\ u.remembered = forget
  BY <1>1, <1>2, <1>3 DEF EngineState
<1>. HIDE DEF t, u
<1>7. Good(t) /\ Good(u)
  BY <1>1, <1>3, <1>5, <1>6, FrameGood
<1> QED
  BY <1>2, <1>4, <1>5, <1>6, <1>7

(* What LoadWorkspaces is made of: the names are created and remembered,   *)
(* and those of connected displays go back, in either order.               *)
Stocked(s, stored, where) ==
    [s EXCEPT
        !.pool.origin = [n \in Workspace |->
            IF n \in stored \ Names(s.pool) THEN "Command" ELSE @[n]],
        !.remembered = [n \in Workspace |->
            IF n \in stored /\ where[n] # None THEN where[n] ELSE @[n]]]

Returned(t) ==
    LET back == {n \in Workspace : t.remembered[n] \in t.displays}
        orders == {p \in back \X back : {p[1], p[2]} = back}
    IN  IF back = {} THEN {t}
        ELSE {IF p[1] = p[2] THEN LoadDisplayed(t, p[1])
              ELSE LoadDisplayed(LoadDisplayed(t, p[1]), p[2]) : p \in orders}

LEMMA StockedGood ==
    ASSUME NEW s, Good(s), NEW stored \in SUBSET Workspace,
           NEW where \in [Workspace -> Display \cup {None}]
    PROVE  Good(Stocked(s, stored, where)) /\ Stocked(s, stored, where).displays = s.displays
<1> DEFINE origin == [n \in Workspace |-> IF n \in stored \ Names(s.pool) THEN "Command"
                                          ELSE s.pool.origin[n]]
           remembered == [n \in Workspace |-> IF n \in stored /\ where[n] # None THEN where[n]
                                              ELSE s.remembered[n]]
           pool == [s.pool EXCEPT !.origin = origin]
           t == [s EXCEPT !.pool.origin = origin, !.remembered = remembered]
<1>1. /\ s \in EngineState /\ s.pool \in Pool /\ DisplayedOnce(s.pool)
      /\ s.remembered \in [Workspace -> Display \cup {None}]
  BY FieldTypes DEF Good, Consistent
<1>2. origin \in [Workspace -> Origin] /\ remembered \in [Workspace -> Display \cup {None}]
  BY <1>1 DEF Pool, Origin
<1>3. Stocked(s, stored, where) = t
  BY <1>1 DEF Stocked, EngineState, Pool
<1>. HIDE DEF origin, remembered
<1>4. pool \in Pool /\ DisplayedOnce(pool)
  BY <1>1, <1>2 DEF Pool, DisplayedOnce
<1>5. /\ t \in EngineState /\ t.switch = s.switch /\ t.pending = s.pending /\ t.pool = pool
      /\ t.displays = s.displays
  <2>1. t = [s EXCEPT !.pool = pool, !.remembered = remembered]
    BY <1>1 DEF EngineState, Pool
  <2>. HIDE DEF t, pool
  <2> QED
    BY <2>1, <1>1, <1>2, <1>4 DEF EngineState
<1>. HIDE DEF t
<1> QED
  BY <1>3, <1>4, <1>5, FrameGood

LEMMA ReturnedParts ==
    ASSUME NEW t, Good(t), NEW u \in Returned(t)
    PROVE  \/ u = t
           \/ \E n \in Workspace :
                /\ Good(LoadDisplayed(t, n))
                /\ \/ u = LoadDisplayed(t, n)
                   \/ \E m \in Workspace : u = LoadDisplayed(LoadDisplayed(t, n), m) /\ Good(u)
<1> DEFINE back == {n \in Workspace : t.remembered[n] \in t.displays}
           orders == {p \in back \X back : {p[1], p[2]} = back}
<1>1. t.displays \in SUBSET Display
  BY FieldTypes DEF Good, Consistent
<1>2. CASE back = {}
  BY <1>2 DEF Returned
<1>3. CASE back # {}
  <2>1. PICK p \in orders : u = IF p[1] = p[2] THEN LoadDisplayed(t, p[1])
                                ELSE LoadDisplayed(LoadDisplayed(t, p[1]), p[2])
    BY <1>3 DEF Returned
  <2>2. /\ p[1] \in Workspace /\ p[2] \in Workspace
        /\ t.remembered[p[1]] \in Display /\ t.remembered[p[2]] \in Display
    BY <2>1, <1>1
  <2> DEFINE first == LoadDisplayed(t, p[1])
  <2>3. /\ Good(first)
        /\ p[1] # p[2] => first.remembered[p[2]] \in Display
    BY <2>2, LoadDisplayedGood
  <2>. HIDE DEF first
  <2>4. p[1] # p[2] => Good(LoadDisplayed(first, p[2]))
    BY <2>2, <2>3, LoadDisplayedGood
  <2> QED
    BY <2>1, <2>3, <2>4 DEF first
<1> QED
  BY <1>2, <1>3

LEMMA ReturnedGood ==
    ASSUME NEW t, Good(t), NEW u \in Returned(t)
    PROVE  Good(u)
BY ReturnedParts

LEMMA LoadParts ==
    ASSUME NEW s, Good(s), NEW stored \in SUBSET Workspace,
           NEW where \in [Workspace -> Display \cup {None}]
    PROVE  LoadWorkspaces(s, stored, where) =
             {ReconcileHiddenWorkspaceWindows(AssignUnassignedWindows(ApplySwitchingMapping(u))) :
                 u \in UNION {FillEmptyDisplays(l) : l \in Returned(Stocked(s, stored, where))}}
<1> DEFINE t == Stocked(s, stored, where)
           back(displays) == {n \in Workspace : t.remembered[n] \in displays}
           orders(displays) == {p \in back(displays) \X back(displays) : {p[1], p[2]} = back(displays)}
           loaded(displays) == IF back(displays) = {} THEN {t}
                               ELSE {IF p[1] = p[2] THEN LoadDisplayed(t, p[1])
                                     ELSE LoadDisplayed(LoadDisplayed(t, p[1]), p[2])
                                       : p \in orders(displays)}
<1>1. t.displays = s.displays
  BY StockedGood
<1>2. LoadWorkspaces(s, stored, where) =
        {ReconcileHiddenWorkspaceWindows(AssignUnassignedWindows(ApplySwitchingMapping(u))) :
            u \in UNION {FillEmptyDisplays(l) : l \in loaded(s.displays)}}
  BY Zenon DEF LoadWorkspaces, Stocked
<1>3. Returned(t) = loaded(t.displays)
  BY Zenon DEF Returned
<1>. HIDE DEF t, loaded
<1>4. Returned(t) = loaded(s.displays)
  BY <1>1, <1>3
<1> QED
  BY <1>2, <1>4, Zenon DEF t

LEMMA LoadGood ==
    ASSUME NEW s, Good(s), NEW stored \in SUBSET Workspace,
           NEW where \in [Workspace -> Display \cup {None}],
           NEW v \in LoadWorkspaces(s, stored, where)
    PROVE  Good(v)
<1>1. PICK u \in UNION {FillEmptyDisplays(l) : l \in Returned(Stocked(s, stored, where))} :
        v = ReconcileHiddenWorkspaceWindows(AssignUnassignedWindows(ApplySwitchingMapping(u)))
  BY LoadParts
<1>2. Good(u)
  BY <1>1, StockedGood, ReturnedGood, FillGood
<1> QED
  BY <1>1, <1>2, MappingGood, AssignGood, ReconcileGood

(* spawn_engine                                                            *)
LEMMA BlankGood ==
    ASSUME NEW c \in Configs, NEW displays \in SUBSET Display
    PROVE  Good(BlankState(c, displays))
<1> DEFINE s == BlankState(c, displays)
<1>1. s.pool \in Pool /\ DisplayedOnce(s.pool)
  BY DEF BlankState, Pool, Origin, DisplayedOnce
<1>2. s.seat \in [Window -> Display]
  BY DisplayAssumption DEF BlankState
<1>3. /\ s.remembered \in [Workspace -> Display \cup {None}]
      /\ s.life \in [Window -> Lifecycle] /\ s.parked \in [Window -> Nat]
      /\ s.site \in Capability /\ s.health \in Health
  BY DEF BlankState, Lifecycle, Capability, Health
<1>4. << >> \in Seq(SUBSET Move) /\ << >> \in Seq(SUBSET Intent)
  OBVIOUS
<1>5. s \in EngineState
  BY <1>1, <1>2, <1>3, <1>4, NoSwitchType DEF BlankState, EngineState
<1>6. s.switch = NoSwitch /\ s.pending = {}
  BY DEF BlankState
<1>. HIDE DEF s
<1>7. Good(s)
  BY <1>1, <1>5, <1>6 DEF Good, Consistent, Shape, SwitchOpen, RequestsMatch, RequestedOnce, Owes, NoSwitch
<1> QED
  BY <1>7 DEF s

LEMMA BootGood ==
    ASSUME NEW c \in Configs, NEW displays \in SUBSET Display, NEW t \in BootStates(c, displays)
    PROVE  Good(t)
BY BlankGood, SyncGood, FillGood, MappingGood DEF BootStates

-----------------------------------------------------------------------------
(* The arms of the reducer *)

(* The arms of `apply`, one lemma each: WorkspaceFocusRequested,           *)
LEMMA FocusGood ==
    ASSUME Good(engine), NEW n \in Workspace, NEW d \in Display, WorkspaceFocusRequested(n, d)
    PROVE  Good(engine')
<1> DEFINE pool == Show(engine.pool, n, d)
<1>1. engine.pool \in Pool /\ DisplayedOnce(engine.pool)
  BY FieldTypes DEF Good, Consistent
<1>2. Good([engine EXCEPT !.pool = pool])
  <2>1. pool \in Pool /\ DisplayedOnce(pool)
    BY <1>1, ShowKeeps
  <2> QED
    BY <2>1, PoolGood
<1> QED
  BY <1>2, BeginGood DEF WorkspaceFocusRequested

(* WorkspaceMoveRequested,                                                 *)
LEMMA MoveGood ==
    ASSUME Good(engine), NEW n \in Workspace, NEW d \in Display, WorkspaceMoveRequested(n, d)
    PROVE  Good(engine')
<1>1. engine.pool \in Pool /\ DisplayedOnce(engine.pool)
  BY FieldTypes DEF Good, Consistent
<1>2. PICK from \in Display : engine' = [engine EXCEPT !.pool = SwapDisplays(engine.pool, from, d)]
  BY DEF WorkspaceMoveRequested
<1>3. SwapDisplays(engine.pool, from, d) \in Pool /\ DisplayedOnce(SwapDisplays(engine.pool, from, d))
  BY <1>1, SwapDisplaysKeeps
<1> QED
  BY <1>2, <1>3, PoolGood

(* WorkspaceCreateRequested,                                               *)
LEMMA CreateGood ==
    ASSUME Good(engine), NEW n \in Workspace, WorkspaceCreateRequested(n)
    PROVE  Good(engine')
<1>1. engine.pool \in Pool /\ DisplayedOnce(engine.pool)
  BY FieldTypes DEF Good, Consistent
<1>2. Create(engine.pool, n, "Command") \in Pool /\ DisplayedOnce(Create(engine.pool, n, "Command"))
  BY <1>1, CreateKeeps DEF Origin
<1> QED
  BY <1>2, PoolGood DEF WorkspaceCreateRequested

(* WorkspaceDeleteRequested,                                               *)
LEMMA DeleteGood ==
    ASSUME Good(engine), NEW n \in Workspace, WorkspaceDeleteRequested(n)
    PROVE  Good(engine')
<1> DEFINE pool == Delete(engine.pool, n)
           remembered == [engine.remembered EXCEPT ![n] = None]
           t == [engine EXCEPT !.pool = pool, !.remembered = remembered]
<1>1. /\ engine \in EngineState /\ engine.pool \in Pool /\ DisplayedOnce(engine.pool)
      /\ engine.remembered \in [Workspace -> Display \cup {None}]
  BY FieldTypes DEF Good, Consistent
<1>2. pool \in Pool /\ DisplayedOnce(pool) /\ remembered \in [Workspace -> Display \cup {None}]
  BY <1>1, DeleteKeeps
<1>3. engine' = t
  BY <1>1 DEF WorkspaceDeleteRequested, EngineState
<1>. HIDE DEF pool, remembered
<1>4. t \in EngineState /\ t.switch = engine.switch /\ t.pending = engine.pending /\ t.pool = pool
  BY <1>1, <1>2 DEF EngineState
<1>. HIDE DEF t
<1> QED
  BY <1>2, <1>3, <1>4, FrameGood

(* ParkingAuthorizationRequested: Parkable refuses a window already waiting, *)
LEMMA ParkGood ==
    ASSUME Good(engine), NEW w \in Window, ParkingAuthorizationRequested(w)
    PROVE  Good(engine')
BY OutsideGood DEF ParkingAuthorizationRequested, Parkable

(* RestoreParkedWindowsRequested,                                          *)
LEMMA RestoreWindowsGood ==
    ASSUME Good(engine), RestoreParkedWindowsRequested
    PROVE  Good(engine')
<1>1. engine \in EngineState /\ Parked(engine) \in SUBSET Window
  BY DEF Good, Consistent, Parked
<1> QED
  BY <1>1, EffectsGood DEF RestoreParkedWindowsRequested

(* WorkspaceSwitchRestoreRequested,                                        *)
LEMMA RestoreSwitchGood ==
    ASSUME Good(engine), WorkspaceSwitchRestoreRequested
    PROVE  Good(engine')
<1> DEFINE owing == {w \in engine.degraded : OwesMove(engine, w)}
           back  == owing \cap Parked(engine)
           away  == {w \in owing \ back : Parkable(engine, w)}
           asked == RequestRecoveryEntries(engine, away, 0)
<1>1. engine \in EngineState /\ engine.degraded \in SUBSET Window
  BY FieldTypes DEF Good, Consistent
<1>2. back \in SUBSET Window /\ away \in SUBSET Window /\ \A w \in away : ~Waiting(engine, w)
  BY <1>1 DEF Parkable
<1>3. Good([engine EXCEPT !.degraded = {}])
  BY DegradedGood
<1>4. Good(asked)
  <2>. HIDE DEF away
  <2> QED
    BY <1>2, OutsideGood
<1>5. Good([asked EXCEPT !.effects = Push(@, RestoreMoves(engine, back))])
  <2>. HIDE DEF asked, back
  <2> QED
    BY <1>1, <1>2, <1>4, EffectsGood
<1>6. engine' = IF owing = {} THEN [engine EXCEPT !.degraded = {}]
                ELSE [asked EXCEPT !.effects = Push(@, RestoreMoves(engine, back))]
  BY DEF WorkspaceSwitchRestoreRequested
<1> QED
  BY <1>3, <1>5, <1>6

(* WakeReconciliation, with and without an enumeration,                    *)
LEMMA WakeGood ==
    ASSUME Good(engine), NEW new \in SUBSET Display, NEW nearest \in Display,
           NEW enumerated \in BOOLEAN,
           NEW life \in [Window -> Lifecycle], NEW seat \in [Window -> Display],
           WakeReconciliation(new, nearest, enumerated, life, seat)
    PROVE  Good(engine')
<1> DEFINE left == LeaveVanishedDisplays(engine, new, nearest)
           filled == FillEmptyDisplays(SyncWorkspacesFromConfig(left))
<1>1. Good(left)
  BY LeaveGood DEF WakeReconciliation
<1>2. \A u \in filled : Good(ApplySwitchingMapping(u))
  <2>. HIDE DEF left
  <2> QED
    BY <1>1, SyncGood, FillGood, MappingGood
<1>3. PICK t \in IF new = engine.displays THEN {engine} ELSE {ApplySwitchingMapping(u) : u \in filled} :
        engine' = IF enumerated THEN ReplaceInventory(t, life, seat) ELSE t
  BY DEF WakeReconciliation
<1>. HIDE DEF filled
<1>4. Good(t)
  BY <1>2, <1>3
<1> QED
  BY <1>3, <1>4, InventoryGood

(* DisplayTopologyChanged,                                                 *)
LEMMA TopologyGood ==
    ASSUME Good(engine), NEW new \in SUBSET Display, NEW nearest \in Display,
           DisplayTopologyChanged(new, nearest)
    PROVE  Good(engine')
BY LeaveGood, ResettleGood DEF DisplayTopologyChanged

(* ConfigChanged,                                                          *)
LEMMA ConfigGood ==
    ASSUME Good(engine), NEW c \in Configs, ConfigChanged(c)
    PROVE  Good(engine')
<1> DEFINE t == [engine EXCEPT !.config = c]
<1>1. engine \in EngineState /\ DisplayedOnce(engine.pool)
  BY DEF Good, Consistent
<1>2. /\ t \in EngineState /\ t.switch = engine.switch /\ t.pending = engine.pending
      /\ t.pool = engine.pool
  BY <1>1 DEF EngineState
<1>3. engine' \in Resettle(t)
  BY DEF ConfigChanged
<1>. HIDE DEF t
<1>4. Good(t)
  BY <1>1, <1>2, FrameGood
<1> QED
  BY <1>3, <1>4, ResettleGood

(* PauseRequested, ResumeRequested and the reports that store one flag,    *)
LEMMA FlagsGood ==
    ASSUME Good(engine),
           \/ PauseRequested \/ ResumeRequested
           \/ \E c \in Capability : ParkingCapabilityReported(c)
           \/ \E h \in Health : PersistenceHealthChanged(h)
    PROVE  Good(engine')
<1>1. engine \in EngineState /\ DisplayedOnce(engine.pool)
  BY DEF Good, Consistent
<1>2. /\ engine' \in EngineState /\ engine'.switch = engine.switch
      /\ engine'.pending = engine.pending /\ engine'.pool = engine.pool
  <2>1. CASE PauseRequested
    BY <1>1, <2>1 DEF PauseRequested, EngineState
  <2>2. CASE ResumeRequested
    BY <1>1, <2>2 DEF ResumeRequested, EngineState
  <2>3. ASSUME NEW c \in Capability, ParkingCapabilityReported(c)
        PROVE  /\ engine' \in EngineState /\ engine'.switch = engine.switch
               /\ engine'.pending = engine.pending /\ engine'.pool = engine.pool
    BY <1>1, <2>3 DEF ParkingCapabilityReported, EngineState
  <2>4. ASSUME NEW h \in Health, PersistenceHealthChanged(h)
        PROVE  /\ engine' \in EngineState /\ engine'.switch = engine.switch
               /\ engine'.pending = engine.pending /\ engine'.pool = engine.pool
    BY <1>1, <2>4 DEF PersistenceHealthChanged, EngineState
  <2> QED
    BY <2>1, <2>2, <2>3, <2>4
<1> QED
  BY <1>1, <1>2, FrameGood

(* the consumers of the effect and intent queues,                          *)
LEMMA ConsumedGood ==
    ASSUME Good(engine), Consumed
    PROVE  Good(engine')
<1>1. engine \in EngineState /\ DisplayedOnce(engine.pool)
  BY DEF Good, Consistent
<1>2. PICK effects \in Seq(SUBSET Move), intents \in Seq(SUBSET Intent) :
        engine' = [engine EXCEPT !.effects = effects, !.intents = intents]
  BY DEF Consumed
<1>3. /\ engine' \in EngineState /\ engine'.switch = engine.switch
      /\ engine'.pending = engine.pending /\ engine'.pool = engine.pool
  BY <1>1, <1>2 DEF EngineState
<1> QED
  BY <1>1, <1>3, FrameGood

(* WindowParked,                                                           *)
LEMMA ParkedGood ==
    ASSUME Good(engine), NEW w \in Window, NEW entry \in Nat, WindowParked(w, entry)
    PROVE  Good(engine')
<1> DEFINE mark == {[kind |-> "MarkParked", window |-> w, number |-> entry]}
           parked == [engine.parked EXCEPT ![w] = entry]
           intents == Append(engine.intents, mark)
           t == [engine EXCEPT !.parked = parked, !.intents = intents]
<1>1. /\ engine \in EngineState /\ DisplayedOnce(engine.pool) /\ engine.parked \in [Window -> Nat]
      /\ engine.intents \in Seq(SUBSET Intent)
  BY FieldTypes DEF Good, Consistent
<1>2. mark \in SUBSET Intent /\ parked \in [Window -> Nat]
  BY <1>1 DEF Intent
<1>3. intents \in Seq(SUBSET Intent)
  <2>. HIDE DEF mark
  <2> QED
    BY <1>1, <1>2
<1>4. engine' = SwitchWindowSettled(SettleStrandedWindow(t, w), w, TRUE)
  <2>1. t = [engine EXCEPT !.parked[w] = entry, !.intents = Append(@, mark)]
    BY <1>1 DEF EngineState
  <2> QED
    BY <2>1 DEF WindowParked
<1>. HIDE DEF parked, intents
<1>5. /\ t \in EngineState /\ t.switch = engine.switch
      /\ t.pending = engine.pending /\ t.pool = engine.pool
  BY <1>1, <1>2, <1>3 DEF EngineState
<1>. HIDE DEF t
<1> QED
  BY <1>1, <1>4, <1>5, FrameGood, StrandGood, SettledGood

(* WindowRestored,                                                         *)
LEMMA RestoredGood ==
    ASSUME Good(engine), NEW w \in Window, WindowRestored(w)
    PROVE  Good(engine')
<1> DEFINE marks == {[kind |-> "MarkRestored", window |-> v, number |-> engine.parked[v]]
                       : v \in {w} \cap Parked(engine)}
           parked == [engine.parked EXCEPT ![w] = 0]
           intents == Push(engine.intents, marks)
           t == [engine EXCEPT !.parked = parked, !.intents = intents]
<1>1. /\ engine \in EngineState /\ DisplayedOnce(engine.pool) /\ engine.parked \in [Window -> Nat]
      /\ engine.intents \in Seq(SUBSET Intent)
  BY FieldTypes DEF Good, Consistent
<1>2. marks \in SUBSET Intent /\ parked \in [Window -> Nat]
  BY <1>1 DEF Intent
<1>3. intents \in Seq(SUBSET Intent)
  <2>. HIDE DEF marks
  <2> QED
    BY <1>1, <1>2, PushType
<1>4. engine' = SwitchWindowSettled(SettleStrandedWindow(t, w), w, TRUE)
  <2>1. t = [engine EXCEPT !.parked[w] = 0, !.intents = Push(@, marks)]
    BY <1>1 DEF EngineState
  <2> QED
    BY <2>1 DEF WindowRestored
<1>. HIDE DEF parked, intents
<1>5. /\ t \in EngineState /\ t.switch = engine.switch
      /\ t.pending = engine.pending /\ t.pool = engine.pool
  BY <1>1, <1>2, <1>3 DEF EngineState
<1>. HIDE DEF t
<1> QED
  BY <1>1, <1>4, <1>5, FrameGood, StrandGood, SettledGood

(* WindowParkFailed and WindowRestoreFailed.                               *)
LEMMA FailedGood ==
    ASSUME Good(engine), NEW w \in Window, WindowParkFailed(w) \/ WindowRestoreFailed(w)
    PROVE  Good(engine')
BY SettledGood, StrandGood DEF WindowParkFailed, WindowRestoreFailed

(* An answer removes one request, and its token from the switch that asked. *)
(* RequestedOnce makes it the only token of that window.                   *)
LEMMA AnswerMatches ==
    ASSUME NEW s, Good(s), NEW r \in s.pending, NEW t,
           t.pending = s.pending \ {r},
           t.switch.id = s.switch.id,
           t.switch.recording = IF SwitchOpen(s) /\ r.switch = s.switch.id
                                THEN s.switch.recording \ {<<r.batch, r.window>>}
                                ELSE s.switch.recording
    PROVE  RequestsMatch(t) /\ RequestedOnce(t)
<1> DEFINE ofSwitch == {q \in s.pending : q.switch # 0}
           left == {q \in t.pending : q.switch # 0}
<1>1. RequestsMatch(s) /\ RequestedOnce(s) /\ Shape(s)
  BY DEF Good, Consistent
<1>2. RequestedOnce(t)
  BY <1>1 DEF RequestedOnce
<1>3. /\ {<<q.batch, q.window>> : q \in ofSwitch} = s.switch.recording
      /\ \A q \in ofSwitch : q.switch = s.switch.id
  BY <1>1 DEF RequestsMatch
<1>4. left = ofSwitch \ {r}
  OBVIOUS
<1>5. \A q \in left : q.switch = t.switch.id
  BY <1>3, <1>4
<1>6. CASE SwitchOpen(s) /\ r.switch = s.switch.id
  <2>1. t.switch.recording = s.switch.recording \ {<<r.batch, r.window>>}
    BY <1>6
  <2>2. \A q \in left : <<q.batch, q.window>> \in t.switch.recording
    BY <1>1, <1>3, <1>4, <2>1 DEF RequestedOnce
  <2>3. ASSUME NEW x \in t.switch.recording
        PROVE  \E q \in left : x = <<q.batch, q.window>>
    <3>1. PICK q \in ofSwitch : x = <<q.batch, q.window>>
      BY <1>3, <2>1
    <3>2. q # r
      BY <2>1, <3>1
    <3> QED
      BY <1>4, <3>1, <3>2
  <2>4. {<<q.batch, q.window>> : q \in left} = t.switch.recording
    BY <2>2, <2>3
  <2> QED
    BY <1>2, <1>5, <2>4 DEF RequestsMatch
<1>7. CASE ~(SwitchOpen(s) /\ r.switch = s.switch.id)
  <2>1. r \notin ofSwitch
    <3>1. SUFFICES ASSUME r.switch # 0 PROVE FALSE
      OBVIOUS
    <3>2. r \in ofSwitch /\ r.switch = s.switch.id
      BY <1>3, <3>1
    <3>3. s.switch = NoSwitch
      BY <1>1, <1>7, <3>2 DEF Shape
    <3> QED
      BY <1>3, <3>2, <3>3 DEF NoSwitch
  <2>2. left = ofSwitch
    BY <1>4, <2>1
  <2>3. t.switch.recording = s.switch.recording
    BY <1>7
  <2> QED
    BY <1>2, <1>3, <1>5, <2>2, <2>3 DEF RequestsMatch
<1> QED
  BY <1>6, <1>7

(* RecoveryEntryDurable                                                    *)
LEMMA DurableGood ==
    ASSUME Good(engine), NEW b \in Nat, NEW w \in Window, NEW entry \in Nat,
           RecoveryEntryDurable(b, w, entry)
    PROVE  Good(engine')
<1>1. PICK r \in engine.pending :
        LET ours  == SwitchOpen(engine) /\ r.switch = engine.switch.id
            parks == IF w \in Managed(engine) THEN {w} ELSE {}
            rest  == engine.switch.recording \ {<<b, w>>}
            sw    == [engine.switch EXCEPT
                        !.recording = rest,
                        !.phase = IF @ = "Recording" /\ rest = {} THEN "Parking" ELSE @,
                        !.inFlight = @ \cup parks]
        IN  /\ r.batch = b /\ r.window = w
            /\ engine' = AdvanceSwitch(
                 [engine EXCEPT
                    !.pending = @ \ {r},
                    !.switch  = IF ours THEN sw ELSE @,
                    !.effects = Push(@, {[kind |-> "Park", window |-> v,
                                          entry |-> entry] : v \in parks})])
  BY DEF RecoveryEntryDurable
<1> DEFINE ours  == SwitchOpen(engine) /\ r.switch = engine.switch.id
           parks == IF w \in Managed(engine) THEN {w} ELSE {}
           rest  == engine.switch.recording \ {<<b, w>>}
           phase == IF engine.switch.phase = "Recording" /\ rest = {} THEN "Parking" ELSE engine.switch.phase
           sw    == [engine.switch EXCEPT !.recording = rest, !.phase = phase, !.inFlight = @ \cup parks]
           next  == IF ours THEN sw ELSE engine.switch
           moves == {[kind |-> "Park", window |-> v, entry |-> entry] : v \in parks}
           effects == Push(engine.effects, moves)
           t == [engine EXCEPT !.pending = @ \ {r}, !.switch = next, !.effects = effects]
<1>2. /\ engine \in EngineState /\ engine.switch \in Transaction /\ engine.pending \in SUBSET Request
      /\ engine.effects \in Seq(SUBSET Move)
      /\ Shape(engine) /\ RequestsMatch(engine) /\ RequestedOnce(engine)
      /\ DisplayedOnce(engine.pool) /\ Owes(engine)
  BY FieldTypes DEF Good, Consistent
<1>3. effects \in Seq(SUBSET Move)
  <2>1. moves \in SUBSET Move
    BY DEF Move
  <2>. HIDE DEF moves
  <2> QED
    BY <1>2, <2>1, PushType
<1>4. sw \in Transaction
  <2>1. phase \in Phase /\ rest \in SUBSET Token /\ parks \in SUBSET Window
    BY <1>2 DEF Transaction, Phase, ForwardPhase
  <2>. HIDE DEF phase, rest, parks
  <2> QED
    BY <1>2, <2>1 DEF Transaction
<1>5. /\ sw.id = engine.switch.id /\ sw.display = engine.switch.display
      /\ sw.recording = rest /\ sw.phase = phase /\ sw.inFlight = engine.switch.inFlight \cup parks
      /\ sw.restored = engine.switch.restored /\ sw.parked = engine.switch.parked
  <2>. HIDE DEF phase, rest, parks
  <2> QED
    BY <1>2 DEF Transaction
<1>6. /\ t \in EngineState /\ t.pending = engine.pending \ {r} /\ t.switch = next
      /\ t.pool = engine.pool
  <2>. HIDE DEF sw, effects
  <2> QED
    BY <1>2, <1>3, <1>4 DEF EngineState
<1>7. engine' = AdvanceSwitch(t)
  BY <1>1
<1>8. r.batch = b /\ r.window = w
  BY <1>1
<1>9. RequestsMatch(t) /\ RequestedOnce(t)
  <2>1. t.switch.id = engine.switch.id
    <3>. HIDE DEF sw, t
    <3> QED
      BY <1>5, <1>6
  <2>2. t.switch.recording = IF SwitchOpen(engine) /\ r.switch = engine.switch.id
                             THEN engine.switch.recording \ {<<r.batch, r.window>>}
                             ELSE engine.switch.recording
    <3>. HIDE DEF sw, t
    <3> QED
      BY <1>5, <1>6, <1>8
  <2>. HIDE DEF t
  <2> QED
    BY <1>6, <2>1, <2>2, AnswerMatches
<1>10. Shape(t) /\ Owes(t)
  <2>. HIDE DEF t, sw, rest, parks
  <2>1. CASE ours
    BY <2>1, <1>2, <1>5, <1>6 DEF Shape, SwitchOpen, Owes
  <2>2. CASE ~ours
    BY <2>2, <1>2, <1>6 DEF Shape, SwitchOpen, Owes
  <2> QED
    BY <2>1, <2>2
<1>. HIDE DEF t
<1>11. Good(t)
  BY <1>2, <1>6, <1>9, <1>10 DEF Good, Consistent
<1> QED
  BY <1>7, <1>11, AdvanceGood

(* RecoveryEntryRefused, which cancels the switch that asked.              *)
LEMMA RefusedGood ==
    ASSUME Good(engine), NEW b \in Nat, NEW w \in Window, RecoveryEntryRefused(b, w)
    PROVE  Good(engine')
<1>1. PICK r \in engine.pending :
        LET t == [engine EXCEPT !.pending = @ \ {r}] IN
        /\ r.batch = b /\ r.window = w
        /\ engine' = IF SwitchOpen(engine) /\ r.switch = engine.switch.id
                     THEN BeginSwitchCompensation(
                            [t EXCEPT !.switch.recording = @ \ {<<b, w>>}])
                     ELSE t
  BY DEF RecoveryEntryRefused
<1> DEFINE t == [engine EXCEPT !.pending = @ \ {r}]
           u == [t EXCEPT !.switch.recording = @ \ {<<b, w>>}]
<1>2. /\ engine \in EngineState /\ engine.switch \in Transaction /\ engine.pending \in SUBSET Request
      /\ Shape(engine) /\ DisplayedOnce(engine.pool) /\ Owes(engine)
  BY FieldTypes DEF Good, Consistent
<1>3. CASE SwitchOpen(engine) /\ r.switch = engine.switch.id
  <2>1. u \in EngineState
    BY <1>2 DEF EngineState, Transaction
  <2>2. /\ u.pending = engine.pending \ {r} /\ u.pool = engine.pool
        /\ u.switch = [engine.switch EXCEPT !.recording = @ \ {<<b, w>>}]
    BY <1>2 DEF EngineState
  <2>3. /\ u.switch.id = engine.switch.id /\ u.switch.display = engine.switch.display
        /\ u.switch.recording = engine.switch.recording \ {<<r.batch, r.window>>}
        /\ u.switch.phase = engine.switch.phase /\ u.switch.inFlight = engine.switch.inFlight
        /\ u.switch.restored = engine.switch.restored /\ u.switch.parked = engine.switch.parked
    BY <1>1, <1>2, <2>2 DEF Transaction
  <2>4. engine' = BeginSwitchCompensation(u)
    BY <1>1, <1>3
  <2>. HIDE DEF u
  <2>5. RequestsMatch(u) /\ RequestedOnce(u)
    BY <1>3, <2>2, <2>3, AnswerMatches
  <2>6. Shape(u) /\ Owes(u)
    BY <1>2, <1>3, <2>3 DEF Shape, SwitchOpen, Owes
  <2>7. Good(u)
    BY <1>2, <2>1, <2>2, <2>5, <2>6 DEF Good, Consistent
  <2> QED
    BY <2>4, <2>7, CompensationGood
<1>4. CASE ~(SwitchOpen(engine) /\ r.switch = engine.switch.id)
  <2>1. /\ t \in EngineState /\ t.pending = engine.pending \ {r} /\ t.pool = engine.pool
        /\ t.switch = engine.switch
    BY <1>2 DEF EngineState
  <2>2. engine' = t
    BY <1>1, <1>4
  <2>. HIDE DEF t
  <2>3. RequestsMatch(t) /\ RequestedOnce(t)
    BY <1>4, <2>1, AnswerMatches
  <2>4. Shape(t) /\ Owes(t)
    BY <1>2, <2>1 DEF Shape, SwitchOpen, Owes
  <2> QED
    BY <1>2, <2>1, <2>2, <2>3, <2>4 DEF Good, Consistent
<1> QED
  BY <1>3, <1>4

-----------------------------------------------------------------------------
(* The reducer *)

(* Every command,                                                          *)
LEMMA CommandGood ==
    ASSUME Good(engine), Command
    PROVE  Good(engine')
<1>1. CASE \E n \in Workspace, d \in Display :
             WorkspaceFocusRequested(n, d) \/ WorkspaceMoveRequested(n, d)
  BY <1>1, FocusGood, MoveGood
<1>2. CASE \E n \in Workspace : WorkspaceCreateRequested(n) \/ WorkspaceDeleteRequested(n)
  BY <1>2, CreateGood, DeleteGood
<1>3. CASE \E w \in Window : ParkingAuthorizationRequested(w)
  BY <1>3, ParkGood
<1>4. CASE RestoreParkedWindowsRequested
  BY <1>4, RestoreWindowsGood
<1>5. CASE WorkspaceSwitchRestoreRequested
  BY <1>5, RestoreSwitchGood
<1>6. CASE PauseRequested \/ ResumeRequested
  BY <1>6, FlagsGood
<1> QED
  BY <1>1, <1>2, <1>3, <1>4, <1>5, <1>6 DEF Command

(* every fact about the desktop, the configuration and the database,       *)
LEMMA FactGood ==
    ASSUME Good(engine), Fact
    PROVE  Good(engine')
<1>1. ASSUME NEW life \in [Window -> Lifecycle], NEW seat \in [Window -> Display],
             WindowsObserved(life, seat)
      PROVE  Good(engine')
  BY <1>1, InventoryGood DEF WindowsObserved
<1>2. ASSUME NEW life \in [Window -> Lifecycle], NEW seat \in [Window -> Display],
             NEW new \in SUBSET Display, NEW nearest \in Display, NEW enumerated \in BOOLEAN,
             WakeReconciliation(new, nearest, enumerated, life, seat)
      PROVE  Good(engine')
  BY <1>2, WakeGood
<1>3. ASSUME NEW new \in SUBSET Display, NEW nearest \in Display,
             DisplayTopologyChanged(new, nearest)
      PROVE  Good(engine')
  BY <1>3, TopologyGood
<1>4. ASSUME NEW c \in Configs, ConfigChanged(c)
      PROVE  Good(engine')
  BY <1>4, ConfigGood
<1>5. ASSUME NEW stored \in SUBSET Workspace, NEW where \in [Workspace -> Display \cup {None}],
             WorkspacesLoaded(stored, where)
      PROVE  Good(engine')
  BY <1>5, LoadGood DEF WorkspacesLoaded
<1>6. CASE \/ \E c \in Capability : ParkingCapabilityReported(c)
           \/ \E h \in Health : PersistenceHealthChanged(h)
  BY <1>6, FlagsGood
<1> QED
  BY <1>1, <1>2, <1>3, <1>4, <1>5, <1>6 DEF Fact

(* and every answer, expected or not, keeps the invariant.                 *)
LEMMA ReplyGood ==
    ASSUME Good(engine), Reply
    PROVE  Good(engine')
<1>1. PICK w \in Window :
        \/ \E b \in Nat, e \in Nat : RecoveryEntryDurable(b, w, e)
        \/ \E b \in Nat : RecoveryEntryRefused(b, w) \/ UnknownToken(b, w)
        \/ \E e \in Nat : WindowParked(w, e)
        \/ WindowParkFailed(w) \/ WindowRestored(w) \/ WindowRestoreFailed(w)
  BY DEF Reply
<1>2. CASE \E b \in Nat, e \in Nat : RecoveryEntryDurable(b, w, e)
  BY <1>2, DurableGood
<1>3. CASE \E b \in Nat : RecoveryEntryRefused(b, w)
  BY <1>3, RefusedGood
<1>4. CASE \E b \in Nat : UnknownToken(b, w)
  BY <1>4 DEF UnknownToken
<1>5. CASE \E e \in Nat : WindowParked(w, e)
  BY <1>5, ParkedGood
<1>6. CASE WindowRestored(w)
  BY <1>6, RestoredGood
<1>7. CASE WindowParkFailed(w) \/ WindowRestoreFailed(w)
  BY <1>7, FailedGood
<1> QED
  BY <1>1, <1>2, <1>3, <1>4, <1>5, <1>6, <1>7

(* One step of the reducer.                                                *)
LEMMA StepGood ==
    ASSUME Good(engine), Next
    PROVE  Good(engine')
BY CommandGood, FactGood, ReplyGood, ConsumedGood DEF Next

(* The inductive invariant holds of the reducer in any environment: events *)
(* in any order, with any arguments of their types, as often as they like. *)
THEOREM GoodAlways == Spec => []Good(engine)
<1>1. Init => Good(engine)
  BY BootGood DEF Init
<1>2. Good(engine) /\ [Next]_engine => Good(engine)'
  <2>1. ASSUME Good(engine), Next
        PROVE  Good(engine')
    BY <2>1, StepGood
  <2>2. ASSUME Good(engine), UNCHANGED engine
        PROVE  Good(engine')
    BY <2>2
  <2> QED
    BY <2>1, <2>2
<1> QED
  BY <1>1, <1>2, PTL DEF Spec

-----------------------------------------------------------------------------
(* Names and displays: what a step does to the names the pool knows and to *)
(* the displays that show them, function by function.                      *)

(* The fields of the state and of its transaction, which is all most       *)
(* functions need to know of the state they are given.                     *)
Fields(s) ==
    /\ DOMAIN s = {"pool", "displays", "config", "unavailable", "remembered",
                   "life", "seat", "parked", "pending", "switch", "degraded", "site",
                   "health", "paused", "lastBatch", "lastSwitch", "effects", "intents"}
    /\ DOMAIN s.pool = {"origin", "displayed", "member"}
    /\ DOMAIN s.switch = {"id", "phase", "display", "target", "outgoing", "recording",
                          "inFlight", "queued", "parked", "restored", "stranded"}
    /\ s.switch.phase \in Phase

(* Only workspaces that exist are shown, remembered, have members or are   *)
(* about to be shown.                                                      *)
Placed(s) ==
    /\ DisplayedExists(s.pool) /\ MembersExist(s.pool)
    /\ \A n \in Workspace : s.remembered[n] # None => n \in Names(s.pool)
    /\ SwitchOpen(s) => s.switch.target \in Names(s.pool)

(* Only connected displays show a workspace or are about to.               *)
Connected(s) ==
    /\ \A d \in Display : s.pool.displayed[d] # None => d \in s.displays
    /\ SwitchOpen(s) => s.switch.display \in s.displays

(* Nobody remembers where a workspace was shown before.                    *)
Untold(s) == \A n \in Workspace : s.remembered[n] = None

(* A function of the reducer that spoils none of them, and lets displays   *)
(* neither come nor go ...                                                 *)
Preserves(s, t) ==
    /\ Fields(t) /\ t.displays = s.displays
    /\ Placed(s) => Placed(t)
    /\ Connected(s) => Connected(t)
    /\ Untold(s) => Untold(t)

(* ... and one that besides leaves the transaction alone.                  *)
Tidies(s, t) == Preserves(s, t) /\ t.switch = s.switch

LEMMA StateFields == ASSUME NEW s \in EngineState PROVE Fields(s)
BY DEF Fields, EngineState, Pool, Transaction

LEMMA PreservesTransitive ==
    ASSUME NEW s, NEW t, NEW u, Preserves(s, t), Preserves(t, u)
    PROVE  Preserves(s, u)
BY DEF Preserves

LEMMA TidiesTransitive ==
    ASSUME NEW s, NEW t, NEW u, Tidies(s, t), Tidies(t, u)
    PROVE  Tidies(s, u)
BY DEF Tidies, Preserves

(* What matters of a state that is changed elsewhere.                      *)
LEMMA SameTidies ==
    ASSUME NEW s, NEW t, Fields(t),
           t.pool = s.pool, t.remembered = s.remembered, t.displays = s.displays,
           t.switch = s.switch
    PROVE  Tidies(s, t)
BY DEF Tidies, Preserves, Placed, Connected, Untold, SwitchOpen

(* The same for one whose transaction goes on or ends without a commit.    *)
LEMMA OnwardPreserves ==
    ASSUME NEW s, NEW t, Fields(t),
           t.pool = s.pool, t.remembered = s.remembered, t.displays = s.displays,
           SwitchOpen(t) => SwitchOpen(s) /\ t.switch.target = s.switch.target
                                          /\ t.switch.display = s.switch.display
    PROVE  Preserves(s, t)
BY DEF Preserves, Placed, Connected, Untold

-----------------------------------------------------------------------------
(* The transaction *)

(* commit_switch: it shows the target where it was asked for.              *)
LEMMA CommitPreserves ==
    ASSUME NEW s, Fields(s), SwitchOpen(s)
    PROVE  Preserves(s, CommitSwitch(s))
<1> DEFINE t == CommitSwitch(s)
<1>1. /\ Fields(t) /\ t.displays = s.displays /\ t.remembered = s.remembered
      /\ t.pool.origin = s.pool.origin /\ t.pool.member = s.pool.member
      /\ t.pool.displayed = [e \in Display |-> IF e = s.switch.display THEN s.switch.target
                                ELSE IF s.pool.displayed[e] = s.switch.target THEN None
                                ELSE s.pool.displayed[e]]
      /\ ~SwitchOpen(t)
  BY DEF Fields, CommitSwitch, Show, NoSwitch, Phase, SwitchOpen
<1>. HIDE DEF t
<1>2. Names(t.pool) = Names(s.pool)
  BY <1>1 DEF Names
<1>3. Placed(s) => Placed(t)
  BY <1>1, <1>2 DEF Placed, DisplayedExists, MembersExist
<1>4. Connected(s) => Connected(t)
  BY <1>1 DEF Connected
<1> QED
  BY <1>1, <1>3, <1>4 DEF Preserves, Untold, t

(* finish_compensation                                                     *)
LEMMA FinishPreserves ==
    ASSUME NEW s, Fields(s)
    PROVE  Preserves(s, FinishCompensation(s))
<1> DEFINE t == FinishCompensation(s)
<1>1. /\ Fields(t) /\ t.displays = s.displays /\ t.remembered = s.remembered
      /\ t.pool = s.pool /\ ~SwitchOpen(t)
  BY DEF Fields, FinishCompensation, NoSwitch, Phase, SwitchOpen
<1>. HIDE DEF t
<1> QED
  BY <1>1, OnwardPreserves DEF t

(* emit_switch_restores                                                    *)
LEMMA EmitPreserves ==
    ASSUME NEW s, Fields(s), SwitchOpen(s)
    PROVE  Preserves(s, EmitSwitchRestores(s))
<1> DEFINE here == s.switch.inFlight \ Parked(s)
           away == s.switch.inFlight \cap Parked(s)
           forward == s.switch.phase = "Restoring"
           restored == IF forward THEN s.switch.restored \cup here ELSE s.switch.restored
           parked == IF forward THEN s.switch.parked ELSE s.switch.parked \ here
           effects == Push(s.effects, RestoreMoves(s, away))
           t == [s EXCEPT !.effects = effects,
                          !.switch.inFlight = away,
                          !.switch.restored = restored,
                          !.switch.parked   = parked]
<1>1. EmitSwitchRestores(s) = IF away # {} THEN t ELSE IF forward THEN CommitSwitch(t) ELSE FinishCompensation(t)
  BY DEF EmitSwitchRestores
<1>. HIDE DEF here, away, forward, restored, parked, effects
<1>2. /\ Fields(t) /\ t.pool = s.pool /\ t.remembered = s.remembered /\ t.displays = s.displays
      /\ t.switch.phase = s.switch.phase
      /\ t.switch.target = s.switch.target /\ t.switch.display = s.switch.display
  BY DEF Fields
<1>. HIDE DEF t
<1>3. SwitchOpen(t) /\ Preserves(s, t)
  BY <1>2, OnwardPreserves DEF SwitchOpen
<1>4. Preserves(t, CommitSwitch(t)) /\ Preserves(t, FinishCompensation(t))
  BY <1>2, <1>3, CommitPreserves, FinishPreserves
<1> QED
  BY <1>1, <1>3, <1>4, PreservesTransitive

(* advance_switch                                                          *)
LEMMA AdvancePreserves ==
    ASSUME NEW s, Fields(s)
    PROVE  Preserves(s, AdvanceSwitch(s))
<1> DEFINE forth == [s EXCEPT !.switch.phase = "Restoring", !.switch.queued = {},
                              !.switch.inFlight = s.switch.queued]
           back == [s EXCEPT !.switch.phase = "CompensatingRestore",
                             !.switch.inFlight = s.switch.parked]
<1>1. CASE ~SwitchOpen(s) \/ ~PhaseIsSettled(s)
  <2>1. AdvanceSwitch(s) = s
    BY <1>1 DEF AdvanceSwitch, SwitchOpen
  <2> QED
    BY <2>1, SameTidies DEF Tidies
<1>2. CASE SwitchOpen(s) /\ PhaseIsSettled(s)
  <2>1. /\ Fields(forth) /\ forth.pool = s.pool /\ forth.remembered = s.remembered
        /\ forth.displays = s.displays /\ SwitchOpen(forth)
        /\ forth.switch.target = s.switch.target /\ forth.switch.display = s.switch.display
    BY DEF Fields, SwitchOpen, Phase, ForwardPhase
  <2>2. /\ Fields(back) /\ back.pool = s.pool /\ back.remembered = s.remembered
        /\ back.displays = s.displays /\ SwitchOpen(back)
        /\ back.switch.target = s.switch.target /\ back.switch.display = s.switch.display
    BY DEF Fields, SwitchOpen, Phase, CompensatingPhase
  <2>3. AdvanceSwitch(s) \in {CommitSwitch(s), FinishCompensation(s),
                             EmitSwitchRestores(forth), EmitSwitchRestores(back)}
    <3>1. CASE s.switch.phase \in {"Recording", "Parking"}
      BY <1>2, <3>1 DEF AdvanceSwitch
    <3>2. CASE s.switch.phase = "Restoring"
      BY <1>2, <3>2 DEF AdvanceSwitch
    <3>3. CASE s.switch.phase = "CompensatingPark"
      BY <1>2, <3>3 DEF AdvanceSwitch
    <3>4. CASE s.switch.phase = "CompensatingRestore"
      BY <1>2, <3>4 DEF AdvanceSwitch
    <3> QED
      BY <1>2, <3>1, <3>2, <3>3, <3>4
         DEF Fields, SwitchOpen, Phase, ForwardPhase, CompensatingPhase
  <2>. HIDE DEF forth, back
  <2>4. Preserves(s, EmitSwitchRestores(forth)) /\ Preserves(s, EmitSwitchRestores(back))
    BY <1>2, <2>1, <2>2, OnwardPreserves, EmitPreserves, PreservesTransitive
  <2> QED
    BY <1>2, <2>3, <2>4, CommitPreserves, FinishPreserves
<1> QED
  BY <1>1, <1>2

(* request_recovery_entries                                                *)
LEMMA RequestTidies ==
    ASSUME NEW s, Fields(s), NEW W, NEW id
    PROVE  Tidies(s, RequestRecoveryEntries(s, W, id))
<1> DEFINE t == RequestRecoveryEntries(s, W, id)
<1>1. /\ Fields(t) /\ t.pool = s.pool /\ t.remembered = s.remembered
      /\ t.displays = s.displays /\ t.switch = s.switch
  BY DEF Fields, RequestRecoveryEntries
<1>. HIDE DEF t
<1> QED
  BY <1>1, SameTidies DEF t

(* request_switch_reparks                                                  *)
LEMMA ReparksPreserve ==
    ASSUME NEW s, Fields(s), NEW W
    PROVE  Preserves(s, RequestSwitchReparks(s, W))
<1> DEFINE able == {w \in W : Parkable(s, w)}
           lost == W \ able
           t == RequestRecoveryEntries(s, able, s.switch.id)
           tokens == {<<t.lastBatch, w>> : w \in able}
           u == [t EXCEPT !.switch.recording = tokens,
                          !.switch.inFlight  = able,
                          !.switch.stranded  = @ \cup lost,
                          !.switch.restored  = @ \ lost,
                          !.switch.parked    = @ \ lost]
<1>1. RequestSwitchReparks(s, W) = AdvanceSwitch(u)
  BY DEF RequestSwitchReparks
<1>2. Tidies(s, t)
  BY RequestTidies
<1>. HIDE DEF t, able, lost, tokens
<1>3. /\ Fields(u) /\ u.pool = t.pool /\ u.remembered = t.remembered
      /\ u.displays = t.displays /\ u.switch.phase = t.switch.phase
      /\ u.switch.target = t.switch.target /\ u.switch.display = t.switch.display
  BY <1>2 DEF Fields, Tidies, Preserves
<1>. HIDE DEF u
<1>4. Preserves(t, u) /\ Preserves(u, AdvanceSwitch(u))
  BY <1>3, OnwardPreserves, AdvancePreserves DEF SwitchOpen
<1> QED
  BY <1>1, <1>2, <1>4, PreservesTransitive DEF Tidies

(* begin_switch_compensation                                               *)
LEMMA CompensationPreserves ==
    ASSUME NEW s, Fields(s)
    PROVE  Preserves(s, BeginSwitchCompensation(s))
<1> DEFINE t == [s EXCEPT !.pending = {r \in @ : r.switch = 0},
                          !.switch.phase     = "CompensatingPark",
                          !.switch.queued    = {},
                          !.switch.recording = {},
                          !.switch.inFlight  = {}]
<1>1. BeginSwitchCompensation(s) = IF ~SwitchOpen(s) \/ Compensating(s) THEN s
                                   ELSE RequestSwitchReparks(t, s.switch.restored)
  BY DEF BeginSwitchCompensation
<1>2. /\ Fields(t) /\ t.pool = s.pool /\ t.remembered = s.remembered
      /\ t.displays = s.displays
      /\ t.switch.target = s.switch.target /\ t.switch.display = s.switch.display
  BY DEF Fields, Phase, CompensatingPhase
<1>. HIDE DEF t
<1>3. Preserves(s, s)
  BY SameTidies DEF Tidies
<1>4. CASE ~SwitchOpen(s) \/ Compensating(s)
  BY <1>1, <1>3, <1>4
<1>5. CASE SwitchOpen(s) /\ ~Compensating(s)
  <2>1. Preserves(s, t) /\ Preserves(t, RequestSwitchReparks(t, s.switch.restored))
    BY <1>2, <1>5, OnwardPreserves, ReparksPreserve
  <2> QED
    BY <1>1, <1>5, <2>1, PreservesTransitive
<1> QED
  BY <1>4, <1>5

(* switch_window_settled                                                   *)
LEMMA SettledPreserves ==
    ASSUME NEW s, Fields(s), NEW w, NEW ok \in BOOLEAN
    PROVE  Preserves(s, SwitchWindowSettled(s, w, ok))
<1> DEFINE phase == s.switch.phase
           parked == IF phase \in {"Recording", "Parking"} THEN s.switch.parked \cup {w}
                     ELSE IF phase = "CompensatingRestore" THEN s.switch.parked \ {w}
                     ELSE s.switch.parked
           restored == IF phase = "Restoring" THEN s.switch.restored \cup {w}
                       ELSE IF phase = "CompensatingPark" THEN s.switch.restored \ {w}
                       ELSE s.switch.restored
           flight == s.switch.inFlight \ {w}
           t == [s EXCEPT !.switch.inFlight = flight]
           landed == [t EXCEPT !.switch.parked = parked, !.switch.restored = restored]
           lost == [t EXCEPT !.switch.stranded = @ \cup {w},
                             !.switch.restored = @ \ {w},
                             !.switch.parked   = @ \ {w}]
<1>1. SwitchWindowSettled(s, w, ok) \in {s, AdvanceSwitch(landed), AdvanceSwitch(lost),
                                        BeginSwitchCompensation(t)}
  <2>1. CASE w \notin s.switch.inFlight
    BY <2>1 DEF SwitchWindowSettled
  <2>2. CASE w \in s.switch.inFlight /\ ok
    <3>1. SwitchWindowSettled(s, w, ok) =
             AdvanceSwitch([t EXCEPT
                !.switch.parked = IF phase \in {"Recording", "Parking"} THEN @ \cup {w}
                                  ELSE IF phase = "CompensatingRestore" THEN @ \ {w} ELSE @,
                !.switch.restored = IF phase = "Restoring" THEN @ \cup {w}
                                    ELSE IF phase = "CompensatingPark" THEN @ \ {w} ELSE @])
      BY <2>2 DEF SwitchWindowSettled
    <3>2. t.switch.parked = s.switch.parked /\ t.switch.restored = s.switch.restored
      BY DEF Fields
    <3> QED
      BY <3>1, <3>2
  <2>3. CASE w \in s.switch.inFlight /\ ~ok /\ Compensating(s)
    BY <2>3 DEF SwitchWindowSettled
  <2>4. CASE w \in s.switch.inFlight /\ ~ok /\ ~Compensating(s)
    BY <2>4 DEF SwitchWindowSettled
  <2> QED
    BY <2>1, <2>2, <2>3, <2>4
<1>. HIDE DEF parked, restored, flight
<1>2. /\ Fields(t) /\ t.pool = s.pool /\ t.remembered = s.remembered
      /\ t.displays = s.displays /\ t.switch.phase = s.switch.phase
      /\ t.switch.target = s.switch.target /\ t.switch.display = s.switch.display
  BY DEF Fields
<1>. HIDE DEF t
<1>3. /\ Fields(landed) /\ landed.pool = t.pool /\ landed.remembered = t.remembered
      /\ landed.displays = t.displays /\ landed.switch.phase = t.switch.phase
      /\ landed.switch.target = t.switch.target /\ landed.switch.display = t.switch.display
  BY <1>2 DEF Fields
<1>4. /\ Fields(lost) /\ lost.pool = t.pool /\ lost.remembered = t.remembered
      /\ lost.displays = t.displays /\ lost.switch.phase = t.switch.phase
      /\ lost.switch.target = t.switch.target /\ lost.switch.display = t.switch.display
  BY <1>2 DEF Fields
<1>. HIDE DEF landed, lost
<1>5. Preserves(s, s) /\ Preserves(s, t) /\ Preserves(t, landed) /\ Preserves(t, lost)
  BY <1>2, <1>3, <1>4, OnwardPreserves DEF SwitchOpen
<1>6. /\ Preserves(landed, AdvanceSwitch(landed)) /\ Preserves(lost, AdvanceSwitch(lost))
      /\ Preserves(t, BeginSwitchCompensation(t))
  BY <1>2, <1>3, <1>4, AdvancePreserves, CompensationPreserves
<1> QED
  BY <1>1, <1>5, <1>6, PreservesTransitive

-----------------------------------------------------------------------------
(* Beside the transaction *)

(* reconcile_hidden_workspace_windows                                      *)
LEMMA ReconcileTidies ==
    ASSUME NEW s, Fields(s)
    PROVE  Tidies(s, ReconcileHiddenWorkspaceWindows(s))
<1> DEFINE toPark == {w \in Managed(s) : Hidden(s, w) /\ w \notin Parked(s) /\ Parkable(s, w)}
           toRestore == {w \in Managed(s) : ~Hidden(s, w) /\ w \in Parked(s)}
           t == RequestRecoveryEntries(s, toPark, 0)
           u == [t EXCEPT !.effects = Push(@, RestoreMoves(s, toRestore))]
<1>1. ReconcileHiddenWorkspaceWindows(s) \in {s, u}
  BY DEF ReconcileHiddenWorkspaceWindows
<1>2. Tidies(s, t) /\ Tidies(s, s)
  BY RequestTidies, SameTidies
<1>. HIDE DEF t, toPark, toRestore
<1>3. /\ Fields(u) /\ u.pool = t.pool /\ u.remembered = t.remembered
      /\ u.displays = t.displays /\ u.switch = t.switch
  BY <1>2 DEF Fields, Tidies, Preserves
<1>. HIDE DEF u
<1>4. Tidies(t, u)
  BY <1>3, SameTidies
<1> QED
  BY <1>1, <1>2, <1>4, TidiesTransitive

(* Another pool, whose names are those there were and more.                *)
LEMMA PoolTidies ==
    ASSUME NEW s, Fields(s), NEW t, Fields(t), t.switch = s.switch, t.displays = s.displays,
           Names(s.pool) \subseteq Names(t.pool),
           Placed(s) => /\ DisplayedExists(t.pool) /\ MembersExist(t.pool)
                        /\ \A n \in Workspace : t.remembered[n] # None => n \in Names(t.pool),
           Connected(s) => \A d \in Display : t.pool.displayed[d] # None => d \in t.displays,
           Untold(s) => Untold(t)
    PROVE  Tidies(s, t)
BY DEF Tidies, Preserves, Placed, Connected, SwitchOpen

(* assign_unassigned_windows: windows join what their display shows.       *)
LEMMA AssignTidies ==
    ASSUME NEW s, Good(s)
    PROVE  Tidies(s, AssignUnassignedWindows(s))
<1> DEFINE to == [w \in Window |-> IF w \in Managed(s) /\ s.pool.member[w] = None
                                   THEN s.pool.displayed[s.seat[w]] ELSE None]
           member == [w \in Window |-> IF to[w] = None THEN s.pool.member[w] ELSE to[w]]
           t == [s EXCEPT !.pool = Assign(@, to)]
<1>1. /\ s \in EngineState /\ s.pool \in Pool /\ s.seat \in [Window -> Display] /\ Fields(s)
  BY FieldTypes, StateFields DEF Good, Consistent
<1>2. AssignUnassignedWindows(s) = t
  BY DEF AssignUnassignedWindows
<1>3. /\ Fields(t) /\ t.switch = s.switch /\ t.displays = s.displays
      /\ t.remembered = s.remembered /\ t.pool.origin = s.pool.origin
      /\ t.pool.displayed = s.pool.displayed /\ t.pool.member = member
  <2>. HIDE DEF to
  <2> QED
    BY <1>1 DEF Fields, Assign
<1>. HIDE DEF t
<1>4. Names(t.pool) = Names(s.pool)
  BY <1>3 DEF Names
<1>5. DisplayedExists(s.pool) /\ MembersExist(s.pool) => MembersExist(t.pool)
  BY <1>1, <1>3, <1>4 DEF DisplayedExists, MembersExist
<1> QED
  BY <1>1, <1>2, <1>3, <1>4, <1>5, PoolTidies
     DEF Placed, Connected, DisplayedExists, Untold

(* replace_inventory_from_observations: a rule sends a window to a         *)
(* workspace that exists.                                                  *)
LEMMA InventoryTidies ==
    ASSUME NEW s, Good(s), NEW life \in [Window -> Lifecycle], NEW seat \in [Window -> Display]
    PROVE  Tidies(s, ReplaceInventory(s, life, seat))
<1> DEFINE seen == {w \in Window : life[w] # "Gone"}
           closed == Parked(s) \ seen
           to == [w \in Window |->
                    IF w \in seen \ Managed(s) /\ RuleTarget[w] \in Names(s.pool)
                    THEN RuleTarget[w] ELSE None]
           kept == [w \in Window |-> IF w \in seen THEN s.pool.member[w] ELSE None]
           member == [w \in Window |-> IF to[w] = None THEN kept[w] ELSE to[w]]
           pool == Assign(RetainMembers(s.pool, seen), to)
           parked == [w \in Window |-> IF w \in seen THEN s.parked[w] ELSE 0]
           marks == {[kind |-> "MarkRestored", window |-> w, number |-> s.parked[w]] : w \in closed}
           intents == Push(s.intents, marks)
           t == [s EXCEPT !.life = life, !.seat = seat, !.parked = parked,
                          !.intents = intents, !.pool = pool]
<1>1. /\ s \in EngineState /\ s.pool \in Pool /\ Fields(s)
      /\ s.parked \in [Window -> Nat] /\ s.intents \in Seq(SUBSET Intent)
      /\ DisplayedOnce(s.pool)
  BY FieldTypes, StateFields DEF Good, Consistent
<1>2. ReplaceInventory(s, life, seat) = ReconcileHiddenWorkspaceWindows(AssignUnassignedWindows(t))
  BY DEF ReplaceInventory
<1>3. /\ pool.origin = s.pool.origin /\ pool.displayed = s.pool.displayed /\ pool.member = member
      /\ DOMAIN pool = {"origin", "displayed", "member"}
  <2>. HIDE DEF to, seen
  <2> QED
    BY <1>1 DEF Assign, RetainMembers, Fields
<1>4. /\ to \in [Window -> Workspace \cup {None}]
      /\ \A w \in Window : to[w] # None => to[w] \in Names(s.pool)
  BY DEF Names
<1>5. pool \in Pool /\ DisplayedOnce(pool)
  BY <1>1, <1>4, RetainMembersKeeps, AssignKeeps
<1>6. marks \in SUBSET Intent
  BY <1>1 DEF Intent, Parked
<1>7. intents \in Seq(SUBSET Intent)
  <2>. HIDE DEF marks
  <2> QED
    BY <1>1, <1>6, PushType
<1>8. parked \in [Window -> Nat]
  BY <1>1
<1>9. MembersExist(s.pool) => MembersExist(pool)
  <2>1. Names(pool) = Names(s.pool)
    BY <1>3 DEF Names
  <2> QED
    BY <1>3, <1>4, <2>1 DEF MembersExist
<1>. HIDE DEF pool, parked, intents
<1>10. /\ t \in EngineState /\ t.switch = s.switch /\ t.pending = s.pending /\ t.pool = pool
       /\ t.displays = s.displays /\ t.remembered = s.remembered
  BY <1>1, <1>5, <1>7, <1>8 DEF EngineState
<1>. HIDE DEF t
<1>11. Good(t) /\ Fields(t)
  BY <1>5, <1>10, FrameGood, StateFields
<1>12. Names(t.pool) = Names(s.pool)
  BY <1>3, <1>10 DEF Names
<1>13. Tidies(s, t)
  BY <1>1, <1>3, <1>9, <1>10, <1>11, <1>12, PoolTidies
     DEF Placed, Connected, DisplayedExists, Untold
<1>14. Tidies(t, AssignUnassignedWindows(t))
  BY <1>11, AssignTidies
<1>15. Tidies(AssignUnassignedWindows(t), ReconcileHiddenWorkspaceWindows(AssignUnassignedWindows(t)))
  BY <1>14, ReconcileTidies DEF Tidies, Preserves
<1> QED
  BY <1>2, <1>13, <1>14, <1>15, TidiesTransitive

(* sync_workspaces_from_config keeps every name.                           *)
LEMMA SyncTidies ==
    ASSUME NEW s, Fields(s)
    PROVE  Tidies(s, SyncWorkspacesFromConfig(s))
<1> DEFINE origin == [n \in Workspace |-> IF n \in Declared(s) THEN "Configuration"
                                          ELSE IF n \in Names(s.pool) THEN "Command" ELSE "Absent"]
           t == [s EXCEPT !.pool.origin = origin]
<1>1. SyncWorkspacesFromConfig(s) = t
  BY DEF SyncWorkspacesFromConfig
<1>2. \A n \in Names(s.pool) : origin[n] # "Absent"
  BY DEF Names
<1>. HIDE DEF origin
<1>3. /\ Fields(t) /\ t.switch = s.switch /\ t.displays = s.displays
      /\ t.remembered = s.remembered /\ t.pool.origin = origin
      /\ t.pool.displayed = s.pool.displayed /\ t.pool.member = s.pool.member
  BY DEF Fields
<1>. HIDE DEF t
<1>4. Names(s.pool) \subseteq Names(t.pool)
  BY <1>2, <1>3 DEF Names
<1> QED
  BY <1>1, <1>3, <1>4, PoolTidies
     DEF Placed, Connected, DisplayedExists, MembersExist, Untold

(* fill_empty_displays shows names of the pool on connected displays.      *)
LEMMA FillTidies ==
    ASSUME NEW s, Fields(s), NEW t \in FillEmptyDisplays(s)
    PROVE  Tidies(s, t)
<1>1. PICK fill \in Fills(s) :
        t = [s EXCEPT
               !.pool.displayed = [d \in Display |-> IF fill[d] = None THEN @[d] ELSE fill[d]],
               !.remembered = [n \in Workspace |-> IF \E d \in Display : fill[d] = n
                                                   THEN None ELSE @[n]]]
  BY DEF FillEmptyDisplays
<1> DEFINE displayed == [d \in Display |-> IF fill[d] = None THEN s.pool.displayed[d] ELSE fill[d]]
           remembered == [n \in Workspace |-> IF \E d \in Display : fill[d] = n
                                              THEN None ELSE s.remembered[n]]
<1>2. \A d \in Display : fill[d] # None => d \in s.displays /\ fill[d] \in Names(s.pool)
  BY DEF Fills, RememberedFor, HiddenAndEmpty
<1>3. t = [s EXCEPT !.pool.displayed = displayed, !.remembered = remembered]
  BY <1>1 DEF Fields
<1>. HIDE DEF displayed, remembered
<1>4. /\ Fields(t) /\ t.switch = s.switch /\ t.displays = s.displays
      /\ t.remembered = remembered /\ t.pool.origin = s.pool.origin
      /\ t.pool.displayed = displayed /\ t.pool.member = s.pool.member
  BY <1>3 DEF Fields
<1>5. Names(t.pool) = Names(s.pool)
  BY <1>4 DEF Names
<1>6. /\ \A d \in Display : displayed[d] # None =>
           s.pool.displayed[d] = displayed[d] \/ (d \in s.displays /\ displayed[d] \in Names(s.pool))
      /\ \A n \in Workspace : remembered[n] # None => s.remembered[n] # None
  BY <1>2 DEF displayed, remembered
<1> QED
  BY <1>4, <1>5, <1>6, PoolTidies
     DEF Placed, Connected, DisplayedExists, MembersExist, Untold

(* apply_switching_mapping: the mapping names workspaces of the pool, and  *)
(* a display that is not connected shows at most what it did.              *)
LEMMA MappingTidies ==
    ASSUME NEW s, Fields(s)
    PROVE  Tidies(s, ApplySwitchingMapping(s))
<1> DEFINE m == s.config.mapping
           asked == ProfileMatches(s) /\ s.config.experimental
           complete == \A d \in Display : IF d \in s.displays
                                          THEN m[d] \in Names(s.pool) ELSE m[d] = None
           displayed == [d \in Display |->
                           IF d \in s.displays THEN m[d]
                           ELSE IF \E e \in s.displays : s.pool.displayed[d] = m[e] THEN None
                           ELSE s.pool.displayed[d]]
           t == [s EXCEPT !.unavailable = FALSE, !.pool.displayed = displayed]
           u == [s EXCEPT !.unavailable = asked]
<1>1. CASE asked /\ complete
  <2>1. ApplySwitchingMapping(s) = t
    BY <1>1 DEF ApplySwitchingMapping, Fields
  <2>2. \A d \in Display : displayed[d] # None =>
          s.pool.displayed[d] = displayed[d] \/ (d \in s.displays /\ displayed[d] \in Names(s.pool))
    BY <1>1
  <2>. HIDE DEF displayed
  <2>3. /\ Fields(t) /\ t.switch = s.switch /\ t.displays = s.displays
        /\ t.remembered = s.remembered /\ t.pool.origin = s.pool.origin
        /\ t.pool.displayed = displayed /\ t.pool.member = s.pool.member
    BY DEF Fields
  <2>. HIDE DEF t
  <2>4. Names(t.pool) = Names(s.pool)
    BY <2>3 DEF Names
  <2> QED
    BY <2>1, <2>2, <2>3, <2>4, PoolTidies
       DEF Placed, Connected, DisplayedExists, MembersExist, Untold
<1>2. CASE ~(asked /\ complete)
  <2>1. ApplySwitchingMapping(s) = u
    BY <1>2 DEF ApplySwitchingMapping
  <2>2. /\ Fields(u) /\ u.pool = s.pool /\ u.remembered = s.remembered
        /\ u.displays = s.displays /\ u.switch = s.switch
    BY DEF Fields
  <2>. HIDE DEF u
  <2> QED
    BY <2>1, <2>2, SameTidies
<1> QED
  BY <1>1, <1>2

(* The tail of ConfigChanged and DisplayTopologyChanged.                   *)
LEMMA ResettleTidies ==
    ASSUME NEW s, Good(s), NEW t \in Resettle(s)
    PROVE  Tidies(s, t)
<1> DEFINE synced == SyncWorkspacesFromConfig(s)
<1>1. Good(synced) /\ Tidies(s, synced)
  BY SyncGood, SyncTidies, StateFields DEF Good, Consistent
<1>2. PICK f \in FillEmptyDisplays(synced) :
        t = ReconcileHiddenWorkspaceWindows(AssignUnassignedWindows(ApplySwitchingMapping(f)))
  BY DEF Resettle
<1>. HIDE DEF synced
<1>3. Good(f) /\ Tidies(synced, f)
  BY <1>1, <1>2, FillGood, FillTidies DEF Tidies, Preserves
<1> DEFINE mapped == ApplySwitchingMapping(f)
<1>4. Good(mapped) /\ Tidies(f, mapped)
  BY <1>3, MappingGood, MappingTidies DEF Tidies, Preserves
<1>. HIDE DEF mapped
<1> DEFINE assigned == AssignUnassignedWindows(mapped)
<1>5. Tidies(mapped, assigned)
  BY <1>4, AssignTidies
<1>. HIDE DEF assigned
<1>6. Tidies(assigned, ReconcileHiddenWorkspaceWindows(assigned))
  BY <1>5, ReconcileTidies DEF Tidies, Preserves
<1>7. Tidies(s, assigned)
  BY <1>1, <1>3, <1>4, <1>5, TidiesTransitive
<1> QED
  BY <1>2, <1>6, <1>7, TidiesTransitive DEF assigned, mapped

(* migrate_orphaned_windows and hide_workspaces_on_vanished_displays: no   *)
(* display that went shows anything, but a switch may be under way on one. *)
LEMMA LeaveParts ==
    ASSUME NEW s, Fields(s), NEW new, NEW nearest
    PROVE  LET t == LeaveVanishedDisplays(s, new, nearest) IN
           /\ Fields(t) /\ t.switch = s.switch /\ t.displays = new
           /\ Placed(s) => Placed(t)
           /\ Untold(s) => Untold(t)
           /\ (SwitchOpen(s) => s.switch.display \in new) => Connected(t)
<1> DEFINE seat == [w \in Window |-> IF w \in Managed(s) /\ s.seat[w] \in s.displays \ new
                                     THEN nearest ELSE s.seat[w]]
           displayed == [d \in Display |-> IF d \in new THEN s.pool.displayed[d] ELSE None]
           t == [s EXCEPT !.seat = seat, !.pool = RetainDisplays(@, new), !.displays = new]
<1>1. LeaveVanishedDisplays(s, new, nearest) = t
  BY DEF LeaveVanishedDisplays
<1>. HIDE DEF seat
<1>2. /\ Fields(t) /\ t.switch = s.switch /\ t.displays = new
      /\ t.remembered = s.remembered /\ t.pool.origin = s.pool.origin
      /\ t.pool.displayed = displayed /\ t.pool.member = s.pool.member
  BY DEF Fields, RetainDisplays
<1>. HIDE DEF t
<1>3. Names(t.pool) = Names(s.pool)
  BY <1>2 DEF Names
<1>4. Placed(s) => Placed(t)
  BY <1>2, <1>3 DEF Placed, DisplayedExists, MembersExist, SwitchOpen
<1>5. (SwitchOpen(s) => s.switch.display \in new) => Connected(t)
  BY <1>2 DEF Connected, SwitchOpen
<1>6. Untold(s) => Untold(t)
  BY <1>2 DEF Untold
<1> QED
  BY <1>1, <1>2, <1>4, <1>5, <1>6

(* WorkspacesLoaded, one stored display.                                   *)
LEMMA LoadDisplayedTidies ==
    ASSUME NEW s, Good(s), NEW n \in Workspace, s.remembered[n] \in s.displays
    PROVE  Tidies(s, LoadDisplayed(s, n))
<1> DEFINE d == s.remembered[n]
           forget == [s.remembered EXCEPT ![n] = None]
           shown == [e \in Display |-> IF e = d THEN n
                                       ELSE IF s.pool.displayed[e] = n THEN None
                                       ELSE s.pool.displayed[e]]
           t == [s EXCEPT !.remembered = forget]
           u == [s EXCEPT !.pool = Show(@, n, d), !.remembered = forget]
<1>1. /\ s \in EngineState /\ Fields(s) /\ s.remembered \in [Workspace -> Display \cup {None}]
      /\ s.displays \in SUBSET Display
  BY FieldTypes, StateFields DEF Good, Consistent
<1>2. \A m \in Workspace : forget[m] # None => s.remembered[m] # None
  BY <1>1
<1>3. LoadDisplayed(s, n) \in {s, t, u}
  BY DEF LoadDisplayed
<1>4. s.remembered[n] # None
  BY <1>1, NoneAssumption
<1>. HIDE DEF forget
<1>5. /\ Fields(t) /\ t.switch = s.switch /\ t.displays = s.displays
      /\ t.remembered = forget /\ t.pool = s.pool
  BY <1>1 DEF Fields
<1>6. /\ Fields(u) /\ u.switch = s.switch /\ u.displays = s.displays
      /\ u.remembered = forget /\ u.pool.origin = s.pool.origin
      /\ u.pool.displayed = shown /\ u.pool.member = s.pool.member
  <2>. HIDE DEF d
  <2> QED
    BY <1>1 DEF Fields, Show
<1>. HIDE DEF t, u
<1>7. Tidies(s, s) /\ Tidies(s, t)
  BY <1>1, <1>2, <1>5, SameTidies, PoolTidies DEF Placed, Connected, Untold
<1>8. Tidies(s, u)
  <2>1. Names(u.pool) = Names(s.pool)
    BY <1>6 DEF Names
  <2>2. Placed(s) => /\ DisplayedExists(u.pool) /\ MembersExist(u.pool)
                     /\ \A m \in Workspace : u.remembered[m] # None => m \in Names(u.pool)
    BY <1>2, <1>4, <1>6, <2>1 DEF Placed, DisplayedExists, MembersExist
  <2>3. Connected(s) => \A e \in Display : u.pool.displayed[e] # None => e \in u.displays
    BY <1>6 DEF Connected
  <2>4. Untold(s) => Untold(u)
    BY <1>2, <1>6 DEF Untold
  <2> QED
    BY <1>1, <1>6, <2>1, <2>2, <2>3, <2>4, PoolTidies
<1> QED
  BY <1>3, <1>7, <1>8

LEMMA StockedKeeps ==
    ASSUME NEW s, Good(s), NEW stored \in SUBSET Workspace,
           NEW where \in [Workspace -> Display \cup {None}]
    PROVE  LET t == Stocked(s, stored, where) IN
           /\ t.displays = s.displays
           /\ Placed(s) => Placed(t)
           /\ Connected(s) => Connected(t)
           /\ (\A n \in Workspace : where[n] = None) => Tidies(s, t)
<1> DEFINE origin == [n \in Workspace |-> IF n \in stored \ Names(s.pool) THEN "Command"
                                          ELSE s.pool.origin[n]]
           remembered == [n \in Workspace |-> IF n \in stored /\ where[n] # None THEN where[n]
                                              ELSE s.remembered[n]]
           t == [s EXCEPT !.pool.origin = origin, !.remembered = remembered]
<1>1. s \in EngineState /\ Fields(s)
  BY StateFields DEF Good, Consistent
<1>2. Stocked(s, stored, where) = t
  BY <1>1 DEF Stocked, Fields
<1>3. \A n \in Workspace : /\ n \in Names(s.pool) \/ n \in stored => origin[n] # "Absent"
                           /\ remembered[n] # None => n \in stored \/ s.remembered[n] # None
                           /\ where[n] = None => remembered[n] = s.remembered[n]
  BY DEF Names
<1>. HIDE DEF origin, remembered
<1>4. /\ Fields(t) /\ t.switch = s.switch /\ t.displays = s.displays
      /\ t.remembered = remembered /\ t.pool.origin = origin
      /\ t.pool.displayed = s.pool.displayed /\ t.pool.member = s.pool.member
  BY <1>1 DEF Fields
<1>. HIDE DEF t
<1>5. Names(s.pool) \subseteq Names(t.pool) /\ stored \subseteq Names(t.pool)
  BY <1>3, <1>4 DEF Names
<1>6. Placed(s) => Placed(t)
  BY <1>3, <1>4, <1>5 DEF Placed, DisplayedExists, MembersExist, SwitchOpen
<1>7. Connected(s) => Connected(t)
  BY <1>4 DEF Connected, SwitchOpen
<1>8. (\A n \in Workspace : where[n] = None) /\ Untold(s) => Untold(t)
  BY <1>3, <1>4 DEF Untold
<1> QED
  BY <1>2, <1>4, <1>6, <1>7, <1>8 DEF Tidies, Preserves

LEMMA ReturnedTidies ==
    ASSUME NEW t, Good(t), NEW u \in Returned(t)
    PROVE  Tidies(t, u) /\ Good(u)
<1> DEFINE back == {n \in Workspace : t.remembered[n] \in t.displays}
           orders == {p \in back \X back : {p[1], p[2]} = back}
<1>1. Good(u) /\ Tidies(t, t) /\ t.displays \in SUBSET Display
  BY ReturnedGood, SameTidies, StateFields, FieldTypes DEF Good, Consistent
<1>2. CASE back = {}
  BY <1>1, <1>2 DEF Returned
<1>3. CASE back # {}
  <2>1. PICK p \in orders : u = IF p[1] = p[2] THEN LoadDisplayed(t, p[1])
                                ELSE LoadDisplayed(LoadDisplayed(t, p[1]), p[2])
    BY <1>3 DEF Returned
  <2>2. /\ p[1] \in Workspace /\ p[2] \in Workspace
        /\ t.remembered[p[1]] \in t.displays /\ t.remembered[p[2]] \in t.displays
    BY <2>1
  <2> DEFINE first == LoadDisplayed(t, p[1])
  <2>3. /\ Good(first) /\ Tidies(t, first)
        /\ p[1] # p[2] => first.remembered[p[2]] = t.remembered[p[2]]
    BY <1>1, <2>2, LoadDisplayedGood, LoadDisplayedTidies
  <2>. HIDE DEF first
  <2>4. p[1] # p[2] => Tidies(first, LoadDisplayed(first, p[2]))
    BY <2>2, <2>3, LoadDisplayedTidies DEF Tidies, Preserves
  <2>5. u = first \/ (p[1] # p[2] /\ u = LoadDisplayed(first, p[2]))
    BY <2>1 DEF first
  <2> QED
    BY <1>1, <2>3, <2>4, <2>5, TidiesTransitive
<1> QED
  BY <1>2, <1>3

(* WorkspacesLoaded: what is stored is remembered, and nothing else.       *)
LEMMA LoadKeeps ==
    ASSUME NEW s, Good(s), NEW stored \in SUBSET Workspace,
           NEW where \in [Workspace -> Display \cup {None}],
           NEW v \in LoadWorkspaces(s, stored, where)
    PROVE  /\ v.displays = s.displays
           /\ Placed(s) => Placed(v)
           /\ Connected(s) => Connected(v)
           /\ (\A n \in Workspace : where[n] = None) => Tidies(s, v)
<1> DEFINE t == Stocked(s, stored, where)
<1>1. PICK u \in UNION {FillEmptyDisplays(l) : l \in Returned(t)} :
        v = ReconcileHiddenWorkspaceWindows(AssignUnassignedWindows(ApplySwitchingMapping(u)))
  BY LoadParts
<1>2. /\ Good(t) /\ t.displays = s.displays
      /\ Placed(s) => Placed(t)
      /\ Connected(s) => Connected(t)
      /\ (\A n \in Workspace : where[n] = None) => Tidies(s, t)
  BY StockedGood, StockedKeeps
<1>. HIDE DEF t
<1>3. PICK l \in Returned(t) : u \in FillEmptyDisplays(l)
  BY <1>1
<1>4. Good(l) /\ Tidies(t, l)
  BY <1>2, <1>3, ReturnedTidies
<1>5. Good(u) /\ Tidies(l, u)
  BY <1>3, <1>4, FillGood, FillTidies DEF Tidies, Preserves
<1> DEFINE mapped == ApplySwitchingMapping(u)
<1>6. Good(mapped) /\ Tidies(u, mapped)
  BY <1>5, MappingGood, MappingTidies DEF Tidies, Preserves
<1>. HIDE DEF mapped
<1> DEFINE assigned == AssignUnassignedWindows(mapped)
<1>7. Tidies(mapped, assigned)
  BY <1>6, AssignTidies
<1>. HIDE DEF assigned
<1>8. Tidies(assigned, ReconcileHiddenWorkspaceWindows(assigned))
  BY <1>7, ReconcileTidies DEF Tidies, Preserves
<1>9. Tidies(t, v)
  <2>1. Tidies(t, assigned)
    BY <1>4, <1>5, <1>6, <1>7, TidiesTransitive
  <2> QED
    BY <1>1, <1>8, <2>1, TidiesTransitive DEF assigned, mapped
<1> QED
  BY <1>2, <1>9, TidiesTransitive DEF Tidies, Preserves

(* A new reducer.                                                          *)
LEMMA BootTidy ==
    ASSUME NEW c, NEW displays, NEW t \in BootStates(c, displays)
    PROVE  /\ Placed(t) /\ Connected(t) /\ Untold(t) /\ ~SwitchOpen(t)
           /\ t.displays = displays /\ Fields(t)
<1> DEFINE s == BlankState(c, displays)
           synced == SyncWorkspacesFromConfig(s)
<1>1. /\ Fields(s) /\ Placed(s) /\ Connected(s) /\ Untold(s)
      /\ ~SwitchOpen(s) /\ s.displays = displays
  BY DEF BlankState, Fields, Placed, Connected, Untold, NoSwitch, Phase, SwitchOpen,
         DisplayedExists, MembersExist
<1>. HIDE DEF s
<1>2. Tidies(s, synced)
  BY <1>1, SyncTidies
<1>3. PICK f \in FillEmptyDisplays(synced) : t = ApplySwitchingMapping(f)
  BY DEF BootStates, s
<1>. HIDE DEF synced
<1>4. Tidies(synced, f)
  BY <1>2, <1>3, FillTidies DEF Tidies, Preserves
<1>5. Tidies(f, t)
  BY <1>3, <1>4, MappingTidies DEF Tidies, Preserves
<1>6. Tidies(s, t)
  BY <1>2, <1>4, <1>5, TidiesTransitive
<1> QED
  BY <1>1, <1>6 DEF Tidies, Preserves, SwitchOpen

-----------------------------------------------------------------------------
(* The arms of `apply`.  Only three of them can spoil either: a deletion   *)
(* may take away what a switch is about to show, and displays that come    *)
(* and go may take away where.                                             *)

(* A switch opens on a workspace that exists and a display that is there.  *)
LEMMA FocusPreserves ==
    ASSUME Good(engine), NEW n \in Workspace, NEW d \in Display, WorkspaceFocusRequested(n, d)
    PROVE  Preserves(engine, engine')
<1> DEFINE shown == [e \in Display |-> IF e = d THEN n
                                       ELSE IF engine.pool.displayed[e] = n THEN None
                                       ELSE engine.pool.displayed[e]]
           t == [engine EXCEPT !.pool = Show(@, n, d)]
           id == engine.lastSwitch + 1
           park == ToPark(engine, d)
           u == RequestRecoveryEntries(engine, park, id)
           v == [u EXCEPT
                   !.lastSwitch = id,
                   !.switch = [NoSwitch EXCEPT
                                 !.id = id, !.phase = "Recording", !.display = d,
                                 !.target = n, !.outgoing = engine.pool.displayed[d],
                                 !.queued = ToRestore(engine, n),
                                 !.recording = {<<u.lastBatch, w>> : w \in park}]]
<1>1. /\ engine \in EngineState /\ Fields(engine)
      /\ n \in Names(engine.pool) /\ d \in engine.displays
  BY StateFields DEF Good, Consistent, WorkspaceFocusRequested, CanSwitch
<1>2. engine' = t \/ engine' = AdvanceSwitch(v)
  BY DEF WorkspaceFocusRequested, BeginWorkspaceSwitch
<1>3. Preserves(engine, t)
  <2>1. /\ Fields(t) /\ t.switch = engine.switch /\ t.displays = engine.displays
        /\ t.remembered = engine.remembered /\ t.pool.origin = engine.pool.origin
        /\ t.pool.displayed = shown /\ t.pool.member = engine.pool.member
    BY <1>1 DEF Fields, Show
  <2>. HIDE DEF t
  <2>2. Names(t.pool) = Names(engine.pool)
    BY <2>1 DEF Names
  <2> QED
    BY <1>1, <2>1, <2>2, PoolTidies
       DEF Placed, Connected, DisplayedExists, MembersExist, Untold, Tidies
<1>4. Preserves(engine, v)
  <2>1. Tidies(engine, u)
    BY <1>1, RequestTidies
  <2>. HIDE DEF u, park
  <2>2. /\ Fields(v) /\ v.pool = u.pool /\ v.remembered = u.remembered /\ v.displays = u.displays
        /\ v.switch.target = n /\ v.switch.display = d
    BY <2>1 DEF Fields, Tidies, Preserves, NoSwitch, Phase, ForwardPhase
  <2>3. u.pool = engine.pool /\ u.displays = engine.displays
    BY <1>1 DEF u, RequestRecoveryEntries, Fields
  <2>. HIDE DEF v
  <2>4. Placed(u) => Placed(v)
    BY <1>1, <2>2, <2>3 DEF Placed
  <2>5. Connected(u) => Connected(v)
    BY <1>1, <2>2, <2>3 DEF Connected
  <2>6. Untold(u) => Untold(v)
    BY <2>2 DEF Untold
  <2> QED
    BY <2>1, <2>2, <2>4, <2>5, <2>6 DEF Tidies, Preserves
<1>. HIDE DEF t, v
<1>5. Preserves(v, AdvanceSwitch(v))
  BY <1>4, AdvancePreserves DEF Preserves
<1> QED
  BY <1>2, <1>3, <1>4, <1>5, PreservesTransitive

(* Two displays trade what they show.                                      *)
LEMMA MovePreserves ==
    ASSUME Good(engine), NEW n \in Workspace, NEW d \in Display, WorkspaceMoveRequested(n, d)
    PROVE  Preserves(engine, engine')
<1>1. PICK from \in Display : /\ engine.pool.displayed[from] = n
                              /\ engine' = [engine EXCEPT !.pool = SwapDisplays(@, from, d)]
  BY DEF WorkspaceMoveRequested
<1> DEFINE shown == [e \in Display |-> IF e = d THEN engine.pool.displayed[from]
                                       ELSE IF e = from THEN engine.pool.displayed[d]
                                       ELSE engine.pool.displayed[e]]
           t == [engine EXCEPT !.pool = SwapDisplays(@, from, d)]
<1>2. engine \in EngineState /\ Fields(engine) /\ d \in engine.displays /\ n # None
  BY StateFields, NoneAssumption DEF Good, Consistent, WorkspaceMoveRequested
<1>3. /\ Fields(t) /\ t.switch = engine.switch /\ t.displays = engine.displays
      /\ t.remembered = engine.remembered /\ t.pool.origin = engine.pool.origin
      /\ t.pool.displayed = shown /\ t.pool.member = engine.pool.member
  BY <1>2 DEF Fields, SwapDisplays
<1>. HIDE DEF t
<1>4. Names(t.pool) = Names(engine.pool)
  BY <1>3 DEF Names
<1>5. Tidies(engine, t)
  BY <1>1, <1>2, <1>3, <1>4, PoolTidies
     DEF Placed, Connected, DisplayedExists, MembersExist, Untold
<1> QED
  BY <1>1, <1>5 DEF Tidies, t

LEMMA CreatePreserves ==
    ASSUME Good(engine), NEW n \in Workspace, WorkspaceCreateRequested(n)
    PROVE  Preserves(engine, engine')
<1> DEFINE origin == [engine.pool.origin EXCEPT ![n] = "Command"]
           t == [engine EXCEPT !.pool = Create(@, n, "Command")]
<1>1. engine \in EngineState /\ Fields(engine) /\ engine.pool \in Pool
  BY StateFields, FieldTypes DEF Good, Consistent
<1>2. /\ Fields(t) /\ t.switch = engine.switch /\ t.displays = engine.displays
      /\ t.remembered = engine.remembered /\ t.pool.origin = origin
      /\ t.pool.displayed = engine.pool.displayed /\ t.pool.member = engine.pool.member
  BY <1>1 DEF Fields, Create, WorkspaceCreateRequested
<1>. HIDE DEF t
<1>3. Names(engine.pool) \subseteq Names(t.pool)
  BY <1>1, <1>2 DEF Names, Pool
<1>4. Tidies(engine, t)
  BY <1>1, <1>2, <1>3, PoolTidies
     DEF Placed, Connected, DisplayedExists, MembersExist, Untold
<1> QED
  BY <1>4 DEF Tidies, WorkspaceCreateRequested, t

(* check_delete looks at displays and members, not at an open switch.      *)
LEMMA DeleteParts ==
    ASSUME Good(engine), NEW n \in Workspace, WorkspaceDeleteRequested(n)
    PROVE  /\ engine'.displays = engine.displays
           /\ Connected(engine) => Connected(engine')
           /\ Untold(engine) => Untold(engine')
           /\ Placed(engine) /\ (SwitchOpen(engine) /\ SwitchOpen(engine') =>
                                   engine.switch.target \in Names(engine'.pool)) =>
                Placed(engine')
<1> DEFINE origin == [engine.pool.origin EXCEPT ![n] = "Absent"]
           remembered == [engine.remembered EXCEPT ![n] = None]
           t == engine'
<1>1. /\ engine \in EngineState /\ Fields(engine) /\ engine.pool \in Pool
      /\ engine.remembered \in [Workspace -> Display \cup {None}]
  BY StateFields, FieldTypes DEF Good, Consistent
<1>2. engine' = [engine EXCEPT !.pool = Delete(@, n), !.remembered = remembered]
  BY <1>1 DEF WorkspaceDeleteRequested, Fields
<1>. HIDE DEF remembered
<1>3. /\ Fields(t) /\ t.switch = engine.switch /\ t.displays = engine.displays
      /\ t.remembered = remembered /\ t.pool.origin = origin
      /\ t.pool.displayed = engine.pool.displayed /\ t.pool.member = engine.pool.member
  BY <1>1, <1>2 DEF Fields, Delete
<1>4. Names(t.pool) = Names(engine.pool) \ {n}
  BY <1>1, <1>3 DEF Names, Pool
<1>5. /\ \A d \in Display : engine.pool.displayed[d] # n
      /\ \A w \in Window : engine.pool.member[w] # n
  BY DEF WorkspaceDeleteRequested, CanDelete, IsDisplayed, MembersOf
<1>6. \A m \in Workspace : remembered[m] # None => m # n /\ engine.remembered[m] # None
  BY <1>1 DEF remembered
<1>. HIDE DEF t
<1>7. Connected(engine) => Connected(t)
  BY <1>3 DEF Connected, SwitchOpen
<1>8. ASSUME SwitchOpen(engine) /\ SwitchOpen(t) => engine.switch.target \in Names(t.pool),
             Placed(engine)
      PROVE  Placed(t)
  BY <1>3, <1>4, <1>5, <1>6, <1>8
     DEF Placed, DisplayedExists, MembersExist, SwitchOpen
<1>9. Untold(engine) => Untold(t)
  BY <1>3, <1>6 DEF Untold
<1> QED
  BY <1>3, <1>7, <1>8, <1>9 DEF t

(* Requests and reports that leave pool, displays and transaction alone.   *)
LEMMA AsideTidies ==
    ASSUME Good(engine),
           \/ \E w \in Window : ParkingAuthorizationRequested(w)
           \/ RestoreParkedWindowsRequested \/ WorkspaceSwitchRestoreRequested
           \/ PauseRequested \/ ResumeRequested
           \/ \E c \in Capability : ParkingCapabilityReported(c)
           \/ \E h \in Health : PersistenceHealthChanged(h)
           \/ \E effects, intents :
                engine' = [engine EXCEPT !.effects = effects, !.intents = intents]
    PROVE  Tidies(engine, engine')
<1> DEFINE Aside(t) == /\ Fields(t) /\ t.pool = engine.pool /\ t.remembered = engine.remembered
                       /\ t.displays = engine.displays /\ t.switch = engine.switch
<1>1. Fields(engine)
  BY StateFields DEF Good, Consistent
<1>2. \A t : Aside(t) => Tidies(engine, t)
  BY <1>1, SameTidies
<1>3. CASE \E w \in Window : ParkingAuthorizationRequested(w)
  BY <1>1, <1>3, RequestTidies DEF ParkingAuthorizationRequested
<1>4. CASE WorkspaceSwitchRestoreRequested
  <2> DEFINE owing == {w \in engine.degraded : OwesMove(engine, w)}
             back  == owing \cap Parked(engine)
             away  == {w \in owing \ back : Parkable(engine, w)}
             asked == RequestRecoveryEntries(engine, away, 0)
             sent == [asked EXCEPT !.effects = Push(@, RestoreMoves(engine, back))]
             clear == [engine EXCEPT !.degraded = {}]
  <2>1. engine' \in {clear, sent}
    BY <1>4 DEF WorkspaceSwitchRestoreRequested
  <2>2. Tidies(engine, asked)
    BY <1>1, RequestTidies
  <2>. HIDE DEF asked, back
  <2>3. Tidies(asked, sent)
    <3>1. /\ Fields(sent) /\ sent.pool = asked.pool /\ sent.remembered = asked.remembered
          /\ sent.displays = asked.displays /\ sent.switch = asked.switch
      BY <2>2 DEF Tidies, Preserves, Fields
    <3>. HIDE DEF sent
    <3> QED
      BY <3>1, SameTidies
  <2>4. Aside(clear)
    BY <1>1 DEF Fields
  <2>5. Tidies(engine, clear)
    BY <1>2, <2>4
  <2>. HIDE DEF sent, clear
  <2>6. Tidies(engine, sent)
    BY <2>2, <2>3, TidiesTransitive
  <2> QED
    BY <2>1, <2>5, <2>6
<1>5. CASE \/ RestoreParkedWindowsRequested \/ PauseRequested \/ ResumeRequested
           \/ \E c \in Capability : ParkingCapabilityReported(c)
           \/ \E h \in Health : PersistenceHealthChanged(h)
           \/ \E effects, intents :
                engine' = [engine EXCEPT !.effects = effects, !.intents = intents]
  <2>1. Aside(engine')
    BY <1>1, <1>5 DEF RestoreParkedWindowsRequested, PauseRequested, ResumeRequested,
                      ParkingCapabilityReported, PersistenceHealthChanged, Fields
  <2> QED
    BY <1>2, <2>1
<1> QED
  BY <1>3, <1>4, <1>5

(* ConfigChanged                                                           *)
LEMMA ConfigPreserves ==
    ASSUME Good(engine), NEW c \in Configs, ConfigChanged(c)
    PROVE  Preserves(engine, engine')
<1> DEFINE t == [engine EXCEPT !.config = c]
<1>1. engine \in EngineState /\ Fields(engine) /\ DisplayedOnce(engine.pool)
  BY StateFields DEF Good, Consistent
<1>2. /\ t \in EngineState /\ t.switch = engine.switch /\ t.pending = engine.pending
      /\ t.pool = engine.pool /\ t.displays = engine.displays
      /\ t.remembered = engine.remembered
  BY <1>1 DEF EngineState
<1>3. engine' \in Resettle(t)
  BY DEF ConfigChanged
<1>. HIDE DEF t
<1>4. Good(t) /\ Tidies(engine, t)
  BY <1>1, <1>2, FrameGood, SameTidies, StateFields
<1>5. Tidies(t, engine')
  BY <1>3, <1>4, ResettleTidies
<1> QED
  BY <1>4, <1>5, TidiesTransitive DEF Tidies

(* DisplayTopologyChanged                                                  *)
LEMMA TopologyParts ==
    ASSUME Good(engine), NEW new \in SUBSET Display, NEW nearest \in Display,
           DisplayTopologyChanged(new, nearest)
    PROVE  /\ engine'.switch = engine.switch /\ engine'.displays = new
           /\ Placed(engine) => Placed(engine')
           /\ Untold(engine) => Untold(engine')
           /\ (SwitchOpen(engine) => engine.switch.display \in new) => Connected(engine')
<1> DEFINE t == LeaveVanishedDisplays(engine, new, nearest)
<1>1. Fields(engine)
  BY StateFields DEF Good, Consistent
<1>2. Good(t)
  BY LeaveGood DEF DisplayTopologyChanged
<1>3. /\ t.switch = engine.switch /\ t.displays = new
      /\ Placed(engine) => Placed(t)
      /\ Untold(engine) => Untold(t)
      /\ (SwitchOpen(engine) => engine.switch.display \in new) => Connected(t)
  BY <1>1, LeaveParts
<1>. HIDE DEF t
<1>4. Tidies(t, engine')
  BY <1>2, ResettleTidies DEF DisplayTopologyChanged, t
<1> QED
  BY <1>3, <1>4 DEF Tidies, Preserves

(* WakeReconciliation                                                      *)
LEMMA WakeParts ==
    ASSUME Good(engine), NEW new \in SUBSET Display, NEW nearest \in Display,
           NEW enumerated \in BOOLEAN,
           NEW life \in [Window -> Lifecycle], NEW seat \in [Window -> Display],
           WakeReconciliation(new, nearest, enumerated, life, seat)
    PROVE  /\ engine'.switch = engine.switch /\ engine'.displays = new
           /\ Placed(engine) => Placed(engine')
           /\ Untold(engine) => Untold(engine')
           /\ Connected(engine) /\ (SwitchOpen(engine) => engine.switch.display \in new) =>
                Connected(engine')
<1> DEFINE left == LeaveVanishedDisplays(engine, new, nearest)
           synced == SyncWorkspacesFromConfig(left)
           filled == FillEmptyDisplays(synced)
           Kept(t) == /\ Good(t) /\ t.switch = engine.switch /\ t.displays = new
                      /\ Placed(engine) => Placed(t)
                      /\ Untold(engine) => Untold(t)
                      /\ Connected(engine) /\ (SwitchOpen(engine) => engine.switch.display \in new) =>
                            Connected(t)
<1>1. Fields(engine)
  BY StateFields DEF Good, Consistent
<1>2. Kept(left)
  BY <1>1, LeaveGood, LeaveParts DEF WakeReconciliation
<1>3. PICK t \in IF new = engine.displays THEN {engine} ELSE {ApplySwitchingMapping(u) : u \in filled} :
        engine' = IF enumerated THEN ReplaceInventory(t, life, seat) ELSE t
  BY DEF WakeReconciliation
<1>4. Kept(t)
  <2>1. CASE new = engine.displays
    BY <1>3, <2>1
  <2>2. CASE new # engine.displays
    <3>1. PICK u \in filled : t = ApplySwitchingMapping(u)
      BY <1>3, <2>2
    <3>. HIDE DEF left
    <3>2. Good(synced) /\ Tidies(left, synced)
      BY <1>2, SyncGood, SyncTidies, StateFields DEF Good, Consistent
    <3>. HIDE DEF synced
    <3>3. Good(u) /\ Tidies(synced, u)
      BY <3>2, FillGood, FillTidies DEF Tidies, Preserves
    <3>4. Good(t) /\ Tidies(u, t)
      BY <3>1, <3>3, MappingGood, MappingTidies DEF Tidies, Preserves
    <3> QED
      BY <1>2, <3>2, <3>3, <3>4 DEF Tidies, Preserves
  <2> QED
    BY <2>1, <2>2
<1>5. Tidies(t, ReplaceInventory(t, life, seat))
  BY <1>4, InventoryTidies
<1> QED
  BY <1>3, <1>4, <1>5 DEF Tidies, Preserves

(* The answers of the adapter: all they do to pool and transaction is to   *)
(* settle a window of the switch.                                          *)
LEMMA DegradedTidies ==
    ASSUME NEW s, Fields(s), NEW w
    PROVE  Tidies(s, SettleStrandedWindow(s, w)) /\ Tidies(s, StrandWindow(s, w))
<1>1. ASSUME NEW degraded
      PROVE  Tidies(s, [s EXCEPT !.degraded = degraded])
  <2> DEFINE t == [s EXCEPT !.degraded = degraded]
  <2>1. /\ Fields(t) /\ t.pool = s.pool /\ t.remembered = s.remembered
        /\ t.displays = s.displays /\ t.switch = s.switch
    BY DEF Fields
  <2>. HIDE DEF t
  <2> QED
    BY <2>1, SameTidies DEF t
<1>2. Tidies(s, s)
  BY SameTidies
<1> QED
  BY <1>1, <1>2 DEF SettleStrandedWindow, StrandWindow

LEMMA AnswerPreserves ==
    ASSUME Good(engine), NEW w \in Window, NEW entry \in Nat,
           \/ WindowParked(w, entry) \/ WindowParkFailed(w)
           \/ WindowRestored(w) \/ WindowRestoreFailed(w)
    PROVE  Preserves(engine, engine')
<1>1. Fields(engine)
  BY StateFields DEF Good, Consistent
<1>2. \A t : Fields(t) /\ t.pool = engine.pool /\ t.remembered = engine.remembered
             /\ t.displays = engine.displays /\ t.switch = engine.switch =>
               Preserves(engine, SwitchWindowSettled(SettleStrandedWindow(t, w), w, TRUE))
  <2> SUFFICES ASSUME NEW t, Fields(t), t.pool = engine.pool, t.remembered = engine.remembered,
                      t.displays = engine.displays, t.switch = engine.switch
               PROVE  Preserves(engine, SwitchWindowSettled(SettleStrandedWindow(t, w), w, TRUE))
    OBVIOUS
  <2> DEFINE u == SettleStrandedWindow(t, w)
  <2>1. Tidies(engine, t) /\ Tidies(t, u)
    BY SameTidies, DegradedTidies
  <2>. HIDE DEF u
  <2>2. Preserves(u, SwitchWindowSettled(u, w, TRUE))
    BY <2>1, SettledPreserves DEF Tidies, Preserves
  <2> QED
    BY <2>1, <2>2, PreservesTransitive DEF Tidies, u
<1>3. CASE WindowParked(w, entry)
  <2> DEFINE intents == Append(engine.intents, {[kind |-> "MarkParked", window |-> w, number |-> entry]})
             t == [engine EXCEPT !.parked[w] = entry, !.intents = intents]
  <2>1. engine' = SwitchWindowSettled(SettleStrandedWindow(t, w), w, TRUE)
    BY <1>3 DEF WindowParked
  <2>2. /\ Fields(t) /\ t.pool = engine.pool /\ t.remembered = engine.remembered
        /\ t.displays = engine.displays /\ t.switch = engine.switch
    BY <1>1 DEF Fields
  <2>. HIDE DEF t
  <2> QED
    BY <1>2, <2>1, <2>2
<1>4. CASE WindowRestored(w)
  <2> DEFINE marks == {[kind |-> "MarkRestored", window |-> v, number |-> engine.parked[v]]
                         : v \in {w} \cap Parked(engine)}
             intents == Push(engine.intents, marks)
             t == [engine EXCEPT !.parked[w] = 0, !.intents = intents]
  <2>1. engine' = SwitchWindowSettled(SettleStrandedWindow(t, w), w, TRUE)
    BY <1>4 DEF WindowRestored
  <2>. HIDE DEF intents
  <2>2. /\ Fields(t) /\ t.pool = engine.pool /\ t.remembered = engine.remembered
        /\ t.displays = engine.displays /\ t.switch = engine.switch
    BY <1>1 DEF Fields
  <2>. HIDE DEF t
  <2> QED
    BY <1>2, <2>1, <2>2
<1>5. CASE WindowParkFailed(w) \/ WindowRestoreFailed(w)
  <2> DEFINE t == SwitchWindowSettled(engine, w, FALSE)
  <2>1. Preserves(engine, t)
    BY <1>1, SettledPreserves
  <2>2. engine' \in {t, StrandWindow(t, w)}
    BY <1>5 DEF WindowParkFailed, WindowRestoreFailed
  <2>. HIDE DEF t
  <2>3. Preserves(t, StrandWindow(t, w))
    BY <2>1, DegradedTidies DEF Preserves, Tidies
  <2> QED
    BY <2>1, <2>2, <2>3, PreservesTransitive
<1> QED
  BY <1>3, <1>4, <1>5

(* The answers of the ledger.                                              *)
LEMMA DurablePreserves ==
    ASSUME Good(engine), NEW b \in Nat, NEW w \in Window, NEW entry \in Nat,
           RecoveryEntryDurable(b, w, entry)
    PROVE  Preserves(engine, engine')
<1>1. PICK r \in engine.pending :
        LET ours  == SwitchOpen(engine) /\ r.switch = engine.switch.id
            parks == IF w \in Managed(engine) THEN {w} ELSE {}
            rest  == engine.switch.recording \ {<<b, w>>}
            sw    == [engine.switch EXCEPT
                        !.recording = rest,
                        !.phase = IF @ = "Recording" /\ rest = {} THEN "Parking" ELSE @,
                        !.inFlight = @ \cup parks]
        IN  engine' = AdvanceSwitch(
                 [engine EXCEPT
                    !.pending = @ \ {r},
                    !.switch  = IF ours THEN sw ELSE @,
                    !.effects = Push(@, {[kind |-> "Park", window |-> v,
                                          entry |-> entry] : v \in parks})])
  BY DEF RecoveryEntryDurable
<1> DEFINE ours  == SwitchOpen(engine) /\ r.switch = engine.switch.id
           parks == IF w \in Managed(engine) THEN {w} ELSE {}
           rest  == engine.switch.recording \ {<<b, w>>}
           phase == IF engine.switch.phase = "Recording" /\ rest = {} THEN "Parking"
                    ELSE engine.switch.phase
           sw    == [engine.switch EXCEPT !.recording = rest, !.phase = phase,
                                          !.inFlight = @ \cup parks]
           next == IF ours THEN sw ELSE engine.switch
           effects == Push(engine.effects, {[kind |-> "Park", window |-> v, entry |-> entry] : v \in parks})
           t == [engine EXCEPT !.pending = @ \ {r}, !.switch = next, !.effects = effects]
<1>2. engine \in EngineState /\ Fields(engine)
  BY StateFields DEF Good, Consistent
<1>3. engine' = AdvanceSwitch(t)
  BY <1>1, <1>2 DEF Fields
<1>4. /\ DOMAIN next = DOMAIN engine.switch
      /\ next.target = engine.switch.target /\ next.display = engine.switch.display
      /\ next.phase \in Phase
      /\ next.phase # "Idle" => SwitchOpen(engine)
  <2>1. phase \in Phase
    BY <1>2 DEF Fields, Phase, ForwardPhase
  <2>. HIDE DEF rest, parks, phase
  <2> QED
    BY <1>2, <2>1 DEF Fields, SwitchOpen
<1>. HIDE DEF next, effects
<1>5. /\ Fields(t) /\ t.pool = engine.pool /\ t.remembered = engine.remembered
      /\ t.displays = engine.displays /\ t.switch = next
  BY <1>2, <1>4 DEF Fields
<1>. HIDE DEF t
<1>6. Preserves(engine, t)
  BY <1>4, <1>5, OnwardPreserves DEF SwitchOpen
<1> QED
  BY <1>3, <1>5, <1>6, AdvancePreserves, PreservesTransitive

LEMMA RefusedPreserves ==
    ASSUME Good(engine), NEW b \in Nat, NEW w \in Window, RecoveryEntryRefused(b, w)
    PROVE  Preserves(engine, engine')
<1>1. PICK r \in engine.pending :
        LET t == [engine EXCEPT !.pending = @ \ {r}] IN
        engine' = IF SwitchOpen(engine) /\ r.switch = engine.switch.id
                  THEN BeginSwitchCompensation(
                            [t EXCEPT !.switch.recording = @ \ {<<b, w>>}])
                  ELSE t
  BY DEF RecoveryEntryRefused
<1> DEFINE t == [engine EXCEPT !.pending = @ \ {r}]
           u == [t EXCEPT !.switch.recording = @ \ {<<b, w>>}]
<1>2. engine \in EngineState /\ Fields(engine)
  BY StateFields DEF Good, Consistent
<1>3. engine' \in {t, BeginSwitchCompensation(u)}
  BY <1>1
<1>4. /\ Fields(t) /\ t.pool = engine.pool /\ t.remembered = engine.remembered
      /\ t.displays = engine.displays /\ t.switch = engine.switch
  BY <1>2 DEF Fields
<1>5. /\ Fields(u) /\ u.pool = engine.pool /\ u.remembered = engine.remembered
      /\ u.displays = engine.displays /\ u.switch.phase = engine.switch.phase
      /\ u.switch.target = engine.switch.target /\ u.switch.display = engine.switch.display
  BY <1>2 DEF Fields
<1>. HIDE DEF t, u
<1>6. Preserves(engine, t) /\ Preserves(engine, u)
  BY <1>4, <1>5, OnwardPreserves DEF SwitchOpen
<1>7. Preserves(u, BeginSwitchCompensation(u))
  BY <1>5, CompensationPreserves
<1> QED
  BY <1>3, <1>6, <1>7, PreservesTransitive
=============================================================================

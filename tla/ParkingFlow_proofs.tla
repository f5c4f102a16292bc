------------------------- MODULE ParkingFlow_proofs -------------------------
(***************************************************************************)
(* The way an entry of the recovery ledger takes through the queues, and   *)
(* what each step of the reducer, the executor, the bridge and the desktop *)
(* does to it: for every state of one window, its entries and the messages *)
(* about it.                                                               *)
(*                                                                         *)
(* Plans: the step at most asks for restores and for ledger entries.       *)
(* Path:  entries of a window follow each other in the order they were     *)
(*        recorded, and are not ticked off before their mark is written.   *)
(* Seen:  inventories report what has closed, and nothing is asked for a   *)
(*        window nobody has seen.                                          *)
(* Books: the last answer on its way, or the record, is the desktop.       *)
(* Busy:  what an open switch waits for is in a queue or in the channel.   *)
(***************************************************************************)
EXTENDS ParkingPipeline_proofs, FiniteSetTheorems

-----------------------------------------------------------------------------
(* What the reducer does to the queues.  Only four of its arms touch the   *)
(* record of what is parked, forget a window or ask for a park; whatever   *)
(* else a handler calls at most asks for restores and for ledger entries.  *)

(* r is q with batches of one kind appended. *)
Grows(q, r, kind) ==
    /\ Len(q) <= Len(r)
    /\ \A i \in 1..Len(q) : r[i] = q[i]
    /\ \A i \in 1..Len(r) : i > Len(q) => \A m \in r[i] : m.kind = kind

(* From s to t nothing is parked, restored, seen or closed. *)
Plans(s, t) ==
    /\ t.parked = s.parked /\ t.life = s.life
    /\ t.effects \in Seq(SUBSET Move) /\ t.intents \in Seq(SUBSET Intent)
    /\ Grows(s.effects, t.effects, "Restore")
    /\ Grows(s.intents, t.intents, "Record")

(* Plans composes, so a handler is followed call by call.                  *)
LEMMA GrowsTransitive ==
    ASSUME NEW S, NEW q \in Seq(S), NEW r \in Seq(S), NEW v \in Seq(S), NEW kind,
           Grows(q, r, kind), Grows(r, v, kind)
    PROVE  Grows(q, v, kind)
BY DEF Grows

LEMMA PlansTransitive ==
    ASSUME NEW s \in EngineState, NEW t, NEW u, Plans(s, t), Plans(t, u)
    PROVE  Plans(s, u)
<1>1. s.effects \in Seq(SUBSET Move) /\ s.intents \in Seq(SUBSET Intent)
  BY FieldTypes
<1>2. Grows(s.effects, u.effects, "Restore")
  BY <1>1, GrowsTransitive DEF Plans
<1>3. Grows(s.intents, u.intents, "Record")
  BY <1>1, GrowsTransitive DEF Plans
<1> QED
  BY <1>2, <1>3 DEF Plans

(* A queue that is left alone, or pushed a batch of the kind.              *)
LEMMA GrowsSame ==
    ASSUME NEW S, NEW q \in Seq(S), NEW kind
    PROVE  Grows(q, q, kind)
BY DEF Grows

LEMMA GrowsAppend ==
    ASSUME NEW S, NEW q \in Seq(S), NEW batch \in S, NEW kind,
           \A m \in batch : m.kind = kind
    PROVE  Grows(q, Append(q, batch), kind) /\ Grows(q, Push(q, batch), kind)
BY DEF Grows, Push

LEMMA PlansSame ==
    ASSUME NEW s \in EngineState, NEW t,
           t.parked = s.parked, t.life = s.life, t.effects = s.effects, t.intents = s.intents
    PROVE  Plans(s, t)
<1>1. s.effects \in Seq(SUBSET Move) /\ s.intents \in Seq(SUBSET Intent)
  BY FieldTypes
<1> QED
  BY <1>1, GrowsSame DEF Plans

(* commit_switch and finish_compensation.                                  *)
LEMMA ClosePlans ==
    ASSUME NEW s \in EngineState
    PROVE  Plans(s, CommitSwitch(s)) /\ Plans(s, FinishCompensation(s))
<1>1. Plans(s, CommitSwitch(s))
  <2> DEFINE t == CommitSwitch(s)
  <2>1. t.parked = s.parked /\ t.life = s.life /\ t.effects = s.effects /\ t.intents = s.intents
    BY DEF CommitSwitch, EngineState
  <2>. HIDE DEF t
  <2>2. Plans(s, t)
    BY <2>1, PlansSame
  <2> QED
    BY <2>2 DEF t
<1>2. Plans(s, FinishCompensation(s))
  <2> DEFINE t == FinishCompensation(s)
  <2>1. t.parked = s.parked /\ t.life = s.life /\ t.effects = s.effects /\ t.intents = s.intents
    BY DEF FinishCompensation, EngineState
  <2>. HIDE DEF t
  <2>2. Plans(s, t)
    BY <2>1, PlansSame
  <2> QED
    BY <2>2 DEF t
<1> QED
  BY <1>1, <1>2

(* emit_switch_restores asks for restores only.                            *)
LEMMA EmitPlans ==
    ASSUME NEW s \in EngineState
    PROVE  Plans(s, EmitSwitchRestores(s))
<1> DEFINE here == s.switch.inFlight \ Parked(s)
           away == s.switch.inFlight \cap Parked(s)
           forward == s.switch.phase = "Restoring"
           restored == IF forward THEN s.switch.restored \cup here ELSE s.switch.restored
           parked == IF forward THEN s.switch.parked ELSE s.switch.parked \ here
           moves == RestoreMoves(s, away)
           effects == Push(s.effects, moves)
           t == [s EXCEPT !.effects = effects,
                          !.switch.inFlight = away,
                          !.switch.restored = restored,
                          !.switch.parked   = parked]
<1>1. /\ s \in EngineState /\ s.switch \in Transaction
      /\ s.effects \in Seq(SUBSET Move) /\ s.intents \in Seq(SUBSET Intent)
  BY FieldTypes
<1>2. /\ away \in SUBSET Window /\ here \in SUBSET Window
      /\ restored \in SUBSET Window /\ parked \in SUBSET Window
  BY <1>1 DEF Transaction
<1>3. moves \in SUBSET Move /\ \A m \in moves : m.kind = "Restore"
  BY <1>1, <1>2, RestoreMovesType DEF RestoreMoves
<1>4. effects \in Seq(SUBSET Move) /\ Grows(s.effects, effects, "Restore")
  <2>. HIDE DEF moves
  <2> QED
    BY <1>1, <1>3, PushType, GrowsAppend
<1>5. t \in EngineState /\ Plans(s, t)
  <2>. HIDE DEF effects, restored, parked, away, here
  <2>1. t \in EngineState
    BY <1>1, <1>2, <1>4 DEF EngineState, Transaction
  <2>2. t.parked = s.parked /\ t.life = s.life /\ t.effects = effects /\ t.intents = s.intents
    BY <1>1 DEF EngineState
  <2>. HIDE DEF t
  <2> QED
    BY <1>1, <1>4, <2>1, <2>2, GrowsSame DEF Plans
<1>6. EmitSwitchRestores(s) = IF away # {} THEN t ELSE IF forward THEN CommitSwitch(t) ELSE FinishCompensation(t)
  BY DEF EmitSwitchRestores
<1>. HIDE DEF t, away, forward
<1>7. Plans(t, CommitSwitch(t)) /\ Plans(t, FinishCompensation(t))
  BY <1>5, ClosePlans
<1> QED
  BY <1>1, <1>5, <1>6, <1>7, PlansTransitive

(* advance_switch                                                          *)
LEMMA AdvancePlans ==
    ASSUME NEW s \in EngineState
    PROVE  Plans(s, AdvanceSwitch(s))
<1> DEFINE forth == [s EXCEPT !.switch.phase = "Restoring", !.switch.queued = {},
                              !.switch.inFlight = s.switch.queued]
           back == [s EXCEPT !.switch.phase = "CompensatingRestore",
                             !.switch.inFlight = s.switch.parked]
<1>1. s.switch \in Transaction /\ s.switch.phase \in Phase
  BY FieldTypes DEF Transaction
<1>2. forth \in EngineState /\ Plans(s, forth)
  <2>1. "Restoring" \in Phase
    BY DEF Phase, ForwardPhase
  <2>2. forth \in EngineState
    BY <1>1, <2>1 DEF EngineState, Transaction
  <2>3. /\ forth.parked = s.parked /\ forth.life = s.life
        /\ forth.effects = s.effects /\ forth.intents = s.intents
    BY DEF EngineState
  <2>. HIDE DEF forth
  <2> QED
    BY <2>2, <2>3, PlansSame
<1>3. back \in EngineState /\ Plans(s, back)
  <2>1. "CompensatingRestore" \in Phase
    BY DEF Phase, CompensatingPhase
  <2>2. back \in EngineState
    BY <1>1, <2>1 DEF EngineState, Transaction
  <2>3. /\ back.parked = s.parked /\ back.life = s.life
        /\ back.effects = s.effects /\ back.intents = s.intents
    BY DEF EngineState
  <2>. HIDE DEF back
  <2> QED
    BY <2>2, <2>3, PlansSame
<1>4. AdvanceSwitch(s) \in {s, CommitSwitch(s), FinishCompensation(s),
                           EmitSwitchRestores(forth), EmitSwitchRestores(back)}
  <2>1. CASE ~SwitchOpen(s) \/ ~PhaseIsSettled(s)
    BY <2>1 DEF AdvanceSwitch
  <2>2. CASE SwitchOpen(s) /\ PhaseIsSettled(s)
    <3>1. CASE s.switch.phase \in {"Recording", "Parking"}
      BY <2>2, <3>1 DEF AdvanceSwitch
    <3>2. CASE s.switch.phase = "Restoring"
      BY <2>2, <3>2 DEF AdvanceSwitch
    <3>3. CASE s.switch.phase = "CompensatingPark"
      BY <2>2, <3>3 DEF AdvanceSwitch
    <3>4. CASE s.switch.phase = "CompensatingRestore"
      BY <2>2, <3>4 DEF AdvanceSwitch
    <3> QED
      BY <1>1, <2>2, <3>1, <3>2, <3>3, <3>4
         DEF SwitchOpen, Phase, ForwardPhase, CompensatingPhase
  <2> QED
    BY <2>1, <2>2
<1>. HIDE DEF forth, back
<1>5. Plans(s, s)
  BY PlansSame
<1>6. Plans(s, EmitSwitchRestores(forth)) /\ Plans(s, EmitSwitchRestores(back))
  BY <1>2, <1>3, EmitPlans, PlansTransitive
<1> QED
  BY <1>4, <1>5, <1>6, ClosePlans

(* request_recovery_entries asks for entries and for nothing else.         *)
LEMMA RequestPlans ==
    ASSUME NEW s \in EngineState, NEW W \in SUBSET Window, NEW id \in Nat
    PROVE  /\ RequestRecoveryEntries(s, W, id) \in EngineState
           /\ RequestRecoveryEntries(s, W, id).switch = s.switch
           /\ Plans(s, RequestRecoveryEntries(s, W, id))
<1> DEFINE batch == s.lastBatch + 1
           asked == {[batch |-> batch, window |-> w, switch |-> id] : w \in W}
           records == {[kind |-> "Record", window |-> w, number |-> batch] : w \in W}
           pending == s.pending \cup asked
           intents == Append(s.intents, records)
           t == [s EXCEPT !.lastBatch = batch, !.pending = pending, !.intents = intents]
<1>1. /\ s.lastBatch \in Nat /\ s.pending \in SUBSET Request
      /\ s.effects \in Seq(SUBSET Move) /\ s.intents \in Seq(SUBSET Intent)
  BY FieldTypes
<1>2. batch \in Nat /\ pending \in SUBSET Request
  BY <1>1 DEF Request
<1>3. records \in SUBSET Intent /\ \A m \in records : m.kind = "Record"
  BY <1>2 DEF Intent
<1>4. intents \in Seq(SUBSET Intent) /\ Grows(s.intents, intents, "Record")
  <2>. HIDE DEF records
  <2> QED
    BY <1>1, <1>3, GrowsAppend
<1>5. RequestRecoveryEntries(s, W, id) = IF W = {} THEN s ELSE t
  BY DEF RequestRecoveryEntries
<1>. HIDE DEF batch, pending, intents
<1>6. t \in EngineState
  BY <1>2, <1>4, AskType
<1>7. t.parked = s.parked /\ t.life = s.life /\ t.effects = s.effects /\ t.intents = intents
      /\ t.switch = s.switch
  BY DEF EngineState
<1>. HIDE DEF t
<1>8. Plans(s, t) /\ Plans(s, s)
  BY <1>1, <1>4, <1>7, GrowsSame, PlansSame DEF Plans
<1> QED
  BY <1>5, <1>6, <1>7, <1>8

(* request_switch_reparks                                                  *)
LEMMA ReparksPlan ==
    ASSUME NEW s \in EngineState, NEW W \in SUBSET Window
    PROVE  Plans(s, RequestSwitchReparks(s, W))
<1> DEFINE able == {w \in W : Parkable(s, w)}
           lost == W \ able
           t == RequestRecoveryEntries(s, able, s.switch.id)
           tokens == {<<t.lastBatch, w>> : w \in able}
           u == [t EXCEPT !.switch.recording = tokens,
                          !.switch.inFlight  = able,
                          !.switch.stranded  = @ \cup lost,
                          !.switch.restored  = @ \ lost,
                          !.switch.parked    = @ \ lost]
<1>1. s.switch \in Transaction /\ s.switch.id \in Nat
  BY FieldTypes DEF Transaction
<1>2. able \in SUBSET Window /\ lost \in SUBSET Window
  OBVIOUS
<1>. HIDE DEF able, lost
<1>3. t \in EngineState /\ t.switch = s.switch /\ Plans(s, t)
  BY <1>1, <1>2, RequestPlans
<1>. HIDE DEF t
<1>4. t.lastBatch \in Nat /\ tokens \in SUBSET Token
  BY <1>2, <1>3, FieldTypes DEF Token
<1>5. RequestSwitchReparks(s, W) = AdvanceSwitch(u)
  BY DEF RequestSwitchReparks, t, able, lost
<1>. HIDE DEF tokens
<1>6. u \in EngineState
  <2> DEFINE sw == [t.switch EXCEPT !.recording = tokens, !.inFlight = able,
                                    !.stranded = @ \cup lost, !.restored = @ \ lost,
                                    !.parked = @ \ lost]
  <2>1. sw \in Transaction
    BY <1>1, <1>2, <1>3, <1>4 DEF Transaction
  <2>2. u = [t EXCEPT !.switch = sw]
    BY <1>3 DEF EngineState, Transaction
  <2>. HIDE DEF sw
  <2> QED
    BY <1>3, <2>1, <2>2 DEF EngineState
<1>7. u.parked = t.parked /\ u.life = t.life /\ u.effects = t.effects /\ u.intents = t.intents
  BY <1>3 DEF EngineState
<1>. HIDE DEF u
<1>8. Plans(t, u) /\ Plans(u, AdvanceSwitch(u))
  BY <1>3, <1>6, <1>7, PlansSame, AdvancePlans
<1> QED
  BY <1>3, <1>5, <1>8, PlansTransitive

(* begin_switch_compensation                                               *)
LEMMA CompensationPlans ==
    ASSUME NEW s \in EngineState
    PROVE  Plans(s, BeginSwitchCompensation(s))
<1> DEFINE t == [s EXCEPT !.pending = {r \in @ : r.switch = 0},
                          !.switch.phase     = "CompensatingPark",
                          !.switch.queued    = {},
                          !.switch.recording = {},
                          !.switch.inFlight  = {}]
<1>1. /\ s.switch \in Transaction /\ s.pending \in SUBSET Request
      /\ s.switch.restored \in SUBSET Window
  BY FieldTypes DEF Transaction
<1>2. t \in EngineState
  <2>1. "CompensatingPark" \in Phase
    BY DEF Phase, CompensatingPhase
  <2> QED
    BY <2>1, <1>1 DEF EngineState, Transaction
<1>3. t.parked = s.parked /\ t.life = s.life /\ t.effects = s.effects /\ t.intents = s.intents
  BY DEF EngineState
<1>4. BeginSwitchCompensation(s) \in {s, RequestSwitchReparks(t, s.switch.restored)}
  BY DEF BeginSwitchCompensation
<1>. HIDE DEF t
<1>5. Plans(s, s) /\ Plans(s, t) /\ Plans(t, RequestSwitchReparks(t, s.switch.restored))
  BY <1>1, <1>2, <1>3, PlansSame, ReparksPlan
<1> QED
  BY <1>2, <1>4, <1>5, PlansTransitive

(* switch_window_settled                                                   *)
LEMMA SettledPlans ==
    ASSUME NEW s \in EngineState, NEW w \in Window, NEW ok \in BOOLEAN
    PROVE  Plans(s, SwitchWindowSettled(s, w, ok))
<1> DEFINE phase == s.switch.phase
           parked == IF phase \in {"Recording", "Parking"} THEN s.switch.parked \cup {w}
                     ELSE IF phase = "CompensatingRestore" THEN s.switch.parked \ {w}
                     ELSE s.switch.parked
           restored == IF phase = "Restoring" THEN s.switch.restored \cup {w}
                       ELSE IF phase = "CompensatingPark" THEN s.switch.restored \ {w}
                       ELSE s.switch.restored
           t == [s EXCEPT !.switch.inFlight = @ \ {w}]
           landed == [t EXCEPT !.switch.parked = parked, !.switch.restored = restored]
           lost == [t EXCEPT !.switch.stranded = @ \cup {w},
                             !.switch.restored = @ \ {w},
                             !.switch.parked   = @ \ {w}]
<1>1. s.switch \in Transaction
  BY FieldTypes
<1>2. parked \in SUBSET Window /\ restored \in SUBSET Window
  BY <1>1 DEF Transaction
<1>3. SwitchWindowSettled(s, w, ok) \in
        {s, AdvanceSwitch(landed), AdvanceSwitch(lost), BeginSwitchCompensation(t)}
  <2>1. /\ parked = IF phase \in {"Recording", "Parking"} THEN t.switch.parked \cup {w}
                    ELSE IF phase = "CompensatingRestore" THEN t.switch.parked \ {w}
                    ELSE t.switch.parked
        /\ restored = IF phase = "Restoring" THEN t.switch.restored \cup {w}
                      ELSE IF phase = "CompensatingPark" THEN t.switch.restored \ {w}
                      ELSE t.switch.restored
    BY <1>1 DEF EngineState, Transaction
  <2>2. landed = [t EXCEPT !.switch.parked =
                       IF phase \in {"Recording", "Parking"} THEN @ \cup {w}
                       ELSE IF phase = "CompensatingRestore" THEN @ \ {w} ELSE @,
                    !.switch.restored =
                       IF phase = "Restoring" THEN @ \cup {w}
                       ELSE IF phase = "CompensatingPark" THEN @ \ {w} ELSE @]
    BY <1>1 DEF EngineState, Transaction
  <2>. HIDE DEF parked, restored, landed
  <2>3. CASE w \notin s.switch.inFlight
    BY <2>3 DEF SwitchWindowSettled
  <2>4. CASE w \in s.switch.inFlight /\ ok
    BY <2>2, <2>4 DEF SwitchWindowSettled
  <2>5. CASE w \in s.switch.inFlight /\ ~ok
    BY <2>5 DEF SwitchWindowSettled
  <2> QED
    BY <2>3, <2>4, <2>5
<1>. HIDE DEF parked, restored
<1>4. /\ t \in EngineState /\ Plans(s, t)
  <2>1. t \in EngineState
    BY <1>1 DEF EngineState, Transaction
  <2>2. t.parked = s.parked /\ t.life = s.life /\ t.effects = s.effects /\ t.intents = s.intents
    BY DEF EngineState
  <2>. HIDE DEF t
  <2> QED
    BY <2>1, <2>2, PlansSame
<1>5. landed \in EngineState /\ Plans(s, landed)
  <2>1. landed \in EngineState
    BY <1>1, <1>2 DEF EngineState, Transaction
  <2>2. /\ landed.parked = s.parked /\ landed.life = s.life
        /\ landed.effects = s.effects /\ landed.intents = s.intents
    BY DEF EngineState
  <2>. HIDE DEF landed
  <2> QED
    BY <2>1, <2>2, PlansSame
<1>. HIDE DEF t, landed
<1>6. lost \in EngineState /\ Plans(t, lost)
  <2>1. t.switch \in Transaction
    BY <1>4, FieldTypes
  <2>2. lost \in EngineState
    BY <1>4, <2>1 DEF EngineState, Transaction
  <2>3. /\ lost.parked = t.parked /\ lost.life = t.life
        /\ lost.effects = t.effects /\ lost.intents = t.intents
    BY <1>4 DEF EngineState
  <2>. HIDE DEF lost
  <2> QED
    BY <1>4, <2>2, <2>3, PlansSame
<1>. HIDE DEF lost
<1>7. Plans(s, s)
  BY PlansSame
<1>8. /\ Plans(s, AdvanceSwitch(landed)) /\ Plans(s, AdvanceSwitch(lost))
      /\ Plans(s, BeginSwitchCompensation(t))
  BY <1>4, <1>5, <1>6, AdvancePlans, CompensationPlans, PlansTransitive
<1> QED
  BY <1>3, <1>7, <1>8

(* begin_workspace_switch                                                  *)
LEMMA BeginPlans ==
    ASSUME NEW s \in EngineState, NEW n \in Workspace, NEW d \in Display
    PROVE  Plans(s, BeginWorkspaceSwitch(s, n, d))
<1> DEFINE id == s.lastSwitch + 1
           park == ToPark(s, d)
           t == RequestRecoveryEntries(s, park, id)
           tokens == {<<t.lastBatch, w>> : w \in park}
           sw == [NoSwitch EXCEPT
                    !.id = id, !.phase = "Recording", !.display = d,
                    !.target = n, !.outgoing = s.pool.displayed[d],
                    !.queued = ToRestore(s, n), !.recording = tokens]
           u == [t EXCEPT !.lastSwitch = id, !.switch = sw]
<1>1. id \in Nat /\ s.pool.displayed[d] \in Workspace \cup {None}
  BY FieldTypes DEF Pool
<1>2. park \in SUBSET Window /\ ToRestore(s, n) \in SUBSET Window
  BY DEF ToPark, OnScreenMembers, Managed, ToRestore, MembersOf
<1>. HIDE DEF id, park
<1>3. t \in EngineState /\ Plans(s, t)
  BY <1>1, <1>2, RequestPlans
<1>. HIDE DEF t
<1>4. t.lastBatch \in Nat /\ tokens \in SUBSET Token
  BY <1>2, <1>3, FieldTypes DEF Token
<1>5. BeginWorkspaceSwitch(s, n, d) = AdvanceSwitch(u)
  BY DEF BeginWorkspaceSwitch, id, park, t
<1>. HIDE DEF tokens
<1>6. sw \in Transaction
  <2>1. "Recording" \in Phase
    BY DEF Phase, ForwardPhase
  <2> QED
    BY <1>1, <1>2, <1>4, <2>1 DEF Transaction, NoSwitch
<1>. HIDE DEF sw
<1>7. u \in EngineState
  BY <1>1, <1>3, <1>6 DEF EngineState
<1>8. u.parked = t.parked /\ u.life = t.life /\ u.effects = t.effects /\ u.intents = t.intents
  BY <1>3 DEF EngineState
<1>. HIDE DEF u
<1>9. Plans(t, u) /\ Plans(u, AdvanceSwitch(u))
  BY <1>3, <1>7, <1>8, PlansSame, AdvancePlans
<1> QED
  BY <1>3, <1>5, <1>9, PlansTransitive

(* Restores asked for on behalf of no switch.                              *)
LEMMA EffectsPlan ==
    ASSUME NEW s \in EngineState, NEW r \in EngineState, NEW W \in SUBSET Window
    PROVE  Plans(s, [s EXCEPT !.effects = Push(@, RestoreMoves(r, W))])
<1> DEFINE moves == RestoreMoves(r, W)
           effects == Push(s.effects, moves)
           t == [s EXCEPT !.effects = effects]
<1>1. s.effects \in Seq(SUBSET Move) /\ s.intents \in Seq(SUBSET Intent)
  BY FieldTypes
<1>2. moves \in SUBSET Move /\ \A m \in moves : m.kind = "Restore"
  BY RestoreMovesType DEF RestoreMoves
<1>3. effects \in Seq(SUBSET Move) /\ Grows(s.effects, effects, "Restore")
  <2>. HIDE DEF moves
  <2> QED
    BY <1>1, <1>2, PushType, GrowsAppend
<1>. HIDE DEF effects
<1>4. t.parked = s.parked /\ t.life = s.life /\ t.effects = effects /\ t.intents = s.intents
  BY DEF EngineState
<1>. HIDE DEF t
<1>5. Plans(s, t)
  BY <1>1, <1>3, <1>4, GrowsSame DEF Plans
<1> QED
  BY <1>5 DEF t, effects

(* reconcile_hidden_workspace_windows                                      *)
LEMMA ReconcilePlans ==
    ASSUME NEW s \in EngineState
    PROVE  Plans(s, ReconcileHiddenWorkspaceWindows(s))
<1> DEFINE toPark == {w \in Managed(s) : Hidden(s, w) /\ w \notin Parked(s) /\ Parkable(s, w)}
           toRestore == {w \in Managed(s) : ~Hidden(s, w) /\ w \in Parked(s)}
           t == RequestRecoveryEntries(s, toPark, 0)
           u == [t EXCEPT !.effects = Push(@, RestoreMoves(s, toRestore))]
<1>1. toPark \in SUBSET Window /\ toRestore \in SUBSET Window
  BY DEF Managed
<1>2. ReconcileHiddenWorkspaceWindows(s) \in {s, u}
  BY DEF ReconcileHiddenWorkspaceWindows
<1>. HIDE DEF toPark, toRestore
<1>3. t \in EngineState /\ Plans(s, t)
  BY <1>1, RequestPlans
<1>. HIDE DEF t
<1>4. Plans(t, u)
  BY <1>1, <1>3, EffectsPlan
<1>. HIDE DEF u
<1>5. Plans(s, s)
  BY PlansSame
<1> QED
  BY <1>2, <1>3, <1>4, <1>5, PlansTransitive

(* assign_unassigned_windows,                                             *)
LEMMA AssignPlans ==
    ASSUME NEW s \in EngineState
    PROVE  Plans(s, AssignUnassignedWindows(s))
<1> DEFINE t == AssignUnassignedWindows(s)
<1>1. t.parked = s.parked /\ t.life = s.life /\ t.effects = s.effects /\ t.intents = s.intents
  BY DEF AssignUnassignedWindows, EngineState
<1>. HIDE DEF t
<1>2. Plans(s, t)
  BY <1>1, PlansSame
<1> QED
  BY <1>2 DEF t

(* settle_stranded_window,                                                *)
LEMMA SettlePlans ==
    ASSUME NEW s \in EngineState, NEW w
    PROVE  Plans(s, SettleStrandedWindow(s, w))
<1> DEFINE t == SettleStrandedWindow(s, w)
<1>1. t.parked = s.parked /\ t.life = s.life /\ t.effects = s.effects /\ t.intents = s.intents
  BY DEF SettleStrandedWindow, EngineState
<1>. HIDE DEF t
<1>2. Plans(s, t)
  BY <1>1, PlansSame
<1> QED
  BY <1>2 DEF t

(* strand_window,                                                         *)
LEMMA StrandPlans ==
    ASSUME NEW s \in EngineState, NEW w
    PROVE  Plans(s, StrandWindow(s, w))
<1> DEFINE t == StrandWindow(s, w)
<1>1. t.parked = s.parked /\ t.life = s.life /\ t.effects = s.effects /\ t.intents = s.intents
  BY DEF StrandWindow, EngineState
<1>. HIDE DEF t
<1>2. Plans(s, t)
  BY <1>1, PlansSame
<1> QED
  BY <1>2 DEF t

(* sync_workspaces_from_config,                                           *)
LEMMA SyncPlans ==
    ASSUME NEW s \in EngineState
    PROVE  Plans(s, SyncWorkspacesFromConfig(s))
<1> DEFINE t == SyncWorkspacesFromConfig(s)
<1>1. t.parked = s.parked /\ t.life = s.life /\ t.effects = s.effects /\ t.intents = s.intents
  BY DEF SyncWorkspacesFromConfig, EngineState
<1>. HIDE DEF t
<1>2. Plans(s, t)
  BY <1>1, PlansSame
<1> QED
  BY <1>2 DEF t

(* apply_switching_mapping,                                               *)
LEMMA MappingPlans ==
    ASSUME NEW s \in EngineState
    PROVE  Plans(s, ApplySwitchingMapping(s))
<1> DEFINE t == ApplySwitchingMapping(s)
<1>1. t.parked = s.parked /\ t.life = s.life /\ t.effects = s.effects /\ t.intents = s.intents
  BY DEF ApplySwitchingMapping, EngineState
<1>. HIDE DEF t
<1>2. Plans(s, t)
  BY <1>1, PlansSame
<1> QED
  BY <1>2 DEF t

(* hide_workspaces_on_vanished_displays                                   *)
LEMMA LeavePlans ==
    ASSUME NEW s \in EngineState, NEW new, NEW nearest
    PROVE  Plans(s, LeaveVanishedDisplays(s, new, nearest))
<1> DEFINE t == LeaveVanishedDisplays(s, new, nearest)
<1>1. t.parked = s.parked /\ t.life = s.life /\ t.effects = s.effects /\ t.intents = s.intents
  BY DEF LeaveVanishedDisplays, EngineState
<1>. HIDE DEF t
<1>2. Plans(s, t)
  BY <1>1, PlansSame
<1> QED
  BY <1>2 DEF t

(* and the restore of one stored display move no window;                  *)
LEMMA LoadDisplayedPlans ==
    ASSUME NEW s \in EngineState, NEW n
    PROVE  Plans(s, LoadDisplayed(s, n))
<1> DEFINE t == LoadDisplayed(s, n)
<1>1. t.parked = s.parked /\ t.life = s.life /\ t.effects = s.effects /\ t.intents = s.intents
  BY DEF LoadDisplayed, EngineState
<1>. HIDE DEF t
<1>2. Plans(s, t)
  BY <1>1, PlansSame
<1> QED
  BY <1>2 DEF t

(* nor does fill_empty_displays.                                           *)
LEMMA FillPlans ==
    ASSUME NEW s \in EngineState, NEW t \in FillEmptyDisplays(s)
    PROVE  Plans(s, t)
<1>1. t.parked = s.parked /\ t.life = s.life /\ t.effects = s.effects /\ t.intents = s.intents
  BY DEF FillEmptyDisplays, EngineState
<1> QED
  BY <1>1, PlansSame

(* The tail of ConfigChanged, DisplayTopologyChanged and WorkspacesLoaded. *)
LEMMA TailPlans ==
    ASSUME NEW s \in EngineState, NEW t, Good(t), Plans(s, t)
    PROVE  Plans(s, ReconcileHiddenWorkspaceWindows(AssignUnassignedWindows(
                        ApplySwitchingMapping(t))))
<1> DEFINE m == ApplySwitchingMapping(t)
           a == AssignUnassignedWindows(m)
<1>1. Good(m) /\ Plans(s, m)
  <2>1. Good(m) /\ t \in EngineState /\ Plans(t, m)
    BY MappingGood, MappingPlans DEF Good, Consistent
  <2> QED
    BY <2>1, PlansTransitive
<1>. HIDE DEF m
<1>2. Good(a) /\ Plans(s, a)
  <2>1. Good(a) /\ m \in EngineState /\ Plans(m, a)
    BY <1>1, AssignGood, AssignPlans DEF Good, Consistent
  <2> QED
    BY <1>1, <2>1, PlansTransitive
<1>. HIDE DEF a
<1>3. a \in EngineState
  BY <1>2 DEF Good, Consistent
<1> QED
  BY <1>2, <1>3, ReconcilePlans, PlansTransitive DEF a, m

LEMMA ResettlePlans ==
    ASSUME NEW s, Good(s), NEW v \in Resettle(s)
    PROVE  Plans(s, v)
<1> DEFINE y == SyncWorkspacesFromConfig(s)
<1>1. PICK t \in FillEmptyDisplays(y) :
        v = ReconcileHiddenWorkspaceWindows(AssignUnassignedWindows(ApplySwitchingMapping(t)))
  BY DEF Resettle
<1>2. s \in EngineState /\ Good(y) /\ Plans(s, y)
  BY SyncGood, SyncPlans DEF Good, Consistent
<1>. HIDE DEF y
<1>3. Good(t) /\ Plans(s, t)
  <2>1. Good(t) /\ y \in EngineState /\ Plans(y, t)
    BY <1>2, FillGood, FillPlans DEF Good, Consistent
  <2> QED
    BY <1>2, <2>1, PlansTransitive
<1> QED
  BY <1>1, <1>2, <1>3, TailPlans

(* WorkspacesLoaded                                                        *)
LEMMA LoadPlans ==
    ASSUME NEW s, Good(s), NEW stored \in SUBSET Workspace,
           NEW where \in [Workspace -> Display \cup {None}],
           NEW v \in LoadWorkspaces(s, stored, where)
    PROVE  Plans(s, v)
<1> DEFINE t == Stocked(s, stored, where)
<1>1. PICK l \in Returned(t) : \E f \in FillEmptyDisplays(l) :
        v = ReconcileHiddenWorkspaceWindows(AssignUnassignedWindows(ApplySwitchingMapping(f)))
  BY LoadParts
<1>2. PICK u \in FillEmptyDisplays(l) :
        v = ReconcileHiddenWorkspaceWindows(AssignUnassignedWindows(ApplySwitchingMapping(u)))
  BY <1>1
<1>3. s \in EngineState /\ Good(t) /\ Plans(s, t)
  <2>1. s \in EngineState /\ Good(t)
    BY StockedGood DEF Good, Consistent
  <2>2. t.parked = s.parked /\ t.life = s.life /\ t.effects = s.effects /\ t.intents = s.intents
    BY <2>1 DEF Stocked, EngineState
  <2>. HIDE DEF t
  <2> QED
    BY <2>1, <2>2, PlansSame
<1>. HIDE DEF t
<1>4. Good(l) /\ Plans(t, l)
  <2>1. t \in EngineState /\ Plans(t, t)
    BY <1>3, PlansSame DEF Good, Consistent
  <2>2. Good(l)
    BY <1>3, ReturnedGood
  <2>3. ASSUME NEW n, Good(LoadDisplayed(t, n))
        PROVE  /\ Plans(t, LoadDisplayed(t, n))
               /\ \A m : Plans(t, LoadDisplayed(LoadDisplayed(t, n), m))
    <3>1. LoadDisplayed(t, n) \in EngineState
      BY <2>3 DEF Good, Consistent
    <3> QED
      BY <2>1, <3>1, LoadDisplayedPlans, PlansTransitive
  <2> QED
    BY <1>3, <2>1, <2>2, <2>3, ReturnedParts
<1>5. Good(u) /\ Plans(s, u)
  <2>1. Good(u) /\ t \in EngineState /\ l \in EngineState
    BY <1>3, <1>4, FillGood DEF Good, Consistent
  <2>2. Plans(l, u)
    BY <2>1, FillPlans
  <2> QED
    BY <1>3, <1>4, <2>1, <2>2, PlansTransitive
<1> QED
  BY <1>2, <1>3, <1>5, TailPlans

(* spawn_engine parks nothing, has seen nothing and asks for no move.      *)
Resting(s) ==
    /\ s.effects = << >> /\ s.intents = << >>
    /\ s.parked = [w \in Window |-> 0] /\ s.life = [w \in Window |-> "Gone"]

LEMMA BootRests ==
    ASSUME NEW c \in Configs, NEW displays \in SUBSET Display, NEW site \in BOOLEAN,
           NEW t \in Booted(c, displays, site)
    PROVE  Resting(t)
<1> DEFINE b == BlankState(c, displays)
           y == SyncWorkspacesFromConfig(b)
<1>1. PICK f \in FillEmptyDisplays(y) :
        t = [ApplySwitchingMapping(f) EXCEPT !.site = IF site THEN "Verified" ELSE "Refused"]
  BY DEF Booted, BootStates
<1>2. Good(b) /\ Resting(b)
  BY BlankGood DEF BlankState, Resting
<1>. HIDE DEF b
<1>3. Good(y) /\ Resting(y)
  BY <1>2, SyncGood DEF Resting, SyncWorkspacesFromConfig, Good, Consistent, EngineState
<1>. HIDE DEF y
<1>4. Good(f) /\ Resting(f)
  <2>1. y \in EngineState
    BY <1>3 DEF Good, Consistent
  <2>2. /\ f.effects = y.effects /\ f.intents = y.intents
        /\ f.parked = y.parked /\ f.life = y.life
    BY <1>1, <2>1 DEF FillEmptyDisplays, EngineState
  <2>3. Good(f)
    BY <1>1, <1>3, FillGood
  <2> QED
    BY <1>3, <2>2, <2>3 DEF Resting
<1> DEFINE m == ApplySwitchingMapping(f)
<1>5. Good(m) /\ Resting(m)
  BY <1>4, MappingGood DEF Resting, ApplySwitchingMapping, Good, Consistent, EngineState
<1>. HIDE DEF m
<1>6. t = [m EXCEPT !.site = IF site THEN "Verified" ELSE "Refused"]
  BY <1>1 DEF m
<1> QED
  BY <1>5, <1>6 DEF Resting, Good, Consistent, EngineState

-----------------------------------------------------------------------------
(* The way of an entry.  An entry that lets a window leave travels through *)
(* the queues: acknowledged (rank 4), asked of the executor (3), answered  *)
(* (2), in the record of what is parked (1), and at last a mark still to   *)
(* be written (0).  An entry of a lower rank, or ahead of another in one   *)
(* queue, was recorded earlier.                                            *)

MarkOf(w, g)  == [kind |-> "MarkRestored", window |-> w, number |-> g]
ParkOf(w, g)  == [kind |-> "Park", window |-> w, entry |-> g]
Owed(s, w, g) == \E k \in 1..Len(s.intents) : MarkOf(w, g) \in s.intents[k]
Tells(m, event, w, g) == m.event = event /\ m.window = w /\ m.entry = g

(* Entry g of window w is at place i of rank r, with reducer state s and   *)
(* channel q.                                                              *)
At(s, q, r, i, w, g) ==
    \/ r = 0 /\ Owed(s, w, g)
    \/ r = 1 /\ g # 0 /\ s.parked[w] = g
    \/ r = 2 /\ i \in 1..Len(q) /\ Tells(q[i], "WindowParked", w, g)
    \/ r = 3 /\ i \in 1..Len(s.effects) /\ ParkOf(w, g) \in s.effects[i]
    \/ r = 4 /\ i \in 1..Len(q) /\ Tells(q[i], "RecoveryEntryDurable", w, g)

Rank == 0..4

Before(r, i, k, j) == r < k \/ (r = k /\ r >= 2 /\ i < j)

(* Entries of one window follow each other in the order of their numbers.  *)
Ordered(s, q, w) ==
    \A r, k \in Rank, i, j, g, h \in Nat :
        At(s, q, r, i, w, g) /\ At(s, q, k, j, w, h) =>
            /\ Before(r, i, k, j) => g < h
            /\ r = k /\ i = j /\ r >= 2 => g = h

(* A number names an entry of the window, if it names one at all.          *)
Assigned(entries, last, w, g) == g \in 1..last /\ \A e \in entries : e.id = g => e.window = w

(* An entry on its way was recorded for its window, and until its mark is  *)
(* to be written nothing has ticked it off.                                *)
Recorded(s, q, w, entries, last) ==
    \A r \in Rank, i, g \in Nat :
        At(s, q, r, i, w, g) =>
            /\ Assigned(entries, last, w, g)
            /\ r # 0 => \E e \in entries : e.id = g /\ e.window = w /\ ~e.restored

Path(s, q, w, entries, last) == Ordered(s, q, w) /\ Recorded(s, q, w, entries, last)

(* How the places of (t, p) come from those of (s, q), when messages join  *)
(* the channel, leave it, or the reducer only plans.                       *)
LEMMA PlansAt ==
    ASSUME NEW s \in EngineState, NEW t, NEW q, NEW w, Plans(s, t),
           NEW r \in Rank, NEW i \in Nat, NEW g \in Nat, At(t, q, r, i, w, g)
    PROVE  At(s, q, r, i, w, g)
<1>1. s.effects \in Seq(SUBSET Move) /\ s.intents \in Seq(SUBSET Intent)
  BY FieldTypes
<1>2. CASE r = 0
  <2>1. PICK k \in 1..Len(t.intents) : MarkOf(w, g) \in t.intents[k]
    BY <1>2 DEF At, Owed
  <2>2. k \in 1..Len(s.intents) /\ t.intents[k] = s.intents[k]
    <3>1. MarkOf(w, g).kind # "Record"
      BY DEF MarkOf
    <3> QED
      BY <1>1, <2>1, <3>1 DEF Plans, Grows
  <2> QED
    BY <1>2, <2>1, <2>2 DEF At, Owed
<1>3. CASE r = 3
  <2>1. i \in 1..Len(t.effects) /\ ParkOf(w, g) \in t.effects[i]
    BY <1>3 DEF At
  <2>2. i \in 1..Len(s.effects) /\ t.effects[i] = s.effects[i]
    <3>1. ParkOf(w, g).kind # "Restore"
      BY DEF ParkOf
    <3> QED
      BY <1>1, <2>1, <3>1 DEF Plans, Grows
  <2> QED
    BY <1>3, <2>1, <2>2 DEF At
<1>4. CASE r \in {1, 2, 4}
  BY <1>4 DEF At, Plans
<1> QED
  BY <1>2, <1>3, <1>4 DEF Rank

LEMMA SameAt ==
    ASSUME NEW s, NEW t, NEW q, NEW w,
           t.parked = s.parked, t.effects = s.effects, t.intents = s.intents,
           NEW r \in Rank, NEW i \in Nat, NEW g \in Nat
    PROVE  At(t, q, r, i, w, g) <=> At(s, q, r, i, w, g)
BY DEF At, Owed

LEMMA AppendAt ==
    ASSUME NEW s, NEW q \in Seq(Message), NEW m \in Message, NEW w,
           NEW r \in Rank, NEW i \in Nat, NEW g \in Nat, At(s, Append(q, m), r, i, w, g)
    PROVE  \/ At(s, q, r, i, w, g)
           \/ i = Len(q) + 1 /\ r = 2 /\ Tells(m, "WindowParked", w, g)
           \/ i = Len(q) + 1 /\ r = 4 /\ Tells(m, "RecoveryEntryDurable", w, g)
<1>1. Len(Append(q, m)) = Len(q) + 1 /\ Len(q) \in Nat
  OBVIOUS
<1>2. \A j \in 1..Len(q) + 1 : Append(q, m)[j] = IF j = Len(q) + 1 THEN m ELSE q[j]
  OBVIOUS
<1> QED
  BY <1>1, <1>2 DEF At

LEMMA TailAt ==
    ASSUME NEW s, NEW q \in Seq(Message), q # << >>, NEW w
    PROVE  /\ \A r \in {0, 1, 3}, i, g \in Nat :
                At(s, Tail(q), r, i, w, g) => At(s, q, r, i, w, g)
           /\ \A r \in {2, 4}, i, g \in Nat :
                At(s, Tail(q), r, i, w, g) => At(s, q, r, i + 1, w, g)
<1>1. Len(Tail(q)) = Len(q) - 1 /\ Len(q) \in Nat
  OBVIOUS
<1>2. \A j \in 1..Len(q) - 1 : Tail(q)[j] = q[j + 1]
  OBVIOUS
<1>3. ASSUME NEW r \in {0, 1, 3}, NEW i \in Nat, NEW g \in Nat, At(s, Tail(q), r, i, w, g)
      PROVE  At(s, q, r, i, w, g)
  BY <1>3 DEF At
<1>4. ASSUME NEW r \in {2, 4}, NEW i \in Nat, NEW g \in Nat, At(s, Tail(q), r, i, w, g)
      PROVE  At(s, q, r, i + 1, w, g)
  <2>1. i \in 1..Len(Tail(q)) /\ Tail(q)[i] = q[i + 1]
    BY <1>1, <1>2, <1>4 DEF At
  <2> QED
    BY <1>1, <1>4, <2>1 DEF At
<1> QED
  BY <1>3, <1>4

(* What is left of a queue of batches when one item was taken off it.      *)
Shifted(queue, left, item, c) ==
    \A i \in 1..Len(left) :
        /\ i + c \in 1..Len(queue)
        /\ left[i] = IF i + c = 1 THEN queue[1] \ {item} ELSE queue[i + c]

LEMMA NextBatchItems ==
    ASSUME NEW S, NEW queue \in Seq(SUBSET S), queue # << >>, NEW item \in Head(queue)
    PROVE  \E c \in {0, 1} : Shifted(queue, NextBatch(queue, item), item, c)
<1> DEFINE rest == Head(queue) \ {item}
           left == <<rest>> \o Tail(queue)
<1>1. Len(queue) \in Nat /\ Len(queue) >= 1 /\ Head(queue) = queue[1]
  OBVIOUS
<1>2. /\ Tail(queue) \in Seq(SUBSET S) /\ Len(Tail(queue)) = Len(queue) - 1
      /\ \A j \in 1..Len(queue) - 1 : Tail(queue)[j] = queue[j + 1]
  OBVIOUS
<1>3. CASE Head(queue) = {item}
  <2>1. NextBatch(queue, item) = Tail(queue)
    BY <1>3 DEF NextBatch
  <2>2. \A i \in 1..Len(Tail(queue)) :
            i + 1 \in 1..Len(queue) /\ i + 1 # 1 /\ Tail(queue)[i] = queue[i + 1]
    BY <1>1, <1>2
  <2>3. Shifted(queue, NextBatch(queue, item), item, 1)
    BY <2>1, <2>2 DEF Shifted
  <2> QED
    BY <2>3
<1>4. CASE Head(queue) # {item}
  <2>1. NextBatch(queue, item) = left
    BY <1>4 DEF NextBatch
  <2>2. rest \in SUBSET S /\ rest = queue[1] \ {item}
    BY <1>1
  <2>. HIDE DEF rest
  <2>3. <<rest>> \in Seq(SUBSET S)
    BY <2>2
  <2>4. /\ Len(left) = Len(queue)
        /\ \A i \in 1..Len(queue) : left[i] = IF i = 1 THEN rest ELSE queue[i]
    <3>1. Len(<<rest>>) = 1 /\ <<rest>>[1] = rest
      OBVIOUS
    <3>2. Len(left) = 1 + (Len(queue) - 1)
      BY <1>1, <1>2, <2>3, <3>1
    <3>3. \A i \in 1..Len(queue) : left[i] = IF i <= 1 THEN <<rest>>[i] ELSE Tail(queue)[i - 1]
      BY <1>1, <1>2, <2>3, <3>1, <3>2
    <3>. HIDE DEF left
    <3> QED
      BY <1>1, <1>2, <3>1, <3>2, <3>3
  <2>. HIDE DEF left
  <2>5. \A i \in 1..Len(left) :
            i + 0 \in 1..Len(queue)
            /\ left[i] = IF i + 0 = 1 THEN queue[1] \ {item} ELSE queue[i + 0]
    <3>1. \A i \in 1..Len(left) : i + 0 = i /\ i \in 1..Len(queue)
      BY <1>1, <2>4
    <3> QED
      BY <2>2, <2>4, <3>1
  <2>6. Shifted(queue, NextBatch(queue, item), item, 0)
    BY <2>1, <2>5 DEF Shifted
  <2> QED
    BY <2>6
<1> QED
  BY <1>3, <1>4

(* Whatever keeps the places keeps the path.                               *)
LEMMA PathPlans ==
    ASSUME NEW s \in EngineState, NEW t, NEW q, NEW w, NEW entries, NEW last,
           Plans(s, t), Path(s, q, w, entries, last)
    PROVE  Path(t, q, w, entries, last)
<1>1. \A r \in Rank, i, g \in Nat : At(t, q, r, i, w, g) => At(s, q, r, i, w, g)
  BY PlansAt
<1> QED
  BY <1>1 DEF Path, Ordered, Recorded

LEMMA PathTail ==
    ASSUME NEW s, NEW q \in Seq(Message), q # << >>, NEW w, NEW entries, NEW last,
           Path(s, q, w, entries, last)
    PROVE  Path(s, Tail(q), w, entries, last)
<1> DEFINE p == Tail(q)
<1>1. \A r \in {0, 1, 3}, i, g \in Nat : At(s, p, r, i, w, g) => At(s, q, r, i, w, g)
  BY TailAt
<1>2. \A r \in {2, 4}, i, g \in Nat : At(s, p, r, i, w, g) => At(s, q, r, i + 1, w, g)
  BY TailAt
<1>. HIDE DEF p
<1>3. Ordered(s, p, w)
  <2> SUFFICES ASSUME NEW r \in Rank, NEW k \in Rank, NEW i \in Nat, NEW j \in Nat,
                      NEW g \in Nat, NEW h \in Nat,
                      At(s, p, r, i, w, g), At(s, p, k, j, w, h)
               PROVE  /\ Before(r, i, k, j) => g < h
                      /\ r = k /\ i = j /\ r >= 2 => g = h
    BY DEF Ordered
  <2> DEFINE x == IF r \in {2, 4} THEN i + 1 ELSE i
             y == IF k \in {2, 4} THEN j + 1 ELSE j
  <2>1. At(s, q, r, x, w, g) /\ At(s, q, k, y, w, h) /\ x \in Nat /\ y \in Nat
    BY <1>1, <1>2 DEF Rank
  <2>2. (Before(r, i, k, j) => Before(r, x, k, y)) /\ (r = k /\ i = j => x = y)
    BY DEF Before, Rank
  <2>. HIDE DEF x, y
  <2> QED
    BY <2>1, <2>2 DEF Path, Ordered
<1>4. Recorded(s, p, w, entries, last)
  BY <1>1, <1>2 DEF Path, Recorded, Rank
<1> QED
  BY <1>3, <1>4 DEF Path, p

LEMMA PathAppend ==
    ASSUME NEW s, NEW q \in Seq(Message), NEW m \in Message, NEW w, NEW entries, NEW last,
           m.event \in {"WindowParked", "RecoveryEntryDurable"} => m.window # w,
           Path(s, q, w, entries, last)
    PROVE  Path(s, Append(q, m), w, entries, last)
<1>1. \A r \in Rank, i, g \in Nat : At(s, Append(q, m), r, i, w, g) => At(s, q, r, i, w, g)
  BY AppendAt DEF Tells
<1> QED
  BY <1>1 DEF Path, Ordered, Recorded

(* Entries come, and go when they are ticked off.                          *)
LEMMA PathLedger ==
    ASSUME NEW s, NEW q, NEW w, NEW entries, NEW kept, NEW last \in Nat, NEW next \in Nat,
           last <= next,
           \A e \in entries : e.window = w /\ ~e.restored =>
               \E f \in kept : f.id = e.id /\ f.window = w /\ ~f.restored,
           \A f \in kept : \E e \in entries : e.id = f.id /\ e.window = f.window,
           Path(s, q, w, entries, last)
    PROVE  Path(s, q, w, kept, next)
<1>1. ASSUME NEW r \in Rank, NEW i \in Nat, NEW g \in Nat, At(s, q, r, i, w, g)
      PROVE  /\ Assigned(kept, next, w, g)
             /\ r # 0 => \E e \in kept : e.id = g /\ e.window = w /\ ~e.restored
  BY <1>1 DEF Path, Recorded, Assigned
<1> QED
  BY <1>1 DEF Path, Recorded

(* A mark is written: what it ticks off is behind everything else.         *)
LEMMA PathMarked ==
    ASSUME NEW s, NEW q, NEW w, NEW entries \in SUBSET L!Entry, NEW last, NEW n \in Nat, NEW v,
           Owed(s, v, n),
           \A e \in entries : e.id = n => e.window = v,
           Path(s, q, w, entries, last)
    PROVE  Path(s, q, w, L!MarkedRestored(entries, n), last)
<1>1. ASSUME NEW r \in Rank, NEW i \in Nat, NEW g \in Nat, At(s, q, r, i, w, g), r # 0
      PROVE  \E e \in L!MarkedRestored(entries, n) : e.id = g /\ e.window = w /\ ~e.restored
  <2>1. PICK e \in entries : e.id = g /\ e.window = w /\ ~e.restored
    BY <1>1 DEF Path, Recorded
  <2>2. g # n
    <3>1. CASE v = w
      <4>1. At(s, q, 0, 0, w, n) /\ Before(0, 0, r, i)
        BY <1>1, <3>1 DEF At, Before, Rank
      <4> QED
        BY <1>1, <4>1 DEF Path, Ordered, Rank
    <3>2. CASE v # w
      BY <2>1, <3>2
    <3> QED
      BY <3>1, <3>2
  <2> QED
    BY <2>1, <2>2 DEF L!MarkedRestored
<1>2. ASSUME NEW f \in L!MarkedRestored(entries, n)
      PROVE  \E e \in entries : e.id = f.id /\ e.window = f.window
  <2>1. PICK e \in entries : f = IF e.id = n THEN [e EXCEPT !.restored = TRUE] ELSE e
    BY <1>2 DEF L!MarkedRestored
  <2>2. e \in L!Entry
    OBVIOUS
  <2> QED
    BY <2>1, <2>2 DEF L!Entry
<1>3. ASSUME NEW r \in Rank, NEW i \in Nat, NEW g \in Nat, At(s, q, r, i, w, g)
      PROVE  Assigned(L!MarkedRestored(entries, n), last, w, g)
  BY <1>2, <1>3 DEF Path, Recorded, Assigned
<1> QED
  BY <1>1, <1>3 DEF Path, Recorded

(* The bridge takes an intent, the executor a move: what is left keeps its *)
(* places, and a park that was taken was ahead of the parks left.          *)
LEMMA IntentTakenAt ==
    ASSUME NEW s \in EngineState, NEW t, NEW q, NEW w, s.intents # << >>,
           NEW item \in Head(s.intents),
           t.parked = s.parked, t.effects = s.effects,
           t.intents = NextBatch(s.intents, item),
           NEW r \in Rank, NEW i \in Nat, NEW g \in Nat, At(t, q, r, i, w, g)
    PROVE  At(s, q, r, i, w, g)
<1>1. s.intents \in Seq(SUBSET Intent)
  BY FieldTypes
<1>2. PICK c \in {0, 1} : Shifted(s.intents, t.intents, item, c)
  BY <1>1, NextBatchItems
<1>3. CASE r = 0
  <2>1. PICK k \in 1..Len(t.intents) : MarkOf(w, g) \in t.intents[k]
    BY <1>3 DEF At, Owed
  <2>2. k + c \in 1..Len(s.intents) /\ MarkOf(w, g) \in s.intents[k + c]
    BY <1>2, <2>1 DEF Shifted
  <2> QED
    BY <1>3, <2>2 DEF At, Owed
<1>4. CASE r # 0
  BY <1>4 DEF At
<1> QED
  BY <1>3, <1>4

LEMMA PathIntentTaken ==
    ASSUME NEW s \in EngineState, NEW t, NEW q, NEW w, NEW entries, NEW last,
           s.intents # << >>, NEW item \in Head(s.intents),
           t.parked = s.parked, t.effects = s.effects,
           t.intents = NextBatch(s.intents, item),
           Path(s, q, w, entries, last)
    PROVE  Path(t, q, w, entries, last)
<1>1. \A r \in Rank, i, g \in Nat : At(t, q, r, i, w, g) => At(s, q, r, i, w, g)
  BY IntentTakenAt
<1>2. Ordered(t, q, w)
  BY <1>1 DEF Path, Ordered
<1>3. Recorded(t, q, w, entries, last)
  BY <1>1 DEF Path, Recorded
<1> QED
  BY <1>2, <1>3 DEF Path

ParkShifted(s, t, q, w, item, c) ==
    \A i, g \in Nat : At(t, q, 3, i, w, g) =>
        At(s, q, 3, i + c, w, g) /\ (i + c = 1 => ParkOf(w, g) # item)

LEMMA EffectTakenAt ==
    ASSUME NEW s \in EngineState, NEW t, NEW q, NEW w, s.effects # << >>,
           NEW item \in Head(s.effects),
           t.parked = s.parked, t.intents = s.intents,
           t.effects = NextBatch(s.effects, item)
    PROVE  /\ \A r \in {0, 1, 2, 4}, i, g \in Nat : At(t, q, r, i, w, g) => At(s, q, r, i, w, g)
           /\ \E c \in {0, 1} : ParkShifted(s, t, q, w, item, c)
<1>1. s.effects \in Seq(SUBSET Move)
  BY FieldTypes
<1>2. PICK c \in {0, 1} : Shifted(s.effects, t.effects, item, c)
  BY <1>1, NextBatchItems
<1>3. ASSUME NEW i \in Nat, NEW g \in Nat, At(t, q, 3, i, w, g)
      PROVE  At(s, q, 3, i + c, w, g) /\ (i + c = 1 => ParkOf(w, g) # item)
  <2>1. i \in 1..Len(t.effects) /\ ParkOf(w, g) \in t.effects[i]
    BY <1>3 DEF At
  <2>2. /\ i + c \in 1..Len(s.effects) /\ ParkOf(w, g) \in s.effects[i + c]
        /\ i + c = 1 => ParkOf(w, g) # item
    BY <1>2, <2>1 DEF Shifted
  <2> QED
    BY <2>2 DEF At
<1>4. ASSUME NEW r \in {0, 1, 2, 4}, NEW i \in Nat, NEW g \in Nat, At(t, q, r, i, w, g)
      PROVE  At(s, q, r, i, w, g)
  BY <1>4 DEF At, Owed
<1>5. ParkShifted(s, t, q, w, item, c)
  BY <1>3 DEF ParkShifted
<1> QED
  BY <1>4, <1>5

LEMMA PathEffectTaken ==
    ASSUME NEW s \in EngineState, NEW t, NEW q, NEW w, NEW entries, NEW last,
           s.effects # << >>, NEW item \in Head(s.effects),
           t.parked = s.parked, t.intents = s.intents,
           t.effects = NextBatch(s.effects, item),
           Path(s, q, w, entries, last)
    PROVE  Path(t, q, w, entries, last)
<1>1. PICK c \in {0, 1} : ParkShifted(s, t, q, w, item, c)
  BY EffectTakenAt
<1>2. \A r \in {0, 1, 2, 4}, i, g \in Nat : At(t, q, r, i, w, g) => At(s, q, r, i, w, g)
  BY EffectTakenAt
<1>3. Ordered(t, q, w)
  <2> SUFFICES ASSUME NEW r \in Rank, NEW k \in Rank, NEW i \in Nat, NEW j \in Nat,
                      NEW g \in Nat, NEW h \in Nat,
                      At(t, q, r, i, w, g), At(t, q, k, j, w, h)
               PROVE  /\ Before(r, i, k, j) => g < h
                      /\ r = k /\ i = j /\ r >= 2 => g = h
    BY DEF Ordered
  <2> DEFINE x == IF r = 3 THEN i + c ELSE i
             y == IF k = 3 THEN j + c ELSE j
  <2>1. At(s, q, r, x, w, g) /\ At(s, q, k, y, w, h) /\ x \in Nat /\ y \in Nat
    BY <1>1, <1>2 DEF Rank, ParkShifted
  <2>2. (Before(r, i, k, j) => Before(r, x, k, y)) /\ (r = k /\ i = j => x = y)
    BY DEF Before, Rank
  <2>. HIDE DEF x, y
  <2> QED
    BY <2>1, <2>2 DEF Path, Ordered
<1>4. Recorded(t, q, w, entries, last)
  <2> SUFFICES ASSUME NEW r \in Rank, NEW i \in Nat, NEW g \in Nat, At(t, q, r, i, w, g)
               PROVE  /\ Assigned(entries, last, w, g)
                      /\ r # 0 => \E e \in entries : e.id = g /\ e.window = w /\ ~e.restored
    BY DEF Recorded
  <2> DEFINE x == IF r = 3 THEN i + c ELSE i
  <2>1. At(s, q, r, x, w, g) /\ x \in Nat
    BY <1>1, <1>2 DEF Rank, ParkShifted
  <2>. HIDE DEF x
  <2> QED
    BY <2>1 DEF Path, Recorded
<1> QED
  BY <1>3, <1>4 DEF Path

(* The executor has parked: the entry moves on from the move to the answer.*)
LEMMA PathParked ==
    ASSUME NEW s \in EngineState, NEW t, NEW q \in Seq(Message), NEW w, NEW entries, NEW last,
           s.effects # << >>, NEW n \in Nat, ParkOf(w, n) \in Head(s.effects),
           t.parked = s.parked, t.intents = s.intents,
           t.effects = NextBatch(s.effects, ParkOf(w, n)),
           NEW m \in Message, Tells(m, "WindowParked", w, n),
           Path(s, q, w, entries, last)
    PROVE  Path(t, Append(q, m), w, entries, last)
<1>1. PICK c \in {0, 1} : ParkShifted(s, t, q, w, ParkOf(w, n), c)
  BY EffectTakenAt
<1>2. \A r \in {0, 1, 2, 4}, i, g \in Nat : At(t, q, r, i, w, g) => At(s, q, r, i, w, g)
  BY EffectTakenAt
<1>3. At(s, q, 3, 1, w, n)
  <2>1. s.effects \in Seq(SUBSET Move)
    BY FieldTypes
  <2>2. 1 \in 1..Len(s.effects) /\ ParkOf(w, n) \in s.effects[1]
    BY <2>1
  <2> QED
    BY <2>2 DEF At
<1>4. \A i, g \in Nat : At(t, q, 3, i, w, g) => i + c > 1
  <2> SUFFICES ASSUME NEW i \in Nat, NEW g \in Nat, At(t, q, 3, i, w, g), ~(i + c > 1)
               PROVE  FALSE
    OBVIOUS
  <2>1. At(s, q, 3, i + c, w, g) /\ i >= 1
    BY <1>1 DEF At, ParkShifted
  <2>2. i + c = 1
    BY <2>1
  <2>3. g = n
    BY <1>3, <2>1, <2>2 DEF Path, Ordered, Rank
  <2> QED
    BY <1>1, <2>2, <2>3 DEF ParkShifted
<1> DEFINE p == Append(q, m)
<1>5. \A r \in Rank, i, g \in Nat : At(t, p, r, i, w, g) =>
        At(t, q, r, i, w, g) \/ (r = 2 /\ i = Len(q) + 1 /\ g = n)
  BY AppendAt DEF Tells
<1>6. \A r \in Rank, i, g \in Nat : At(t, q, r, i, w, g) /\ r \in {2, 4} => i <= Len(q)
  BY DEF At
<1>7. Len(q) \in Nat
  OBVIOUS
<1>. HIDE DEF p
<1> DEFINE Was(r, i, g, x, y) ==
             \/ r \in {0, 1, 2, 4} /\ x = r /\ y = i /\ (r = 2 => i <= Len(q))
             \/ r = 3 /\ x = r /\ y = i + c /\ i + c > 1
             \/ r = 2 /\ i = Len(q) + 1 /\ g = n /\ x = 3 /\ y = 1
<1>8. ASSUME NEW r \in Rank, NEW i \in Nat, NEW g \in Nat, At(t, p, r, i, w, g)
      PROVE  \E x \in Rank, y \in Nat : At(s, q, x, y, w, g) /\ Was(r, i, g, x, y)
  <2>1. CASE At(t, q, r, i, w, g) /\ r # 3
    <3>1. At(s, q, r, i, w, g) /\ Was(r, i, g, r, i)
      BY <1>2, <1>6, <2>1 DEF Rank
    <3> QED
      BY <3>1
  <2>2. CASE At(t, q, r, i, w, g) /\ r = 3
    <3>1. At(s, q, 3, i + c, w, g) /\ Was(r, i, g, 3, i + c)
      BY <1>1, <1>4, <2>2 DEF ParkShifted
    <3>2. 3 \in Rank /\ i + c \in Nat
      BY DEF Rank
    <3> QED
      BY <3>1, <3>2
  <2>3. CASE r = 2 /\ i = Len(q) + 1 /\ g = n
    <3>1. At(s, q, 3, 1, w, g) /\ Was(r, i, g, 3, 1) /\ 3 \in Rank
      BY <1>3, <2>3 DEF Rank
    <3> QED
      BY <3>1
  <2> QED
    BY <1>5, <1>8, <2>1, <2>2, <2>3
<1>9. Ordered(t, p, w)
  <2> SUFFICES ASSUME NEW r \in Rank, NEW k \in Rank, NEW i \in Nat, NEW j \in Nat,
                      NEW g \in Nat, NEW h \in Nat,
                      At(t, p, r, i, w, g), At(t, p, k, j, w, h)
               PROVE  /\ Before(r, i, k, j) => g < h
                      /\ r = k /\ i = j /\ r >= 2 => g = h
    BY DEF Ordered
  <2>1. PICK x \in Rank, y \in Nat : At(s, q, x, y, w, g) /\ Was(r, i, g, x, y)
    BY <1>8
  <2>2. PICK u \in Rank, v \in Nat : At(s, q, u, v, w, h) /\ Was(k, j, h, u, v)
    BY <1>8
  <2>3. (Before(r, i, k, j) => Before(x, y, u, v)) /\ (r = k /\ i = j => x = u /\ y = v)
    BY <1>7, <2>1, <2>2 DEF Before, Rank
  <2>4. r = k /\ i = j /\ r >= 2 => x >= 2
    BY <2>1
  <2>. HIDE DEF Was
  <2> QED
    BY <2>1, <2>2, <2>3, <2>4 DEF Path, Ordered
<1>10. Recorded(t, p, w, entries, last)
  <2> SUFFICES ASSUME NEW r \in Rank, NEW i \in Nat, NEW g \in Nat, At(t, p, r, i, w, g)
               PROVE  /\ Assigned(entries, last, w, g)
                      /\ r # 0 => \E e \in entries : e.id = g /\ e.window = w /\ ~e.restored
    BY DEF Recorded
  <2>1. PICK x \in Rank, y \in Nat : At(s, q, x, y, w, g) /\ Was(r, i, g, x, y)
    BY <1>8
  <2>2. r # 0 => x # 0
    BY <2>1
  <2>. HIDE DEF Was
  <2> QED
    BY <2>1, <2>2 DEF Path, Recorded
<1> QED
  BY <1>9, <1>10 DEF Path, p

(* The reducer hears that a window was parked: the entry moves on into the *)
(* record.                                                                 *)
LEMMA PathHeard ==
    ASSUME NEW s, NEW t, NEW q \in Seq(Message), q # << >>, NEW w, NEW entries, NEW last,
           NEW n \in Nat, Tells(Head(q), "WindowParked", w, n),
           t.parked[w] = n, t.effects = s.effects,
           \A g \in Nat : Owed(t, w, g) => Owed(s, w, g),
           Path(s, q, w, entries, last)
    PROVE  Path(t, Tail(q), w, entries, last)
<1> DEFINE p == Tail(q)
<1>1. \A r \in {2, 4}, i, g \in Nat : At(t, p, r, i, w, g) => At(s, q, r, i + 1, w, g) /\ i >= 1
  <2>1. \A r \in {2, 4}, i, g \in Nat : At(t, p, r, i, w, g) => At(s, p, r, i, w, g) /\ i >= 1
    BY DEF At
  <2> QED
    BY <2>1, TailAt
<1>2. \A r \in {0, 3}, i, g \in Nat : At(t, p, r, i, w, g) => At(s, q, r, i, w, g)
  BY DEF At
<1>3. \A i, g \in Nat : At(t, p, 1, i, w, g) => g = n
  BY DEF At
<1>4. At(s, q, 2, 1, w, n)
  <2>1. 1 \in 1..Len(q) /\ Head(q) = q[1]
    OBVIOUS
  <2> QED
    BY <2>1 DEF At
<1>. HIDE DEF p
<1> DEFINE Was(r, i, g, x, y) ==
             \/ r \in {0, 3} /\ x = r /\ y = i
             \/ r \in {2, 4} /\ x = r /\ y = i + 1 /\ i >= 1
             \/ r = 1 /\ g = n /\ x = 2 /\ y = 1
<1>5. ASSUME NEW r \in Rank, NEW i \in Nat, NEW g \in Nat, At(t, p, r, i, w, g)
      PROVE  \E x \in Rank, y \in Nat : At(s, q, x, y, w, g) /\ Was(r, i, g, x, y)
  <2>1. CASE r \in {0, 3}
    <3>1. At(s, q, r, i, w, g) /\ Was(r, i, g, r, i)
      BY <1>2, <1>5, <2>1
    <3> QED
      BY <3>1
  <2>2. CASE r \in {2, 4}
    <3>1. At(s, q, r, i + 1, w, g) /\ Was(r, i, g, r, i + 1) /\ i + 1 \in Nat
      BY <1>1, <1>5, <2>2
    <3> QED
      BY <3>1
  <2>3. CASE r = 1
    <3>1. At(s, q, 2, 1, w, g) /\ Was(r, i, g, 2, 1) /\ 2 \in Rank
      BY <1>3, <1>4, <1>5, <2>3 DEF Rank
    <3> QED
      BY <3>1
  <2> QED
    BY <2>1, <2>2, <2>3 DEF Rank
<1>6. Ordered(t, p, w)
  <2> SUFFICES ASSUME NEW r \in Rank, NEW k \in Rank, NEW i \in Nat, NEW j \in Nat,
                      NEW g \in Nat, NEW h \in Nat,
                      At(t, p, r, i, w, g), At(t, p, k, j, w, h)
               PROVE  /\ Before(r, i, k, j) => g < h
                      /\ r = k /\ i = j /\ r >= 2 => g = h
    BY DEF Ordered
  <2>1. PICK x \in Rank, y \in Nat : At(s, q, x, y, w, g) /\ Was(r, i, g, x, y)
    BY <1>5
  <2>2. PICK u \in Rank, v \in Nat : At(s, q, u, v, w, h) /\ Was(k, j, h, u, v)
    BY <1>5
  <2>3. (Before(r, i, k, j) => Before(x, y, u, v)) /\ (r = k /\ i = j => x = u /\ y = v)
    BY <2>1, <2>2 DEF Before, Rank
  <2>4. r = k /\ i = j /\ r >= 2 => x >= 2
    BY <2>1
  <2>. HIDE DEF Was
  <2> QED
    BY <2>1, <2>2, <2>3, <2>4 DEF Path, Ordered
<1>7. Recorded(t, p, w, entries, last)
  <2> SUFFICES ASSUME NEW r \in Rank, NEW i \in Nat, NEW g \in Nat, At(t, p, r, i, w, g)
               PROVE  /\ Assigned(entries, last, w, g)
                      /\ r # 0 => \E e \in entries : e.id = g /\ e.window = w /\ ~e.restored
    BY DEF Recorded
  <2>1. PICK x \in Rank, y \in Nat : At(s, q, x, y, w, g) /\ Was(r, i, g, x, y)
    BY <1>5
  <2>2. r # 0 => x # 0
    BY <2>1
  <2>. HIDE DEF Was
  <2> QED
    BY <2>1, <2>2 DEF Path, Recorded
<1> QED
  BY <1>6, <1>7 DEF Path, p

(* The reducer forgets that a window is parked, because it came back or is *)
(* gone: the entry moves on to the mark.                                   *)
LEMMA PathForgotten ==
    ASSUME NEW s, NEW t, NEW q, NEW w, NEW entries, NEW last,
           t.parked[w] = s.parked[w] \/ t.parked[w] = 0,
           t.effects = s.effects,
           \A g \in Nat : Owed(t, w, g) =>
               Owed(s, w, g) \/ (g # 0 /\ g = s.parked[w] /\ t.parked[w] = 0),
           Path(s, q, w, entries, last)
    PROVE  Path(t, q, w, entries, last)
<1>1. ASSUME NEW r \in Rank, NEW i \in Nat, NEW g \in Nat, At(t, q, r, i, w, g)
      PROVE  \/ At(s, q, r, i, w, g)
             \/ r = 0 /\ At(s, q, 1, i, w, g) /\ t.parked[w] = 0
  BY <1>1 DEF At
<1>2. t.parked[w] = 0 => \A i, g \in Nat : ~At(t, q, 1, i, w, g)
  BY DEF At
<1>3. Ordered(t, q, w)
  <2> SUFFICES ASSUME NEW r \in Rank, NEW k \in Rank, NEW i \in Nat, NEW j \in Nat,
                      NEW g \in Nat, NEW h \in Nat,
                      At(t, q, r, i, w, g), At(t, q, k, j, w, h)
               PROVE  /\ Before(r, i, k, j) => g < h
                      /\ r = k /\ i = j /\ r >= 2 => g = h
    BY DEF Ordered
  <2>1. CASE At(s, q, r, i, w, g) /\ At(s, q, k, j, w, h)
    BY <2>1 DEF Path, Ordered
  <2>2. CASE r = 0 /\ At(s, q, 1, i, w, g) /\ At(s, q, k, j, w, h) /\ t.parked[w] = 0
    <3>1. Before(r, i, k, j) => Before(1, i, k, j)
      BY <1>2, <2>2 DEF Before, Rank
    <3> QED
      BY <2>2, <3>1 DEF Path, Ordered, Rank
  <2>3. CASE k = 0
    BY <2>3 DEF Before, Rank
  <2> QED
    BY <1>1, <2>1, <2>2, <2>3
<1>4. Recorded(t, q, w, entries, last)
  BY <1>1 DEF Path, Recorded, Rank
<1> QED
  BY <1>3, <1>4 DEF Path

(* The reducer lets the window leave once its entry is durable: the entry  *)
(* moves on to the move, behind all moves asked for before.                *)
LEMMA PathAcknowledged ==
    ASSUME NEW s \in EngineState, NEW t, NEW q \in Seq(Message), q # << >>,
           NEW v \in Window, NEW n \in Nat, Tells(Head(q), "RecoveryEntryDurable", v, n),
           t.parked = s.parked, t.intents = s.intents,
           t.effects = Append(s.effects, {ParkOf(v, n)}),
           NEW w, NEW entries, NEW last, Path(s, q, w, entries, last)
    PROVE  Path(t, Tail(q), w, entries, last)
<1> DEFINE p == Tail(q)
           len == Len(s.effects)
<1>1. /\ s.effects \in Seq(SUBSET Move) /\ ParkOf(v, n) \in Move /\ len \in Nat
  BY FieldTypes DEF ParkOf, Move
<1>2. /\ Len(t.effects) = len + 1
      /\ \A i \in 1..len + 1 : t.effects[i] = IF i = len + 1 THEN {ParkOf(v, n)}
                                              ELSE s.effects[i]
  BY <1>1
<1>3. \A r \in {2, 4}, i, g \in Nat : At(t, p, r, i, w, g) => At(s, q, r, i + 1, w, g) /\ i >= 1
  <2>1. \A r \in {2, 4}, i, g \in Nat : At(t, p, r, i, w, g) => At(s, p, r, i, w, g) /\ i >= 1
    BY DEF At
  <2> QED
    BY <2>1, TailAt
<1>4. \A r \in {0, 1}, i, g \in Nat : At(t, p, r, i, w, g) => At(s, q, r, i, w, g)
  BY DEF At, Owed
<1>5. ASSUME NEW i \in Nat, NEW g \in Nat, At(t, p, 3, i, w, g)
      PROVE  \/ At(s, q, 3, i, w, g) /\ i <= len
             \/ i = len + 1 /\ w = v /\ g = n
  <2>1. i \in 1..len + 1 /\ ParkOf(w, g) \in t.effects[i]
    BY <1>2, <1>5 DEF At
  <2>2. CASE i = len + 1
    <3>1. ParkOf(w, g) = ParkOf(v, n)
      BY <1>2, <2>1, <2>2
    <3> QED
      BY <2>2, <3>1 DEF ParkOf
  <2>3. CASE i # len + 1
    <3>1. i \in 1..len /\ ParkOf(w, g) \in s.effects[i]
      BY <1>1, <1>2, <2>1, <2>3
    <3> QED
      BY <3>1 DEF At
  <2> QED
    BY <2>2, <2>3
<1>6. w = v => At(s, q, 4, 1, w, n)
  <2>1. 1 \in 1..Len(q) /\ Head(q) = q[1]
    OBVIOUS
  <2> QED
    BY <2>1 DEF At
<1>. HIDE DEF p, len
<1> DEFINE Was(r, i, g, x, y) ==
             \/ r \in {0, 1} /\ x = r /\ y = i
             \/ r \in {2, 4} /\ x = r /\ y = i + 1 /\ i >= 1
             \/ r = 3 /\ x = r /\ y = i /\ i <= len
             \/ r = 3 /\ i = len + 1 /\ g = n /\ x = 4 /\ y = 1
<1>7. ASSUME NEW r \in Rank, NEW i \in Nat, NEW g \in Nat, At(t, p, r, i, w, g)
      PROVE  \E x \in Rank, y \in Nat : At(s, q, x, y, w, g) /\ Was(r, i, g, x, y)
  <2>1. CASE r \in {0, 1}
    <3>1. At(s, q, r, i, w, g) /\ Was(r, i, g, r, i)
      BY <1>4, <1>7, <2>1
    <3> QED
      BY <3>1
  <2>2. CASE r \in {2, 4}
    <3>1. At(s, q, r, i + 1, w, g) /\ Was(r, i, g, r, i + 1) /\ i + 1 \in Nat
      BY <1>3, <1>7, <2>2
    <3> QED
      BY <3>1
  <2>3. CASE r = 3 /\ At(s, q, 3, i, w, g) /\ i <= len
    <3>1. At(s, q, r, i, w, g) /\ Was(r, i, g, r, i)
      BY <2>3
    <3> QED
      BY <3>1
  <2>4. CASE r = 3 /\ i = len + 1 /\ w = v /\ g = n
    <3>1. At(s, q, 4, 1, w, g) /\ Was(r, i, g, 4, 1) /\ 4 \in Rank
      BY <1>6, <2>4 DEF Rank
    <3> QED
      BY <3>1
  <2> QED
    BY <1>5, <1>7, <2>1, <2>2, <2>3, <2>4 DEF Rank
<1>8. Ordered(t, p, w)
  <2> SUFFICES ASSUME NEW r \in Rank, NEW k \in Rank, NEW i \in Nat, NEW j \in Nat,
                      NEW g \in Nat, NEW h \in Nat,
                      At(t, p, r, i, w, g), At(t, p, k, j, w, h)
               PROVE  /\ Before(r, i, k, j) => g < h
                      /\ r = k /\ i = j /\ r >= 2 => g = h
    BY DEF Ordered
  <2>1. PICK x \in Rank, y \in Nat : At(s, q, x, y, w, g) /\ Was(r, i, g, x, y)
    BY <1>7
  <2>2. PICK a \in Rank, b \in Nat : At(s, q, a, b, w, h) /\ Was(k, j, h, a, b)
    BY <1>7
  <2>3. (Before(r, i, k, j) => Before(x, y, a, b)) /\ (r = k /\ i = j => x = a /\ y = b)
    BY <1>1, <2>1, <2>2 DEF Before, Rank
  <2>4. r = k /\ i = j /\ r >= 2 => x >= 2
    BY <2>1
  <2>. HIDE DEF Was
  <2> QED
    BY <2>1, <2>2, <2>3, <2>4 DEF Path, Ordered
<1>9. Recorded(t, p, w, entries, last)
  <2> SUFFICES ASSUME NEW r \in Rank, NEW i \in Nat, NEW g \in Nat, At(t, p, r, i, w, g)
               PROVE  /\ Assigned(entries, last, w, g)
                      /\ r # 0 => \E e \in entries : e.id = g /\ e.window = w /\ ~e.restored
    BY DEF Recorded
  <2>1. PICK x \in Rank, y \in Nat : At(s, q, x, y, w, g) /\ Was(r, i, g, x, y)
    BY <1>7
  <2>2. r # 0 => x # 0
    BY <2>1
  <2>. HIDE DEF Was
  <2> QED
    BY <2>1, <2>2 DEF Path, Recorded
<1> QED
  BY <1>8, <1>9 DEF Path, p

(* The worker acknowledges a fresh entry: it is behind everything.         *)
LEMMA PathDrafted ==
    ASSUME NEW s, NEW q \in Seq(Message), NEW v, NEW last \in Nat,
           NEW m \in Message, Tells(m, "RecoveryEntryDurable", v, last + 1),
           NEW entries, NEW session, \A e \in entries : e.id \in 1..last,
           NEW w, Path(s, q, w, entries, last)
    PROVE  Path(s, Append(q, m), w, L!Recorded(entries, last + 1, v, session), last + 1)
<1> DEFINE p == Append(q, m)
           kept == L!Recorded(entries, last + 1, v, session)
<1>1. \A r \in Rank, i, g \in Nat : At(s, p, r, i, w, g) =>
        \/ At(s, q, r, i, w, g)
        \/ i = Len(q) + 1 /\ r = 4 /\ w = v /\ g = last + 1
  BY AppendAt DEF Tells
<1>2. \A r \in Rank, i, g \in Nat : At(s, q, r, i, w, g) => g < last + 1
  BY DEF Path, Recorded, Assigned
<1>3. \A i, g \in Nat : At(s, q, 4, i, w, g) => i <= Len(q)
  BY DEF At
<1>4. /\ entries \subseteq kept
      /\ \E e \in kept : e.id = last + 1 /\ e.window = v /\ ~e.restored
      /\ \A e \in kept : e \in entries \/ (e.id = last + 1 /\ e.window = v)
  <2> DEFINE new == [id |-> last + 1, window |-> v, session |-> session,
                     parked |-> FALSE, restored |-> FALSE]
  <2>1. new.id = last + 1 /\ new.window = v /\ ~new.restored
    OBVIOUS
  <2>2. kept = entries \cup {new}
    BY DEF L!Recorded
  <2>. HIDE DEF new, kept
  <2> QED
    BY <2>1, <2>2
<1>5. Len(q) \in Nat
  OBVIOUS
<1>. HIDE DEF p, kept
<1>6. Ordered(s, p, w)
  <2> SUFFICES ASSUME NEW r \in Rank, NEW k \in Rank, NEW i \in Nat, NEW j \in Nat,
                      NEW g \in Nat, NEW h \in Nat,
                      At(s, p, r, i, w, g), At(s, p, k, j, w, h)
               PROVE  /\ Before(r, i, k, j) => g < h
                      /\ r = k /\ i = j /\ r >= 2 => g = h
    BY DEF Ordered
  <2>1. CASE At(s, q, r, i, w, g) /\ At(s, q, k, j, w, h)
    BY <2>1 DEF Path, Ordered
  <2>2. CASE At(s, q, r, i, w, g) /\ j = Len(q) + 1 /\ k = 4 /\ h = last + 1
    BY <1>2, <1>3, <1>5, <2>2
  <2>3. CASE At(s, q, k, j, w, h) /\ i = Len(q) + 1 /\ r = 4 /\ g = last + 1
    BY <1>3, <1>5, <2>3 DEF Before, Rank
  <2>4. CASE i = Len(q) + 1 /\ r = 4 /\ g = last + 1 /\ j = Len(q) + 1 /\ k = 4 /\ h = last + 1
    BY <1>5, <2>4 DEF Before
  <2> QED
    BY <1>1, <2>1, <2>2, <2>3, <2>4
<1>7. Recorded(s, p, w, kept, last + 1)
  <2> SUFFICES ASSUME NEW r \in Rank, NEW i \in Nat, NEW g \in Nat, At(s, p, r, i, w, g)
               PROVE  /\ Assigned(kept, last + 1, w, g)
                      /\ r # 0 => \E e \in kept : e.id = g /\ e.window = w /\ ~e.restored
    BY DEF Recorded
  <2>1. CASE At(s, q, r, i, w, g)
    BY <1>2, <1>4, <2>1 DEF Path, Recorded, Assigned
  <2>2. CASE w = v /\ g = last + 1
    BY <1>4, <2>2 DEF Assigned
  <2> QED
    BY <1>1, <2>1, <2>2
<1> QED
  BY <1>6, <1>7 DEF Path, p, kept

-----------------------------------------------------------------------------
(* What the answers say.  The last answer on its way, or else the record,  *)
(* tells whether a window is off the screen.                               *)

Answer(m, w)  == m.event \in {"WindowParked", "WindowRestored"} /\ m.window = w
Answers(q, w) == {i \in 1..Len(q) : Answer(q[i], w)}

Told(s, q, w) ==
    \/ Answers(q, w) = {} /\ s.parked[w] # 0
    \/ \E i \in Answers(q, w) :
         q[i].event = "WindowParked" /\ \A j \in Answers(q, w) : j <= i

(* This process has never parked the window.                               *)
Untouched(s, q, w) ==
    s.parked[w] = 0 /\ Answers(q, w) = {} /\ \A g \in Nat : ~Owed(s, w, g)

(* A live window is where it is told to be; only what an earlier process   *)
(* left parked is away unknown to this one.                                *)
Books(s, q, w, life, place, session) ==
    life \notin {"Unopened", "Closed"} =>
        /\ Told(s, q, w) => place = "Parked"
        /\ place = "Parked" => Told(s, q, w) \/ (session > 1 /\ Untouched(s, q, w))

LEMMA ToldAppend ==
    ASSUME NEW s, NEW q \in Seq(Message), NEW m \in Message, NEW w
    PROVE  /\ Answer(m, w) => /\ Told(s, Append(q, m), w) <=> m.event = "WindowParked"
                              /\ ~Untouched(s, Append(q, m), w)
           /\ ~Answer(m, w) => /\ Told(s, Append(q, m), w) <=> Told(s, q, w)
                               /\ Untouched(s, Append(q, m), w) <=> Untouched(s, q, w)
<1> DEFINE p == Append(q, m)
<1>1. Len(p) = Len(q) + 1 /\ Len(q) \in Nat
  OBVIOUS
<1>2. \A j \in 1..Len(q) + 1 : p[j] = IF j = Len(q) + 1 THEN m ELSE q[j]
  OBVIOUS
<1>. HIDE DEF p
<1>3. CASE Answer(m, w)
  <2>1. Len(q) + 1 \in Answers(p, w) /\ \A j \in Answers(p, w) : j <= Len(q) + 1
    BY <1>1, <1>2, <1>3 DEF Answers
  <2>2. p[Len(q) + 1] = m
    BY <1>1, <1>2
  <2>3. Told(s, p, w) <=> m.event = "WindowParked"
    <3>1. ASSUME NEW i \in Answers(p, w), \A j \in Answers(p, w) : j <= i
          PROVE  i = Len(q) + 1
      BY <1>1, <2>1, <3>1 DEF Answers
    <3> QED
      BY <2>1, <2>2, <3>1 DEF Told
  <2> QED
    BY <1>3, <2>1, <2>3 DEF Untouched, p
<1>4. CASE ~Answer(m, w)
  <2>1. Answers(p, w) = Answers(q, w) /\ \A j \in Answers(q, w) : p[j] = q[j]
    BY <1>1, <1>2, <1>4 DEF Answers
  <2> QED
    BY <1>4, <2>1 DEF Told, Untouched, p
<1> QED
  BY <1>3, <1>4

LEMMA ToldTail ==
    ASSUME NEW s, NEW t, NEW q \in Seq(Message), q # << >>, NEW w,
           IF Answer(Head(q), w)
           THEN t.parked[w] # 0 <=> Head(q).event = "WindowParked"
           ELSE t.parked[w] = s.parked[w]
    PROVE  /\ Told(t, Tail(q), w) <=> Told(s, q, w)
           /\ Untouched(s, q, w) => ~Answer(Head(q), w) /\ Answers(Tail(q), w) = {}
<1> DEFINE p == Tail(q)
<1>1. Len(p) = Len(q) - 1 /\ Len(q) \in Nat /\ Len(q) >= 1 /\ Head(q) = q[1]
  OBVIOUS
<1>2. \A j \in 1..Len(q) - 1 : p[j] = q[j + 1]
  OBVIOUS
<1>. HIDE DEF p
<1>3. \A j \in Nat : j \in Answers(p, w) <=> j + 1 \in Answers(q, w) /\ j + 1 # 1
  BY <1>1, <1>2 DEF Answers
<1>4. 1 \in Answers(q, w) <=> Answer(Head(q), w)
  BY <1>1 DEF Answers
<1>5. /\ \A j \in Answers(p, w) : j \in Nat /\ j >= 1 /\ p[j] = q[j + 1]
      /\ \A j \in Answers(q, w) : j \in Nat /\ j >= 1 /\ (j # 1 => j - 1 \in Nat /\ j = (j - 1) + 1)
  BY <1>1, <1>2 DEF Answers
<1>6. CASE Answers(p, w) = {}
  <2>1. Answers(q, w) = IF Answer(Head(q), w) THEN {1} ELSE {}
    BY <1>3, <1>4, <1>5, <1>6
  <2> QED
    BY <1>1, <1>6, <2>1 DEF Told, Untouched, Answer, p
<1>7. CASE Answers(p, w) # {}
  <2>1. PICK k \in Answers(p, w) : TRUE
    BY <1>7
  <2>2. k + 1 \in Answers(q, w) /\ k + 1 > 1
    BY <1>3, <1>5, <2>1
  <2>3. ASSUME Told(t, p, w)
        PROVE  Told(s, q, w)
    <3>1. PICK i \in Answers(p, w) :
            p[i].event = "WindowParked" /\ \A j \in Answers(p, w) : j <= i
      BY <1>7, <2>3 DEF Told
    <3>2. i + 1 \in Answers(q, w) /\ q[i + 1].event = "WindowParked"
      BY <1>3, <1>5, <3>1
    <3>3. ASSUME NEW j \in Answers(q, w)
          PROVE  j <= i + 1
      <4>1. CASE j = 1
        <5>1. i \in Nat
          BY <1>5, <3>1
        <5> QED
          BY <4>1, <5>1
      <4>2. CASE j # 1
        <5>1. j - 1 \in Answers(p, w)
          BY <1>3, <1>5, <4>2
        <5>2. i \in Nat /\ j \in Nat /\ j - 1 <= i
          BY <1>5, <3>1, <5>1
        <5> QED
          BY <5>2
      <4> QED
        BY <4>1, <4>2
    <3> QED
      BY <3>2, <3>3 DEF Told
  <2>4. ASSUME Told(s, q, w)
        PROVE  Told(t, p, w)
    <3>1. PICK i \in Answers(q, w) :
            q[i].event = "WindowParked" /\ \A j \in Answers(q, w) : j <= i
      BY <2>2, <2>4 DEF Told
    <3>2. i # 1
      BY <1>5, <2>1, <2>2, <3>1
    <3>3. i - 1 \in Answers(p, w) /\ p[i - 1] = q[i]
      BY <1>3, <1>5, <3>1, <3>2
    <3>4. \A j \in Answers(p, w) : j <= i - 1
      BY <1>3, <1>5, <3>1
    <3> QED
      BY <3>1, <3>3, <3>4 DEF Told
  <2>5. ~Untouched(s, q, w)
    BY <2>2 DEF Untouched
  <2> QED
    BY <2>3, <2>4, <2>5 DEF p
<1> QED
  BY <1>6, <1>7

(* What the enumerations say.  While a window is not closed it is only     *)
(* ever found again: no report on its way forgets it, and the reducer      *)
(* parks nothing it does not know.                                         *)

Reports(m) == m.event \in {"WindowsObserved", "Plug", "Wake"}

Held(s, q, w) == \E r \in 1..3, i, g \in Nat : At(s, q, r, i, w, g)

Seen(s, q, w, life) ==
    life # "Closed" =>
        /\ s.life[w] # "Gone" =>
             \A i \in 1..Len(q) : Reports(q[i]) => q[i].life[w] # "Gone"
        /\ \A i, j \in 1..Len(q) :
             i < j /\ Reports(q[i]) /\ Reports(q[j]) /\ q[i].life[w] # "Gone" =>
                 q[j].life[w] # "Gone"
        /\ life = "Unopened" =>
             /\ s.life[w] = "Gone"
             /\ \A i \in 1..Len(q) : Reports(q[i]) => q[i].life[w] = "Gone"
        /\ s.life[w] = "Gone" => ~Held(s, q, w)

LEMMA SeenTail ==
    ASSUME NEW s, NEW t, NEW q \in Seq(Message), q # << >>, NEW w, NEW life,
           \/ t.life[w] = s.life[w]
           \/ Reports(Head(q)) /\ t.life[w] = Head(q).life[w],
           s.life[w] = "Gone" /\ Held(t, Tail(q), w) => Held(s, q, w),
           Seen(s, q, w, life)
    PROVE  Seen(t, Tail(q), w, life)
<1> DEFINE p == Tail(q)
<1>1. Len(p) = Len(q) - 1 /\ Len(q) \in Nat /\ Len(q) >= 1 /\ Head(q) = q[1]
  OBVIOUS
<1>2. \A j \in 1..Len(q) - 1 : p[j] = q[j + 1] /\ j + 1 \in 1..Len(q) /\ 1 < j + 1
  BY <1>1
<1>3. 1 \in 1..Len(q)
  BY <1>1
<1>. HIDE DEF p
<1>4. ASSUME life # "Closed", t.life[w] # "Gone", NEW i \in 1..Len(p), Reports(p[i])
      PROVE  p[i].life[w] # "Gone"
  BY <1>1, <1>2, <1>3, <1>4 DEF Seen
<1>5. ASSUME life # "Closed", NEW i \in 1..Len(p), NEW j \in 1..Len(p),
             i < j, Reports(p[i]), Reports(p[j]), p[i].life[w] # "Gone"
      PROVE  p[j].life[w] # "Gone"
  <2>1. i + 1 \in 1..Len(q) /\ j + 1 \in 1..Len(q) /\ i + 1 < j + 1
    BY <1>1, <1>2, <1>5
  <2> QED
    BY <1>1, <1>2, <1>5, <2>1 DEF Seen
<1>6. ASSUME life = "Unopened"
      PROVE  t.life[w] = "Gone" /\ \A i \in 1..Len(p) : Reports(p[i]) => p[i].life[w] = "Gone"
  BY <1>1, <1>2, <1>3, <1>6 DEF Seen
<1>7. ASSUME life # "Closed", t.life[w] = "Gone"
      PROVE  ~Held(t, p, w)
  <2>1. s.life[w] = "Gone"
    BY <1>1, <1>3, <1>7 DEF Seen
  <2> QED
    BY <1>7, <2>1 DEF Seen, p
<1> QED
  BY <1>4, <1>5, <1>6, <1>7 DEF Seen, p

LEMMA SeenAppend ==
    ASSUME NEW s, NEW t, NEW q \in Seq(Message), NEW m \in Message, NEW w, NEW life,
           t.life[w] = s.life[w],
           Held(t, Append(q, m), w) => Held(s, q, w),
           Reports(m) /\ life # "Closed" => (m.life[w] = "Gone" <=> life = "Unopened"),
           Seen(s, q, w, life)
    PROVE  Seen(t, Append(q, m), w, life)
<1> DEFINE p == Append(q, m)
<1>1. Len(p) = Len(q) + 1 /\ Len(q) \in Nat
  OBVIOUS
<1>2. \A j \in 1..Len(q) + 1 : p[j] = IF j = Len(q) + 1 THEN m ELSE q[j]
  OBVIOUS
<1>. HIDE DEF p
<1>3. ASSUME life # "Closed", t.life[w] # "Gone", NEW i \in 1..Len(p), Reports(p[i])
      PROVE  p[i].life[w] # "Gone"
  BY <1>1, <1>2, <1>3 DEF Seen
<1>4. ASSUME life # "Closed", NEW i \in 1..Len(p), NEW j \in 1..Len(p),
             i < j, Reports(p[i]), Reports(p[j]), p[i].life[w] # "Gone"
      PROVE  p[j].life[w] # "Gone"
  <2>1. i \in 1..Len(q) /\ p[i] = q[i]
    BY <1>1, <1>2, <1>4
  <2>2. CASE j = Len(q) + 1
    BY <1>1, <1>2, <1>4, <2>1, <2>2 DEF Seen
  <2>3. CASE j # Len(q) + 1
    <3>1. j \in 1..Len(q) /\ p[j] = q[j]
      BY <1>1, <1>2, <2>3
    <3> QED
      BY <1>4, <2>1, <3>1 DEF Seen
  <2> QED
    BY <2>2, <2>3
<1>5. ASSUME life = "Unopened"
      PROVE  t.life[w] = "Gone" /\ \A i \in 1..Len(p) : Reports(p[i]) => p[i].life[w] = "Gone"
  BY <1>1, <1>2, <1>5 DEF Seen
<1>6. ASSUME life # "Closed", t.life[w] = "Gone"
      PROVE  ~Held(t, p, w)
  BY <1>6 DEF Seen, p
<1> QED
  BY <1>3, <1>4, <1>5, <1>6 DEF Seen, p

(* Reading the same channel: windows open and close, the reducer plans.    *)
LEMMA SeenStay ==
    ASSUME NEW s, NEW t, NEW q, NEW w, NEW life, NEW next,
           t.life[w] = s.life[w],
           next # life => next # "Unopened" /\ life # "Closed",
           Held(t, q, w) => Held(s, q, w),
           Seen(s, q, w, life)
    PROVE  Seen(t, q, w, next)
BY DEF Seen

LEMMA HeldPlans ==
    ASSUME NEW s \in EngineState, NEW t, NEW q, NEW w, Plans(s, t), Held(t, q, w)
    PROVE  Held(s, q, w)
<1>1. PICK r \in 1..3, i \in Nat, g \in Nat : At(t, q, r, i, w, g)
  BY DEF Held
<1>2. At(s, q, r, i, w, g)
  BY <1>1, PlansAt DEF Rank
<1> QED
  BY <1>2 DEF Held

LEMMA HeldTail ==
    ASSUME NEW s, NEW q \in Seq(Message), q # << >>, NEW w, Held(s, Tail(q), w)
    PROVE  Held(s, q, w)
<1>1. PICK r \in 1..3, i \in Nat, g \in Nat : At(s, Tail(q), r, i, w, g)
  BY DEF Held
<1>2. CASE r = 2
  <2>1. At(s, Tail(q), 2, i, w, g)
    BY <1>1, <1>2
  <2>2. At(s, q, 2, i + 1, w, g)
    BY <2>1, TailAt
  <2>3. i + 1 \in Nat /\ 2 \in 1..3
    OBVIOUS
  <2> QED
    BY <2>2, <2>3 DEF Held
<1>3. CASE r # 2
  <2>1. r \in {0, 1, 3}
    BY <1>3
  <2>2. At(s, q, r, i, w, g)
    BY <1>1, <2>1, TailAt
  <2> QED
    BY <2>2 DEF Held
<1> QED
  BY <1>2, <1>3

LEMMA HeldAppend ==
    ASSUME NEW s, NEW q \in Seq(Message), NEW m \in Message, NEW w,
           ~(m.event = "WindowParked" /\ m.window = w), Held(s, Append(q, m), w)
    PROVE  Held(s, q, w)
<1>1. PICK r \in 1..3, i \in Nat, g \in Nat : At(s, Append(q, m), r, i, w, g)
  BY DEF Held
<1>2. r \in Rank /\ r # 4
  BY DEF Rank
<1>3. At(s, q, r, i, w, g)
  BY <1>1, <1>2, AppendAt DEF Tells
<1> QED
  BY <1>3 DEF Held

LEMMA HeldForgotten ==
    ASSUME NEW s, NEW t, NEW q, NEW w,
           t.parked[w] = s.parked[w] \/ t.parked[w] = 0,
           t.effects = s.effects, Held(t, q, w)
    PROVE  Held(s, q, w)
<1>1. PICK r \in 1..3, i \in Nat, g \in Nat : At(t, q, r, i, w, g)
  BY DEF Held
<1>2. At(s, q, r, i, w, g)
  BY <1>1 DEF At
<1> QED
  BY <1>2 DEF Held

(* An item of a queue that a batch was pushed to.                          *)
LEMMA PushItems ==
    ASSUME NEW S, NEW queue \in Seq(SUBSET S), NEW batch \in SUBSET S,
           NEW k \in 1..Len(Push(queue, batch)), NEW x \in Push(queue, batch)[k]
    PROVE  x \in batch \/ (k \in 1..Len(queue) /\ x \in queue[k])
<1>1. CASE batch = {}
  BY <1>1 DEF Push
<1>2. CASE batch # {}
  <2>1. Push(queue, batch) = Append(queue, batch)
    BY <1>2 DEF Push
  <2>2. k \in 1..Len(queue) + 1 /\ x \in Append(queue, batch)[k]
    BY <2>1
  <2>3. Append(queue, batch)[k] = IF k = Len(queue) + 1 THEN batch ELSE queue[k]
    BY <2>2
  <2> QED
    BY <2>2, <2>3
<1> QED
  BY <1>1, <1>2

-----------------------------------------------------------------------------
(* All of it, of one window: the ledger, the queues, the record and the    *)
(* desktop agree.                                                          *)
Flow(s, q, w, life, place, entries, last, session) ==
    /\ Path(s, q, w, entries, last)
    /\ Seen(s, q, w, life)
    /\ Books(s, q, w, life, place, session)

LEMMA FlowPlans ==
    ASSUME NEW s \in EngineState, NEW t, NEW q, NEW w, NEW life, NEW place,
           NEW entries, NEW last, NEW session,
           Plans(s, t), Flow(s, q, w, life, place, entries, last, session)
    PROVE  Flow(t, q, w, life, place, entries, last, session)
<1>1. t.parked = s.parked /\ t.life = s.life
  BY DEF Plans
<1>2. Path(t, q, w, entries, last)
  BY PathPlans DEF Flow
<1>3. Seen(t, q, w, life)
  BY <1>1, HeldPlans, SeenStay DEF Flow
<1>4. Told(t, q, w) <=> Told(s, q, w)
  BY <1>1 DEF Told
<1>5. Untouched(s, q, w) => Untouched(t, q, w)
  <2>1. \A g \in Nat : Owed(t, w, g) => Owed(s, w, g)
    <3> SUFFICES ASSUME NEW g \in Nat, Owed(t, w, g)
                 PROVE  Owed(s, w, g)
      OBVIOUS
    <3>1. At(t, q, 0, 0, w, g) /\ 0 \in Rank
      BY DEF At, Rank
    <3>2. At(s, q, 0, 0, w, g)
      BY <3>1, PlansAt
    <3> QED
      BY <3>2 DEF At
  <2> QED
    BY <1>1, <2>1 DEF Untouched
<1>6. Books(t, q, w, life, place, session)
  BY <1>4, <1>5 DEF Books, Flow
<1> QED
  BY <1>2, <1>3, <1>6 DEF Flow

(* An event that is not about the window leaves the channel.               *)
LEMMA FlowTail ==
    ASSUME NEW s, NEW q \in Seq(Message), q # << >>, NEW w, NEW life, NEW place,
           NEW entries, NEW last, NEW session, ~Answer(Head(q), w),
           Flow(s, q, w, life, place, entries, last, session)
    PROVE  Flow(s, Tail(q), w, life, place, entries, last, session)
<1>1. Path(s, Tail(q), w, entries, last)
  BY PathTail DEF Flow
<1>2. Seen(s, Tail(q), w, life)
  BY HeldTail, SeenTail DEF Flow
<1>3. /\ Told(s, Tail(q), w) <=> Told(s, q, w)
      /\ Untouched(s, q, w) => Untouched(s, Tail(q), w)
  BY ToldTail DEF Untouched
<1> QED
  BY <1>1, <1>2, <1>3 DEF Flow, Books

(* WindowParked, up to what it plans.                                      *)
LEMMA FlowHeard ==
    ASSUME NEW s \in EngineState, NEW t, NEW q \in Seq(Message), q # << >>, NEW v \in Window,
           NEW n \in Nat, Tells(Head(q), "WindowParked", v, n),
           t.parked = [s.parked EXCEPT ![v] = n], t.life = s.life, t.effects = s.effects,
           t.intents = Append(s.intents, {[kind |-> "MarkParked", window |-> v, number |-> n]}),
           NEW w \in Window, NEW life, NEW place, NEW entries, NEW last \in Nat, NEW session,
           Flow(s, q, w, life, place, entries, last, session)
    PROVE  Flow(t, Tail(q), w, life, place, entries, last, session)
<1>1. s.intents \in Seq(SUBSET Intent) /\ s.parked \in [Window -> Nat]
  BY FieldTypes
<1>2. ASSUME NEW g \in Nat, Owed(t, w, g)
      PROVE  Owed(s, w, g)
  <2> DEFINE new == {[kind |-> "MarkParked", window |-> v, number |-> n]}
  <2>1. MarkOf(w, g) \notin new
    BY DEF MarkOf
  <2>2. PICK k \in 1..Len(t.intents) : MarkOf(w, g) \in t.intents[k]
    BY <1>2 DEF Owed
  <2>3. new \in SUBSET Intent
    BY DEF Intent
  <2>4. t.intents = Append(s.intents, new)
    OBVIOUS
  <2>. HIDE DEF new
  <2>5. k \in 1..Len(s.intents) /\ MarkOf(w, g) \in s.intents[k]
    BY <1>1, <2>1, <2>2, <2>3, <2>4
  <2> QED
    BY <2>5 DEF Owed
<1>3. At(s, q, 2, 1, v, n)
  <2>1. 1 \in 1..Len(q) /\ Head(q) = q[1]
    OBVIOUS
  <2> QED
    BY <2>1 DEF At
<1>4. CASE w = v
  <2>1. t.parked[w] = n
    BY <1>1, <1>4
  <2>2. Path(t, Tail(q), w, entries, last)
    BY <1>2, <1>4, <2>1, PathHeard DEF Flow
  <2>3. Held(s, q, w)
    <3>1. 2 \in 1..3 /\ 1 \in Nat
      OBVIOUS
    <3> QED
      BY <1>3, <1>4, <3>1 DEF Held
  <2>4. Seen(t, Tail(q), w, life)
    BY <2>3, SeenTail DEF Flow
  <2>5. Answer(Head(q), w) /\ Head(q).event = "WindowParked"
    BY <1>4 DEF Tells, Answer
  <2>6. n # 0
    BY <1>3, <1>4 DEF Flow, Path, Recorded, Assigned, Rank
  <2>7. (Told(t, Tail(q), w) <=> Told(s, q, w)) /\ ~Untouched(s, q, w)
    BY <2>1, <2>5, <2>6, ToldTail
  <2> QED
    BY <2>2, <2>4, <2>7 DEF Flow, Books
<1>5. CASE w # v
  <2>1. t.parked[w] = s.parked[w]
    BY <1>1, <1>5
  <2>2. Path(t, q, w, entries, last)
    BY <1>2, <2>1, PathForgotten DEF Flow
  <2>3. Path(t, Tail(q), w, entries, last)
    BY <2>2, PathTail
  <2>4. Held(t, Tail(q), w) => Held(s, q, w)
    <3>1. Held(t, q, w) => Held(s, q, w)
      BY <2>1, HeldForgotten
    <3> QED
      BY <3>1, HeldTail
  <2>5. Seen(t, Tail(q), w, life)
    BY <2>4, SeenTail DEF Flow
  <2>6. ~Answer(Head(q), w)
    BY <1>5 DEF Tells, Answer
  <2>7. /\ Told(t, Tail(q), w) <=> Told(s, q, w)
        /\ Untouched(s, q, w) => Untouched(t, Tail(q), w)
    BY <1>2, <2>1, <2>6, ToldTail DEF Untouched
  <2> QED
    BY <2>3, <2>5, <2>7 DEF Flow, Books
<1> QED
  BY <1>4, <1>5

(* WindowRestored, up to what it plans.                                    *)
LEMMA FlowReturned ==
    ASSUME NEW s \in EngineState, NEW t, NEW q \in Seq(Message), q # << >>, NEW v \in Window,
           Head(q).event = "WindowRestored", Head(q).window = v,
           t.parked = [s.parked EXCEPT ![v] = 0], t.life = s.life, t.effects = s.effects,
           t.intents = Push(s.intents, {[kind |-> "MarkRestored", window |-> x,
                                         number |-> s.parked[x]] : x \in {v} \cap Parked(s)}),
           NEW w \in Window, NEW life, NEW place, NEW entries, NEW last \in Nat, NEW session,
           Flow(s, q, w, life, place, entries, last, session)
    PROVE  Flow(t, Tail(q), w, life, place, entries, last, session)
<1>1. s.intents \in Seq(SUBSET Intent) /\ s.parked \in [Window -> Nat]
  BY FieldTypes
<1>2. ASSUME NEW g \in Nat, Owed(t, w, g)
      PROVE  Owed(s, w, g) \/ (w = v /\ g # 0 /\ g = s.parked[w])
  <2> DEFINE new == {[kind |-> "MarkRestored", window |-> x, number |-> s.parked[x]]
                       : x \in {v} \cap Parked(s)}
  <2>1. MarkOf(w, g) \in new => w = v /\ g # 0 /\ g = s.parked[w]
    BY DEF MarkOf, Parked
  <2>2. PICK k \in 1..Len(t.intents) : MarkOf(w, g) \in t.intents[k]
    BY <1>2 DEF Owed
  <2>3. new \in SUBSET Intent
    BY <1>1 DEF Intent, Parked
  <2>4. t.intents = Push(s.intents, new)
    OBVIOUS
  <2>. HIDE DEF new
  <2>5. MarkOf(w, g) \in new \/ (k \in 1..Len(s.intents) /\ MarkOf(w, g) \in s.intents[k])
    BY <1>1, <2>2, <2>3, <2>4, PushItems
  <2> QED
    BY <2>1, <2>5 DEF Owed
<1>3. t.parked[w] = s.parked[w] \/ t.parked[w] = 0
  BY <1>1
<1>4. w = v => t.parked[w] = 0
  BY <1>1
<1>5. Path(t, q, w, entries, last)
  BY <1>2, <1>3, <1>4, PathForgotten DEF Flow
<1>6. Path(t, Tail(q), w, entries, last)
  BY <1>5, PathTail
<1>7. Held(t, Tail(q), w) => Held(s, q, w)
  <2>1. Held(t, q, w) => Held(s, q, w)
    BY <1>3, HeldForgotten
  <2> QED
    BY <2>1, HeldTail
<1>8. Seen(t, Tail(q), w, life)
  BY <1>7, SeenTail DEF Flow
<1>9. /\ Told(t, Tail(q), w) <=> Told(s, q, w)
      /\ Untouched(s, q, w) => Untouched(t, Tail(q), w)
  <2>1. CASE w = v
    <3>1. Answer(Head(q), w) /\ Head(q).event # "WindowParked"
      BY <2>1 DEF Answer
    <3> QED
      BY <1>4, <2>1, <3>1, ToldTail
  <2>2. CASE w # v
    <3>1. ~Answer(Head(q), w) /\ t.parked[w] = s.parked[w]
      BY <1>1, <2>2 DEF Answer
    <3> QED
      BY <1>2, <2>2, <3>1, ToldTail DEF Untouched
  <2> QED
    BY <2>1, <2>2
<1> QED
  BY <1>6, <1>8, <1>9 DEF Flow, Books

(* RecoveryEntryDurable for a managed window, up to what it plans.         *)
LEMMA FlowAcknowledged ==
    ASSUME NEW s \in EngineState, NEW t, NEW q \in Seq(Message), q # << >>, NEW v \in Window,
           NEW n \in Nat, Tells(Head(q), "RecoveryEntryDurable", v, n),
           s.life[v] # "Gone",
           t.parked = s.parked, t.life = s.life, t.intents = s.intents,
           t.effects = Append(s.effects, {ParkOf(v, n)}),
           NEW w \in Window, NEW life, NEW place, NEW entries, NEW last, NEW session,
           Flow(s, q, w, life, place, entries, last, session)
    PROVE  Flow(t, Tail(q), w, life, place, entries, last, session)
<1>1. Path(t, Tail(q), w, entries, last)
  BY PathAcknowledged DEF Flow
<1>2. s.life[w] = "Gone" /\ Held(t, Tail(q), w) => Held(s, q, w)
  <2> SUFFICES ASSUME s.life[w] = "Gone", Held(t, Tail(q), w)
               PROVE  Held(s, q, w)
    OBVIOUS
  <2>1. PICK r \in 1..3, i \in Nat, g \in Nat : At(t, Tail(q), r, i, w, g)
    BY DEF Held
  <2>2. At(s, Tail(q), r, i, w, g)
    <3>1. CASE r # 3
      BY <2>1, <3>1 DEF At, Owed
    <3>2. CASE r = 3
      <4>1. s.effects \in Seq(SUBSET Move) /\ {ParkOf(v, n)} \in SUBSET Move
        BY FieldTypes DEF ParkOf, Move
      <4>2. t.effects = Push(s.effects, {ParkOf(v, n)})
        BY DEF Push
      <4>3. i \in 1..Len(t.effects) /\ ParkOf(w, g) \in t.effects[i]
        BY <2>1, <3>2 DEF At
      <4>4. ParkOf(w, g) \notin {ParkOf(v, n)}
        BY DEF ParkOf
      <4>5. i \in 1..Len(s.effects) /\ ParkOf(w, g) \in s.effects[i]
        BY <4>1, <4>2, <4>3, <4>4, PushItems
      <4> QED
        BY <3>2, <4>5 DEF At
    <3> QED
      BY <3>1, <3>2
  <2>3. Held(s, Tail(q), w)
    BY <2>2 DEF Held
  <2> QED
    BY <2>3, HeldTail
<1>3. Seen(t, Tail(q), w, life)
  BY <1>2, SeenTail DEF Flow
<1>4. ~Answer(Head(q), w)
  BY DEF Tells, Answer
<1>5. /\ Told(t, Tail(q), w) <=> Told(s, q, w)
      /\ Untouched(s, q, w) => Untouched(t, Tail(q), w)
  BY <1>4, ToldTail DEF Untouched, Owed
<1> QED
  BY <1>1, <1>3, <1>5 DEF Flow, Books

(* replace_inventory_from_observations, up to what it plans: a window that *)
(* is gone is forgotten, and no live window is.                            *)
LEMMA FlowObserved ==
    ASSUME NEW s \in EngineState, NEW t, NEW q \in Seq(Message), q # << >>,
           Reports(Head(q)), t.life = Head(q).life, t.effects = s.effects,
           t.parked = [x \in Window |-> IF t.life[x] # "Gone" THEN s.parked[x] ELSE 0],
           t.intents = Push(s.intents, {[kind |-> "MarkRestored", window |-> x,
                                         number |-> s.parked[x]]
                                           : x \in {y \in Parked(s) : t.life[y] = "Gone"}}),
           NEW w \in Window, NEW life, NEW place, NEW entries, NEW last, NEW session,
           Flow(s, q, w, life, place, entries, last, session)
    PROVE  Flow(t, Tail(q), w, life, place, entries, last, session)
<1>1. s.intents \in Seq(SUBSET Intent) /\ s.parked \in [Window -> Nat]
  BY FieldTypes
<1>2. ASSUME NEW g \in Nat, Owed(t, w, g)
      PROVE  \/ Owed(s, w, g)
             \/ g # 0 /\ g = s.parked[w] /\ t.life[w] = "Gone"
  <2> DEFINE new == {[kind |-> "MarkRestored", window |-> x, number |-> s.parked[x]]
                       : x \in {y \in Parked(s) : t.life[y] = "Gone"}}
  <2>1. MarkOf(w, g) \in new => g # 0 /\ g = s.parked[w] /\ t.life[w] = "Gone"
    BY DEF MarkOf, Parked
  <2>2. PICK k \in 1..Len(t.intents) : MarkOf(w, g) \in t.intents[k]
    BY <1>2 DEF Owed
  <2>3. new \in SUBSET Intent
    BY <1>1 DEF Intent, Parked
  <2>4. t.intents = Push(s.intents, new)
    OBVIOUS
  <2>. HIDE DEF new
  <2>5. MarkOf(w, g) \in new \/ (k \in 1..Len(s.intents) /\ MarkOf(w, g) \in s.intents[k])
    BY <1>1, <2>2, <2>3, <2>4, PushItems
  <2> QED
    BY <2>1, <2>5 DEF Owed
<1>3. t.parked[w] = IF t.life[w] # "Gone" THEN s.parked[w] ELSE 0
  OBVIOUS
<1>4. Path(t, q, w, entries, last)
  BY <1>2, <1>3, PathForgotten DEF Flow
<1>5. Path(t, Tail(q), w, entries, last)
  BY <1>4, PathTail
<1>6. Held(t, Tail(q), w) => Held(s, q, w)
  <2>1. Held(t, q, w) => Held(s, q, w)
    BY <1>3, HeldForgotten
  <2> QED
    BY <2>1, HeldTail
<1>7. Seen(t, Tail(q), w, life)
  BY <1>6, SeenTail DEF Flow
<1>8. ASSUME life \notin {"Unopened", "Closed"}
      PROVE  s.parked[w] # 0 => t.life[w] # "Gone"
  <2> SUFFICES ASSUME s.parked[w] # 0
               PROVE  t.life[w] # "Gone"
    OBVIOUS
  <2>1. Held(s, q, w)
    <3>1. s.parked[w] \in Nat /\ At(s, q, 1, 0, w, s.parked[w])
      BY <1>1 DEF At
    <3>2. 1 \in 1..3 /\ 0 \in Nat
      OBVIOUS
    <3> QED
      BY <3>1, <3>2 DEF Held
  <2>2. 1 \in 1..Len(q) /\ Head(q) = q[1]
    OBVIOUS
  <2> QED
    BY <1>8, <2>1, <2>2 DEF Flow, Seen
<1>9. ASSUME life \notin {"Unopened", "Closed"}
      PROVE  /\ Told(t, Tail(q), w) <=> Told(s, q, w)
             /\ Untouched(s, q, w) => Untouched(t, Tail(q), w)
  <2>1. t.parked[w] = s.parked[w]
    BY <1>3, <1>8, <1>9
  <2>2. ~Answer(Head(q), w)
    BY DEF Answer, Reports
  <2>3. \A g \in Nat : Owed(t, w, g) => Owed(s, w, g)
    BY <1>2, <1>8, <1>9
  <2> QED
    BY <2>1, <2>2, <2>3, ToldTail DEF Untouched
<1> QED
  BY <1>5, <1>7, <1>9 DEF Flow, Books

(* A window opens, closes or changes on the screen.                        *)
LEMMA FlowChanges ==
    ASSUME NEW s \in EngineState, NEW q \in Seq(Message), NEW w \in Window, NEW life, NEW next,
           NEW place, NEW entries, NEW last, NEW session,
           next # life => next # "Unopened" /\ life # "Closed",
           life = "Unopened" => place = "Screen",
           Flow(s, q, w, life, place, entries, last, session)
    PROVE  Flow(s, q, w, next, place, entries, last, session)
<1>1. s.parked \in [Window -> Nat]
  BY FieldTypes
<1>2. Seen(s, q, w, next)
  BY SeenStay DEF Flow
<1>3. life = "Unopened" => ~Told(s, q, w)
  <2> SUFFICES ASSUME life = "Unopened", Told(s, q, w)
               PROVE  FALSE
    OBVIOUS
  <2>1. ~Held(s, q, w)
    BY DEF Flow, Seen
  <2>2. CASE s.parked[w] # 0
    <3>1. s.parked[w] \in Nat /\ At(s, q, 1, 0, w, s.parked[w])
      BY <1>1, <2>2 DEF At
    <3>2. 1 \in 1..3 /\ 0 \in Nat
      OBVIOUS
    <3> QED
      BY <2>1, <3>1, <3>2 DEF Held
  <2>3. CASE s.parked[w] = 0
    <3>1. PICK i \in Answers(q, w) : q[i].event = "WindowParked"
      BY <2>3 DEF Told
    <3>2. i \in 1..Len(q) /\ q[i].window = w /\ q[i] \in Message
      BY <3>1 DEF Answers, Answer
    <3>3. q[i].entry \in Nat
      BY <3>1, <3>2 DEF Message
    <3>4. At(s, q, 2, i, w, q[i].entry)
      BY <3>1, <3>2 DEF At, Tells
    <3>5. 2 \in 1..3 /\ i \in Nat
      BY <3>2
    <3> QED
      BY <2>1, <3>3, <3>4, <3>5 DEF Held
  <2> QED
    BY <2>2, <2>3
<1>4. Books(s, q, w, next, place, session)
  BY <1>3 DEF Flow, Books
<1> QED
  BY <1>2, <1>4 DEF Flow

(* A message that brings nothing home joins the channel.                   *)
LEMMA FlowAppend ==
    ASSUME NEW s, NEW q \in Seq(Message), NEW m \in Message, NEW w, NEW life, NEW place,
           NEW entries, NEW last, NEW session,
           ~Answer(m, w), m.event = "RecoveryEntryDurable" => m.window # w,
           Reports(m) /\ life # "Closed" => (m.life[w] = "Gone" <=> life = "Unopened"),
           Flow(s, q, w, life, place, entries, last, session)
    PROVE  Flow(s, Append(q, m), w, life, place, entries, last, session)
<1>1. Path(s, Append(q, m), w, entries, last)
  BY PathAppend DEF Flow, Answer
<1>2. Seen(s, Append(q, m), w, life)
  BY HeldAppend, SeenAppend DEF Flow, Answer
<1>3. Books(s, Append(q, m), w, life, place, session)
  BY ToldAppend DEF Flow, Books
<1> QED
  BY <1>1, <1>2, <1>3 DEF Flow

(* The worker acknowledges a fresh entry.                                  *)
LEMMA FlowDrafted ==
    ASSUME NEW s, NEW q \in Seq(Message), NEW v, NEW last \in Nat,
           NEW m \in Message, Tells(m, "RecoveryEntryDurable", v, last + 1),
           NEW w, NEW life, NEW place, NEW entries, NEW session,
           \A e \in entries : e.id \in 1..last,
           Flow(s, q, w, life, place, entries, last, session)
    PROVE  Flow(s, Append(q, m), w, life, place,
                L!Recorded(entries, last + 1, v, session), last + 1, session)
<1>1. ~Answer(m, w) /\ ~Reports(m)
  BY DEF Tells, Answer, Reports
<1>2. Path(s, Append(q, m), w, L!Recorded(entries, last + 1, v, session), last + 1)
  BY PathDrafted DEF Flow
<1>3. Seen(s, Append(q, m), w, life)
  BY <1>1, HeldAppend, SeenAppend DEF Flow, Answer
<1>4. Books(s, Append(q, m), w, life, place, session)
  BY <1>1, ToldAppend DEF Flow, Books
<1> QED
  BY <1>2, <1>3, <1>4 DEF Flow

(* The bridge takes an intent.                                             *)
LEMMA FlowIntentTaken ==
    ASSUME NEW s \in EngineState, NEW t, NEW q, NEW w, NEW life, NEW place,
           NEW entries, NEW last, NEW session,
           s.intents # << >>, NEW item \in Head(s.intents),
           t.parked = s.parked, t.effects = s.effects, t.life = s.life,
           t.intents = NextBatch(s.intents, item),
           Flow(s, q, w, life, place, entries, last, session)
    PROVE  Flow(t, q, w, life, place, entries, last, session)
<1>1. \A r \in Rank, i, g \in Nat : At(t, q, r, i, w, g) => At(s, q, r, i, w, g)
  BY IntentTakenAt
<1>2. Path(t, q, w, entries, last)
  BY PathIntentTaken DEF Flow
<1>3. Held(t, q, w) => Held(s, q, w)
  BY HeldForgotten
<1>4. Seen(t, q, w, life)
  BY <1>3, SeenStay DEF Flow
<1>5. \A g \in Nat : Owed(t, w, g) => Owed(s, w, g)
  <2>1. \A g \in Nat : At(t, q, 0, 0, w, g) => At(s, q, 0, 0, w, g)
    BY <1>1 DEF Rank
  <2> QED
    BY <2>1 DEF At
<1>6. Books(t, q, w, life, place, session)
  BY <1>5 DEF Flow, Books, Told, Untouched
<1> QED
  BY <1>2, <1>4, <1>6 DEF Flow

(* The executor takes a move.                                              *)
LEMMA FlowEffectTaken ==
    ASSUME NEW s \in EngineState, NEW t, NEW q, NEW w, NEW life, NEW place,
           NEW entries, NEW last, NEW session,
           s.effects # << >>, NEW item \in Head(s.effects),
           t.parked = s.parked, t.intents = s.intents, t.life = s.life,
           t.effects = NextBatch(s.effects, item),
           Flow(s, q, w, life, place, entries, last, session)
    PROVE  /\ Flow(t, q, w, life, place, entries, last, session)
           /\ Held(t, q, w) => Held(s, q, w)
<1>1. Path(t, q, w, entries, last)
  BY PathEffectTaken DEF Flow
<1>2. PICK c \in {0, 1} : ParkShifted(s, t, q, w, item, c)
  BY EffectTakenAt
<1>3. \A r \in {0, 1, 2, 4}, i, g \in Nat : At(t, q, r, i, w, g) => At(s, q, r, i, w, g)
  BY EffectTakenAt
<1>4. Held(t, q, w) => Held(s, q, w)
  <2> SUFFICES ASSUME Held(t, q, w)
               PROVE  Held(s, q, w)
    OBVIOUS
  <2>1. PICK r \in 1..3, i \in Nat, g \in Nat : At(t, q, r, i, w, g)
    BY DEF Held
  <2>2. CASE r = 3
    <3>1. At(s, q, 3, i + c, w, g) /\ i + c \in Nat
      BY <1>2, <2>1, <2>2 DEF ParkShifted
    <3> QED
      BY <2>2, <3>1 DEF Held
  <2>3. CASE r # 3
    <3>1. At(s, q, r, i, w, g)
      BY <1>3, <2>1, <2>3
    <3> QED
      BY <3>1 DEF Held
  <2> QED
    BY <2>2, <2>3
<1>5. Seen(t, q, w, life)
  BY <1>4, SeenStay DEF Flow
<1>6. Books(t, q, w, life, place, session)
  BY DEF Flow, Books, Told, Untouched, Owed
<1> QED
  BY <1>1, <1>4, <1>5, <1>6 DEF Flow

(* The executor has parked a window.                                       *)
LEMMA FlowParked ==
    ASSUME NEW s \in EngineState, NEW t, NEW q \in Seq(Message),
           s.effects # << >>, NEW v, NEW n \in Nat, ParkOf(v, n) \in Head(s.effects),
           t.parked = s.parked, t.intents = s.intents, t.life = s.life,
           t.effects = NextBatch(s.effects, ParkOf(v, n)),
           NEW m \in Message, Tells(m, "WindowParked", v, n),
           NEW w, NEW life, NEW place, NEW entries, NEW last, NEW session,
           Flow(s, q, w, life, place, entries, last, session)
    PROVE  Flow(t, Append(q, m), w, life, IF w = v THEN "Parked" ELSE place,
                entries, last, session)
<1>1. /\ Flow(t, q, w, life, place, entries, last, session)
      /\ Held(t, q, w) => Held(s, q, w)
  BY FlowEffectTaken
<1>2. CASE w = v
  <2>1. Path(t, Append(q, m), w, entries, last)
    BY <1>2, PathParked DEF Flow
  <2>2. Held(s, q, w)
    <3>1. 1 \in 1..Len(s.effects) /\ ParkOf(w, n) \in s.effects[1]
      <4>1. s.effects \in Seq(SUBSET Move)
        BY FieldTypes
      <4> QED
        BY <1>2, <4>1
    <3>2. At(s, q, 3, 1, w, n) /\ 3 \in 1..3 /\ 1 \in Nat
      BY <3>1 DEF At
    <3> QED
      BY <3>2 DEF Held
  <2>3. ~Reports(m) /\ Answer(m, w) /\ m.event = "WindowParked"
    BY <1>2 DEF Tells, Reports, Answer
  <2>4. Seen(t, Append(q, m), w, life)
    BY <2>2, <2>3, SeenAppend DEF Flow
  <2>5. Books(t, Append(q, m), w, life, "Parked", session)
    BY <2>3, ToldAppend DEF Books
  <2> QED
    BY <1>2, <2>1, <2>4, <2>5 DEF Flow
<1>3. CASE w # v
  <2>1. ~Reports(m) /\ ~Answer(m, w) /\ m.event # "RecoveryEntryDurable"
    BY <1>3 DEF Tells, Reports, Answer
  <2>2. Flow(t, Append(q, m), w, life, place, entries, last, session)
    BY <1>1, <2>1, FlowAppend
  <2> QED
    BY <1>3, <2>2
<1> QED
  BY <1>2, <1>3

(* The executor has put a window back.                                     *)
LEMMA FlowCameBack ==
    ASSUME NEW s, NEW q \in Seq(Message), NEW v, NEW m \in Message,
           m.event = "WindowRestored", m.window = v,
           NEW w, NEW life, NEW place, NEW entries, NEW last, NEW session,
           Flow(s, q, w, life, place, entries, last, session)
    PROVE  Flow(s, Append(q, m), w, life, IF w = v THEN "Screen" ELSE place,
                entries, last, session)
<1>1. ~Reports(m) /\ m.event \notin {"WindowParked", "RecoveryEntryDurable"}
  BY DEF Reports
<1>2. CASE w = v
  <2>1. Path(s, Append(q, m), w, entries, last)
    BY <1>1, PathAppend DEF Flow
  <2>2. Seen(s, Append(q, m), w, life)
    BY <1>1, HeldAppend, SeenAppend DEF Flow
  <2>3. Answer(m, w)
    BY <1>2 DEF Answer
  <2>4. Books(s, Append(q, m), w, life, "Screen", session)
    BY <1>1, <2>3, ToldAppend DEF Books
  <2> QED
    BY <1>2, <2>1, <2>2, <2>4 DEF Flow
<1>3. CASE w # v
  <2>1. ~Answer(m, w)
    BY <1>3 DEF Answer
  <2>2. Flow(s, Append(q, m), w, life, place, entries, last, session)
    BY <1>1, <2>1, FlowAppend
  <2> QED
    BY <1>3, <2>2
<1> QED
  BY <1>2, <1>3

(* A process that has just started knows nothing.                          *)
LEMMA FlowRests ==
    ASSUME NEW s, Resting(s), NEW w \in Window, NEW life, NEW place, NEW entries, NEW last,
           NEW session, place = "Parked" => session > 1
    PROVE  Flow(s, << >>, w, life, place, entries, last, session)
<1>1. \A r \in Rank, i, g \in Nat : ~At(s, << >>, r, i, w, g)
  BY DEF At, Owed, Resting, Rank
<1>2. Path(s, << >>, w, entries, last)
  BY <1>1 DEF Path, Ordered, Recorded
<1>3. ~Held(s, << >>, w)
  BY <1>1 DEF Held, Rank
<1>4. s.life[w] = "Gone" /\ s.parked[w] = 0 /\ \A g : ~Owed(s, w, g)
  BY DEF Resting, Owed
<1>5. Seen(s, << >>, w, life)
  BY <1>3, <1>4 DEF Seen
<1>6. Books(s, << >>, w, life, place, session)
  <2>1. Answers(<< >>, w) = {}
    BY DEF Answers
  <2> QED
    BY <1>4, <2>1 DEF Books, Told, Untouched
<1> QED
  BY <1>2, <1>5, <1>6 DEF Flow

-----------------------------------------------------------------------------
(* The arms of the reducer that only plan. *)

LEMMA FocusPlans ==
    ASSUME Good(engine), NEW n \in Workspace, NEW d \in Display, WorkspaceFocusRequested(n, d)
    PROVE  Plans(engine, engine')
<1>1. engine \in EngineState
  BY DEF Good, Consistent
<1>2. CASE engine' = [engine EXCEPT !.pool = Show(@, n, d)]
  <2>1. /\ engine'.parked = engine.parked /\ engine'.life = engine.life
        /\ engine'.effects = engine.effects /\ engine'.intents = engine.intents
    BY <1>1, <1>2 DEF EngineState
  <2> QED
    BY <1>1, <2>1, PlansSame
<1>3. CASE engine' = BeginWorkspaceSwitch(engine, n, d)
  BY <1>1, <1>3, BeginPlans
<1> QED
  BY <1>2, <1>3 DEF WorkspaceFocusRequested

LEMMA PoolPlans ==
    ASSUME Good(engine), NEW n \in Workspace, NEW d,
           WorkspaceMoveRequested(n, d) \/ WorkspaceCreateRequested(n)
             \/ WorkspaceDeleteRequested(n)
    PROVE  Plans(engine, engine')
<1>1. engine \in EngineState
  BY DEF Good, Consistent
<1>2. /\ engine'.parked = engine.parked /\ engine'.life = engine.life
      /\ engine'.effects = engine.effects /\ engine'.intents = engine.intents
  <2>1. CASE WorkspaceMoveRequested(n, d)
    BY <1>1, <2>1 DEF WorkspaceMoveRequested, EngineState
  <2>2. CASE WorkspaceCreateRequested(n)
    BY <1>1, <2>2 DEF WorkspaceCreateRequested, EngineState
  <2>3. CASE WorkspaceDeleteRequested(n)
    BY <1>1, <2>3 DEF WorkspaceDeleteRequested, EngineState
  <2> QED
    BY <2>1, <2>2, <2>3
<1> QED
  BY <1>1, <1>2, PlansSame

LEMMA RestoreSwitchPlans ==
    ASSUME Good(engine), WorkspaceSwitchRestoreRequested
    PROVE  Plans(engine, engine')
<1> DEFINE owing == {w \in engine.degraded : OwesMove(engine, w)}
           back  == owing \cap Parked(engine)
           away  == {w \in owing \ back : Parkable(engine, w)}
           asked == RequestRecoveryEntries(engine, away, 0)
           clear == [engine EXCEPT !.degraded = {}]
           both == [asked EXCEPT !.effects = Push(@, RestoreMoves(engine, back))]
<1>1. engine \in EngineState /\ engine.degraded \in SUBSET Window
  BY FieldTypes DEF Good, Consistent
<1>2. back \in SUBSET Window /\ away \in SUBSET Window
  BY <1>1
<1>3. Plans(engine, clear)
  <2>1. /\ clear.parked = engine.parked /\ clear.life = engine.life
        /\ clear.effects = engine.effects /\ clear.intents = engine.intents
    BY <1>1 DEF EngineState
  <2>. HIDE DEF clear
  <2> QED
    BY <1>1, <2>1, PlansSame
<1>4. engine' = IF owing = {} THEN clear ELSE both
  BY DEF WorkspaceSwitchRestoreRequested
<1>5. Plans(engine, both)
  <2>1. asked \in EngineState /\ Plans(engine, asked)
    <3>. HIDE DEF away
    <3> QED
      BY <1>1, <1>2, RequestPlans
  <2>. HIDE DEF asked, back
  <2>2. Plans(asked, both)
    BY <1>1, <1>2, <2>1, EffectsPlan
  <2>. HIDE DEF both
  <2> QED
    BY <1>1, <2>1, <2>2, PlansTransitive
<1>. HIDE DEF owing, clear, both
<1> QED
  BY <1>3, <1>4, <1>5

LEMMA FlagPlans ==
    ASSUME Good(engine), NEW c \in Capability, NEW h \in Health,
           \/ PauseRequested \/ ResumeRequested
           \/ ParkingCapabilityReported(c) \/ PersistenceHealthChanged(h)
    PROVE  Plans(engine, engine')
<1>1. engine \in EngineState
  BY DEF Good, Consistent
<1>2. /\ engine'.parked = engine.parked /\ engine'.life = engine.life
      /\ engine'.effects = engine.effects /\ engine'.intents = engine.intents
  BY <1>1 DEF PauseRequested, ResumeRequested, ParkingCapabilityReported,
              PersistenceHealthChanged, EngineState
<1> QED
  BY <1>1, <1>2, PlansSame

LEMMA ConfigPlans ==
    ASSUME Good(engine), NEW c \in Configs, ConfigChanged(c)
    PROVE  Plans(engine, engine')
<1> DEFINE t == [engine EXCEPT !.config = c]
<1>1. engine \in EngineState /\ DisplayedOnce(engine.pool)
  BY DEF Good, Consistent
<1>2. /\ t \in EngineState /\ t.switch = engine.switch /\ t.pending = engine.pending
      /\ t.pool = engine.pool /\ t.parked = engine.parked /\ t.life = engine.life
      /\ t.effects = engine.effects /\ t.intents = engine.intents
  BY <1>1 DEF EngineState
<1>3. engine' \in Resettle(t)
  BY DEF ConfigChanged
<1>. HIDE DEF t
<1>4. Good(t)
  BY <1>1, <1>2, FrameGood
<1>5. Plans(engine, t)
  BY <1>1, <1>2, PlansSame
<1>6. Plans(t, engine')
  BY <1>3, <1>4, ResettlePlans
<1> QED
  BY <1>1, <1>5, <1>6, PlansTransitive

LEMMA TopologyPlans ==
    ASSUME Good(engine), NEW new \in SUBSET Display, NEW nearest \in Display,
           DisplayTopologyChanged(new, nearest)
    PROVE  Plans(engine, engine')
<1> DEFINE left == LeaveVanishedDisplays(engine, new, nearest)
<1>1. engine \in EngineState
  BY DEF Good, Consistent
<1>2. Good(left) /\ Plans(engine, left)
  BY <1>1, LeaveGood, LeavePlans DEF DisplayTopologyChanged
<1>3. engine' \in Resettle(left)
  BY DEF DisplayTopologyChanged
<1>. HIDE DEF left
<1>4. Plans(left, engine')
  BY <1>2, <1>3, ResettlePlans
<1> QED
  BY <1>1, <1>2, <1>4, PlansTransitive

(* The arms that answer for a failure, or a refused entry. *)
LEMMA FailedPlans ==
    ASSUME Good(engine), NEW w \in Window, WindowParkFailed(w) \/ WindowRestoreFailed(w)
    PROVE  Plans(engine, engine')
<1> DEFINE t == SwitchWindowSettled(engine, w, FALSE)
<1>1. engine \in EngineState
  BY DEF Good, Consistent
<1>2. Good(t) /\ Plans(engine, t)
  BY <1>1, SettledGood, SettledPlans
<1>3. engine' = t \/ engine' = StrandWindow(t, w)
  BY DEF WindowParkFailed, WindowRestoreFailed
<1>. HIDE DEF t
<1>4. t \in EngineState
  BY <1>2 DEF Good, Consistent
<1>5. Plans(engine, StrandWindow(t, w))
  BY <1>1, <1>2, <1>4, StrandPlans, PlansTransitive
<1> QED
  BY <1>2, <1>3, <1>5

LEMMA RefusedPlans ==
    ASSUME Good(engine), NEW b \in Nat, NEW w \in Window, RecoveryEntryRefused(b, w)
    PROVE  Plans(engine, engine')
<1>1. PICK r \in engine.pending :
        LET t == [engine EXCEPT !.pending = @ \ {r}] IN
        /\ r.batch = b /\ r.window = w
        /\ engine' = IF SwitchOpen(engine) /\ r.switch = engine.switch.id
                     THEN BeginSwitchCompensation(
                            [t EXCEPT !.switch.recording = @ \ {<<b, w>>}])
                     ELSE t
  BY DEF RecoveryEntryRefused
<1> DEFINE t == [engine EXCEPT !.pending = @ \ {r}]
           u == [t EXCEPT !.switch.recording = @ \ {<<b, w>>}]
<1>2. engine \in EngineState /\ engine.switch \in Transaction /\ engine.pending \in SUBSET Request
  BY FieldTypes DEF Good, Consistent
<1>3. /\ t.parked = engine.parked /\ t.life = engine.life
      /\ t.effects = engine.effects /\ t.intents = engine.intents
  BY <1>2 DEF EngineState
<1>4. /\ u \in EngineState /\ u.parked = engine.parked /\ u.life = engine.life
      /\ u.effects = engine.effects /\ u.intents = engine.intents
  BY <1>2 DEF EngineState, Transaction
<1>5. engine' = t \/ engine' = BeginSwitchCompensation(u)
  BY <1>1
<1>. HIDE DEF t, u
<1>6. Plans(engine, t) /\ Plans(engine, u)
  BY <1>2, <1>3, <1>4, PlansSame
<1>7. Plans(engine, BeginSwitchCompensation(u))
  BY <1>2, <1>4, <1>6, CompensationPlans, PlansTransitive
<1> QED
  BY <1>5, <1>6, <1>7

-----------------------------------------------------------------------------
(* The arms that move a window's entry on. *)

LEMMA ParkedFlow ==
    ASSUME Good(engine), inbox \in Seq(Message), inbox # << >>, NEW v \in Window, NEW n \in Nat,
           Tells(Head(inbox), "WindowParked", v, n), WindowParked(v, n),
           NEW w \in Window, NEW life, NEW place, NEW entries, NEW last \in Nat, NEW session,
           Flow(engine, inbox, w, life, place, entries, last, session)
    PROVE  Flow(engine', Tail(inbox), w, life, place, entries, last, session)
<1> DEFINE mark == {[kind |-> "MarkParked", window |-> v, number |-> n]}
           parked == [engine.parked EXCEPT ![v] = n]
           intents == Append(engine.intents, mark)
           t == [engine EXCEPT !.parked = parked, !.intents = intents]
           u == SettleStrandedWindow(t, v)
<1>1. /\ engine \in EngineState /\ engine.parked \in [Window -> Nat]
      /\ engine.intents \in Seq(SUBSET Intent)
  BY FieldTypes DEF Good, Consistent
<1>2. mark \in SUBSET Intent /\ parked \in [Window -> Nat]
  BY <1>1 DEF Intent
<1>3. intents \in Seq(SUBSET Intent)
  <2>. HIDE DEF mark
  <2> QED
    BY <1>1, <1>2
<1>4. engine' = SwitchWindowSettled(u, v, TRUE)
  <2>1. t = [engine EXCEPT !.parked[v] = n, !.intents = Append(@, mark)]
    BY <1>1 DEF EngineState
  <2> QED
    BY <2>1 DEF WindowParked
<1>5. /\ t \in EngineState /\ t.parked = parked /\ t.intents = intents
      /\ t.life = engine.life /\ t.effects = engine.effects
      /\ t.switch = engine.switch /\ t.pending = engine.pending /\ t.pool = engine.pool
  <2>. HIDE DEF parked, intents
  <2> QED
    BY <1>1, <1>2, <1>3 DEF EngineState
<1>. HIDE DEF t
<1>6. Flow(t, Tail(inbox), w, life, place, entries, last, session)
  BY <1>1, <1>5, FlowHeard
<1>. HIDE DEF parked, intents
<1>7. u \in EngineState /\ Plans(t, u)
  <2>1. Good(t)
    BY <1>1, <1>5, FrameGood DEF Good, Consistent
  <2> QED
    BY <1>5, <2>1, StrandGood, SettlePlans DEF Good, Consistent
<1>. HIDE DEF u
<1>8. Plans(u, engine')
  BY <1>4, <1>7, SettledPlans
<1> QED
  BY <1>5, <1>6, <1>7, <1>8, FlowPlans

LEMMA RestoredFlow ==
    ASSUME Good(engine), inbox \in Seq(Message), inbox # << >>, NEW v \in Window,
           Head(inbox).event = "WindowRestored", Head(inbox).window = v, WindowRestored(v),
           NEW w \in Window, NEW life, NEW place, NEW entries, NEW last \in Nat, NEW session,
           Flow(engine, inbox, w, life, place, entries, last, session)
    PROVE  Flow(engine', Tail(inbox), w, life, place, entries, last, session)
<1> DEFINE marks == {[kind |-> "MarkRestored", window |-> x, number |-> engine.parked[x]]
                       : x \in {v} \cap Parked(engine)}
           parked == [engine.parked EXCEPT ![v] = 0]
           intents == Push(engine.intents, marks)
           t == [engine EXCEPT !.parked = parked, !.intents = intents]
           u == SettleStrandedWindow(t, v)
<1>1. /\ engine \in EngineState /\ engine.parked \in [Window -> Nat]
      /\ engine.intents \in Seq(SUBSET Intent)
  BY FieldTypes DEF Good, Consistent
<1>2. marks \in SUBSET Intent /\ parked \in [Window -> Nat]
  BY <1>1 DEF Intent
<1>3. intents \in Seq(SUBSET Intent)
  <2>. HIDE DEF marks
  <2> QED
    BY <1>1, <1>2, PushType
<1>4. engine' = SwitchWindowSettled(u, v, TRUE)
  <2>1. t = [engine EXCEPT !.parked[v] = 0, !.intents = Push(@, marks)]
    BY <1>1 DEF EngineState
  <2> QED
    BY <2>1 DEF WindowRestored
<1>5. /\ t \in EngineState /\ t.parked = parked /\ t.intents = intents
      /\ t.life = engine.life /\ t.effects = engine.effects
      /\ t.switch = engine.switch /\ t.pending = engine.pending /\ t.pool = engine.pool
  <2>. HIDE DEF parked, intents
  <2> QED
    BY <1>1, <1>2, <1>3 DEF EngineState
<1>. HIDE DEF t
<1>6. Flow(t, Tail(inbox), w, life, place, entries, last, session)
  BY <1>1, <1>5, FlowReturned
<1>. HIDE DEF parked, intents
<1>7. u \in EngineState /\ Plans(t, u)
  <2>1. Good(t)
    BY <1>1, <1>5, FrameGood DEF Good, Consistent
  <2> QED
    BY <1>5, <2>1, StrandGood, SettlePlans DEF Good, Consistent
<1>. HIDE DEF u
<1>8. Plans(u, engine')
  BY <1>4, <1>7, SettledPlans
<1> QED
  BY <1>5, <1>6, <1>7, <1>8, FlowPlans

LEMMA DurableFlow ==
    ASSUME Good(engine), inbox \in Seq(Message), inbox # << >>,
           NEW b \in Nat, NEW v \in Window, NEW n \in Nat,
           Tells(Head(inbox), "RecoveryEntryDurable", v, n), RecoveryEntryDurable(b, v, n),
           NEW w \in Window, NEW life, NEW place, NEW entries, NEW last \in Nat, NEW session,
           Flow(engine, inbox, w, life, place, entries, last, session)
    PROVE  Flow(engine', Tail(inbox), w, life, place, entries, last, session)
<1>1. PICK r \in engine.pending :
        LET ours  == SwitchOpen(engine) /\ r.switch = engine.switch.id
            parks == IF v \in Managed(engine) THEN {v} ELSE {}
            rest  == engine.switch.recording \ {<<b, v>>}
            sw    == [engine.switch EXCEPT
                        !.recording = rest,
                        !.phase = IF @ = "Recording" /\ rest = {} THEN "Parking" ELSE @,
                        !.inFlight = @ \cup parks]
        IN  /\ r.batch = b /\ r.window = v
            /\ engine' = AdvanceSwitch(
                 [engine EXCEPT
                    !.pending = @ \ {r},
                    !.switch  = IF ours THEN sw ELSE @,
                    !.effects = Push(@, {[kind |-> "Park", window |-> x,
                                          entry |-> n] : x \in parks})])
  BY DEF RecoveryEntryDurable
<1> DEFINE ours  == SwitchOpen(engine) /\ r.switch = engine.switch.id
           parks == IF v \in Managed(engine) THEN {v} ELSE {}
           rest  == engine.switch.recording \ {<<b, v>>}
           phase == IF engine.switch.phase = "Recording" /\ rest = {} THEN "Parking" ELSE engine.switch.phase
           sw    == [engine.switch EXCEPT !.recording = rest, !.phase = phase, !.inFlight = @ \cup parks]
           next  == IF ours THEN sw ELSE engine.switch
           moves == {[kind |-> "Park", window |-> x, entry |-> n] : x \in parks}
           effects == Push(engine.effects, moves)
           t == [engine EXCEPT !.pending = @ \ {r}, !.switch = next, !.effects = effects]
<1>2. /\ engine \in EngineState /\ engine.switch \in Transaction /\ engine.pending \in SUBSET Request
      /\ engine.effects \in Seq(SUBSET Move)
  BY FieldTypes DEF Good, Consistent
<1>3. effects \in Seq(SUBSET Move)
  <2>1. moves \in SUBSET Move
    BY DEF Move
  <2>. HIDE DEF moves
  <2> QED
    BY <1>2, <2>1, PushType
<1>4. sw \in Transaction
  <2>1. phase \in Phase /\ rest \in SUBSET Token /\ parks \in SUBSET Window
    BY <1>2 DEF Transaction, Phase, ForwardPhase
  <2>. HIDE DEF phase, rest, parks
  <2> QED
    BY <1>2, <2>1 DEF Transaction
<1>5. /\ t \in EngineState /\ t.parked = engine.parked /\ t.life = engine.life
      /\ t.intents = engine.intents /\ t.effects = effects
  <2>. HIDE DEF sw, effects
  <2> QED
    BY <1>2, <1>3, <1>4 DEF EngineState
<1>6. engine' = AdvanceSwitch(t)
  BY <1>1
<1>. HIDE DEF t
<1>7. Flow(t, Tail(inbox), w, life, place, entries, last, session)
  <2>1. CASE v \in Managed(engine)
    <3>1. moves = {ParkOf(v, n)}
      BY <2>1 DEF ParkOf
    <3>2. effects = Append(engine.effects, {ParkOf(v, n)})
      BY <3>1 DEF Push
    <3>3. engine.life[v] # "Gone"
      BY <2>1 DEF Managed
    <3>. HIDE DEF effects
    <3> QED
      BY <1>2, <1>5, <3>2, <3>3, FlowAcknowledged
  <2>2. CASE v \notin Managed(engine)
    <3>1. moves = {}
      BY <2>2
    <3>2. effects = engine.effects
      BY <3>1 DEF Push
    <3>. HIDE DEF effects
    <3>3. Plans(engine, t)
      BY <1>2, <1>5, <3>2, PlansSame
    <3>4. ~Answer(Head(inbox), w)
      BY DEF Tells, Answer
    <3>5. Flow(engine, Tail(inbox), w, life, place, entries, last, session)
      BY <3>4, FlowTail
    <3> QED
      BY <1>2, <3>3, <3>5, FlowPlans
  <2> QED
    BY <2>1, <2>2
<1>8. Plans(t, engine')
  BY <1>5, <1>6, AdvancePlans
<1> QED
  BY <1>5, <1>7, <1>8, FlowPlans

LEMMA InventoryFlow ==
    ASSUME NEW s, Good(s), NEW q \in Seq(Message), q # << >>, Reports(Head(q)),
           NEW life \in [Window -> Lifecycle], NEW seat \in [Window -> Display],
           life = Head(q).life,
           NEW w \in Window, NEW now, NEW place, NEW entries, NEW last, NEW session,
           Flow(s, q, w, now, place, entries, last, session)
    PROVE  Flow(ReplaceInventory(s, life, seat), Tail(q), w, now, place, entries, last, session)
<1> DEFINE seen   == {x \in Window : life[x] # "Gone"}
           closed == Parked(s) \ seen
           parked == [x \in Window |-> IF x \in seen THEN s.parked[x] ELSE 0]
           marks  == {[kind |-> "MarkRestored", window |-> x, number |-> s.parked[x]] : x \in closed}
           intents == Push(s.intents, marks)
           to == [x \in Window |-> IF x \in seen \ Managed(s) /\ RuleTarget[x] \in Names(s.pool)
                                   THEN RuleTarget[x] ELSE None]
           pool == Assign(RetainMembers(s.pool, seen), to)
           t == [s EXCEPT !.life = life, !.seat = seat, !.parked = parked,
                          !.intents = intents, !.pool = pool]
           a == AssignUnassignedWindows(t)
<1>1. /\ s \in EngineState /\ s.pool \in Pool /\ s.parked \in [Window -> Nat]
      /\ s.intents \in Seq(SUBSET Intent) /\ DisplayedOnce(s.pool)
  BY FieldTypes DEF Good, Consistent
<1>2. parked \in [Window -> Nat]
  BY <1>1
<1>3. intents \in Seq(SUBSET Intent)
  <2>1. marks \in SUBSET Intent
    BY <1>1 DEF Parked, Intent
  <2> QED
    BY <1>1, <2>1, PushType
<1>4. pool \in Pool /\ DisplayedOnce(pool)
  <2>1. to \in [Window -> Workspace \cup {None}]
    BY DEF Names
  <2>. HIDE DEF to, seen
  <2>2. RetainMembers(s.pool, seen) \in Pool /\ DisplayedOnce(RetainMembers(s.pool, seen))
    BY <1>1, RetainMembersKeeps
  <2> QED
    BY <2>1, <2>2, AssignKeeps
<1>5. /\ t \in EngineState /\ t.switch = s.switch /\ t.pending = s.pending /\ t.pool = pool
      /\ t.life = life /\ t.parked = parked /\ t.intents = intents /\ t.effects = s.effects
  <2>. HIDE DEF parked, intents, pool
  <2> QED
    BY <1>1, <1>2, <1>3, <1>4 DEF EngineState
<1>6. ReplaceInventory(s, life, seat) = ReconcileHiddenWorkspaceWindows(a)
  BY DEF ReplaceInventory
<1>. HIDE DEF t
<1>7. Good(t)
  <2>. HIDE DEF pool, parked, intents
  <2> QED
    BY <1>4, <1>5, FrameGood
<1>8. Flow(t, Tail(q), w, now, place, entries, last, session)
  <2>1. parked = [x \in Window |-> IF t.life[x] # "Gone" THEN s.parked[x] ELSE 0]
    BY <1>5
  <2>2. closed = {y \in Parked(s) : t.life[y] = "Gone"}
    BY <1>5 DEF Parked
  <2>3. intents = Push(s.intents, {[kind |-> "MarkRestored", window |-> x,
                                    number |-> s.parked[x]]
                                      : x \in {y \in Parked(s) : t.life[y] = "Gone"}})
    BY <2>2
  <2>. HIDE DEF parked, intents, closed
  <2> QED
    BY <1>1, <1>5, <2>1, <2>3, FlowObserved
<1>9. a \in EngineState /\ Plans(t, a)
  BY <1>5, <1>7, AssignGood, AssignPlans DEF Good, Consistent
<1>. HIDE DEF a
<1>10. Plans(a, ReconcileHiddenWorkspaceWindows(a))
  BY <1>9, ReconcilePlans
<1> QED
  BY <1>5, <1>6, <1>8, <1>9, <1>10, FlowPlans

LEMMA WakeFlow ==
    ASSUME Good(engine), inbox \in Seq(Message), inbox # << >>, Reports(Head(inbox)),
           NEW new \in SUBSET Display, NEW nearest \in Display, NEW enumerated \in BOOLEAN,
           NEW life \in [Window -> Lifecycle], NEW seat \in [Window -> Display],
           life = Head(inbox).life,
           WakeReconciliation(new, nearest, enumerated, life, seat),
           NEW w \in Window, NEW now, NEW place, NEW entries, NEW last, NEW session,
           Flow(engine, inbox, w, now, place, entries, last, session)
    PROVE  Flow(engine', Tail(inbox), w, now, place, entries, last, session)
<1> DEFINE left == LeaveVanishedDisplays(engine, new, nearest)
           synced == SyncWorkspacesFromConfig(left)
           filled == FillEmptyDisplays(synced)
<1>0. engine \in EngineState
  BY DEF Good, Consistent
<1>1. Good(left) /\ left \in EngineState /\ Plans(engine, left)
  BY <1>0, LeaveGood, LeavePlans DEF WakeReconciliation, Good, Consistent
<1>2. ASSUME NEW u \in filled
      PROVE  Good(ApplySwitchingMapping(u)) /\ Plans(engine, ApplySwitchingMapping(u))
  <2>. HIDE DEF left
  <2>1. Good(synced) /\ synced \in EngineState /\ Plans(engine, synced)
    BY <1>0, <1>1, SyncGood, SyncPlans, PlansTransitive DEF Good, Consistent
  <2>. HIDE DEF synced
  <2>2. Good(u) /\ u \in EngineState
    BY <1>2, <2>1, FillGood DEF Good, Consistent
  <2>3. Plans(synced, u)
    BY <1>2, <2>1, FillPlans
  <2>4. Plans(engine, u)
    BY <1>0, <2>1, <2>3, PlansTransitive
  <2>5. Plans(u, ApplySwitchingMapping(u))
    BY <2>2, MappingPlans
  <2> QED
    BY <1>0, <2>2, <2>4, <2>5, MappingGood, PlansTransitive
<1>3. PICK t \in IF new = engine.displays THEN {engine} ELSE {ApplySwitchingMapping(u) : u \in filled} :
        engine' = IF enumerated THEN ReplaceInventory(t, life, seat) ELSE t
  BY DEF WakeReconciliation
<1>. HIDE DEF filled
<1>4. Good(t) /\ Plans(engine, t)
  BY <1>0, <1>2, <1>3, PlansSame
<1>5. Flow(t, inbox, w, now, place, entries, last, session)
  BY <1>0, <1>4, FlowPlans
<1>6. CASE enumerated
  BY <1>3, <1>4, <1>5, <1>6, InventoryFlow
<1>7. CASE ~enumerated
  <2>1. ~Answer(Head(inbox), w)
    BY DEF Answer, Reports
  <2> QED
    BY <1>3, <1>5, <1>7, <2>1, FlowTail
<1> QED
  BY <1>6, <1>7

-----------------------------------------------------------------------------
(* What an open switch waits for is under way: the entry of every request  *)
(* still has to be recorded or acknowledged, and every window in flight    *)
(* has a move in the queue, an answer on its way, or an entry to come.     *)

Items(q)  == UNION {q[k] : k \in 1..Len(q)}
Asks(s)   == {<<i.number, i.window>> : i \in {j \in Items(s.intents) : j.kind = "Record"}}
Movers(s) == {m.window : m \in Items(s.effects)}

(* D are the entries that are acknowledged, M the windows that are         *)
(* answered for, by what is in the channel.                                *)
Pends(s, D) ==
    \A r \in s.pending : r.window \in Managed(s) /\ <<r.batch, r.window>> \in D \cup Asks(s)
Flies(s, M) ==
    \A w \in s.switch.inFlight :
        w \in M \cup Movers(s) \/ \E x \in s.switch.recording : x[2] = w
Underway(s) == SwitchOpen(s) => s.switch.recording # {} \/ s.switch.inFlight # {}
Busy(s, D, M) == Pends(s, D) /\ Flies(s, M) /\ Underway(s)

(* Beside the transaction, a handler adds work and takes none away.        *)
Adds(s, t) ==
    /\ t.switch = s.switch
    /\ Managed(s) \subseteq Managed(t)
    /\ Movers(s) \subseteq Movers(t) /\ Asks(s) \subseteq Asks(t)
    /\ \A r \in t.pending :
         r \in s.pending \/ (r.window \in Managed(t) /\ <<r.batch, r.window>> \in Asks(t))

LEMMA ItemsGrow ==
    ASSUME NEW S, NEW q \in Seq(S), NEW r \in Seq(S), NEW kind, Grows(q, r, kind)
    PROVE  Items(q) \subseteq Items(r)
BY DEF Items, Grows

(* A batch that joins a queue.                                             *)
LEMMA ItemsPushed ==
    ASSUME NEW S, NEW q \in Seq(S), NEW batch \in S
    PROVE  /\ Items(Append(q, batch)) = Items(q) \cup batch
           /\ Items(Push(q, batch)) = Items(q) \cup batch
<1>1. Items(Append(q, batch)) = Items(q) \cup batch
  <2> DEFINE r == Append(q, batch)
  <2>1. /\ Len(q) \in Nat /\ Len(r) = Len(q) + 1 /\ r[Len(q) + 1] = batch
        /\ \A k \in 1..Len(q) : r[k] = q[k]
    OBVIOUS
  <2>. HIDE DEF r
  <2>2. 1..Len(r) = 1..Len(q) \cup {Len(q) + 1}
    BY <2>1
  <2>3. Items(r) = Items(q) \cup batch
    BY <2>1, <2>2 DEF Items
  <2> QED
    BY <2>3 DEF r
<1> QED
  BY <1>1 DEF Push

LEMMA PlansItems ==
    ASSUME NEW s \in EngineState, NEW t, Plans(s, t)
    PROVE  /\ Managed(t) = Managed(s)
           /\ Movers(s) \subseteq Movers(t) /\ Asks(s) \subseteq Asks(t)
<1>1. /\ s.effects \in Seq(SUBSET Move) /\ s.intents \in Seq(SUBSET Intent)
      /\ t.effects \in Seq(SUBSET Move) /\ t.intents \in Seq(SUBSET Intent)
  BY FieldTypes DEF Plans
<1>2. Grows(s.effects, t.effects, "Restore") /\ Grows(s.intents, t.intents, "Record")
  BY DEF Plans
<1>3. Items(s.effects) \subseteq Items(t.effects) /\ Items(s.intents) \subseteq Items(t.intents)
  BY <1>1, <1>2, ItemsGrow
<1> QED
  BY <1>3 DEF Plans, Managed, Movers, Asks

LEMMA AddsTransitive ==
    ASSUME NEW s, NEW t, NEW u, Adds(s, t), Adds(t, u)
    PROVE  Adds(s, u)
BY DEF Adds

(* What adds work leaves a switch with the work it had.                    *)
LEMMA AddsBusy ==
    ASSUME NEW s, NEW t, NEW D, NEW M, Adds(s, t)
    PROVE  /\ Pends(s, D) => Pends(t, D)
           /\ Flies(s, M) => Flies(t, M)
           /\ Underway(s) => Underway(t)
           /\ Busy(s, D, M) => Busy(t, D, M)
<1>1. Pends(s, D) => Pends(t, D)
  BY DEF Adds, Pends
<1>2. Flies(s, M) => Flies(t, M)
  BY DEF Adds, Flies
<1>3. Underway(s) => Underway(t)
  BY DEF Adds, Underway, SwitchOpen
<1> QED
  BY <1>1, <1>2, <1>3 DEF Busy

(* A function that plans, and touches neither requests nor transaction.    *)
LEMMA PlansAdd ==
    ASSUME NEW s \in EngineState, NEW t, Plans(s, t),
           t.switch = s.switch, t.pending \subseteq s.pending
    PROVE  Adds(s, t)
BY PlansItems DEF Adds

-----------------------------------------------------------------------------
(* The transaction *)

LEMMA CloseBusy ==
    ASSUME NEW s \in EngineState, NEW D, NEW M, Pends(s, D)
    PROVE  Busy(CommitSwitch(s), D, M) /\ Busy(FinishCompensation(s), D, M)
<1>1. Busy(CommitSwitch(s), D, M)
  <2> DEFINE t == CommitSwitch(s)
  <2>1. t.switch = NoSwitch /\ t.pending = s.pending
    BY DEF CommitSwitch, EngineState
  <2>2. Plans(s, t)
    BY ClosePlans
  <2>. HIDE DEF t
  <2>3. Pends(t, D) /\ Flies(t, M) /\ Underway(t)
    BY <2>1, <2>2, PlansItems DEF Pends, Flies, Underway, NoSwitch, SwitchOpen
  <2> QED
    BY <2>3 DEF Busy, t
<1>2. Busy(FinishCompensation(s), D, M)
  <2> DEFINE t == FinishCompensation(s)
  <2>1. t.switch = NoSwitch /\ t.pending = s.pending
    BY DEF FinishCompensation, EngineState
  <2>2. Plans(s, t)
    BY ClosePlans
  <2>. HIDE DEF t
  <2>3. Pends(t, D) /\ Flies(t, M) /\ Underway(t)
    BY <2>1, <2>2, PlansItems DEF Pends, Flies, Underway, NoSwitch, SwitchOpen
  <2> QED
    BY <2>3 DEF Busy, t
<1> QED
  BY <1>1, <1>2

(* emit_switch_restores waits for moves it has just queued, or closes.     *)
LEMMA EmitBusy ==
    ASSUME NEW s \in EngineState, NEW D, NEW M, Pends(s, D)
    PROVE  Busy(EmitSwitchRestores(s), D, M)
<1> DEFINE here == s.switch.inFlight \ Parked(s)
           away == s.switch.inFlight \cap Parked(s)
           forward == s.switch.phase = "Restoring"
           restored == IF forward THEN s.switch.restored \cup here ELSE s.switch.restored
           parked == IF forward THEN s.switch.parked ELSE s.switch.parked \ here
           moves == RestoreMoves(s, away)
           effects == Push(s.effects, moves)
           t == [s EXCEPT !.effects = effects,
                          !.switch.inFlight = away,
                          !.switch.restored = restored,
                          !.switch.parked   = parked]
<1>1. /\ s.switch \in Transaction
      /\ s.effects \in Seq(SUBSET Move) /\ s.intents \in Seq(SUBSET Intent)
  BY FieldTypes
<1>2. /\ away \in SUBSET Window /\ here \in SUBSET Window
      /\ restored \in SUBSET Window /\ parked \in SUBSET Window
  BY <1>1 DEF Transaction
<1>3. moves \in SUBSET Move /\ \A w \in away : \E m \in moves : m.window = w
  <2>1. moves \in SUBSET Move
    BY <1>2, RestoreMovesType
  <2>2. \A w \in away : [kind |-> "Restore", window |-> w, entry |-> s.parked[w]] \in moves
    BY DEF RestoreMoves
  <2> QED
    BY <2>1, <2>2
<1>4. effects \in Seq(SUBSET Move) /\ Items(effects) = Items(s.effects) \cup moves
  <2>. HIDE DEF moves
  <2> QED
    BY <1>1, <1>3, PushType, ItemsPushed
<1>. HIDE DEF effects, restored, parked, away, here, moves
<1>5. t \in EngineState
  BY <1>1, <1>2, <1>4 DEF EngineState, Transaction
<1>6. /\ t.life = s.life /\ t.effects = effects /\ t.intents = s.intents
      /\ t.pending = s.pending /\ t.switch.inFlight = away
  BY <1>1 DEF EngineState, Transaction
<1>7. EmitSwitchRestores(s) = IF away # {} THEN t ELSE IF forward THEN CommitSwitch(t) ELSE FinishCompensation(t)
  BY DEF EmitSwitchRestores, t, away, here, effects, restored, parked, moves
<1>. HIDE DEF t, forward
<1>8. Pends(t, D)
  BY <1>6 DEF Pends, Managed, Asks
<1>9. Flies(t, M)
  BY <1>3, <1>4, <1>6 DEF Flies, Movers
<1>10. away # {} => Busy(t, D, M)
  BY <1>6, <1>8, <1>9 DEF Busy, Underway
<1> QED
  BY <1>5, <1>7, <1>8, <1>10, CloseBusy

(* advance_switch leaves a switch open only with something to wait for.    *)
LEMMA AdvanceBusy ==
    ASSUME NEW s \in EngineState, NEW D, NEW M, Pends(s, D), Flies(s, M)
    PROVE  Busy(AdvanceSwitch(s), D, M)
<1> DEFINE forth == [s EXCEPT !.switch.phase = "Restoring", !.switch.queued = {},
                              !.switch.inFlight = s.switch.queued]
           back == [s EXCEPT !.switch.phase = "CompensatingRestore",
                             !.switch.inFlight = s.switch.parked]
<1>1. s.switch \in Transaction /\ s.switch.phase \in Phase
  BY FieldTypes DEF Transaction
<1>2. CASE ~SwitchOpen(s) \/ ~PhaseIsSettled(s)
  <2>1. AdvanceSwitch(s) = s
    BY <1>2 DEF AdvanceSwitch, SwitchOpen
  <2> QED
    BY <1>2, <2>1 DEF Busy, Underway, PhaseIsSettled
<1>3. CASE SwitchOpen(s) /\ PhaseIsSettled(s)
  <2>1. forth \in EngineState /\ Pends(forth, D)
    <3>1. "Restoring" \in Phase
      BY DEF Phase, ForwardPhase
    <3>2. forth \in EngineState
      BY <1>1, <3>1 DEF EngineState, Transaction
    <3>3. forth.life = s.life /\ forth.intents = s.intents /\ forth.pending = s.pending
      BY DEF EngineState
    <3>. HIDE DEF forth
    <3> QED
      BY <3>2, <3>3 DEF Pends, Managed, Asks
  <2>2. back \in EngineState /\ Pends(back, D)
    <3>1. "CompensatingRestore" \in Phase
      BY DEF Phase, CompensatingPhase
    <3>2. back \in EngineState
      BY <1>1, <3>1 DEF EngineState, Transaction
    <3>3. back.life = s.life /\ back.intents = s.intents /\ back.pending = s.pending
      BY DEF EngineState
    <3>. HIDE DEF back
    <3> QED
      BY <3>2, <3>3 DEF Pends, Managed, Asks
  <2>3. AdvanceSwitch(s) \in {CommitSwitch(s), FinishCompensation(s),
                             EmitSwitchRestores(forth), EmitSwitchRestores(back)}
    <3>1. CASE s.switch.phase \in {"Recording", "Parking"}
      BY <1>3, <3>1 DEF AdvanceSwitch
    <3>2. CASE s.switch.phase = "Restoring"
      BY <1>3, <3>2 DEF AdvanceSwitch
    <3>3. CASE s.switch.phase = "CompensatingPark"
      BY <1>3, <3>3 DEF AdvanceSwitch
    <3>4. CASE s.switch.phase = "CompensatingRestore"
      BY <1>3, <3>4 DEF AdvanceSwitch
    <3> QED
      BY <1>1, <1>3, <3>1, <3>2, <3>3, <3>4
         DEF SwitchOpen, Phase, ForwardPhase, CompensatingPhase
  <2>. HIDE DEF forth, back
  <2> QED
    BY <2>1, <2>2, <2>3, CloseBusy, EmitBusy
<1> QED
  BY <1>2, <1>3

(* request_recovery_entries puts every request it makes to the bridge.     *)
LEMMA RequestAdds ==
    ASSUME NEW s \in EngineState, NEW W \in SUBSET Window, NEW id \in Nat,
           W \subseteq Managed(s)
    PROVE  Adds(s, RequestRecoveryEntries(s, W, id))
<1> DEFINE batch == s.lastBatch + 1
           asked == {[batch |-> batch, window |-> w, switch |-> id] : w \in W}
           records == {[kind |-> "Record", window |-> w, number |-> batch] : w \in W}
           pending == s.pending \cup asked
           intents == Append(s.intents, records)
           t == [s EXCEPT !.lastBatch = batch, !.pending = pending, !.intents = intents]
<1>1. /\ s.lastBatch \in Nat
      /\ s.effects \in Seq(SUBSET Move) /\ s.intents \in Seq(SUBSET Intent)
  BY FieldTypes
<1>2. records \in SUBSET Intent
  BY <1>1 DEF Intent
<1>3. Items(intents) = Items(s.intents) \cup records
  <2>. HIDE DEF records
  <2> QED
    BY <1>1, <1>2, ItemsPushed
<1>4. RequestRecoveryEntries(s, W, id) = IF W = {} THEN s ELSE t
  BY DEF RequestRecoveryEntries
<1>. HIDE DEF pending, intents
<1>5. /\ t.life = s.life /\ t.effects = s.effects /\ t.intents = intents
      /\ t.switch = s.switch /\ t.pending = pending
  BY DEF EngineState
<1>. HIDE DEF t
<1>6. Managed(t) = Managed(s) /\ Movers(t) = Movers(s) /\ Asks(s) \subseteq Asks(t)
  BY <1>3, <1>5 DEF Managed, Movers, Asks
<1>7. \A r \in asked : r.window \in Managed(t) /\ <<r.batch, r.window>> \in Asks(t)
  <2> SUFFICES ASSUME NEW w \in W
               PROVE  w \in Managed(t) /\ <<batch, w>> \in Asks(t)
    OBVIOUS
  <2>1. [kind |-> "Record", window |-> w, number |-> batch] \in Items(t.intents)
    BY <1>3, <1>5
  <2> QED
    BY <1>6, <2>1 DEF Asks
<1>8. Adds(s, t)
  BY <1>5, <1>6, <1>7 DEF Adds, pending
<1>9. Adds(s, s)
  BY DEF Adds
<1> QED
  BY <1>4, <1>8, <1>9

(* request_switch_reparks waits for entries it has just asked for.         *)
LEMMA ReparksBusy ==
    ASSUME NEW s \in EngineState, NEW W \in SUBSET Window, NEW D, NEW M, Pends(s, D)
    PROVE  Busy(RequestSwitchReparks(s, W), D, M)
<1> DEFINE able == {w \in W : Parkable(s, w)}
           lost == W \ able
           t == RequestRecoveryEntries(s, able, s.switch.id)
           tokens == {<<t.lastBatch, w>> : w \in able}
           u == [t EXCEPT !.switch.recording = tokens,
                          !.switch.inFlight  = able,
                          !.switch.stranded  = @ \cup lost,
                          !.switch.restored  = @ \ lost,
                          !.switch.parked    = @ \ lost]
<1>1. s.switch \in Transaction /\ s.switch.id \in Nat
  BY FieldTypes DEF Transaction
<1>2. able \in SUBSET Window /\ lost \in SUBSET Window /\ able \subseteq Managed(s)
  BY DEF Parkable, Managed
<1>. HIDE DEF able, lost
<1>3. t \in EngineState /\ t.switch = s.switch /\ Adds(s, t)
  BY <1>1, <1>2, RequestPlans, RequestAdds
<1>. HIDE DEF t
<1>4. t.lastBatch \in Nat /\ tokens \in SUBSET Token
  BY <1>2, <1>3, FieldTypes DEF Token
<1>5. RequestSwitchReparks(s, W) = AdvanceSwitch(u)
  BY DEF RequestSwitchReparks, t, able, lost
<1>6. \A w \in able : \E x \in tokens : x[2] = w
  <2>1. \A w \in able : <<t.lastBatch, w>> \in tokens /\ <<t.lastBatch, w>>[2] = w
    OBVIOUS
  <2>. HIDE DEF tokens
  <2> QED
    BY <2>1
<1>. HIDE DEF tokens
<1> DEFINE sw == [t.switch EXCEPT !.recording = tokens, !.inFlight = able,
                                  !.stranded = @ \cup lost, !.restored = @ \ lost,
                                  !.parked = @ \ lost]
<1>7. /\ sw \in Transaction /\ sw.inFlight = able /\ sw.recording = tokens
      /\ u = [t EXCEPT !.switch = sw]
  BY <1>1, <1>2, <1>3, <1>4 DEF EngineState, Transaction
<1>. HIDE DEF u, sw
<1>8. /\ u \in EngineState /\ u.life = t.life /\ u.effects = t.effects
      /\ u.intents = t.intents /\ u.pending = t.pending /\ u.switch = sw
  BY <1>3, <1>7 DEF EngineState
<1>9. Pends(u, D)
  <2>1. Pends(t, D)
    BY <1>3, AddsBusy
  <2> QED
    BY <1>8, <2>1 DEF Pends, Managed, Asks
<1>10. Flies(u, M)
  BY <1>6, <1>7, <1>8 DEF Flies
<1> QED
  BY <1>5, <1>8, <1>9, <1>10, AdvanceBusy

(* begin_switch_compensation                                               *)
LEMMA CompensationBusy ==
    ASSUME NEW s \in EngineState, NEW D, NEW M, Pends(s, D),
           SwitchOpen(s), ~Compensating(s)
    PROVE  Busy(BeginSwitchCompensation(s), D, M)
<1> DEFINE t == [s EXCEPT !.pending = {r \in @ : r.switch = 0},
                          !.switch.phase     = "CompensatingPark",
                          !.switch.queued    = {},
                          !.switch.recording = {},
                          !.switch.inFlight  = {}]
<1>1. /\ s.switch \in Transaction /\ s.pending \in SUBSET Request
      /\ s.switch.restored \in SUBSET Window
  BY FieldTypes DEF Transaction
<1>2. t \in EngineState
  <2>1. "CompensatingPark" \in Phase
    BY DEF Phase, CompensatingPhase
  <2> QED
    BY <2>1, <1>1 DEF EngineState, Transaction
<1>3. t.life = s.life /\ t.intents = s.intents /\ t.pending \subseteq s.pending
  BY DEF EngineState
<1>4. BeginSwitchCompensation(s) = RequestSwitchReparks(t, s.switch.restored)
  BY DEF BeginSwitchCompensation
<1>. HIDE DEF t
<1>5. Pends(t, D)
  BY <1>3 DEF Pends, Managed, Asks
<1> QED
  BY <1>1, <1>2, <1>4, <1>5, ReparksBusy

LEMMA TransactionReplaced ==
    ASSUME NEW s \in EngineState, NEW sw \in Transaction
    PROVE  /\ [s EXCEPT !.switch = sw] \in EngineState
           /\ [s EXCEPT !.switch = sw].life = s.life
           /\ [s EXCEPT !.switch = sw].intents = s.intents
           /\ [s EXCEPT !.switch = sw].effects = s.effects
           /\ [s EXCEPT !.switch = sw].pending = s.pending
           /\ [s EXCEPT !.switch = sw].switch = sw
BY DEF EngineState

(* switch_window_settled: the answer of a window is the last thing that    *)
(* need be under way for it.                                               *)
LEMMA SettledBusy ==
    ASSUME NEW s \in EngineState, NEW w \in Window, NEW ok \in BOOLEAN, NEW D, NEW M,
           Pends(s, D), Flies(s, M \cup {w}), Underway(s)
    PROVE  Busy(SwitchWindowSettled(s, w, ok), D, M)
<1> DEFINE phase == s.switch.phase
           parked == IF phase \in {"Recording", "Parking"} THEN s.switch.parked \cup {w}
                     ELSE IF phase = "CompensatingRestore" THEN s.switch.parked \ {w}
                     ELSE s.switch.parked
           restored == IF phase = "Restoring" THEN s.switch.restored \cup {w}
                       ELSE IF phase = "CompensatingPark" THEN s.switch.restored \ {w}
                       ELSE s.switch.restored
           t == [s EXCEPT !.switch.inFlight = @ \ {w}]
           landed == [t EXCEPT !.switch.parked = parked, !.switch.restored = restored]
           lost == [t EXCEPT !.switch.stranded = @ \cup {w},
                             !.switch.restored = @ \ {w},
                             !.switch.parked   = @ \ {w}]
<1>1. s.switch \in Transaction
  BY FieldTypes
<1>2. parked \in SUBSET Window /\ restored \in SUBSET Window
  BY <1>1 DEF Transaction
<1>3. CASE w \notin s.switch.inFlight
  <2>1. SwitchWindowSettled(s, w, ok) = s
    BY <1>3 DEF SwitchWindowSettled
  <2> QED
    BY <1>3, <2>1 DEF Busy, Flies
<1>4. CASE w \in s.switch.inFlight
  <2>1. SwitchWindowSettled(s, w, ok) \in {AdvanceSwitch(landed), AdvanceSwitch(lost)}
        \/ (~Compensating(s) /\ SwitchWindowSettled(s, w, ok) = BeginSwitchCompensation(t))
    <3>1. t.switch.parked = s.switch.parked /\ t.switch.restored = s.switch.restored
      BY <1>1 DEF EngineState, Transaction
    <3>2. landed = [t EXCEPT !.switch.parked =
                         IF phase \in {"Recording", "Parking"} THEN @ \cup {w}
                         ELSE IF phase = "CompensatingRestore" THEN @ \ {w} ELSE @,
                      !.switch.restored =
                         IF phase = "Restoring" THEN @ \cup {w}
                         ELSE IF phase = "CompensatingPark" THEN @ \ {w} ELSE @]
      BY <1>1, <3>1 DEF EngineState, Transaction
    <3>. HIDE DEF parked, restored, landed
    <3>3. CASE ok
      BY <1>4, <3>2, <3>3 DEF SwitchWindowSettled
    <3>4. CASE ~ok
      BY <1>4, <3>4 DEF SwitchWindowSettled
    <3> QED
      BY <3>3, <3>4
  <2>. HIDE DEF parked, restored
  <2>2. /\ t \in EngineState /\ t.life = s.life /\ t.intents = s.intents
        /\ t.effects = s.effects /\ t.pending = s.pending
        /\ t.switch.inFlight = s.switch.inFlight \ {w}
        /\ t.switch.recording = s.switch.recording /\ t.switch.phase = phase
    BY <1>1 DEF EngineState, Transaction
  <2>. HIDE DEF t
  <2>3. t.switch \in Transaction
    BY <2>2, FieldTypes
  <2> DEFINE done == [t.switch EXCEPT !.parked = parked, !.restored = restored]
             gone == [t.switch EXCEPT !.stranded = @ \cup {w},
                                      !.restored = @ \ {w},
                                      !.parked   = @ \ {w}]
  <2>4. /\ done \in Transaction /\ done.inFlight = t.switch.inFlight
        /\ done.recording = t.switch.recording
    BY <1>2, <2>3 DEF Transaction
  <2>5. /\ gone \in Transaction /\ gone.inFlight = t.switch.inFlight
        /\ gone.recording = t.switch.recording
    BY <2>3 DEF Transaction
  <2>11. landed = [t EXCEPT !.switch = done] /\ lost = [t EXCEPT !.switch = gone]
    OBVIOUS
  <2>. HIDE DEF done, gone, landed, lost
  <2>12. /\ landed \in EngineState /\ landed.life = t.life /\ landed.intents = t.intents
         /\ landed.effects = t.effects /\ landed.pending = t.pending
         /\ landed.switch = done
    BY <2>2, <2>4, <2>11, TransactionReplaced
  <2>13. /\ lost \in EngineState /\ lost.life = t.life /\ lost.intents = t.intents
         /\ lost.effects = t.effects /\ lost.pending = t.pending
         /\ lost.switch = gone
    BY <2>2, <2>5, <2>11, TransactionReplaced
  <2>6. Pends(t, D) /\ Flies(t, M)
    BY <2>2 DEF Pends, Flies, Managed, Asks, Movers
  <2>7. Pends(landed, D) /\ Flies(landed, M)
    BY <2>4, <2>6, <2>12 DEF Pends, Flies, Managed, Asks, Movers
  <2>8. Pends(lost, D) /\ Flies(lost, M)
    BY <2>5, <2>6, <2>13 DEF Pends, Flies, Managed, Asks, Movers
  <2>9. Busy(AdvanceSwitch(landed), D, M) /\ Busy(AdvanceSwitch(lost), D, M)
    BY <2>7, <2>8, <2>12, <2>13, AdvanceBusy
  <2>10. CASE ~Compensating(s) /\ SwitchWindowSettled(s, w, ok) = BeginSwitchCompensation(t)
    <3>1. CASE SwitchOpen(s)
      <4>1. SwitchOpen(t) /\ ~Compensating(t)
        BY <2>2, <2>10, <3>1 DEF SwitchOpen, Compensating
      <4> QED
        BY <2>2, <2>6, <2>10, <4>1, CompensationBusy
    <3>2. CASE ~SwitchOpen(s)
      <4>1. BeginSwitchCompensation(t) = t /\ Underway(t)
        BY <2>2, <3>2 DEF BeginSwitchCompensation, SwitchOpen, Underway
      <4> QED
        BY <2>6, <2>10, <4>1 DEF Busy
    <3> QED
      BY <3>1, <3>2
  <2> QED
    BY <2>1, <2>9, <2>10
<1> QED
  BY <1>3, <1>4

(* begin_workspace_switch                                                  *)
LEMMA BeginBusy ==
    ASSUME NEW s \in EngineState, NEW n \in Workspace, NEW d \in Display,
           NEW D, NEW M, Pends(s, D)
    PROVE  Busy(BeginWorkspaceSwitch(s, n, d), D, M)
<1> DEFINE id == s.lastSwitch + 1
           park == ToPark(s, d)
           t == RequestRecoveryEntries(s, park, id)
           tokens == {<<t.lastBatch, w>> : w \in park}
           sw == [NoSwitch EXCEPT
                    !.id = id, !.phase = "Recording", !.display = d,
                    !.target = n, !.outgoing = s.pool.displayed[d],
                    !.queued = ToRestore(s, n), !.recording = tokens]
           u == [t EXCEPT !.lastSwitch = id, !.switch = sw]
<1>1. id \in Nat /\ s.pool.displayed[d] \in Workspace \cup {None}
  BY FieldTypes DEF Pool
<1>2. /\ park \in SUBSET Window /\ park \subseteq Managed(s)
      /\ ToRestore(s, n) \in SUBSET Window
  BY DEF ToPark, OnScreenMembers, Managed, ToRestore, MembersOf
<1>. HIDE DEF id, park
<1>3. t \in EngineState /\ Adds(s, t)
  BY <1>1, <1>2, RequestPlans, RequestAdds
<1>. HIDE DEF t
<1>4. t.lastBatch \in Nat /\ tokens \in SUBSET Token
  BY <1>2, <1>3, FieldTypes DEF Token
<1>5. BeginWorkspaceSwitch(s, n, d) = AdvanceSwitch(u)
  BY DEF BeginWorkspaceSwitch, id, park, t
<1>. HIDE DEF tokens
<1>6. sw \in Transaction /\ sw.inFlight = {}
  <2>1. "Recording" \in Phase
    BY DEF Phase, ForwardPhase
  <2> QED
    BY <1>1, <1>2, <1>4, <2>1 DEF Transaction, NoSwitch
<1>. HIDE DEF sw
<1>7. /\ u \in EngineState /\ u.life = t.life /\ u.intents = t.intents
      /\ u.pending = t.pending /\ u.switch = sw
  BY <1>1, <1>3, <1>6 DEF EngineState
<1>. HIDE DEF u
<1>8. Pends(u, D)
  <2>1. Pends(t, D)
    BY <1>3, AddsBusy
  <2> QED
    BY <1>7, <2>1 DEF Pends, Managed, Asks
<1>9. Flies(u, M)
  BY <1>6, <1>7 DEF Flies
<1> QED
  BY <1>5, <1>7, <1>8, <1>9, AdvanceBusy

-----------------------------------------------------------------------------
(* Beside the transaction *)

LEMMA IdleAdds ==
    ASSUME NEW s, NEW t, t.switch = s.switch, t.life = s.life, t.pending = s.pending,
           t.effects = s.effects, t.intents = s.intents
    PROVE  Adds(s, t)
BY DEF Adds, Managed, Movers, Asks

(* Restores asked for on behalf of no switch.                              *)
LEMMA EffectsAdd ==
    ASSUME NEW s \in EngineState, NEW r \in EngineState, NEW W \in SUBSET Window
    PROVE  Adds(s, [s EXCEPT !.effects = Push(@, RestoreMoves(r, W))])
<1> DEFINE effects == Push(s.effects, RestoreMoves(r, W))
           t == [s EXCEPT !.effects = effects]
<1>1. Plans(s, t)
  BY EffectsPlan
<1>. HIDE DEF effects
<1>2. t.switch = s.switch /\ t.pending = s.pending
  BY DEF EngineState
<1>. HIDE DEF t
<1>3. Adds(s, t)
  BY <1>1, <1>2, PlansAdd
<1> QED
  BY <1>3 DEF t, effects

(* reconcile_hidden_workspace_windows                                      *)
LEMMA ReconcileAdds ==
    ASSUME NEW s \in EngineState
    PROVE  Adds(s, ReconcileHiddenWorkspaceWindows(s))
<1> DEFINE toPark == {w \in Managed(s) : Hidden(s, w) /\ w \notin Parked(s) /\ Parkable(s, w)}
           toRestore == {w \in Managed(s) : ~Hidden(s, w) /\ w \in Parked(s)}
           t == RequestRecoveryEntries(s, toPark, 0)
           u == [t EXCEPT !.effects = Push(@, RestoreMoves(s, toRestore))]
<1>1. /\ toPark \in SUBSET Window /\ toPark \subseteq Managed(s)
      /\ toRestore \in SUBSET Window
  BY DEF Managed
<1>2. ReconcileHiddenWorkspaceWindows(s) \in {s, u}
  BY DEF ReconcileHiddenWorkspaceWindows
<1>. HIDE DEF toPark, toRestore
<1>3. t \in EngineState /\ Adds(s, t)
  BY <1>1, RequestPlans, RequestAdds
<1>. HIDE DEF t
<1>4. Adds(t, u)
  BY <1>1, <1>3, EffectsAdd
<1>. HIDE DEF u
<1>5. Adds(s, s)
  BY IdleAdds
<1> QED
  BY <1>2, <1>3, <1>4, <1>5, AddsTransitive

(* The other functions ask for nothing: those of the displayed assignment, *)
LEMMA AssignmentAdds ==
    ASSUME NEW s \in EngineState
    PROVE  /\ Adds(s, AssignUnassignedWindows(s))
           /\ Adds(s, SyncWorkspacesFromConfig(s))
           /\ Adds(s, ApplySwitchingMapping(s))
           /\ \A t \in FillEmptyDisplays(s) : Adds(s, t)
<1>1. Adds(s, AssignUnassignedWindows(s))
  <2> DEFINE t == AssignUnassignedWindows(s)
  <2>1. /\ t.switch = s.switch /\ t.life = s.life /\ t.pending = s.pending
        /\ t.effects = s.effects /\ t.intents = s.intents
    BY DEF AssignUnassignedWindows, EngineState
  <2>. HIDE DEF t
  <2>2. Adds(s, t)
    BY <2>1, IdleAdds
  <2> QED
    BY <2>2 DEF t
<1>2. Adds(s, SyncWorkspacesFromConfig(s))
  <2> DEFINE t == SyncWorkspacesFromConfig(s)
  <2>1. /\ t.switch = s.switch /\ t.life = s.life /\ t.pending = s.pending
        /\ t.effects = s.effects /\ t.intents = s.intents
    BY DEF SyncWorkspacesFromConfig, EngineState
  <2>. HIDE DEF t
  <2>2. Adds(s, t)
    BY <2>1, IdleAdds
  <2> QED
    BY <2>2 DEF t
<1>3. Adds(s, ApplySwitchingMapping(s))
  <2> DEFINE t == ApplySwitchingMapping(s)
  <2>1. /\ t.switch = s.switch /\ t.life = s.life /\ t.pending = s.pending
        /\ t.effects = s.effects /\ t.intents = s.intents
    BY DEF ApplySwitchingMapping, EngineState
  <2>. HIDE DEF t
  <2>2. Adds(s, t)
    BY <2>1, IdleAdds
  <2> QED
    BY <2>2 DEF t
<1>4. ASSUME NEW t \in FillEmptyDisplays(s)
      PROVE  Adds(s, t)
  <2>1. /\ t.switch = s.switch /\ t.life = s.life /\ t.pending = s.pending
        /\ t.effects = s.effects /\ t.intents = s.intents
    BY DEF FillEmptyDisplays, EngineState
  <2> QED
    BY <2>1, IdleAdds
<1> QED
  BY <1>1, <1>2, <1>3, <1>4

(* and those of vanished displays, stored rows and stranded windows.       *)
LEMMA AsideAdds ==
    ASSUME NEW s \in EngineState, NEW new, NEW nearest, NEW n, NEW w
    PROVE  /\ Adds(s, LeaveVanishedDisplays(s, new, nearest))
           /\ Adds(s, LoadDisplayed(s, n))
           /\ Adds(s, SettleStrandedWindow(s, w))
           /\ Adds(s, StrandWindow(s, w))
<1>1. Adds(s, LeaveVanishedDisplays(s, new, nearest))
  <2> DEFINE t == LeaveVanishedDisplays(s, new, nearest)
  <2>1. /\ t.switch = s.switch /\ t.life = s.life /\ t.pending = s.pending
        /\ t.effects = s.effects /\ t.intents = s.intents
    BY DEF LeaveVanishedDisplays, EngineState
  <2>. HIDE DEF t
  <2>2. Adds(s, t)
    BY <2>1, IdleAdds
  <2> QED
    BY <2>2 DEF t
<1>2. Adds(s, LoadDisplayed(s, n))
  <2> DEFINE t == LoadDisplayed(s, n)
  <2>1. /\ t.switch = s.switch /\ t.life = s.life /\ t.pending = s.pending
        /\ t.effects = s.effects /\ t.intents = s.intents
    BY DEF LoadDisplayed, EngineState
  <2>. HIDE DEF t
  <2>2. Adds(s, t)
    BY <2>1, IdleAdds
  <2> QED
    BY <2>2 DEF t
<1>3. Adds(s, SettleStrandedWindow(s, w))
  <2> DEFINE t == SettleStrandedWindow(s, w)
  <2>1. /\ t.switch = s.switch /\ t.life = s.life /\ t.pending = s.pending
        /\ t.effects = s.effects /\ t.intents = s.intents
    BY DEF SettleStrandedWindow, EngineState
  <2>. HIDE DEF t
  <2>2. Adds(s, t)
    BY <2>1, IdleAdds
  <2> QED
    BY <2>2 DEF t
<1>4. Adds(s, StrandWindow(s, w))
  <2> DEFINE t == StrandWindow(s, w)
  <2>1. /\ t.switch = s.switch /\ t.life = s.life /\ t.pending = s.pending
        /\ t.effects = s.effects /\ t.intents = s.intents
    BY DEF StrandWindow, EngineState
  <2>. HIDE DEF t
  <2>2. Adds(s, t)
    BY <2>1, IdleAdds
  <2> QED
    BY <2>2 DEF t
<1> QED
  BY <1>1, <1>2, <1>3, <1>4

(* replace_inventory_from_observations, for an enumeration that finds every *)
(* window the reducer knows.                                               *)
LEMMA InventoryAdds ==
    ASSUME NEW s, Good(s),
           NEW life \in [Window -> Lifecycle], NEW seat \in [Window -> Display],
           \A w \in Managed(s) : life[w] # "Gone"
    PROVE  Adds(s, ReplaceInventory(s, life, seat))
<1> DEFINE seen   == {w \in Window : life[w] # "Gone"}
           closed == Parked(s) \ seen
           parked == [w \in Window |-> IF w \in seen THEN s.parked[w] ELSE 0]
           marks  == {[kind |-> "MarkRestored", window |-> w, number |-> s.parked[w]] : w \in closed}
           intents == Push(s.intents, marks)
           to == [w \in Window |-> IF w \in seen \ Managed(s) /\ RuleTarget[w] \in Names(s.pool)
                                   THEN RuleTarget[w] ELSE None]
           pool == Assign(RetainMembers(s.pool, seen), to)
           t == [s EXCEPT !.life = life, !.seat = seat, !.parked = parked,
                          !.intents = intents, !.pool = pool]
           a == AssignUnassignedWindows(t)
<1>1. /\ s \in EngineState /\ s.pool \in Pool /\ s.parked \in [Window -> Nat]
      /\ s.intents \in Seq(SUBSET Intent) /\ DisplayedOnce(s.pool)
  BY FieldTypes DEF Good, Consistent
<1>2. parked \in [Window -> Nat]
  BY <1>1
<1>3. intents \in Seq(SUBSET Intent) /\ Items(s.intents) \subseteq Items(intents)
  <2>1. marks \in SUBSET Intent
    BY <1>1 DEF Parked, Intent
  <2>. HIDE DEF marks
  <2>2. intents \in Seq(SUBSET Intent)
    BY <1>1, <2>1, PushType
  <2>3. Items(intents) = Items(s.intents) \cup marks
    BY <1>1, <2>1, ItemsPushed
  <2> QED
    BY <2>2, <2>3
<1>4. pool \in Pool /\ DisplayedOnce(pool)
  <2>1. to \in [Window -> Workspace \cup {None}]
    BY DEF Names
  <2>. HIDE DEF to, seen
  <2>2. RetainMembers(s.pool, seen) \in Pool /\ DisplayedOnce(RetainMembers(s.pool, seen))
    BY <1>1, RetainMembersKeeps
  <2> QED
    BY <2>1, <2>2, AssignKeeps
<1>5. /\ t \in EngineState /\ t.switch = s.switch /\ t.pending = s.pending /\ t.pool = pool
      /\ t.life = life /\ t.intents = intents /\ t.effects = s.effects
  <2>. HIDE DEF parked, intents, pool
  <2> QED
    BY <1>1, <1>2, <1>3, <1>4 DEF EngineState
<1>6. ReplaceInventory(s, life, seat) = ReconcileHiddenWorkspaceWindows(a)
  BY DEF ReplaceInventory
<1>. HIDE DEF t
<1>7. Good(t)
  <2>. HIDE DEF pool, parked, intents
  <2> QED
    BY <1>4, <1>5, FrameGood
<1>8. Adds(s, t)
  <2>. HIDE DEF pool, parked, intents
  <2>1. Managed(s) \subseteq Managed(t)
    BY <1>5 DEF Managed
  <2> QED
    BY <1>3, <1>5, <2>1 DEF Adds, Movers, Asks
<1>9. a \in EngineState /\ Adds(t, a)
  BY <1>5, <1>7, AssignGood, AssignmentAdds DEF Good, Consistent
<1>. HIDE DEF a
<1> QED
  BY <1>6, <1>8, <1>9, ReconcileAdds, AddsTransitive

(* The tail of ConfigChanged, DisplayTopologyChanged and WorkspacesLoaded. *)
LEMMA TailAdds ==
    ASSUME NEW s, NEW t, Good(t), Adds(s, t)
    PROVE  Adds(s, ReconcileHiddenWorkspaceWindows(AssignUnassignedWindows(
                       ApplySwitchingMapping(t))))
<1> DEFINE m == ApplySwitchingMapping(t)
           a == AssignUnassignedWindows(m)
<1>1. Good(m) /\ m \in EngineState /\ Adds(t, m)
  BY MappingGood, AssignmentAdds DEF Good, Consistent
<1>. HIDE DEF m
<1>2. Good(a) /\ a \in EngineState /\ Adds(m, a)
  BY <1>1, AssignGood, AssignmentAdds DEF Good, Consistent
<1>. HIDE DEF a
<1>3. Adds(a, ReconcileHiddenWorkspaceWindows(a))
  BY <1>2, ReconcileAdds
<1>4. Adds(s, ReconcileHiddenWorkspaceWindows(a))
  BY <1>1, <1>2, <1>3, AddsTransitive
<1> QED
  BY <1>4 DEF a, m

LEMMA ResettleAdds ==
    ASSUME NEW s, Good(s), NEW v \in Resettle(s)
    PROVE  Adds(s, v)
<1> DEFINE y == SyncWorkspacesFromConfig(s)
<1>1. PICK t \in FillEmptyDisplays(y) :
        v = ReconcileHiddenWorkspaceWindows(AssignUnassignedWindows(ApplySwitchingMapping(t)))
  BY DEF Resettle
<1>2. s \in EngineState /\ Good(y) /\ Adds(s, y)
  BY SyncGood, AssignmentAdds DEF Good, Consistent
<1>. HIDE DEF y
<1>3. Good(t) /\ y \in EngineState
  BY <1>2, FillGood DEF Good, Consistent
<1>4. Adds(y, t)
  BY <1>3, AssignmentAdds
<1> QED
  BY <1>1, <1>2, <1>3, <1>4, TailAdds, AddsTransitive

(* WorkspacesLoaded                                                        *)
LEMMA LoadAdds ==
    ASSUME NEW s, Good(s), NEW stored \in SUBSET Workspace,
           NEW where \in [Workspace -> Display \cup {None}],
           NEW v \in LoadWorkspaces(s, stored, where)
    PROVE  Adds(s, v)
<1> DEFINE t == Stocked(s, stored, where)
<1>1. PICK l \in Returned(t) : \E f \in FillEmptyDisplays(l) :
        v = ReconcileHiddenWorkspaceWindows(AssignUnassignedWindows(ApplySwitchingMapping(f)))
  BY LoadParts
<1>2. PICK u \in FillEmptyDisplays(l) :
        v = ReconcileHiddenWorkspaceWindows(AssignUnassignedWindows(ApplySwitchingMapping(u)))
  BY <1>1
<1>3. s \in EngineState /\ Good(t) /\ Adds(s, t)
  <2>1. s \in EngineState /\ Good(t)
    BY StockedGood DEF Good, Consistent
  <2>2. /\ t.switch = s.switch /\ t.life = s.life /\ t.pending = s.pending
        /\ t.effects = s.effects /\ t.intents = s.intents
    BY <2>1 DEF Stocked, EngineState
  <2>. HIDE DEF t
  <2> QED
    BY <2>1, <2>2, IdleAdds
<1>. HIDE DEF t
<1>4. Good(l) /\ Adds(t, l)
  <2>1. t \in EngineState /\ Adds(t, t)
    BY <1>3, IdleAdds DEF Good, Consistent
  <2>2. Good(l)
    BY <1>3, ReturnedGood
  <2>3. ASSUME NEW n, Good(LoadDisplayed(t, n))
        PROVE  /\ Adds(t, LoadDisplayed(t, n))
               /\ \A m : Adds(t, LoadDisplayed(LoadDisplayed(t, n), m))
    <3>1. LoadDisplayed(t, n) \in EngineState
      BY <2>3 DEF Good, Consistent
    <3>2. Adds(t, LoadDisplayed(t, n))
      BY <2>1, AsideAdds
    <3>3. \A m : Adds(LoadDisplayed(t, n), LoadDisplayed(LoadDisplayed(t, n), m))
      BY <3>1, AsideAdds
    <3> QED
      BY <3>2, <3>3, AddsTransitive
  <2> QED
    BY <1>3, <2>1, <2>2, <2>3, ReturnedParts
<1>5. Good(u) /\ Adds(s, u)
  <2>1. Good(u) /\ l \in EngineState
    BY <1>4, FillGood DEF Good, Consistent
  <2>2. Adds(l, u)
    BY <2>1, AssignmentAdds
  <2> QED
    BY <1>3, <1>4, <2>1, <2>2, AddsTransitive
<1> QED
  BY <1>2, <1>5, TailAdds

-----------------------------------------------------------------------------
(* The arms of `apply` *)

(* A request, a profile or a stored row adds work, or opens a switch on    *)
(* work it has just asked for.                                             *)
LEMMA FocusBusy ==
    ASSUME Good(engine), NEW n \in Workspace, NEW d \in Display, WorkspaceFocusRequested(n, d),
           NEW D, NEW M, Busy(engine, D, M)
    PROVE  Busy(engine', D, M)
<1>1. engine \in EngineState /\ Pends(engine, D)
  BY DEF Good, Consistent, Busy
<1>2. CASE engine' = [engine EXCEPT !.pool = Show(@, n, d)]
  <2>1. /\ engine'.switch = engine.switch /\ engine'.life = engine.life
        /\ engine'.pending = engine.pending
        /\ engine'.effects = engine.effects /\ engine'.intents = engine.intents
    BY <1>1, <1>2 DEF EngineState
  <2> QED
    BY <2>1, IdleAdds, AddsBusy
<1>3. CASE engine' = BeginWorkspaceSwitch(engine, n, d)
  BY <1>1, <1>3, BeginBusy
<1> QED
  BY <1>2, <1>3 DEF WorkspaceFocusRequested

LEMMA PoolAdds ==
    ASSUME Good(engine), NEW n \in Workspace, NEW d,
           WorkspaceMoveRequested(n, d) \/ WorkspaceCreateRequested(n)
             \/ WorkspaceDeleteRequested(n)
    PROVE  Adds(engine, engine')
<1>1. engine \in EngineState
  BY DEF Good, Consistent
<1>2. /\ engine'.switch = engine.switch /\ engine'.life = engine.life
      /\ engine'.pending = engine.pending
      /\ engine'.effects = engine.effects /\ engine'.intents = engine.intents
  <2>1. CASE WorkspaceMoveRequested(n, d)
    BY <1>1, <2>1 DEF WorkspaceMoveRequested, EngineState
  <2>2. CASE WorkspaceCreateRequested(n)
    BY <1>1, <2>2 DEF WorkspaceCreateRequested, EngineState
  <2>3. CASE WorkspaceDeleteRequested(n)
    BY <1>1, <2>3 DEF WorkspaceDeleteRequested, EngineState
  <2> QED
    BY <2>1, <2>2, <2>3
<1> QED
  BY <1>2, IdleAdds

LEMMA RestoreSwitchAdds ==
    ASSUME Good(engine), WorkspaceSwitchRestoreRequested
    PROVE  Adds(engine, engine')
<1> DEFINE owing == {w \in engine.degraded : OwesMove(engine, w)}
           back  == owing \cap Parked(engine)
           away  == {w \in owing \ back : Parkable(engine, w)}
           asked == RequestRecoveryEntries(engine, away, 0)
           clear == [engine EXCEPT !.degraded = {}]
           both == [asked EXCEPT !.effects = Push(@, RestoreMoves(engine, back))]
<1>1. engine \in EngineState /\ engine.degraded \in SUBSET Window
  BY FieldTypes DEF Good, Consistent
<1>2. back \in SUBSET Window /\ away \in SUBSET Window /\ away \subseteq Managed(engine)
  BY <1>1 DEF OwesMove
<1>3. Adds(engine, clear)
  <2>1. /\ clear.switch = engine.switch /\ clear.life = engine.life
        /\ clear.pending = engine.pending
        /\ clear.effects = engine.effects /\ clear.intents = engine.intents
    BY <1>1 DEF EngineState
  <2>. HIDE DEF clear
  <2> QED
    BY <2>1, IdleAdds
<1>4. engine' = IF owing = {} THEN clear ELSE both
  BY DEF WorkspaceSwitchRestoreRequested
<1>5. Adds(engine, both)
  <2>1. asked \in EngineState /\ Adds(engine, asked)
    <3>. HIDE DEF away
    <3> QED
      BY <1>1, <1>2, RequestPlans, RequestAdds
  <2>. HIDE DEF asked, back
  <2>2. Adds(asked, both)
    BY <1>1, <1>2, <2>1, EffectsAdd
  <2>. HIDE DEF both
  <2> QED
    BY <2>1, <2>2, AddsTransitive
<1>. HIDE DEF owing, clear, both
<1> QED
  BY <1>3, <1>4, <1>5

LEMMA FlagAdds ==
    ASSUME Good(engine), NEW c \in Capability, NEW h \in Health,
           \/ PauseRequested \/ ResumeRequested
           \/ ParkingCapabilityReported(c) \/ PersistenceHealthChanged(h)
    PROVE  Adds(engine, engine')
<1>1. engine \in EngineState
  BY DEF Good, Consistent
<1>2. /\ engine'.switch = engine.switch /\ engine'.life = engine.life
      /\ engine'.pending = engine.pending
      /\ engine'.effects = engine.effects /\ engine'.intents = engine.intents
  BY <1>1 DEF PauseRequested, ResumeRequested, ParkingCapabilityReported,
              PersistenceHealthChanged, EngineState
<1> QED
  BY <1>2, IdleAdds

LEMMA ConfigAdds ==
    ASSUME Good(engine), NEW c \in Configs, ConfigChanged(c)
    PROVE  Adds(engine, engine')
<1> DEFINE t == [engine EXCEPT !.config = c]
<1>1. engine \in EngineState /\ DisplayedOnce(engine.pool)
  BY DEF Good, Consistent
<1>2. /\ t \in EngineState /\ t.switch = engine.switch /\ t.pending = engine.pending
      /\ t.pool = engine.pool /\ t.life = engine.life
      /\ t.effects = engine.effects /\ t.intents = engine.intents
  BY <1>1 DEF EngineState
<1>3. engine' \in Resettle(t)
  BY DEF ConfigChanged
<1>. HIDE DEF t
<1>4. Good(t)
  BY <1>1, <1>2, FrameGood
<1>5. Adds(engine, t)
  BY <1>2, IdleAdds
<1>6. Adds(t, engine')
  BY <1>3, <1>4, ResettleAdds
<1> QED
  BY <1>5, <1>6, AddsTransitive

LEMMA TopologyAdds ==
    ASSUME Good(engine), NEW new \in SUBSET Display, NEW nearest \in Display,
           DisplayTopologyChanged(new, nearest)
    PROVE  Adds(engine, engine')
<1> DEFINE left == LeaveVanishedDisplays(engine, new, nearest)
<1>1. engine \in EngineState
  BY DEF Good, Consistent
<1>2. Good(left) /\ Adds(engine, left)
  BY <1>1, LeaveGood, AsideAdds DEF DisplayTopologyChanged
<1>3. engine' \in Resettle(left)
  BY DEF DisplayTopologyChanged
<1>. HIDE DEF left
<1>4. Adds(left, engine')
  BY <1>2, <1>3, ResettleAdds
<1> QED
  BY <1>2, <1>4, AddsTransitive

LEMMA WakeAdds ==
    ASSUME Good(engine), NEW new \in SUBSET Display, NEW nearest \in Display,
           NEW enumerated \in BOOLEAN,
           NEW life \in [Window -> Lifecycle], NEW seat \in [Window -> Display],
           \A w \in Managed(engine) : life[w] # "Gone",
           WakeReconciliation(new, nearest, enumerated, life, seat)
    PROVE  Adds(engine, engine')
<1> DEFINE left == LeaveVanishedDisplays(engine, new, nearest)
           synced == SyncWorkspacesFromConfig(left)
           filled == FillEmptyDisplays(synced)
<1>0. engine \in EngineState
  BY DEF Good, Consistent
<1>1. Good(left) /\ left \in EngineState /\ Plans(engine, left) /\ Adds(engine, left)
  BY <1>0, LeaveGood, LeavePlans, AsideAdds DEF WakeReconciliation, Good, Consistent
<1>2. ASSUME NEW u \in filled
      PROVE  /\ Good(ApplySwitchingMapping(u)) /\ Adds(engine, ApplySwitchingMapping(u))
             /\ Plans(engine, ApplySwitchingMapping(u))
  <2>. HIDE DEF left
  <2>1. /\ Good(synced) /\ synced \in EngineState /\ Adds(engine, synced)
        /\ Plans(engine, synced)
    <3>1. Good(synced) /\ Adds(left, synced) /\ Plans(left, synced)
      BY <1>1, SyncGood, AssignmentAdds, SyncPlans
    <3> QED
      BY <1>0, <1>1, <3>1, AddsTransitive, PlansTransitive DEF Good, Consistent
  <2>. HIDE DEF synced
  <2>2. Good(u) /\ u \in EngineState
    BY <1>2, <2>1, FillGood DEF Good, Consistent
  <2>3. Adds(synced, u) /\ Plans(synced, u)
    BY <1>2, <2>1, AssignmentAdds, FillPlans
  <2>4. /\ Good(ApplySwitchingMapping(u)) /\ Adds(u, ApplySwitchingMapping(u))
        /\ Plans(u, ApplySwitchingMapping(u))
    BY <2>2, MappingGood, AssignmentAdds, MappingPlans
  <2>5. Adds(engine, ApplySwitchingMapping(u))
    BY <2>1, <2>3, <2>4, AddsTransitive
  <2>6. Plans(engine, u)
    BY <1>0, <2>1, <2>3, PlansTransitive
  <2> QED
    BY <1>0, <2>4, <2>5, <2>6, PlansTransitive
<1>3. PICK t \in IF new = engine.displays THEN {engine} ELSE {ApplySwitchingMapping(u) : u \in filled} :
        engine' = IF enumerated THEN ReplaceInventory(t, life, seat) ELSE t
  BY DEF WakeReconciliation
<1>. HIDE DEF filled
<1>4. Good(t) /\ Adds(engine, t) /\ Managed(t) = Managed(engine)
  <2>1. CASE new = engine.displays
    <3>1. t = engine
      BY <1>3, <2>1
    <3> QED
      BY <3>1, IdleAdds
  <2>2. CASE new # engine.displays
    <3>1. PICK u \in filled : t = ApplySwitchingMapping(u)
      BY <1>3, <2>2
    <3> QED
      BY <1>0, <1>2, <3>1, PlansItems
  <2> QED
    BY <2>1, <2>2
<1>5. CASE enumerated
  <2>1. Adds(t, ReplaceInventory(t, life, seat))
    BY <1>4, InventoryAdds
  <2> QED
    BY <1>3, <1>4, <1>5, <2>1, AddsTransitive
<1>6. CASE ~enumerated
  BY <1>3, <1>4, <1>6
<1> QED
  BY <1>5, <1>6

-----------------------------------------------------------------------------
(* The answers *)

(* The acknowledgement of an entry is the last thing that need be under    *)
(* way for its request, and the park it authorises the next.               *)
LEMMA DurableBusy ==
    ASSUME Good(engine), NEW b \in Nat, NEW v \in Window, NEW n \in Nat,
           RecoveryEntryDurable(b, v, n),
           NEW D, NEW M, Busy(engine, D \cup {<<b, v>>}, M)
    PROVE  Busy(engine', D, M)
<1>1. PICK r \in engine.pending :
        LET ours  == SwitchOpen(engine) /\ r.switch = engine.switch.id
            parks == IF v \in Managed(engine) THEN {v} ELSE {}
            rest  == engine.switch.recording \ {<<b, v>>}
            sw    == [engine.switch EXCEPT
                        !.recording = rest,
                        !.phase = IF @ = "Recording" /\ rest = {} THEN "Parking" ELSE @,
                        !.inFlight = @ \cup parks]
        IN  /\ r.batch = b /\ r.window = v
            /\ engine' = AdvanceSwitch(
                 [engine EXCEPT
                    !.pending = @ \ {r},
                    !.switch  = IF ours THEN sw ELSE @,
                    !.effects = Push(@, {[kind |-> "Park", window |-> x,
                                          entry |-> n] : x \in parks})])
  BY DEF RecoveryEntryDurable
<1> DEFINE ours  == SwitchOpen(engine) /\ r.switch = engine.switch.id
           parks == IF v \in Managed(engine) THEN {v} ELSE {}
           rest  == engine.switch.recording \ {<<b, v>>}
           phase == IF engine.switch.phase = "Recording" /\ rest = {} THEN "Parking" ELSE engine.switch.phase
           sw    == [engine.switch EXCEPT !.recording = rest, !.phase = phase, !.inFlight = @ \cup parks]
           next  == IF ours THEN sw ELSE engine.switch
           moves == {[kind |-> "Park", window |-> x, entry |-> n] : x \in parks}
           effects == Push(engine.effects, moves)
           t == [engine EXCEPT !.pending = @ \ {r}, !.switch = next, !.effects = effects]
<1>2. /\ engine \in EngineState /\ engine.switch \in Transaction /\ engine.pending \in SUBSET Request
      /\ engine.effects \in Seq(SUBSET Move) /\ RequestedOnce(engine)
  BY FieldTypes DEF Good, Consistent
<1>3. r.batch = b /\ r.window = v /\ engine' = AdvanceSwitch(t)
  BY <1>1
<1>4. v \in Managed(engine)
  BY <1>3 DEF Busy, Pends
<1>5. effects \in Seq(SUBSET Move) /\ [kind |-> "Park", window |-> v, entry |-> n] \in Items(effects)
      /\ Items(engine.effects) \subseteq Items(effects)
  <2>1. moves \in SUBSET Move /\ [kind |-> "Park", window |-> v, entry |-> n] \in moves
    BY <1>4 DEF Move
  <2>. HIDE DEF moves
  <2>2. effects \in Seq(SUBSET Move)
    BY <1>2, <2>1, PushType
  <2>3. Items(effects) = Items(engine.effects) \cup moves
    BY <1>2, <2>1, ItemsPushed
  <2> QED
    BY <2>1, <2>2, <2>3
<1>6. /\ next \in Transaction /\ next.inFlight \subseteq engine.switch.inFlight \cup {v}
      /\ engine.switch.recording \ {<<b, v>>} \subseteq next.recording
  <2>1. phase \in Phase /\ rest \in SUBSET Token /\ parks \in SUBSET Window
    BY <1>2 DEF Transaction, Phase, ForwardPhase
  <2>2. parks = {v}
    BY <1>4
  <2>. HIDE DEF phase, parks
  <2>3. sw \in Transaction /\ sw.inFlight = engine.switch.inFlight \cup {v} /\ sw.recording = rest
    BY <1>2, <2>1, <2>2 DEF Transaction
  <2>. HIDE DEF sw
  <2> QED
    BY <1>2, <2>3
<1>. HIDE DEF next, effects
<1>7. /\ t \in EngineState /\ t.life = engine.life /\ t.intents = engine.intents
      /\ t.effects = effects /\ t.switch = next /\ t.pending = engine.pending \ {r}
  BY <1>2, <1>5, <1>6 DEF EngineState
<1>. HIDE DEF t
<1>8. Pends(t, D)
  <2> SUFFICES ASSUME NEW q \in t.pending
               PROVE  q.window \in Managed(t) /\ <<q.batch, q.window>> \in D \cup Asks(t)
    BY DEF Pends
  <2>1. q \in engine.pending /\ q # r
    BY <1>7
  <2>2. q.window # v
    BY <1>2, <1>3, <2>1 DEF RequestedOnce
  <2>3. q.window \in Managed(engine) /\ <<q.batch, q.window>> \in (D \cup {<<b, v>>}) \cup Asks(engine)
    BY <2>1 DEF Busy, Pends
  <2>4. <<q.batch, q.window>> # <<b, v>>
    BY <2>2
  <2> QED
    BY <1>7, <2>3, <2>4 DEF Managed, Asks
<1>9. Flies(t, M)
  <2> SUFFICES ASSUME NEW w \in next.inFlight
               PROVE  w \in M \cup Movers(t) \/ \E x \in next.recording : x[2] = w
    BY <1>7 DEF Flies
  <2>1. CASE w = v
    BY <1>5, <1>7, <2>1 DEF Movers
  <2>2. CASE w # v
    <3>1. w \in M \cup Movers(engine) \/ \E x \in engine.switch.recording : x[2] = w
      BY <1>6, <2>2 DEF Busy, Flies
    <3>2. \A x \in engine.switch.recording : x[2] = w => x \in next.recording
      <4>1. \A x : x[2] = w => x # <<b, v>>
        BY <2>2
      <4> QED
        BY <1>6, <4>1
    <3>3. Movers(engine) \subseteq Movers(t)
      BY <1>5, <1>7 DEF Movers
    <3> QED
      BY <3>1, <3>2, <3>3
  <2> QED
    BY <2>1, <2>2
<1> QED
  BY <1>3, <1>7, <1>8, <1>9, AdvanceBusy

(* An acknowledgement nothing waits for.                                   *)
LEMMA UnknownBusy ==
    ASSUME NEW b, NEW v, UnknownToken(b, v), NEW D, NEW M, Busy(engine, D \cup {<<b, v>>}, M)
    PROVE  Busy(engine', D, M)
<1>1. engine' = engine /\ \A r \in engine.pending : ~(r.batch = b /\ r.window = v)
  BY DEF UnknownToken
<1>2. \A r \in engine.pending : <<r.batch, r.window>> # <<b, v>>
  BY <1>1
<1>3. Pends(engine, D)
  BY <1>2 DEF Busy, Pends
<1> QED
  BY <1>1, <1>3 DEF Busy

(* The answers of the adapter.                                             *)
LEMMA ParkedBusy ==
    ASSUME Good(engine), NEW v \in Window, NEW n \in Nat, WindowParked(v, n),
           NEW D, NEW M, Busy(engine, D, M \cup {v})
    PROVE  Busy(engine', D, M)
<1> DEFINE mark == {[kind |-> "MarkParked", window |-> v, number |-> n]}
           parked == [engine.parked EXCEPT ![v] = n]
           intents == Append(engine.intents, mark)
           t == [engine EXCEPT !.parked = parked, !.intents = intents]
           u == SettleStrandedWindow(t, v)
<1>1. /\ engine \in EngineState /\ engine.parked \in [Window -> Nat]
      /\ engine.intents \in Seq(SUBSET Intent)
  BY FieldTypes DEF Good, Consistent
<1>2. mark \in SUBSET Intent /\ parked \in [Window -> Nat]
  BY <1>1 DEF Intent
<1>3. intents \in Seq(SUBSET Intent) /\ Items(engine.intents) \subseteq Items(intents)
  <2>. HIDE DEF mark
  <2>1. Items(intents) = Items(engine.intents) \cup mark
    BY <1>1, <1>2, ItemsPushed
  <2> QED
    BY <1>1, <1>2, <2>1
<1>4. engine' = SwitchWindowSettled(u, v, TRUE)
  <2>1. t = [engine EXCEPT !.parked[v] = n, !.intents = Append(@, mark)]
    BY <1>1 DEF EngineState
  <2> QED
    BY <2>1 DEF WindowParked
<1>5. /\ t \in EngineState /\ t.intents = intents
      /\ t.life = engine.life /\ t.effects = engine.effects
      /\ t.switch = engine.switch /\ t.pending = engine.pending /\ t.pool = engine.pool
  <2>. HIDE DEF parked, intents
  <2> QED
    BY <1>1, <1>2, <1>3 DEF EngineState
<1>. HIDE DEF t, parked, intents
<1>6. Adds(engine, t)
  BY <1>3, <1>5 DEF Adds, Managed, Movers, Asks
<1>7. u \in EngineState /\ Adds(t, u)
  <2>1. Good(t)
    BY <1>1, <1>5, FrameGood DEF Good, Consistent
  <2> QED
    BY <1>5, <2>1, StrandGood, AsideAdds DEF Good, Consistent
<1>. HIDE DEF u
<1>8. Pends(u, D) /\ Flies(u, M \cup {v}) /\ Underway(u)
  BY <1>6, <1>7, AddsTransitive, AddsBusy DEF Busy
<1> QED
  BY <1>4, <1>7, <1>8, SettledBusy

LEMMA RestoredBusy ==
    ASSUME Good(engine), NEW v \in Window, WindowRestored(v),
           NEW D, NEW M, Busy(engine, D, M \cup {v})
    PROVE  Busy(engine', D, M)
<1> DEFINE marks == {[kind |-> "MarkRestored", window |-> x, number |-> engine.parked[x]]
                       : x \in {v} \cap Parked(engine)}
           parked == [engine.parked EXCEPT ![v] = 0]
           intents == Push(engine.intents, marks)
           t == [engine EXCEPT !.parked = parked, !.intents = intents]
           u == SettleStrandedWindow(t, v)
<1>1. /\ engine \in EngineState /\ engine.parked \in [Window -> Nat]
      /\ engine.intents \in Seq(SUBSET Intent)
  BY FieldTypes DEF Good, Consistent
<1>2. marks \in SUBSET Intent /\ parked \in [Window -> Nat]
  BY <1>1 DEF Intent
<1>3. intents \in Seq(SUBSET Intent) /\ Items(engine.intents) \subseteq Items(intents)
  <2>. HIDE DEF marks
  <2>1. Items(intents) = Items(engine.intents) \cup marks
    BY <1>1, <1>2, ItemsPushed
  <2>2. intents \in Seq(SUBSET Intent)
    BY <1>1, <1>2, PushType
  <2> QED
    BY <2>1, <2>2
<1>4. engine' = SwitchWindowSettled(u, v, TRUE)
  <2>1. t = [engine EXCEPT !.parked[v] = 0, !.intents = Push(@, marks)]
    BY <1>1 DEF EngineState
  <2> QED
    BY <2>1 DEF WindowRestored
<1>5. /\ t \in EngineState /\ t.intents = intents
      /\ t.life = engine.life /\ t.effects = engine.effects
      /\ t.switch = engine.switch /\ t.pending = engine.pending /\ t.pool = engine.pool
  <2>. HIDE DEF parked, intents
  <2> QED
    BY <1>1, <1>2, <1>3 DEF EngineState
<1>. HIDE DEF t, parked, intents
<1>6. Adds(engine, t)
  BY <1>3, <1>5 DEF Adds, Managed, Movers, Asks
<1>7. u \in EngineState /\ Adds(t, u)
  <2>1. Good(t)
    BY <1>1, <1>5, FrameGood DEF Good, Consistent
  <2> QED
    BY <1>5, <2>1, StrandGood, AsideAdds DEF Good, Consistent
<1>. HIDE DEF u
<1>8. Pends(u, D) /\ Flies(u, M \cup {v}) /\ Underway(u)
  BY <1>6, <1>7, AddsTransitive, AddsBusy DEF Busy
<1> QED
  BY <1>4, <1>7, <1>8, SettledBusy

LEMMA FailedBusy ==
    ASSUME Good(engine), NEW v \in Window, WindowParkFailed(v) \/ WindowRestoreFailed(v),
           NEW D, NEW M, Busy(engine, D, M \cup {v})
    PROVE  Busy(engine', D, M)
<1> DEFINE t == SwitchWindowSettled(engine, v, FALSE)
<1>1. engine \in EngineState
  BY DEF Good, Consistent
<1>2. Good(t) /\ Busy(t, D, M)
  BY <1>1, SettledGood, SettledBusy DEF Busy
<1>3. engine' = t \/ engine' = StrandWindow(t, v)
  BY DEF WindowParkFailed, WindowRestoreFailed
<1>. HIDE DEF t
<1>4. Adds(t, StrandWindow(t, v))
  BY <1>2, AsideAdds DEF Good, Consistent
<1> QED
  BY <1>2, <1>3, <1>4, AddsBusy
=============================================================================

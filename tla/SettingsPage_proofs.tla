-------------------------- MODULE SettingsPage_proofs --------------------------
(***************************************************************************)
(* Two promises of the settings page.  What the capture dialog says is     *)
(* about what it shows: every answer in the queue of calls is to the       *)
(* question beside it, and one that comes when the dialog has moved on is  *)
(* dropped.  And what is saved lands in the file that was named beside the *)
(* button: the calls are served in turn, each carries the list it was      *)
(* asked from, and the page's match of names agrees with the layers'       *)
(* wherever the directory that a save makes validates.                     *)
(***************************************************************************)
EXTENDS SettingsPage, ConfigLayers_proofs

\* An answered question about a combination has an answer about it.
Honest(call) ==
    /\ call = [ask |-> call.ask, state |-> call.state, answer |-> call.answer]
    /\ call.ask.kind = "probe" /\ call.state = "answered" /\ call.answer # Failed
       => call.answer.asked = <<call.ask.command, call.ask.combo>>

\* Calls have no common type: a queue is a sequence of what is in it.
HonestCalls(queue) ==
    /\ queue \in Seq({queue[i] : i \in DOMAIN queue})
    /\ \A i \in DOMAIN queue : Honest(queue[i])

DialogShape ==
    dialog # None =>
        dialog = [command |-> dialog.command, armed |-> dialog.armed, combo |-> dialog.combo,
                  verdict |-> dialog.verdict, everywhere |-> dialog.everywhere]

PageInv == HonestCalls(calls) /\ DialogShape /\ VerdictFitsCapture

-----------------------------------------------------------------------------
(* A sequence is one of what is in it. *)
LEMMA OwnSequence ==
    ASSUME NEW S, NEW s \in Seq(S)
    PROVE  s \in Seq({s[i] : i \in DOMAIN s})
<1> DEFINE own == {s[i] : i \in DOMAIN s}
<1>1. Len(s) \in Nat /\ s \in [1..Len(s) -> S] /\ DOMAIN s = 1..Len(s)
  OBVIOUS
<1>2. s \in [1..Len(s) -> own]
  BY <1>1
<1>3. \A n \in Nat : \A g \in [1..n -> own] : g \in Seq(own)
  <2> HIDE DEF own
  <2> QED
    OBVIOUS
<1> QED
  BY <1>1, <1>2, <1>3

(* A queue of honest calls stays one when a call is added at its end. *)
LEMMA HonestAppended ==
    ASSUME NEW queue, HonestCalls(queue), NEW call, Honest(call)
    PROVE  HonestCalls(Append(queue, call))
<1> DEFINE S == {queue[i] : i \in DOMAIN queue} \cup {call}
           longer == Append(queue, call)
<1>1. queue \in Seq(S)
  BY DEF HonestCalls
<1>2. /\ longer \in Seq(S) /\ DOMAIN longer = 1..Len(queue) + 1 /\ DOMAIN queue = 1..Len(queue)
      /\ \A i \in 1..Len(queue) : longer[i] = queue[i]
      /\ longer[Len(queue) + 1] = call
  BY <1>1
<1>3. longer \in Seq({longer[i] : i \in DOMAIN longer})
  BY <1>2, OwnSequence
<1>4. ASSUME NEW i \in DOMAIN longer PROVE Honest(longer[i])
  BY <1>2, <1>4 DEF HonestCalls
<1> QED
  BY <1>3, <1>4 DEF HonestCalls

(* The rest of a queue of honest calls is one. *)
LEMMA HonestTail ==
    ASSUME NEW queue, HonestCalls(queue), queue # <<>>
    PROVE  HonestCalls(Tail(queue)) /\ Honest(Head(queue))
<1> DEFINE S == {queue[i] : i \in DOMAIN queue}
           rest == Tail(queue)
<1>1. queue \in Seq(S)
  BY DEF HonestCalls
<1>2. /\ rest \in Seq(S) /\ Len(queue) > 0 /\ DOMAIN queue = 1..Len(queue)
      /\ DOMAIN rest = 1..Len(queue) - 1
      /\ \A i \in 1..Len(queue) - 1 : rest[i] = queue[i + 1]
      /\ Head(queue) = queue[1]
  BY <1>1
<1>3. rest \in Seq({rest[i] : i \in DOMAIN rest})
  <2> HIDE DEF S, rest
  <2> QED
    BY <1>2, OwnSequence
<1>4. ASSUME NEW i \in DOMAIN rest PROVE Honest(rest[i])
  BY <1>2, <1>4 DEF HonestCalls
<1> QED
  BY <1>2, <1>3, <1>4 DEF HonestCalls

(* A call of the queue may change into another honest one. *)
LEMMA HonestChanged ==
    ASSUME NEW queue, HonestCalls(queue), NEW k \in DOMAIN queue, NEW call, Honest(call)
    PROVE  HonestCalls([queue EXCEPT ![k] = call])
<1> DEFINE new == [queue EXCEPT ![k] = call]
<1>1. /\ queue \in Seq({queue[i] : i \in DOMAIN queue})
      /\ DOMAIN queue = 1..Len(queue) /\ DOMAIN new = DOMAIN queue
      /\ new[k] = call /\ \A i \in DOMAIN queue : i # k => new[i] = queue[i]
  BY DEF HonestCalls
<1>2. new \in Seq({new[i] : i \in DOMAIN new})
  <2> DEFINE S == {queue[i] : i \in DOMAIN queue} \cup {call}
  <2>1. new \in Seq(S)
    BY <1>1
  <2> HIDE DEF new, S
  <2> QED
    BY <2>1, OwnSequence
<1>3. ASSUME NEW i \in DOMAIN new PROVE Honest(new[i])
  BY <1>1, <1>3 DEF HonestCalls
<1> QED
  BY <1>2, <1>3 DEF HonestCalls

(* The page and the session it asks begin with nothing under way. *)
LEMMA PageBegins == Init => PageInv
<1> SUFFICES ASSUME Init PROVE PageInv
  OBVIOUS
<1>1. calls = <<>> /\ dialog = None
  BY DEF Init
<1>2. HonestCalls(calls)
  <2>1. <<>> \in Seq({})
    OBVIOUS
  <2>2. calls \in Seq({calls[i] : i \in DOMAIN calls})
    BY <1>1, <2>1, OwnSequence
  <2> QED
    BY <1>1, <2>2 DEF HonestCalls
<1> QED
  BY <1>1, <1>2 DEF PageInv, DialogShape, VerdictFitsCapture

(* Asking adds an honest call: it has no answer yet. *)
LEMMA AskingKeeps ==
    ASSUME HonestCalls(calls), NEW request, Asking(request)
    PROVE  HonestCalls(calls')
<1>1. Honest(Call(request))
  BY DEF Honest, Call
<1> QED
  BY <1>1, HonestAppended DEF Asking

(* What is typed, drawn and clicked. *)
LEMMA ClicksKeep == PageInv /\ Clicks => PageInv'
<1> SUFFICES ASSUME PageInv, Clicks PROVE PageInv'
  OBVIOUS
<1> USE DEF PageInv
<1>1. CASE /\ UNCHANGED dialog
           /\ calls' = calls \/ \E request : Asking(request)
  <2>1. HonestCalls(calls')
    BY <1>1, AskingKeeps
  <2> QED
    BY <1>1, <2>1 DEF DialogShape, VerdictFitsCapture
<1>2. ASSUME NEW name, Type(name) PROVE PageInv'
  BY <1>1, <1>2 DEF Type
<1>3. ASSUME NEW cells, Draw(cells) PROVE PageInv'
  BY <1>1, <1>3 DEF Draw
<1>4. CASE Undo
  BY <1>1, <1>4 DEF Undo
<1>5. CASE Redirect
  BY <1>1, <1>5 DEF Redirect
<1>6. CASE SaveLayout
  BY <1>1, <1>6 DEF SaveLayout, SendLayout
<1>7. CASE SaveAndApply
  BY <1>1, <1>7 DEF SaveAndApply, SendLayout
<1>8. CASE RenameLayout
  BY <1>1, <1>8 DEF RenameLayout, SendLayout
<1>9. ASSUME NEW name, Open(name) PROVE PageInv'
  BY <1>1, <1>9 DEF Open
<1>10. ASSUME NEW name, DuplicateLayout(name) PROVE PageInv'
  BY <1>1, <1>10 DEF DuplicateLayout, SendLayout
<1>11. ASSUME NEW name, DeleteLayout(name) PROVE PageInv'
  BY <1>1, <1>11 DEF DeleteLayout, SendLayout
<1>12. ASSUME NEW command, ResetBinding(command) PROVE PageInv'
  BY <1>1, <1>12 DEF ResetBinding
<1>13. ASSUME NEW command, OpenDialog(command) PROVE PageInv'
  BY <1>13 DEF OpenDialog, DialogShape, VerdictFitsCapture
<1>14. ASSUME NEW combo, Press(combo) PROVE PageInv'
  <2>1. HonestCalls(calls')
    <3>1. CASE combo = None
      BY <1>14, <3>1 DEF Press
    <3>2. CASE combo # None
      BY <1>14, <3>2, AskingKeeps DEF Press
    <3> QED
      BY <3>1, <3>2
  <2>2. dialog # None /\ dialog' = [dialog EXCEPT !.combo = combo, !.verdict = None]
    BY <1>14 DEF Press
  <2> QED
    BY <2>1, <2>2 DEF DialogShape, VerdictFitsCapture
<1>15. CASE Blur
  BY <1>15 DEF Blur, DialogShape, VerdictFitsCapture
<1>16. CASE Focus
  BY <1>16 DEF Focus, DialogShape, VerdictFitsCapture
<1>17. CASE RedirectBinding
  BY <1>17 DEF RedirectBinding, DialogShape, VerdictFitsCapture
<1>18. CASE Cancel
  BY <1>18 DEF Cancel, DialogShape, VerdictFitsCapture
<1>19. CASE SaveBinding
  <2>1. HonestCalls(calls') /\ dialog' = None
    BY <1>19, AskingKeeps DEF SaveBinding
  <2> QED
    BY <2>1 DEF DialogShape, VerdictFitsCapture
<1> QED
  BY <1>2, <1>3, <1>4, <1>5, <1>6, <1>7, <1>8, <1>9, <1>10, <1>11, <1>12, <1>13, <1>14,
     <1>15, <1>16, <1>17, <1>18, <1>19 DEF Clicks

(* A save whose apply is still to come is a call without an answer. *)
LEMMA HalfDone ==
    ASSUME NEW call, Honest(call)
    PROVE  Honest([call EXCEPT !.state = "saved"])
<1>1. PICK ask, state, answer : call = [ask |-> ask, state |-> state, answer |-> answer]
  BY DEF Honest
<1>2. [[ask |-> ask, state |-> state, answer |-> answer] EXCEPT !.state = "saved"]
        = [ask |-> ask, state |-> "saved", answer |-> answer]
  OBVIOUS
<1>3. [call EXCEPT !.state = "saved"] = [ask |-> ask, state |-> "saved", answer |-> answer]
  BY <1>1, <1>2, Zenon
<1> QED
  BY <1>3 DEF Honest

(* An answer goes beside its question. *)
LEMMA AnsweringKeeps ==
    ASSUME HonestCalls(calls), NEW i \in DOMAIN calls, NEW answer, Answering(i, answer),
           calls[i].ask.kind = "probe" /\ answer # Failed
             => answer.asked = <<calls[i].ask.command, calls[i].ask.combo>>
    PROVE  HonestCalls(calls')
<1> DEFINE answered == [ask |-> calls[i].ask, state |-> "answered", answer |-> answer]
<1>1. Honest(answered)
  BY DEF Honest
<1>2. calls' = [calls EXCEPT ![i] = answered]
  BY DEF Answering
<1> HIDE DEF answered
<1> QED
  BY <1>1, <1>2, HonestChanged

(* The session answers the call whose turn it is. *)
LEMMA ServeKeeps == PageInv /\ Serve => PageInv'
<1> SUFFICES ASSUME PageInv, Serve PROVE PageInv'
  OBVIOUS
<1>1. PICK i \in DOMAIN calls :
         Serving(i) /\ (ServeRead(i) \/ ServeProbe(i) \/ ServeWrite(i) \/ ServeApply(i))
  BY DEF Serve
<1>2. HonestCalls(calls) /\ i \in DOMAIN calls
  BY <1>1 DEF PageInv
<1>3. ASSUME ServeRead(i) PROVE HonestCalls(calls')
  <2>1. calls[i].ask.kind # "probe" /\ Answering(i, Telling(calls[i].ask.panel))
    BY <1>3 DEF ServeRead
  <2> QED
    BY <1>2, <2>1, AnsweringKeeps
<1>4. ASSUME ServeProbe(i) PROVE HonestCalls(calls')
  <2>1. CASE away
    BY <1>2, <1>4, <2>1, AnsweringKeeps DEF ServeProbe
  <2>2. CASE ~away
    <3>1. PICK verdict : Answering(i, [asked |-> <<calls[i].ask.command, calls[i].ask.combo>>,
                                       availability |-> verdict])
      BY <1>4, <2>2 DEF ServeProbe
    <3> QED
      BY <1>2, <3>1, AnsweringKeeps
  <2> QED
    BY <2>1, <2>2
<1>5. ASSUME ServeWrite(i) PROVE HonestCalls(calls')
  <2>1. CASE calls' = [calls EXCEPT ![i].state = "saved"]
    <3> DEFINE saved == [calls[i] EXCEPT !.state = "saved"]
    <3>1. Honest(saved)
      <4>1. Honest(calls[i])
        BY <1>2 DEF HonestCalls
      <4> QED
        BY <4>1, HalfDone
    <3>2. calls' = [calls EXCEPT ![i] = saved]
      BY <2>1
    <3> HIDE DEF saved
    <3> QED
      BY <1>2, <3>1, <3>2, HonestChanged
  <2>2. CASE \E answer : Answering(i, answer)
    BY <1>2, <1>5, <2>2, AnsweringKeeps DEF ServeWrite
  <2> QED
    BY <1>5, <2>1, <2>2 DEF ServeWrite
<1>6. ASSUME ServeApply(i) PROVE HonestCalls(calls')
  BY <1>2, <1>6, AnsweringKeeps DEF ServeApply
<1>7. HonestCalls(calls')
  BY <1>1, <1>3, <1>4, <1>5, <1>6
<1> QED
  BY <1>7 DEF PageInv, Serve, DialogShape, VerdictFitsCapture

(* The page takes an answer; a verdict only while it fits the dialog. *)
LEMMA ReceiveKeeps == PageInv /\ Receive => PageInv'
<1> SUFFICES ASSUME PageInv, Receive PROVE PageInv'
  OBVIOUS
<1> DEFINE call == Head(calls)
<1>1. calls # <<>> /\ call.state = "answered"
      /\ (ReceiveList(call) \/ ReceiveVerdict(call) \/ ReceiveWrite(call))
  BY DEF Receive
<1>2. HonestCalls(Tail(calls)) /\ Honest(call)
  BY <1>1, HonestTail DEF PageInv
<1> HIDE DEF call
<1>3. CASE ReceiveList(call)
  BY <1>2, <1>3 DEF ReceiveList, PageInv, DialogShape, VerdictFitsCapture
<1>4. CASE ReceiveVerdict(call)
  <2>1. HonestCalls(calls')
    BY <1>2, <1>4 DEF ReceiveVerdict
  <2>2. CASE /\ dialog # None /\ call.answer # Failed
             /\ dialog.command = call.ask.command /\ dialog.combo = call.ask.combo
    <3>1. dialog' = [dialog EXCEPT !.verdict = call.answer]
      BY <1>4, <2>2 DEF ReceiveVerdict
    <3>2. call.answer.asked = <<dialog.command, dialog.combo>>
      BY <1>1, <1>2, <1>4, <2>2 DEF ReceiveVerdict, Honest
    <3> QED
      BY <2>1, <2>2, <3>1, <3>2 DEF PageInv, DialogShape, VerdictFitsCapture
  <2>3. CASE UNCHANGED dialog
    BY <2>1, <2>3 DEF PageInv, DialogShape, VerdictFitsCapture
  <2> QED
    BY <1>4, <2>2, <2>3 DEF ReceiveVerdict
<1>5. CASE ReceiveWrite(call)
  <2>1. Honest(Call(Read(call.ask.panel, "refresh")))
    BY DEF Honest, Call
  <2>2. HonestCalls(calls')
    BY <1>2, <1>5, <2>1, HonestAppended DEF ReceiveWrite
  <2> QED
    BY <1>5, <2>2 DEF ReceiveWrite, PageInv, DialogShape, VerdictFitsCapture
<1> QED
  BY <1>1, <1>3, <1>4, <1>5

(* The inductive invariant of the page: whatever is clicked, pressed and    *)
(* answered in whatever order, every answer in the queue is to the question *)
(* beside it and the verdict shown is about the combination shown.          *)
THEOREM PageInvariant == Spec => []PageInv
<1>1. Init => PageInv
  BY PageBegins
<1>2. PageInv /\ [Next]_vars => PageInv'
  <2> SUFFICES ASSUME PageInv, [Next]_vars PROVE PageInv'
    OBVIOUS
  <2>1. CASE UNCHANGED <<calls, dialog>>
    BY <2>1 DEF PageInv, DialogShape, VerdictFitsCapture
  <2>2. CASE Clicks
    BY <2>2, ClicksKeep
  <2>3. CASE Serve
    BY <2>3, ServeKeeps
  <2>4. CASE Reduce \/ HandEdit \/ Leave \/ Return
    BY <2>1, <2>4 DEF Reduce, HandEdit, Leave, Return
  <2>5. ASSUME NEW panel \in Panels, Poll(panel) PROVE PageInv'
    <3>1. HonestCalls(calls') /\ UNCHANGED dialog
      BY <2>5, AskingKeeps DEF Poll, PageInv
    <3> QED
      BY <3>1 DEF PageInv, DialogShape, VerdictFitsCapture
  <2>6. CASE Receive
    BY <2>6, ReceiveKeeps
  <2>7. CASE UNCHANGED vars
    BY <2>1, <2>7 DEF vars
  <2> QED
    BY <2>2, <2>3, <2>4, <2>5, <2>6, <2>7 DEF Next
<1> QED
  BY <1>1, <1>2, PTL DEF Spec

(* The verdict in the dialog is the agent's on the command and combination  *)
(* shown (probeCaptured).                                                   *)
THEOREM VerdictsFit == Spec => []VerdictFitsCapture
<1>1. PageInv => VerdictFitsCapture
  BY DEF PageInv
<1> QED
  BY <1>1, PageInvariant, PTL

-----------------------------------------------------------------------------
(* Types, and what each call is about. *)
Desks      == {pair \in Pair : Valid(pair)}
LayoutList == Tables(Names, [value : Cells, source : {"profile", "base"}])

\* What the page sends may have no name or be no layout; the session sees to it.
PageEdit ==
    [kind : {"set"}, command : Commands, combo : Combos, everywhere : BOOLEAN]
        \cup [kind : {"reset"}, command : Commands]
        \cup [kind : {"save"}, name : Names \cup {Blank}, cells : Cells \cup {Unusable},
              everywhere : BOOLEAN]
        \cup [kind : {"rename"}, name : Names, to : Names \cup {Blank}]
        \cup [kind : {"duplicate"}, name : Names, to : Names]
        \cup [kind : {"delete"}, name : Names]

\* The file a save is said to go to, by the list it was said from.
Promised(list, keys, everywhere) ==
    IF (\E k \in keys \cap DOMAIN list : list[k].source = "profile") /\ ~everywhere
    THEN "profile" ELSE "base"

WriteTyped(ask) ==
    /\ ask.edit \in PageEdit /\ ask.panel \in Panels
    /\ ask.click \in {"save", "apply"} => ask.edit.kind = "save"
    /\ ask.click = "rename" => ask.edit.kind = "rename"
    /\ ask.click = "save" =>
        ask.panel = "layouts" /\ ask.shown = Promised(ask.list, Alike(ask.edit.name), ask.edit.everywhere)
    /\ ask.click = "set" =>
        /\ ask.edit.kind = "set" /\ ask.panel = "hotkeys"
        /\ ask.shown = Promised(ask.list, {ask.edit.command}, ask.edit.everywhere)

CallTyped(call) ==
    /\ call.state \in {"waiting", "saved", "answered"}
    /\ call.state # "answered" => call.answer = None
    /\ call.ask.kind \in {"read", "probe", "write"}
    /\ call.ask.kind = "write" =>
        /\ WriteTyped(call.ask)
        /\ call.state = "saved" => call.ask.click = "apply"
        /\ call.state = "answered" => call.answer \in {Done, Failed}
        /\ call.state = "saved" \/ call.answer = Done => call.ask.edit \in Edit
    /\ call.ask.kind = "read" =>
        /\ call.ask.panel \in Panels
        /\ call.ask.panel = "layouts" /\ call.state = "answered" /\ call.answer # Failed
           => call.answer \in LayoutList

\* The session serves in order.
InTurn(queue) ==
    \A i, j \in DOMAIN queue : i < j /\ queue[j].state = "answered" => queue[i].state = "answered"

AgentTyped ==
    /\ files \in Desks /\ live \in Desks /\ mail \in Seq(Desks)
    /\ scenario \in Scenarios

CanvasTyped ==
    /\ draft \in Drawings /\ past \in Seq(Drawings)
    /\ selected \in Names \cup {None} /\ redirect \in BOOLEAN

PanelsTyped ==
    /\ panels = [p \in Panels |-> [shown |-> panels[p].shown, failed |-> panels[p].failed,
                                   reported |-> panels[p].reported]]
    /\ panels["layouts"].shown \in LayoutList

DialogTyped ==
    dialog # None =>
        dialog.command \in Commands /\ dialog.combo \in Combos \cup {None} /\ dialog.everywhere \in BOOLEAN

CallsTyped(queue) == (\A i \in DOMAIN queue : CallTyped(queue[i])) /\ InTurn(queue)

TypedInv == AgentTyped /\ CanvasTyped /\ PanelsTyped /\ DialogTyped /\ CallsTyped(calls)

(* What a click asks for, once it is a name and a layout. *)
LEMMA EditOfPage ==
    ASSUME NEW edit \in PageEdit, ~Refused(edit)
    PROVE  edit \in Edit /\ (edit.kind = "save" => edit.name # Blank)
<1>1. CASE edit \in [kind : {"save"}, name : Names \cup {Blank}, cells : Cells \cup {Unusable}, everywhere : BOOLEAN]
  BY <1>1 DEF Refused, Edit
<1>2. CASE edit \in [kind : {"rename"}, name : Names, to : Names \cup {Blank}]
  BY <1>2 DEF Refused, Edit
<1>3. CASE edit \in [kind : {"set"}, command : Commands, combo : Combos, everywhere : BOOLEAN]
  BY <1>3 DEF Edit
<1>4. CASE edit \in [kind : {"reset"}, command : Commands]
  BY <1>4 DEF Edit
<1>5. CASE edit \in [kind : {"duplicate"}, name : Names, to : Names]
  BY <1>5 DEF Edit
<1>6. CASE edit \in [kind : {"delete"}, name : Names]
  BY <1>6 DEF Edit
<1> QED
  BY <1>1, <1>2, <1>3, <1>4, <1>5, <1>6 DEF PageEdit

(* What the agent tells of a desk. *)
LEMMA ListingIs ==
    ASSUME NEW pair, NEW panel \in Panels
    PROVE  /\ panel = "layouts" =>
                /\ DOMAIN Listing(panel, pair) = DOMAIN Resolved(pair).layouts
                /\ \A k \in DOMAIN Resolved(pair).layouts :
                     Listing(panel, pair)[k] =
                        [value |-> Resolved(pair).layouts[k],
                         source |-> IF k \in DOMAIN Layer(pair).layouts THEN "profile" ELSE "base"]
           /\ panel = "hotkeys" =>
                /\ DOMAIN Listing(panel, pair) = DOMAIN Resolved(pair).hotkeys
                /\ \A k \in DOMAIN Resolved(pair).hotkeys :
                     Listing(panel, pair)[k] =
                        [value |-> Resolved(pair).hotkeys[k],
                         source |-> IF k \in DOMAIN Layer(pair).hotkeys THEN "profile" ELSE "base"]
<1>1. CASE panel = "layouts"
  BY <1>1 DEF Listing
<1>2. CASE panel = "hotkeys"
  BY <1>2 DEF Listing
<1> QED
  BY <1>1, <1>2 DEF Panels

LEMMA ListingTyped ==
    ASSUME NEW pair \in Desks
    PROVE  Listing("layouts", pair) \in LayoutList
<1> DEFINE R == Resolved(pair).layouts
           entry(k) == [value |-> R[k],
                        source |-> IF k \in DOMAIN Layer(pair).layouts THEN "profile" ELSE "base"]
<1>1. R \in Tables(Names, Cells)
  BY ResolvedTyped DEF Desks, Valid, Profile
<1>2. \A k \in DOMAIN R : k \in Names /\ R[k] \in Cells
  BY <1>1, EntryTyped
<1>3. Listing("layouts", pair) = [k \in DOMAIN R |-> entry(k)]
  BY DEF Listing
<1>4. \A k \in DOMAIN R : entry(k) \in [value : Cells, source : {"profile", "base"}]
  BY <1>2
<1> HIDE DEF entry, R
<1>5. Listing("layouts", pair) \in [DOMAIN R -> [value : Cells, source : {"profile", "base"}]]
  BY <1>3, <1>4
<1>6. DOMAIN R \in SUBSET Names
  BY <1>2
<1> QED
  BY <1>5, <1>6 DEF LayoutList, Tables

(* A save lands where the page's list says it will: the names the page    *)
(* takes for one, ignoring case, are the names validation keeps apart.    *)
LEMMA SaveLands ==
    ASSUME NEW pair \in Desks, NEW edit \in Edit, Accepted(pair, edit),
           edit.kind = "save", edit.name # Blank
    PROVE  /\ edit.name \in DOMAIN Listing("layouts", Planned(pair, edit))
           /\ Listing("layouts", Planned(pair, edit))[edit.name] =
                [value |-> edit.cells,
                 source |-> Promised(Listing("layouts", pair), Alike(edit.name), edit.everywhere)]
<1> DEFINE P == Planned(pair, edit)
           own == DOMAIN Layer(pair).layouts
           all == DOMAIN Resolved(pair).layouts
           list == Listing("layouts", pair)
<1>1. pair \in Pair /\ edit.name \in Names
  BY DEF Desks, Edit
<1>2. Resolved(P).layouts = With(Resolved(pair).layouts, edit.name, edit.cells)
  BY <1>1, EffectOfSave
<1>3. \A k \in Alike(edit.name) \cap all : k = edit.name
  <2>1. NamesDistinct(DOMAIN Resolved(P).layouts)
    BY DEF Accepted, Valid
  <2>2. all \cup {edit.name} = DOMAIN Resolved(P).layouts
    BY <1>2 DEF With
  <2> QED
    BY <2>1, <2>2 DEF NamesDistinct, Collide, Alike
<1>4. own \subseteq all
  BY DEF Resolved, Over
<1>5. edit.name \in Alike(edit.name)
  BY <1>1 DEF Alike
<1>6. DOMAIN list = all /\ \A k \in all : list[k].source = "profile" <=> k \in own
  <2>1. "layouts" \in Panels
    BY DEF Panels
  <2>2. /\ DOMAIN list = all
        /\ \A k \in all : list[k] = [value |-> Resolved(pair).layouts[k],
                                    source |-> IF k \in own THEN "profile" ELSE "base"]
    BY <2>1, ListingIs
  <2> HIDE DEF list, own, all
  <2> QED
    BY <2>2
<1>7. (\E k \in Alike(edit.name) \cap DOMAIN list : list[k].source = "profile") <=> edit.name \in own
  BY <1>3, <1>4, <1>5, <1>6
<1>8. /\ Listing("layouts", P)[edit.name] =
            [value |-> edit.cells,
             source |-> IF edit.name \in DOMAIN Layer(P).layouts THEN "profile" ELSE "base"]
      /\ edit.name \in DOMAIN Listing("layouts", P)
  <2>1. edit.name \in DOMAIN Resolved(P).layouts /\ Resolved(P).layouts[edit.name] = edit.cells
    BY <1>2 DEF With
  <2> HIDE DEF P
  <2> QED
    BY <2>1, ListingIs DEF Panels
<1>9. edit.name \in DOMAIN Layer(P).layouts <=> edit.name \in own /\ ~edit.everywhere
  <2>1. OfLayout(edit) /\ ~OfBinding(edit) /\ edit.everywhere \in BOOLEAN
    BY DEF OfLayout, OfBinding, Edit
  <2>2. Supplier(pair, edit) # "both"
    BY <2>1 DEF Accepted, Planless
  <2>3. edit.name \in own <=> Supplier(pair, edit) = "profile"
    BY <2>1, <2>2 DEF Supplier, LayoutSupplier
  <2>4. CASE IntoProfile(pair, edit)
    <3>0. Layer(P) = InProfile(Layer(pair), edit)
      BY <1>1, <2>4, LayersOfPlan
    <3>1. DOMAIN Layer(P).layouts = own \cup {edit.name}
      BY <3>0 DEF InProfile, Layouts, With
    <3> QED
      BY <2>1, <2>3, <2>4, <3>1 DEF IntoProfile, Redirects
  <2>5. CASE Redirects(pair, edit)
    <3>0. Layer(P) = Vacated(Layer(pair), edit)
      BY <1>1, <2>5, LayersOfPlan
    <3>1. DOMAIN Layer(P).layouts = own \ {edit.name}
      BY <3>0 DEF Vacated, Without
    <3> QED
      BY <2>5, <3>1 DEF Redirects
  <2>6. CASE ~IntoProfile(pair, edit) /\ ~Redirects(pair, edit)
    <3>1. Layer(P) = Layer(pair)
      BY <1>1, <2>6, LayersOfPlan
    <3> QED
      BY <2>3, <2>6, <3>1 DEF IntoProfile
  <2> QED
    BY <2>4, <2>5, <2>6
<1> QED
  BY <1>7, <1>8, <1>9 DEF Promised

(* So does a binding. *)
LEMMA SetLands ==
    ASSUME NEW pair \in Desks, NEW edit \in Edit, Accepted(pair, edit), edit.kind = "set"
    PROVE  /\ edit.command \in DOMAIN Listing("hotkeys", Planned(pair, edit))
           /\ Listing("hotkeys", Planned(pair, edit))[edit.command] =
                [value |-> edit.combo,
                 source |-> Promised(Listing("hotkeys", pair), {edit.command}, edit.everywhere)]
<1> DEFINE P == Planned(pair, edit)
           own == DOMAIN Layer(pair).hotkeys
           all == DOMAIN Resolved(pair).hotkeys
           list == Listing("hotkeys", pair)
<1>1. pair \in Pair
  BY DEF Desks
<1>2. Resolved(P).hotkeys = With(Resolved(pair).hotkeys, edit.command, edit.combo)
  BY <1>1, EffectOfSet
<1>3. own \subseteq all
  BY DEF Resolved, Over
<1>4. DOMAIN list = all /\ \A k \in all : list[k].source = "profile" <=> k \in own
  <2>1. "hotkeys" \in Panels
    BY DEF Panels
  <2>2. /\ DOMAIN list = all
        /\ \A k \in all : list[k] = [value |-> Resolved(pair).hotkeys[k],
                                    source |-> IF k \in own THEN "profile" ELSE "base"]
    BY <2>1, ListingIs
  <2> HIDE DEF list, own, all
  <2> QED
    BY <2>2
<1>5. (\E k \in {edit.command} \cap DOMAIN list : list[k].source = "profile") <=> edit.command \in own
  BY <1>3, <1>4
<1>6. /\ Listing("hotkeys", P)[edit.command] =
            [value |-> edit.combo,
             source |-> IF edit.command \in DOMAIN Layer(P).hotkeys THEN "profile" ELSE "base"]
      /\ edit.command \in DOMAIN Listing("hotkeys", P)
  <2>1. edit.command \in DOMAIN Resolved(P).hotkeys /\ Resolved(P).hotkeys[edit.command] = edit.combo
    BY <1>2 DEF With
  <2> HIDE DEF P
  <2> QED
    BY <2>1, ListingIs DEF Panels
<1>7. edit.command \in DOMAIN Layer(P).hotkeys <=> edit.command \in own /\ ~edit.everywhere
  <2>1. OfBinding(edit) /\ edit.everywhere \in BOOLEAN
    BY DEF OfBinding, Edit
  <2>2. edit.command \in own <=> Supplier(pair, edit) = "profile"
    BY <2>1 DEF Supplier, BindingSupplier
  <2>3. CASE IntoProfile(pair, edit)
    <3>0. Layer(P) = InProfile(Layer(pair), edit)
      BY <1>1, <2>3, LayersOfPlan
    <3>1. DOMAIN Layer(P).hotkeys = own \cup {edit.command}
      BY <3>0 DEF InProfile, Bindings, With
    <3> QED
      BY <2>1, <2>2, <2>3, <3>1 DEF IntoProfile, Redirects
  <2>4. CASE Redirects(pair, edit)
    <3>0. Layer(P) = Vacated(Layer(pair), edit)
      BY <1>1, <2>4, LayersOfPlan
    <3>1. DOMAIN Layer(P).hotkeys = own \ {edit.command}
      BY <3>0 DEF Vacated, Without
    <3> QED
      BY <2>4, <3>1 DEF Redirects
  <2>5. CASE ~IntoProfile(pair, edit) /\ ~Redirects(pair, edit)
    <3>1. Layer(P) = Layer(pair)
      BY <1>1, <2>5, LayersOfPlan
    <3> QED
      BY <2>2, <2>5, <3>1 DEF IntoProfile
  <2> QED
    BY <2>3, <2>4, <2>5
<1> QED
  BY <1>5, <1>6, <1>7 DEF Promised

-----------------------------------------------------------------------------
(* Queues of calls. *)
LEMMA AppendIs ==
    ASSUME NEW queue, HonestCalls(queue), NEW call
    PROVE  LET longer == Append(queue, call) IN
           /\ Len(queue) \in Nat /\ DOMAIN queue = 1..Len(queue)
           /\ DOMAIN longer = 1..Len(queue) + 1
           /\ \A i \in 1..Len(queue) : longer[i] = queue[i]
           /\ longer[Len(queue) + 1] = call
<1> DEFINE S == {queue[i] : i \in DOMAIN queue} \cup {call}
<1>1. queue \in Seq(S)
  BY DEF HonestCalls
<1> HIDE DEF S
<1> QED
  BY <1>1

LEMMA TailIs ==
    ASSUME NEW queue, HonestCalls(queue), queue # <<>>
    PROVE  /\ Len(queue) \in Nat /\ Len(queue) > 0 /\ DOMAIN queue = 1..Len(queue)
           /\ DOMAIN Tail(queue) = 1..Len(queue) - 1
           /\ \A i \in 1..Len(queue) - 1 : Tail(queue)[i] = queue[i + 1]
           /\ Head(queue) = queue[1]
<1> DEFINE S == {queue[i] : i \in DOMAIN queue}
<1>1. queue \in Seq(S)
  BY DEF HonestCalls
<1> HIDE DEF S
<1> QED
  BY <1>1

LEMMA TypedAppended ==
    ASSUME NEW queue, HonestCalls(queue), CallsTyped(queue),
           NEW call, CallTyped(call), call.state # "answered"
    PROVE  CallsTyped(Append(queue, call))
<1> DEFINE longer == Append(queue, call)
<1>1. /\ Len(queue) \in Nat /\ DOMAIN queue = 1..Len(queue)
      /\ DOMAIN longer = 1..Len(queue) + 1
      /\ \A i \in 1..Len(queue) : longer[i] = queue[i]
      /\ longer[Len(queue) + 1] = call
  BY AppendIs
<1> HIDE DEF longer
<1>2. ASSUME NEW i \in DOMAIN longer PROVE CallTyped(longer[i])
  BY <1>1, <1>2 DEF CallsTyped
<1>3. InTurn(longer)
  BY <1>1 DEF CallsTyped, InTurn
<1> QED
  BY <1>2, <1>3 DEF CallsTyped, longer

LEMMA TypedTail ==
    ASSUME NEW queue, HonestCalls(queue), CallsTyped(queue), queue # <<>>
    PROVE  CallsTyped(Tail(queue)) /\ CallTyped(Head(queue))
<1> DEFINE rest == Tail(queue)
<1>1. /\ Len(queue) \in Nat /\ Len(queue) > 0 /\ DOMAIN queue = 1..Len(queue)
      /\ DOMAIN rest = 1..Len(queue) - 1
      /\ \A i \in 1..Len(queue) - 1 : rest[i] = queue[i + 1]
      /\ Head(queue) = queue[1]
  BY TailIs
<1> HIDE DEF rest
<1>2. ASSUME NEW i \in DOMAIN rest PROVE CallTyped(rest[i])
  BY <1>1, <1>2 DEF CallsTyped
<1>3. InTurn(rest)
  BY <1>1 DEF CallsTyped, InTurn
<1> QED
  BY <1>1, <1>2, <1>3 DEF CallsTyped, rest

LEMMA TypedChanged ==
    ASSUME NEW queue, HonestCalls(queue), CallsTyped(queue), NEW k \in DOMAIN queue,
           queue[k].state # "answered", \A j \in 1 .. k - 1 : queue[j].state = "answered",
           NEW call, CallTyped(call)
    PROVE  CallsTyped([queue EXCEPT ![k] = call])
<1> DEFINE new == [queue EXCEPT ![k] = call]
<1>1. /\ Len(queue) \in Nat /\ DOMAIN queue = 1..Len(queue) /\ DOMAIN new = DOMAIN queue
      /\ new[k] = call /\ \A i \in DOMAIN queue : i # k => new[i] = queue[i]
  BY AppendIs
<1> HIDE DEF new
<1>2. ASSUME NEW i \in DOMAIN new PROVE CallTyped(new[i])
  BY <1>1, <1>2 DEF CallsTyped
<1>3. InTurn(new)
  BY <1>1 DEF CallsTyped, InTurn
<1> QED
  BY <1>2, <1>3 DEF CallsTyped, new

(* New questions. *)
LEMMA AskingTyped ==
    ASSUME HonestCalls(calls), CallsTyped(calls), NEW request, Asking(request),
           CallTyped(Call(request))
    PROVE  CallsTyped(calls')
  BY TypedAppended DEF Asking, Call

LEMMA WriteAsked ==
    ASSUME NEW request, request.kind = "write", WriteTyped(request)
    PROVE  CallTyped(Call(request))
  BY AnswersAssumption DEF CallTyped, Call

LEMMA ReadAsked ==
    ASSUME NEW panel \in Panels, NEW why
    PROVE  CallTyped(Call(Read(panel, why)))
  BY DEF CallTyped, Call, Read

LEMMA ProbeAsked ==
    ASSUME NEW command, NEW combo
    PROVE  CallTyped(Call(Probe(command, combo)))
  BY DEF CallTyped, Call, Probe

LEMMA PanelNames == "layouts" \in Panels /\ "hotkeys" \in Panels
  BY DEF Panels

LEMMA SendTyped ==
    ASSUME TypedInv, PageInv, NEW click, NEW edit \in PageEdit, SendLayout(click, edit),
           click # "set",
           click \in {"save", "apply"} => edit.kind = "save",
           click = "rename" => edit.kind = "rename",
           click = "save" => edit.name = draft.name /\ edit.everywhere = redirect
    PROVE  TypedInv'
<1> DEFINE shown == Destination("layouts", Alike(draft.name), redirect)
           request == Write(click, edit, "layouts", shown)
<1>1. shown = Promised(panels["layouts"].shown, Alike(draft.name), redirect)
  BY DEF Destination, SuppliedByProfile, Promised
<1>2. /\ request.kind = "write" /\ request.click = click /\ request.edit = edit
      /\ request.panel = "layouts" /\ request.shown = shown /\ request.list = panels["layouts"].shown
  BY DEF Write
<1>3. Asking(request) /\ UNCHANGED <<agent, canvas, panels, dialog, scenario>>
  BY DEF SendLayout
<1> HIDE DEF shown, request
<1>4. WriteTyped(request)
  BY <1>1, <1>2, PanelNames DEF WriteTyped
<1>5. CallsTyped(calls')
  BY <1>2, <1>3, <1>4, WriteAsked, AskingTyped DEF TypedInv, PageInv
<1> QED
  BY <1>3, <1>5 DEF TypedInv, AgentTyped, CanvasTyped, PanelsTyped, DialogTyped, agent, canvas


-----------------------------------------------------------------------------
(* The beginning. *)
LEMMA TypedBegins == Init => TypedInv
<1> SUFFICES ASSUME Init PROVE TypedInv
  OBVIOUS
<1>1. AgentTyped
  <2>1. scenario \in Scenarios /\ scenario.pair \in Desks
    BY PageAssumption DEF Init, Desks
  <2>2. files = scenario.pair /\ live = files /\ mail = <<>>
    BY DEF Init
  <2> QED
    BY <2>1, <2>2 DEF AgentTyped
<1>2. CanvasTyped /\ DialogTyped
  <2>1. draft = FirstDraft /\ past = <<>> /\ selected = None /\ redirect = FALSE /\ dialog = None
    BY DEF Init
  <2>2. past \in Seq(Drawings)
    BY <2>1
  <2> QED
    BY <2>1, <2>2, PageAssumption DEF CanvasTyped, DialogTyped
<1>3. CallsTyped(calls)
  BY DEF Init, CallsTyped, InTurn
<1>4. PanelsTyped
  <2>1. CASE scenario.told
    <3>1. panels = [p \in Panels |->
              [shown |-> Listing(p, live), failed |-> FALSE, reported |-> Listing(p, live)]]
      BY <2>1 DEF Init
    <3>2. panels["layouts"].shown \in LayoutList
      BY <1>1, <3>1, PanelNames, ListingTyped DEF AgentTyped
    <3> QED
      BY <3>1, <3>2 DEF PanelsTyped
  <2>2. CASE ~scenario.told
    <3>1. panels = [p \in Panels |-> [shown |-> EmptyTable, failed |-> FALSE, reported |-> NotRead]]
      BY <2>2 DEF Init
    <3>2. panels["layouts"].shown \in LayoutList
      BY <3>1, PanelNames, EmptyTyped DEF LayoutList
    <3> QED
      BY <3>1, <3>2 DEF PanelsTyped
  <2> QED
    BY <2>1, <2>2
<1> QED
  BY <1>1, <1>2, <1>3, <1>4 DEF TypedInv

(* A row of the list of layouts. *)
LEMMA RowTyped ==
    ASSUME PanelsTyped, NEW name \in Rows("layouts")
    PROVE  name \in Names /\ panels["layouts"].shown[name].value \in Cells
<1> DEFINE list == panels["layouts"].shown
           R == [value : Cells, source : {"profile", "base"}]
<1>1. list \in Tables(Names, R) /\ name \in DOMAIN list
  BY DEF Rows, PanelsTyped, LayoutList
<1>2. name \in Names /\ list[name] \in R
  <2> HIDE DEF list, R
  <2> QED
    BY <1>1, EntryTyped
<1> QED
  BY <1>2

(* What is typed and drawn. *)
LEMMA DrawingTyped ==
    ASSUME TypedInv, CanvasTyped', UNCHANGED <<agent, calls, panels, dialog, scenario>>
    PROVE  TypedInv'
  BY DEF TypedInv, AgentTyped, PanelsTyped, DialogTyped, agent

LEMMA CanvasKept ==
    ASSUME CanvasTyped,
           \/ \E name \in Names \cup {Blank} : Type(name)
           \/ \E cells \in Cells \cup {Unusable} : Draw(cells)
           \/ Undo \/ Redirect
           \/ PanelsTyped /\ \E name \in Names : Open(name)
    PROVE  CanvasTyped'
<1>1. draft \in Drawings /\ past \in Seq(Drawings)
  BY DEF CanvasTyped
<1>2. ASSUME NEW name \in Names \cup {Blank}, Type(name) PROVE CanvasTyped'
  <2>1. draft' = [draft EXCEPT !.name = name] /\ UNCHANGED <<past, selected, redirect>>
    BY <1>2 DEF Type
  <2>2. draft' \in Drawings
    BY <1>1, <2>1 DEF Drawings
  <2> QED
    BY <2>1, <2>2 DEF CanvasTyped
<1>3. ASSUME NEW cells \in Cells \cup {Unusable}, Draw(cells) PROVE CanvasTyped'
  <2>1. /\ draft' = [draft EXCEPT !.cells = cells] /\ past' = Append(past, draft)
        /\ UNCHANGED <<selected, redirect>>
    BY <1>3 DEF Draw
  <2>2. draft' \in Drawings
    BY <1>1, <2>1 DEF Drawings
  <2> QED
    BY <1>1, <2>1, <2>2 DEF CanvasTyped
<1>4. ASSUME Undo PROVE CanvasTyped'
  <2>1. /\ past # <<>> /\ draft' = past[Len(past)] /\ past' = SubSeq(past, 1, Len(past) - 1)
        /\ UNCHANGED <<selected, redirect>>
    BY <1>4 DEF Undo
  <2>2. Len(past) \in 1..Len(past) /\ Len(past) - 1 \in Nat
    BY <1>1, <2>1
  <2>3. draft' \in Drawings
    BY <1>1, <2>1, <2>2
  <2>4. past' \in Seq(Drawings)
    BY <1>1, <2>1, <2>2
  <2> QED
    BY <2>1, <2>3, <2>4 DEF CanvasTyped
<1>5. ASSUME Redirect PROVE CanvasTyped'
  BY <1>5 DEF Redirect, CanvasTyped
<1>6. ASSUME PanelsTyped, NEW name \in Names, Open(name) PROVE CanvasTyped'
  <2>1. /\ name \in Rows("layouts") /\ past' = Append(past, draft) /\ UNCHANGED redirect
        /\ draft' = [name |-> name, cells |-> panels["layouts"].shown[name].value]
        /\ selected' = name
    BY <1>6 DEF Open
  <2>2. draft' \in Drawings
    BY <1>6, <2>1, RowTyped DEF Drawings
  <2> QED
    BY <1>1, <2>1, <2>2 DEF CanvasTyped
<1> QED
  BY <1>2, <1>3, <1>4, <1>5, <1>6


(* The saves and the other edits of the list of layouts. *)
LEMMA LayoutClicksTyped ==
    ASSUME TypedInv, PageInv,
           \/ SaveLayout \/ SaveAndApply \/ RenameLayout
           \/ \E name \in Names : DuplicateLayout(name) \/ DeleteLayout(name)
    PROVE  TypedInv'
<1>1. /\ draft.name \in Names \cup {Blank} /\ draft.cells \in Cells \cup {Unusable}
      /\ selected \in Names \cup {None} /\ redirect \in BOOLEAN
  BY DEF TypedInv, CanvasTyped, Drawings
<1>2. ASSUME NEW everywhere \in BOOLEAN
      PROVE  /\ Saving(everywhere) \in PageEdit /\ Saving(everywhere).kind = "save"
             /\ Saving(everywhere).name = draft.name /\ Saving(everywhere).everywhere = everywhere
  BY <1>1 DEF Saving, PageEdit
<1>3. CASE SaveLayout
  <2>1. SendLayout("save", Saving(redirect))
    BY <1>3 DEF SaveLayout
  <2> QED
    BY <1>1, <1>2, <2>1, SendTyped
<1>4. CASE SaveAndApply
  <2>1. SendLayout("apply", Saving(FALSE))
    BY <1>4 DEF SaveAndApply
  <2> QED
    BY <1>2, <2>1, SendTyped
<1>5. CASE RenameLayout
  <2> DEFINE edit == [kind |-> "rename", name |-> selected, to |-> draft.name]
  <2>1. SendLayout("rename", edit) /\ edit \in PageEdit
    BY <1>1, <1>5 DEF RenameLayout, PageEdit
  <2>2. edit.kind = "rename"
    OBVIOUS
  <2> HIDE DEF edit
  <2> QED
    BY <2>1, <2>2, SendTyped
<1>6. ASSUME NEW name \in Names, DuplicateLayout(name) PROVE TypedInv'
  <2> DEFINE edit == [kind |-> "duplicate", name |-> name, to |-> CopyName[name]]
  <2>1. SendLayout("duplicate", edit) /\ edit \in PageEdit
    BY <1>6, PageAssumption DEF DuplicateLayout, PageEdit
  <2> HIDE DEF edit
  <2> QED
    BY <2>1, SendTyped
<1>7. ASSUME NEW name \in Names, DeleteLayout(name) PROVE TypedInv'
  <2> DEFINE edit == [kind |-> "delete", name |-> name]
  <2>1. SendLayout("delete", edit) /\ edit \in PageEdit
    BY <1>7 DEF DeleteLayout, PageEdit
  <2> HIDE DEF edit
  <2> QED
    BY <2>1, SendTyped
<1> QED
  BY <1>3, <1>4, <1>5, <1>6, <1>7

(* The dialog, while nothing is asked. *)
LEMMA DialogMoved ==
    ASSUME TypedInv, DialogTyped', CallsTyped(calls'), UNCHANGED <<agent, canvas, panels, scenario>>
    PROVE  TypedInv'
  BY DEF TypedInv, AgentTyped, PanelsTyped, CanvasTyped, agent, canvas

LEMMA DialogKept ==
    ASSUME DialogTyped, DialogShape, dialog # None,
           \/ \E combo \in Combos \cup {None} :
                dialog' = [dialog EXCEPT !.combo = combo, !.verdict = None]
           \/ dialog' = [dialog EXCEPT !.armed = FALSE, !.combo = None, !.verdict = None]
           \/ dialog' = [dialog EXCEPT !.armed = TRUE]
           \/ dialog' = [dialog EXCEPT !.everywhere = ~@]
           \/ \E verdict : dialog' = [dialog EXCEPT !.verdict = verdict]
    PROVE  DialogTyped'
<1>1. PICK command, armed, combo, verdict, everywhere :
         dialog = [command |-> command, armed |-> armed, combo |-> combo,
                   verdict |-> verdict, everywhere |-> everywhere]
  BY DEF DialogShape
<1>2. command \in Commands /\ combo \in Combos \cup {None} /\ everywhere \in BOOLEAN
  BY <1>1 DEF DialogTyped
<1>3. ASSUME NEW c \in Combos \cup {None},
             dialog' = [dialog EXCEPT !.combo = c, !.verdict = None]
      PROVE  DialogTyped'
  BY <1>1, <1>2, <1>3 DEF DialogTyped
<1>4. ASSUME dialog' = [dialog EXCEPT !.armed = FALSE, !.combo = None, !.verdict = None]
      PROVE  DialogTyped'
  BY <1>1, <1>2, <1>4 DEF DialogTyped
<1>5. ASSUME dialog' = [dialog EXCEPT !.armed = TRUE] PROVE DialogTyped'
  BY <1>1, <1>2, <1>5 DEF DialogTyped
<1>6. ASSUME dialog' = [dialog EXCEPT !.everywhere = ~@] PROVE DialogTyped'
  BY <1>1, <1>2, <1>6 DEF DialogTyped
<1>7. ASSUME NEW v, dialog' = [dialog EXCEPT !.verdict = v] PROVE DialogTyped'
  BY <1>1, <1>2, <1>7 DEF DialogTyped
<1> QED
  BY <1>3, <1>4, <1>5, <1>6, <1>7

LEMMA DialogClicksTyped ==
    ASSUME TypedInv, PageInv,
           \/ \E command \in Commands : OpenDialog(command) \/ ResetBinding(command)
           \/ \E combo \in Combos \cup {None} : Press(combo)
           \/ Blur \/ Focus \/ RedirectBinding \/ Cancel \/ SaveBinding
    PROVE  TypedInv'
<1>1. DialogTyped /\ DialogShape /\ CallsTyped(calls) /\ HonestCalls(calls)
  BY DEF TypedInv, PageInv
<1>2. ASSUME NEW command \in Commands, OpenDialog(command) PROVE TypedInv'
  <2>1. DialogTyped'
    BY <1>2 DEF OpenDialog, DialogTyped
  <2> QED
    BY <1>1, <1>2, <2>1, DialogMoved DEF OpenDialog
<1>3. ASSUME NEW command \in Commands, ResetBinding(command) PROVE TypedInv'
  <2> DEFINE request == Write("reset", [kind |-> "reset", command |-> command], "hotkeys", "base")
  <2>1. request.kind = "write" /\ WriteTyped(request)
    BY PanelNames DEF Write, WriteTyped, PageEdit
  <2>2. Asking(request) /\ UNCHANGED <<agent, canvas, panels, dialog, scenario>>
    BY <1>3 DEF ResetBinding
  <2> HIDE DEF request
  <2>3. CallsTyped(calls')
    BY <1>1, <2>1, <2>2, WriteAsked, AskingTyped
  <2>4. DialogTyped'
    BY <1>1, <2>2 DEF DialogTyped
  <2> QED
    BY <2>2, <2>3, <2>4, DialogMoved
<1>4. ASSUME NEW combo \in Combos \cup {None}, Press(combo) PROVE TypedInv'
  <2>1. /\ dialog # None /\ dialog' = [dialog EXCEPT !.combo = combo, !.verdict = None]
        /\ UNCHANGED <<agent, canvas, panels, scenario>>
        /\ UNCHANGED calls \/ Asking(Probe(dialog.command, combo))
    BY <1>4 DEF Press
  <2>2. DialogTyped'
    BY <1>1, <2>1, DialogKept
  <2>3. CallsTyped(calls')
    BY <1>1, <2>1, ProbeAsked, AskingTyped
  <2> QED
    BY <2>1, <2>2, <2>3, DialogMoved
<1>5. CASE Blur
  <2>1. DialogTyped'
    BY <1>1, <1>5, DialogKept DEF Blur
  <2> QED
    BY <1>1, <1>5, <2>1, DialogMoved DEF Blur
<1>6. CASE Focus
  <2>1. DialogTyped'
    BY <1>1, <1>6, DialogKept DEF Focus
  <2> QED
    BY <1>1, <1>6, <2>1, DialogMoved DEF Focus
<1>7. CASE RedirectBinding
  <2>1. DialogTyped'
    BY <1>1, <1>7, DialogKept DEF RedirectBinding
  <2> QED
    BY <1>1, <1>7, <2>1, DialogMoved DEF RedirectBinding
<1>8. CASE Cancel
  <2>1. DialogTyped'
    BY <1>8 DEF Cancel, DialogTyped
  <2> QED
    BY <1>1, <1>8, <2>1, DialogMoved DEF Cancel
<1>9. CASE SaveBinding
  <2> DEFINE edit == [kind |-> "set", command |-> dialog.command, combo |-> dialog.combo,
                      everywhere |-> dialog.everywhere]
             shown == Destination("hotkeys", {dialog.command}, dialog.everywhere)
             request == Write("set", edit, "hotkeys", shown)
  <2>1. /\ dialog # None /\ dialog.combo # None /\ dialog' = None /\ Asking(request)
        /\ UNCHANGED <<agent, canvas, panels, scenario>>
    BY <1>9 DEF SaveBinding
  <2>2. /\ edit \in PageEdit /\ edit.kind = "set" /\ edit.command = dialog.command
        /\ edit.everywhere = dialog.everywhere
    BY <1>1, <2>1 DEF DialogTyped, PageEdit
  <2>3. shown = Promised(panels["hotkeys"].shown, {dialog.command}, dialog.everywhere)
    BY DEF Destination, SuppliedByProfile, Promised
  <2> HIDE DEF edit, shown
  <2>4. /\ request.kind = "write" /\ request.click = "set" /\ request.edit = edit
        /\ request.panel = "hotkeys" /\ request.shown = shown
        /\ request.list = panels["hotkeys"].shown
    BY DEF Write
  <2> HIDE DEF request
  <2>5. WriteTyped(request)
    BY <2>2, <2>3, <2>4, PanelNames DEF WriteTyped
  <2>6. CallsTyped(calls')
    BY <1>1, <2>1, <2>4, <2>5, WriteAsked, AskingTyped
  <2>7. DialogTyped'
    BY <2>1 DEF DialogTyped
  <2> QED
    BY <2>1, <2>6, <2>7, DialogMoved
<1> QED
  BY <1>2, <1>3, <1>4, <1>5, <1>6, <1>7, <1>8, <1>9

LEMMA ClicksTyped ==
    ASSUME TypedInv, PageInv, Clicks
    PROVE  TypedInv'
<1> DEFINE Drawn == \/ \E name \in Names \cup {Blank} : Type(name)
                    \/ \E cells \in Cells \cup {Unusable} : Draw(cells)
                    \/ Undo \/ Redirect
                    \/ PanelsTyped /\ \E name \in Names : Open(name)
<1>1. CASE Drawn
  <2>1. CanvasTyped /\ CanvasTyped'
    BY <1>1, CanvasKept DEF TypedInv
  <2>2. UNCHANGED <<agent, calls, panels, dialog, scenario>>
    BY <1>1 DEF Type, Draw, Undo, Redirect, Open
  <2> QED
    BY <2>1, <2>2, DrawingTyped
<1>2. CASE \/ SaveLayout \/ SaveAndApply \/ RenameLayout
           \/ \E name \in Names : DuplicateLayout(name) \/ DeleteLayout(name)
  BY <1>2, LayoutClicksTyped
<1>3. CASE \/ \E command \in Commands : OpenDialog(command) \/ ResetBinding(command)
           \/ \E combo \in Combos \cup {None} : Press(combo)
           \/ Blur \/ Focus \/ RedirectBinding \/ Cancel \/ SaveBinding
  BY <1>3, DialogClicksTyped
<1> QED
  BY <1>1, <1>2, <1>3 DEF Clicks, TypedInv


-----------------------------------------------------------------------------
(* The session's answers. *)
LEMMA AnswerTyped ==
    ASSUME HonestCalls(calls), CallsTyped(calls), NEW i \in DOMAIN calls, Serving(i),
           NEW answer, Answering(i, answer),
           CallTyped([ask |-> calls[i].ask, state |-> "answered", answer |-> answer])
    PROVE  CallsTyped(calls')
<1> DEFINE call == [ask |-> calls[i].ask, state |-> "answered", answer |-> answer]
<1>1. calls' = [calls EXCEPT ![i] = call]
  BY DEF Answering
<1>2. calls[i].state # "answered" /\ \A j \in 1 .. i - 1 : calls[j].state = "answered"
  BY DEF Serving
<1>3. CallTyped(call)
  OBVIOUS
<1> HIDE DEF call
<1> QED
  BY <1>1, <1>2, <1>3, TypedChanged

(* The file after a write is a desk that validates. *)
LEMMA WrittenIsDesk ==
    ASSUME NEW pair \in Desks, NEW edit \in Edit, Accepted(pair, edit)
    PROVE  Planned(pair, edit) \in Desks
  BY PlannedTyped DEF Desks, Accepted

\* What a write that is carried out does, of what concerns the files.
Written(i) ==
    LET edit == calls[i].ask.edit IN
    /\ edit \in Edit /\ (edit.kind = "save" => edit.name # Blank)
    /\ Accepted(files, edit)
    /\ files' = Planned(files, edit) /\ mail' = Append(mail, files') /\ UNCHANGED <<live, away>>

LEMMA WriteOutcome ==
    ASSUME TypedInv, NEW i \in DOMAIN calls, ServeWrite(i)
    PROVE  \/ Answering(i, Failed) /\ UNCHANGED agent
           \/ Written(i) /\ calls[i].ask.click = "apply"
              /\ calls' = [calls EXCEPT ![i].state = "saved"]
           \/ Written(i) /\ calls[i].ask.click # "apply" /\ Answering(i, Done)
<1> DEFINE edit == calls[i].ask.edit
<1>1. CASE Refused(edit) \/ away \/ ~Accepted(files, edit)
  BY <1>1 DEF ServeWrite
<1>2. CASE ~(Refused(edit) \/ away \/ ~Accepted(files, edit))
  <2>1. edit \in PageEdit
    BY DEF TypedInv, CallsTyped, CallTyped, WriteTyped, ServeWrite
  <2>2. edit \in Edit /\ (edit.kind = "save" => edit.name # Blank)
    <3> HIDE DEF edit
    <3> QED
      BY <1>2, <2>1, EditOfPage
  <2>3. Written(i)
    BY <1>2, <2>2 DEF ServeWrite, Written
  <2> QED
    BY <1>2, <2>3 DEF ServeWrite
<1> QED
  BY <1>1, <1>2

LEMMA SavedRecord ==
    ASSUME NEW call, NEW ask, NEW state, NEW answer,
           call = [ask |-> ask, state |-> state, answer |-> answer]
    PROVE  [call EXCEPT !.state = "saved"] = [ask |-> ask, state |-> "saved", answer |-> answer]
  OBVIOUS

LEMMA ServeWriteTyped ==
    ASSUME TypedInv, PageInv, NEW i \in DOMAIN calls, Serving(i), ServeWrite(i)
    PROVE  CallsTyped(calls')
<1>1. HonestCalls(calls) /\ CallsTyped(calls) /\ Honest(calls[i]) /\ CallTyped(calls[i])
  BY DEF TypedInv, PageInv, HonestCalls, CallsTyped
<1>2. /\ calls[i].ask.kind = "write" /\ calls[i].state = "waiting"
      /\ WriteTyped(calls[i].ask) /\ calls[i].answer = None
  BY <1>1 DEF ServeWrite, CallTyped
<1>3. CASE Answering(i, Failed)
  <2>1. CallTyped([ask |-> calls[i].ask, state |-> "answered", answer |-> Failed])
    BY <1>2, AnswersAssumption DEF CallTyped
  <2> QED
    BY <1>1, <1>3, <2>1, AnswerTyped
<1>4. CASE Written(i) /\ Answering(i, Done)
  <2>1. CallTyped([ask |-> calls[i].ask, state |-> "answered", answer |-> Done])
    BY <1>2, <1>4 DEF CallTyped, Written
  <2> QED
    BY <1>1, <1>4, <2>1, AnswerTyped
<1>5. CASE Written(i) /\ calls[i].ask.click = "apply"
           /\ calls' = [calls EXCEPT ![i].state = "saved"]
  <2> DEFINE saved == [ask |-> calls[i].ask, state |-> "saved", answer |-> None]
  <2>1. CallTyped(saved)
    BY <1>2, <1>5, AnswersAssumption DEF CallTyped, Written
  <2>2. [calls[i] EXCEPT !.state = "saved"] = saved
    <3>1. calls[i] = [ask |-> calls[i].ask, state |-> "waiting", answer |-> None]
      BY <1>1, <1>2 DEF Honest
    <3> QED
      BY <3>1, SavedRecord
  <2>3. calls' = [calls EXCEPT ![i] = saved]
    BY <1>5, <2>2
  <2>4. calls[i].state # "answered" /\ \A j \in 1 .. i - 1 : calls[j].state = "answered"
    BY DEF Serving
  <2> HIDE DEF saved
  <2> QED
    BY <1>1, <2>1, <2>3, <2>4, TypedChanged
<1> QED
  BY <1>3, <1>4, <1>5, WriteOutcome

LEMMA ServeTyped ==
    ASSUME TypedInv, PageInv, Serve
    PROVE  TypedInv'
<1>1. PICK i \in DOMAIN calls :
         Serving(i) /\ (ServeRead(i) \/ ServeProbe(i) \/ ServeWrite(i) \/ ServeApply(i))
  BY DEF Serve
<1>2. UNCHANGED <<canvas, panels, dialog, scenario>>
  BY DEF Serve
<1>3. /\ i \in DOMAIN calls /\ Serving(i) /\ HonestCalls(calls) /\ CallsTyped(calls)
      /\ CallTyped(calls[i]) /\ AgentTyped
  BY <1>1 DEF TypedInv, PageInv, CallsTyped
<1>4. ASSUME CallsTyped(calls'), AgentTyped' PROVE TypedInv'
  BY <1>2, <1>4 DEF TypedInv, PanelsTyped, CanvasTyped, DialogTyped, canvas
<1>5. ASSUME UNCHANGED agent PROVE AgentTyped'
  BY <1>2, <1>3, <1>5 DEF AgentTyped, agent
<1>6. ASSUME ServeRead(i) PROVE TypedInv'
  <2> DEFINE panel == calls[i].ask.panel
  <2>1. /\ calls[i].ask.kind = "read" /\ panel \in Panels
        /\ Answering(i, Telling(panel)) /\ UNCHANGED agent
    BY <1>3, <1>6 DEF ServeRead, CallTyped
  <2>2. panel = "layouts" /\ Telling(panel) # Failed => Telling(panel) \in LayoutList
    BY <1>3, ListingTyped DEF Telling, AgentTyped
  <2>3. CallTyped([ask |-> calls[i].ask, state |-> "answered", answer |-> Telling(panel)])
    BY <2>1, <2>2 DEF CallTyped
  <2>4. CallsTyped(calls')
    BY <1>3, <2>1, <2>3, AnswerTyped
  <2> QED
    BY <1>4, <1>5, <2>1, <2>4
<1>7. ASSUME ServeProbe(i) PROVE TypedInv'
  <2>1. /\ calls[i].ask.kind = "probe" /\ UNCHANGED agent
        /\ \E answer : Answering(i, answer)
    BY <1>7 DEF ServeProbe
  <2>2. PICK answer : Answering(i, answer)
    BY <2>1
  <2>3. CallTyped([ask |-> calls[i].ask, state |-> "answered", answer |-> answer])
    BY <2>1 DEF CallTyped
  <2>4. CallsTyped(calls')
    BY <1>3, <2>2, <2>3, AnswerTyped
  <2> QED
    BY <1>4, <1>5, <2>1, <2>4
<1>8. ASSUME ServeWrite(i) PROVE TypedInv'
  <2>1. CallsTyped(calls')
    BY <1>3, <1>8, ServeWriteTyped
  <2>2. CASE UNCHANGED agent
    BY <1>4, <1>5, <2>1, <2>2
  <2>3. CASE Written(i)
    <3>1. files' \in Desks
      BY <1>3, <2>3, WrittenIsDesk DEF Written, AgentTyped
    <3>2. mail' \in Seq(Desks) /\ live' \in Desks
      BY <1>3, <2>3, <3>1 DEF Written, AgentTyped
    <3> QED
      BY <1>2, <1>3, <1>4, <2>1, <3>1, <3>2 DEF AgentTyped
  <2> QED
    BY <1>3, <1>8, <2>2, <2>3, WriteOutcome
<1>9. ASSUME ServeApply(i) PROVE TypedInv'
  <2>1. /\ calls[i].ask.kind = "write" /\ calls[i].state = "saved" /\ UNCHANGED agent
        /\ Answering(i, Failed) \/ Answering(i, Done)
    BY <1>9 DEF ServeApply
  <2>2. ASSUME NEW answer \in {Failed, Done}
        PROVE  CallTyped([ask |-> calls[i].ask, state |-> "answered", answer |-> answer])
    BY <1>3, <2>1 DEF CallTyped
  <2>3. CallsTyped(calls')
    BY <1>3, <2>1, <2>2, AnswerTyped
  <2> QED
    BY <1>4, <1>5, <2>1, <2>3
<1> QED
  BY <1>1, <1>6, <1>7, <1>8, <1>9


(* The reducer, other hands, and an agent that goes and comes back. *)
LEMMA AgentStepTyped ==
    ASSUME TypedInv, Reduce \/ HandEdit \/ Leave \/ Return
    PROVE  TypedInv'
<1>1. files \in Desks /\ live \in Desks /\ mail \in Seq(Desks) /\ scenario \in Scenarios
  BY DEF TypedInv, AgentTyped
<1>2. UNCHANGED <<calls, canvas, panels, dialog, scenario>>
  BY DEF Reduce, HandEdit, Leave, Return
<1>3. CASE Reduce
  <2>1. mail # <<>> /\ live' = Head(mail) /\ mail' = Tail(mail) /\ files' = files
    BY <1>3 DEF Reduce
  <2>2. live' \in Desks /\ mail' \in Seq(Desks)
    BY <1>1, <2>1
  <2> QED
    BY <1>1, <1>2, <2>1, <2>2
       DEF TypedInv, AgentTyped, PanelsTyped, CanvasTyped, DialogTyped, canvas
<1>4. CASE HandEdit
  <2>1. files' \in scenario.hands /\ mail' = Append(mail, files') /\ live' = live
    BY <1>4 DEF HandEdit
  <2>2. files' \in Desks
    BY <1>1, <2>1, PageAssumption DEF Desks
  <2>3. mail' \in Seq(Desks)
    BY <1>1, <2>1, <2>2
  <2> QED
    BY <1>1, <1>2, <2>1, <2>2, <2>3
       DEF TypedInv, AgentTyped, PanelsTyped, CanvasTyped, DialogTyped, canvas
<1>5. CASE Leave
  <2>1. mail' = <<>> /\ UNCHANGED <<files, live>>
    BY <1>5 DEF Leave
  <2>2. mail' \in Seq(Desks)
    BY <2>1
  <2> QED
    BY <1>1, <1>2, <2>1, <2>2
       DEF TypedInv, AgentTyped, PanelsTyped, CanvasTyped, DialogTyped, canvas
<1>6. CASE Return
  <2>1. live' = files /\ UNCHANGED <<files, mail>>
    BY <1>6 DEF Return
  <2> QED
    BY <1>1, <1>2, <2>1
       DEF TypedInv, AgentTyped, PanelsTyped, CanvasTyped, DialogTyped, canvas
<1> QED
  BY <1>3, <1>4, <1>5, <1>6

LEMMA PollTyped ==
    ASSUME TypedInv, PageInv, NEW panel \in Panels, Poll(panel)
    PROVE  TypedInv'
<1>1. Asking(Read(panel, "watch")) /\ UNCHANGED <<agent, canvas, panels, dialog, scenario>>
  BY DEF Poll
<1>2. CallsTyped(calls')
  BY <1>1, ReadAsked, AskingTyped DEF TypedInv, PageInv
<1> QED
  BY <1>1, <1>2 DEF TypedInv, AgentTyped, CanvasTyped, PanelsTyped, DialogTyped, agent, canvas

(* What the page makes of an answer. *)
LEMMA PanelChanged ==
    ASSUME PanelsTyped, NEW panel \in Panels, NEW shown, NEW failed, NEW reported,
           panel = "layouts" => shown \in LayoutList,
           panels' = [panels EXCEPT ![panel] =
                        [shown |-> shown, failed |-> failed, reported |-> reported]]
    PROVE  PanelsTyped'
<1> DEFINE entry == [shown |-> shown, failed |-> failed, reported |-> reported]
<1>1. /\ DOMAIN panels = Panels /\ DOMAIN panels' = Panels /\ panels'[panel] = entry
      /\ \A p \in Panels : p # panel => panels'[p] = panels[p]
  BY DEF PanelsTyped
<1>2. panels' = [p \in Panels |-> [shown |-> panels'[p].shown, failed |-> panels'[p].failed,
                                   reported |-> panels'[p].reported]]
  <2>1. panels = [p \in Panels |-> [shown |-> panels[p].shown, failed |-> panels[p].failed,
                                    reported |-> panels[p].reported]]
    BY DEF PanelsTyped
  <2>2. ASSUME NEW p \in Panels
        PROVE  panels'[p] = [shown |-> panels'[p].shown, failed |-> panels'[p].failed,
                             reported |-> panels'[p].reported]
    BY <1>1, <2>1
  <2>3. panels' = [p \in Panels |-> panels'[p]]
    BY <1>1
  <2> QED
    BY <2>2, <2>3
<1>3. panels'["layouts"].shown \in LayoutList
  BY <1>1, PanelNames DEF PanelsTyped
<1> QED
  BY <1>2, <1>3 DEF PanelsTyped

LEMMA ReceiveTyped ==
    ASSUME TypedInv, PageInv, Receive
    PROVE  TypedInv'
<1> DEFINE call == Head(calls)
<1>1. /\ calls # <<>> /\ call.state = "answered" /\ UNCHANGED <<agent, scenario>>
      /\ ReceiveList(call) \/ ReceiveVerdict(call) \/ ReceiveWrite(call)
  BY DEF Receive
<1>2. /\ HonestCalls(Tail(calls)) /\ CallsTyped(Tail(calls)) /\ CallTyped(call)
      /\ AgentTyped /\ CanvasTyped /\ PanelsTyped /\ DialogTyped /\ DialogShape
  BY <1>1, HonestTail, TypedTail DEF TypedInv, PageInv
<1> HIDE DEF call
<1>3. AgentTyped'
  BY <1>1, <1>2 DEF AgentTyped, agent
<1>4. ASSUME ReceiveList(call) PROVE TypedInv'
  <2> DEFINE panel == call.ask.panel
             why == call.ask.why
             told == panels[panel]
             entry == IF why = "watch" THEN Reported(panel, call.answer)
                      ELSE Reloaded(panel, call.answer)
  <2>1. /\ call.ask.kind = "read" /\ panels' = [panels EXCEPT ![panel] = entry]
        /\ calls' = Tail(calls) /\ UNCHANGED <<canvas, dialog>>
    BY <1>4 DEF ReceiveList
  <2>2. /\ panel \in Panels
        /\ panel = "layouts" /\ call.answer # Failed => call.answer \in LayoutList
    BY <1>1, <1>2, <2>1 DEF CallTyped
  <2>3. told = [shown |-> told.shown, failed |-> told.failed, reported |-> told.reported]
    BY <1>2, <2>2 DEF PanelsTyped
  <2>4. panel = "layouts" => told.shown \in LayoutList
    BY <1>2 DEF PanelsTyped
  <2>5. \E shown, failed, reported :
           /\ panel = "layouts" => shown \in LayoutList
           /\ entry = [shown |-> shown, failed |-> failed, reported |-> reported]
    <3>1. CASE entry = told
      BY <2>3, <2>4, <3>1
    <3>2. CASE entry = [shown |-> told.shown, failed |-> TRUE, reported |-> Failed]
      BY <2>4, <3>2
    <3>3. CASE \E reported : call.answer # Failed
               /\ entry = [shown |-> call.answer, failed |-> FALSE, reported |-> reported]
      BY <2>2, <3>3
    <3> QED
      BY <3>1, <3>2, <3>3 DEF Reported, Reloaded
  <2>6. PanelsTyped'
    <3>1. PICK shown, failed, reported :
             /\ panel = "layouts" => shown \in LayoutList
             /\ entry = [shown |-> shown, failed |-> failed, reported |-> reported]
      BY <2>5
    <3> HIDE DEF entry, panel
    <3>2. panels' = [panels EXCEPT ![panel] =
                        [shown |-> shown, failed |-> failed, reported |-> reported]]
      BY <2>1, <3>1
    <3> QED
      BY <1>2, <2>2, <3>1, <3>2, PanelChanged
  <2> QED
    BY <1>2, <1>3, <2>1, <2>6 DEF TypedInv, CanvasTyped, DialogTyped, canvas
<1>5. ASSUME ReceiveVerdict(call) PROVE TypedInv'
  <2>1. calls' = Tail(calls) /\ UNCHANGED <<canvas, panels>>
    BY <1>5 DEF ReceiveVerdict
  <2>2. CASE dialog # None /\ dialog' = [dialog EXCEPT !.verdict = call.answer]
    <3>1. DialogTyped'
      BY <1>2, <2>2, DialogKept
    <3> QED
      BY <1>2, <1>3, <2>1, <3>1 DEF TypedInv, CanvasTyped, PanelsTyped, canvas
  <2>3. CASE dialog' = dialog
    BY <1>2, <1>3, <2>1, <2>3 DEF TypedInv, CanvasTyped, PanelsTyped, DialogTyped, canvas
  <2> QED
    BY <1>5, <2>2, <2>3 DEF ReceiveVerdict
<1>6. ASSUME ReceiveWrite(call) PROVE TypedInv'
  <2>1. call.ask.kind = "write" /\ UNCHANGED <<draft, past, panels, dialog>>
    BY <1>6 DEF ReceiveWrite
  <2>2. WriteTyped(call.ask) /\ (call.answer # Failed => call.ask.edit \in Edit)
    BY <1>1, <1>2, <2>1 DEF CallTyped
  <2>3. selected' \in Names \cup {None} /\ redirect' \in BOOLEAN
    <3>1. CASE call.answer = Failed
      BY <1>2, <1>6, <3>1 DEF ReceiveWrite, CanvasTyped
    <3>2. CASE call.answer # Failed
      <4>1. selected' = SelectedAfter(call.ask) /\ redirect' = (redirect /\ call.ask.click # "save")
        BY <1>6, <3>2 DEF ReceiveWrite
      <4>2. call.ask.click = "save" => call.ask.edit.name \in Names
        BY <2>2, <3>2 DEF WriteTyped, Edit
      <4>3. call.ask.click = "rename" => call.ask.edit.to \in Names
        BY <2>2, <3>2 DEF WriteTyped, Edit
      <4>4. SelectedAfter(call.ask) \in Names \cup {None}
        BY <1>2, <4>2, <4>3 DEF SelectedAfter, CanvasTyped
      <4> QED
        BY <4>1, <4>4
    <3> QED
      BY <3>1, <3>2
  <2>4. CallsTyped(calls')
    <3>1. CASE calls' = Tail(calls)
      BY <1>2, <3>1
    <3>2. CASE call.ask.click # "apply" /\ call.answer # Failed
               /\ calls' = Append(Tail(calls), Call(Read(call.ask.panel, "refresh")))
      <4>1. CallTyped(Call(Read(call.ask.panel, "refresh")))
        BY <2>2, ReadAsked DEF WriteTyped
      <4> QED
        BY <1>2, <3>2, <4>1, TypedAppended DEF Call
    <3> QED
      BY <1>6, <3>1, <3>2 DEF ReceiveWrite
  <2> QED
    BY <1>2, <1>3, <2>1, <2>3, <2>4 DEF TypedInv, CanvasTyped, PanelsTyped, DialogTyped
<1> QED
  BY <1>1, <1>4, <1>5, <1>6


-----------------------------------------------------------------------------
(* The types of the page, of the agent's desk and of every call on its way, *)
(* with what the click that asked for it promised, whatever is clicked,     *)
(* served, edited by hand or lost.                                          *)
THEOREM TypedInvariant == Spec => []TypedInv
<1>1. Init => TypedInv
  BY TypedBegins
<1>2. TypedInv /\ PageInv /\ [Next]_vars => TypedInv'
  <2> SUFFICES ASSUME TypedInv, PageInv, [Next]_vars PROVE TypedInv'
    OBVIOUS
  <2>1. CASE Clicks
    BY <2>1, ClicksTyped
  <2>2. CASE Serve
    BY <2>2, ServeTyped
  <2>3. CASE Reduce \/ HandEdit \/ Leave \/ Return
    BY <2>3, AgentStepTyped
  <2>4. ASSUME NEW panel \in Panels, Poll(panel) PROVE TypedInv'
    BY <2>4, PollTyped
  <2>5. CASE Receive
    BY <2>5, ReceiveTyped
  <2>6. CASE UNCHANGED vars
    BY <2>6 DEF vars, agent, canvas, TypedInv, AgentTyped, CanvasTyped, PanelsTyped, DialogTyped
  <2> QED
    BY <2>1, <2>2, <2>3, <2>4, <2>5, <2>6 DEF Next
<1> QED
  BY <1>1, <1>2, PageInvariant, PTL DEF Spec

(* Where a save that is confirmed has landed. *)
LEMMA ServedLands ==
    ASSUME TypedInv, PageInv, NEW i \in DOMAIN calls, ServeWrite(i)
    PROVE  Lands(i)
<1> DEFINE ask == calls[i].ask
           edit == ask.edit
<1> SUFFICES ASSUME ask.kind = "write", ask.click \in {"save", "set"},
                    ask.list = Listing(ask.panel, files),
                    calls[i].answer = None, calls'[i].ask = ask, calls'[i].answer = Done
             PROVE  /\ Key(edit) \in DOMAIN Listing(ask.panel, files')
                    /\ Listing(ask.panel, files')[Key(edit)] = [value |-> Value(edit), source |-> ask.shown]
  BY DEF Lands
<1>1. WriteTyped(ask) /\ files \in Desks
  BY DEF TypedInv, CallsTyped, CallTyped, AgentTyped
<1>2. Written(i)
  <2>1. CASE Answering(i, Failed)
    <3>1. calls'[i].answer = Failed
      BY <2>1 DEF Answering
    <3> QED
      BY <3>1, AnswersAssumption
  <2> QED
    BY <2>1, WriteOutcome
<1>3. edit \in Edit /\ Accepted(files, edit) /\ files' = Planned(files, edit)
      /\ (edit.kind = "save" => edit.name # Blank)
  BY <1>2 DEF Written
<1>4. CASE ask.click = "save"
  <2>1. edit.kind = "save" /\ ask.panel = "layouts"
        /\ ask.shown = Promised(ask.list, Alike(edit.name), edit.everywhere)
    BY <1>1, <1>4 DEF WriteTyped
  <2>2. Key(edit) = edit.name /\ Value(edit) = edit.cells
    BY <2>1 DEF Key, Value, OfBinding
  <2> HIDE DEF edit, ask
  <2> QED
    BY <1>1, <1>3, <2>1, <2>2, SaveLands
<1>5. CASE ask.click = "set"
  <2>1. edit.kind = "set" /\ ask.panel = "hotkeys"
        /\ ask.shown = Promised(ask.list, {edit.command}, edit.everywhere)
    BY <1>1, <1>5 DEF WriteTyped
  <2>2. Key(edit) = edit.command /\ Value(edit) = edit.combo
    BY <2>1 DEF Key, Value, OfBinding
  <2> HIDE DEF edit, ask
  <2> QED
    BY <1>1, <1>3, <2>1, <2>2, SetLands
<1> QED
  BY <1>4, <1>5

(* A call that is as it was, or has no good answer, has nothing to show. *)
LEMMA NothingLanded ==
    ASSUME NEW i, calls'[i] = calls[i] \/ calls'[i].answer # Done \/ calls[i].ask.kind # "write"
                  \/ calls[i].answer # None \/ calls[i].ask.click \notin {"save", "set"}
    PROVE  Lands(i)
  BY AnswersAssumption DEF Lands

(* Serving concerns one call. *)
LEMMA ServeLands ==
    ASSUME TypedInv, PageInv, Serve, NEW i \in DOMAIN calls
    PROVE  Lands(i)
<1>1. PICK k \in DOMAIN calls :
         Serving(k) /\ (ServeRead(k) \/ ServeProbe(k) \/ ServeWrite(k) \/ ServeApply(k))
  BY DEF Serve
<1>2. \E call : calls' = [calls EXCEPT ![k] = call]
  <2>1. ASSUME NEW answer, Answering(k, answer)
        PROVE  \E call : calls' = [calls EXCEPT ![k] = call]
    BY <2>1 DEF Answering
  <2>2. CASE \E answer : Answering(k, answer)
    BY <2>1, <2>2
  <2>3. CASE calls' = [calls EXCEPT ![k].state = "saved"]
    <3>1. calls' = [calls EXCEPT ![k] = [calls[k] EXCEPT !.state = "saved"]]
      BY <2>3
    <3> QED
      BY <3>1
  <2>4. ServeWrite(k) => (\E answer : Answering(k, answer)) \/ calls' = [calls EXCEPT ![k].state = "saved"]
    BY <1>1 DEF ServeWrite
  <2>5. ServeRead(k) \/ ServeProbe(k) \/ ServeApply(k) => \E answer : Answering(k, answer)
    BY DEF ServeRead, ServeProbe, ServeApply
  <2> QED
    BY <1>1, <2>2, <2>3, <2>4, <2>5
<1>3. CASE i # k
  <2>1. calls'[i] = calls[i]
    BY <1>2, <1>3
  <2> QED
    BY <2>1, NothingLanded
<1>4. CASE i = k
  <2>1. CASE ServeRead(i) \/ ServeProbe(i)
    BY <2>1, NothingLanded DEF ServeRead, ServeProbe
  <2>2. CASE ServeWrite(i)
    BY <2>2, ServedLands
  <2>3. CASE ServeApply(i)
    <3>1. calls[i].ask.kind = "write" /\ calls[i].state = "saved"
      BY <2>3 DEF ServeApply
    <3>2. calls[i].ask.click = "apply"
      BY <3>1 DEF TypedInv, CallsTyped, CallTyped
    <3> QED
      BY <3>2, NothingLanded
  <2> QED
    BY <1>1, <1>4, <2>1, <2>2, <2>3
<1> QED
  BY <1>3, <1>4

(* Taking the first answer moves the others up: what comes to stand where  *)
(* an unanswered call stood is not answered either.                        *)
LEMMA ReceiveLands ==
    ASSUME TypedInv, PageInv, Receive, NEW i \in DOMAIN calls \cap DOMAIN calls'
    PROVE  Lands(i)
<1>1. calls # <<>> /\ Head(calls).state = "answered" /\ HonestCalls(calls) /\ CallsTyped(calls)
  BY DEF Receive, TypedInv, PageInv
<1>2. /\ Len(calls) \in Nat /\ Len(calls) > 0 /\ DOMAIN calls = 1..Len(calls)
      /\ DOMAIN Tail(calls) = 1..Len(calls) - 1
      /\ \A j \in 1..Len(calls) - 1 : Tail(calls)[j] = calls[j + 1]
      /\ Head(calls) = calls[1]
  BY <1>1, TailIs
<1>3. SUFFICES ASSUME calls[i].ask.kind = "write", calls[i].answer = None
               PROVE  calls'[i].answer # Done
  BY NothingLanded
<1>4. calls[i].state # "answered"
  BY <1>1, <1>3, AnswersAssumption DEF CallsTyped, CallTyped
<1>5. ASSUME NEW j \in DOMAIN calls, i < j PROVE calls[j].answer = None
  BY <1>1, <1>4, <1>5 DEF CallsTyped, CallTyped, InTurn
<1>6. CASE calls' = Tail(calls)
  <2>1. i \in 1..Len(calls) - 1 /\ calls'[i] = calls[i + 1]
    BY <1>2, <1>6
  <2>2. calls[i + 1].answer = None
    BY <1>2, <1>5, <2>1
  <2> QED
    BY <2>1, <2>2, AnswersAssumption
<1>7. ASSUME NEW request, calls' = Append(Tail(calls), Call(request)) PROVE calls'[i].answer # Done
  <2>1. HonestCalls(Tail(calls))
    BY <1>1, HonestTail
  <2>2. /\ Len(Tail(calls)) \in Nat /\ DOMAIN Tail(calls) = 1..Len(Tail(calls))
        /\ DOMAIN calls' = 1..Len(Tail(calls)) + 1
        /\ \A j \in 1..Len(Tail(calls)) : calls'[j] = Tail(calls)[j]
        /\ calls'[Len(Tail(calls)) + 1] = Call(request)
    BY <1>7, <2>1, AppendIs
  <2>3. Len(Tail(calls)) = Len(calls) - 1
    BY <1>2, <2>2
  <2>4. CASE i \in 1..Len(calls) - 1
    <3>1. calls'[i] = calls[i + 1] /\ calls[i + 1].answer = None
      BY <1>2, <1>5, <2>2, <2>3, <2>4
    <3> QED
      BY <3>1, AnswersAssumption
  <2>5. CASE i = Len(calls)
    <3>1. calls'[i] = Call(request)
      BY <1>2, <2>2, <2>3, <2>5
    <3> QED
      BY <3>1, AnswersAssumption DEF Call
  <2> QED
    BY <1>2, <2>4, <2>5
<1>8. calls' = Tail(calls) \/ \E request : calls' = Append(Tail(calls), Call(request))
  BY DEF Receive, ReceiveList, ReceiveVerdict, ReceiveWrite
<1> QED
  BY <1>6, <1>7, <1>8

(* Every other step leaves the calls alone or adds one at the end. *)
LEMMA OthersLand ==
    ASSUME PageInv, NEW i \in DOMAIN calls,
           calls' = calls \/ \E request : Asking(request)
    PROVE  Lands(i)
<1>1. calls'[i] = calls[i]
  <2>1. CASE calls' = calls
    BY <2>1
  <2>2. ASSUME NEW request, Asking(request) PROVE calls'[i] = calls[i]
    BY <2>2, AppendIs DEF Asking, PageInv
  <2> QED
    BY <2>1, <2>2
<1> QED
  BY <1>1, NothingLanded

LEMMA ClicksAsk ==
    ASSUME Clicks
    PROVE  calls' = calls \/ \E request : Asking(request)
  BY DEF Clicks, Type, Draw, Undo, Redirect, SaveLayout, SaveAndApply, RenameLayout, Open,
         DuplicateLayout, DeleteLayout, SendLayout, OpenDialog, ResetBinding, Press, Blur, Focus,
         RedirectBinding, Cancel, SaveBinding

(* What is saved when the page's list is true is listed afterwards in the   *)
(* file that was named beside the button (saveDestination): the name the    *)
(* page finds without regard to case is, in a directory that validates, the *)
(* name the layers are asked for.                                           *)
THEOREM SavesLandWhereShown == Spec => LandsWhereShown
<1>1. TypedInv /\ PageInv /\ [Next]_vars => [\A i \in DOMAIN calls \cap DOMAIN calls' : Lands(i)]_vars
  <2> SUFFICES ASSUME TypedInv, PageInv, Next, NEW i \in DOMAIN calls \cap DOMAIN calls'
               PROVE  Lands(i)
    OBVIOUS
  <2>1. CASE Clicks
    BY <2>1, ClicksAsk, OthersLand
  <2>2. CASE Serve
    BY <2>2, ServeLands
  <2>3. CASE Reduce \/ HandEdit \/ Leave \/ Return
    BY <2>3, OthersLand DEF Reduce, HandEdit, Leave, Return
  <2>4. ASSUME NEW panel \in Panels, Poll(panel) PROVE Lands(i)
    BY <2>4, OthersLand DEF Poll
  <2>5. CASE Receive
    BY <2>5, ReceiveLands
  <2> QED
    BY <2>1, <2>2, <2>3, <2>4, <2>5 DEF Next
<1> QED
  BY <1>1, TypedInvariant, PageInvariant, PTL DEF Spec, LandsWhereShown
=============================================================================

---------------------------- MODULE SettingsPage ----------------------------
(***************************************************************************)
(* The page of a settings application: the drawing on its canvas, the two  *)
(* lists it shows and watches, and the dialog that captures a combination. *)
(* Every click that concerns the agent is a call of the session            *)
(* (src-tauri/src/editor.rs), which serves one at a time, in order; the    *)
(* answers come back in order, and much may be clicked and typed between.  *)
(*                                                                         *)
(* The agent is here what ControlPlane shows it to be: an accepted edit is *)
(* on disk when it is confirmed, and in force when the reducer gets to it. *)
(* A drawing is one of Cells, or one the session refuses; how its zones    *)
(* are split, added or deleted is left out.  A scenario is a desk, what is *)
(* done at the page, by other hands and by mishap, and how often (left).   *)
(***************************************************************************)
EXTENDS ConfigLayers, Naturals, Sequences

CONSTANTS
    Unusable,       \* a drawing that is no layout: empty, outside, overlapping
    Blank,          \* the name of a drawing whose name was typed away
    FirstDraft,     \* the drawing a page begins with
    CopyName,       \* the name a duplicate gets
    Reserved,       \* combinations Windows handles itself
    None, NotRead, Failed, Done,
    Scenarios       \* records [pair, hands, doing, calm, told, left]; told when
                    \* the page has read its lists before

Panels   == {"layouts", "hotkeys"}
Drawings == [name : Names \cup {Blank}, cells : Cells \cup {Unusable}]

ASSUME PageAssumption ==
    /\ FirstDraft \in Drawings
    /\ DOMAIN CopyName \subseteq Names /\ \A n \in DOMAIN CopyName : CopyName[n] \in Names
    /\ Reserved \subseteq Combos
    /\ \A s \in Scenarios : \A pair \in s.hands \cup {s.pair} : pair \in Pair /\ Valid(pair)

\* No answer, a good one and a bad one are told apart.
ASSUME AnswersAssumption == None # Failed /\ None # Done /\ Done # Failed

VARIABLES
    files, live, mail, away,    \* the agent: on disk, in force, on its way there; gone
    calls,                      \* what the page asked of the session and has not heard back
    draft, past,                \* the drawing on the canvas, and what undo goes back to
    selected, redirect,         \* the layout taken for open; whether a save goes to base
    panels,                     \* panel -> [shown, failed, reported]
    dialog,                     \* the capture dialog, or None
    scenario, left

agent  == <<files, live, mail, away>>
canvas == <<draft, past, selected, redirect>>
vars   == <<agent, calls, canvas, panels, dialog, scenario, left>>

\* What the agent tells of its layouts or hotkeys, each with its layer.
Listing(panel, pair) ==
    LET all == Resolved(pair)[panel]
        own == DOMAIN Layer(pair)[panel]
    IN  [k \in DOMAIN all |->
            [value |-> all[k], source |-> IF k \in own THEN "profile" ELSE "base"]]

Read(panel, why)       == [kind |-> "read", panel |-> panel, why |-> why]
Probe(command, combo)  == [kind |-> "probe", command |-> command, combo |-> combo]
Write(click, edit, panel, shown) ==
    [kind |-> "write", click |-> click, edit |-> edit, panel |-> panel, shown |-> shown,
     list |-> panels[panel].shown]

Call(request)  == [ask |-> request, state |-> "waiting", answer |-> None]
Asking(request) == calls' = Append(calls, Call(request))

Init ==
    /\ scenario \in Scenarios
    /\ left = scenario.left
    /\ files = scenario.pair /\ live = files /\ mail = <<>> /\ away = FALSE
    /\ calls = <<>>
    /\ draft = FirstDraft /\ past = <<>>
    /\ selected = None /\ redirect = FALSE
    /\ panels = [p \in Panels |->
                    IF scenario.told
                    THEN [shown |-> Listing(p, live), failed |-> FALSE, reported |-> Listing(p, live)]
                    ELSE [shown |-> EmptyTable, failed |-> FALSE, reported |-> NotRead]]
    /\ dialog = None

InForce == live = files /\ mail = <<>>
ShowsAll == \A p \in Panels : panels[p].shown = Listing(p, live) /\ ~panels[p].failed
Watched  == \A p \in Panels : panels[p].reported = Listing(p, live)

\* In a calm scenario people wait for everything on its way, and for the watch.
Patient == scenario.calm => calls = <<>> /\ InForce /\ ShowsAll /\ Watched

Spend(what) == left[what] > 0 /\ left' = [left EXCEPT ![what] = @ - 1]
Does(what)  == what \in scenario.doing /\ Patient /\ Spend("acts")

\* Rows are there to be clicked while the list is.
Rows(panel) == IF panels[panel].failed THEN {} ELSE DOMAIN panels[panel].shown
-----------------------------------------------------------------------------
(* The canvas. *)
Alike(name) == {n \in Names : name # Blank /\ Folded[n] = Folded[name]}

SuppliedByProfile(panel, keys) ==
    \E k \in keys \cap DOMAIN panels[panel].shown : panels[panel].shown[k].source = "profile"

(* Mutant: the redirect is not asked. *)
DestinationUnasked(panel, keys, everywhere) ==
    IF SuppliedByProfile(panel, keys) THEN "profile" ELSE "base"

\* saveDestination and bindingDestination: the file named beside the button.
Destination(panel, keys, everywhere) ==
    IF SuppliedByProfile(panel, keys) /\ ~everywhere THEN "profile" ELSE "base"

Type(name) ==
    /\ Does("draw")
    /\ draft' = [draft EXCEPT !.name = name]
    /\ UNCHANGED <<agent, calls, past, selected, redirect, panels, dialog, scenario>>

\* Any change of a zone, of the gap or of the overlap; the name is not one.
Draw(cells) ==
    /\ Does("draw") /\ cells # draft.cells
    /\ past' = Append(past, draft)
    /\ draft' = [draft EXCEPT !.cells = cells]
    /\ UNCHANGED <<agent, calls, selected, redirect, panels, dialog, scenario>>

\* Back to the drawing remembered last, with the name it had.
Undo ==
    /\ Does("draw") /\ past # <<>>
    /\ draft' = past[Len(past)]
    /\ past' = SubSeq(past, 1, Len(past) - 1)
    /\ UNCHANGED <<agent, calls, selected, redirect, panels, dialog, scenario>>

Open(name) ==
    /\ Does("layouts") /\ name \in Rows("layouts")
    /\ past' = Append(past, draft)
    /\ draft' = [name |-> name, cells |-> panels["layouts"].shown[name].value]
    /\ selected' = name
    /\ UNCHANGED <<agent, calls, redirect, panels, dialog, scenario>>

Redirect ==
    /\ Does("layouts") /\ SuppliedByProfile("layouts", Alike(draft.name))
    /\ redirect' = ~redirect
    /\ UNCHANGED <<agent, calls, draft, past, selected, panels, dialog, scenario>>

Saving(everywhere) ==
    [kind |-> "save", name |-> draft.name, cells |-> draft.cells, everywhere |-> everywhere]

SendLayout(click, edit) ==
    /\ Asking(Write(click, edit, "layouts", Destination("layouts", Alike(draft.name), redirect)))
    /\ UNCHANGED <<agent, canvas, panels, dialog, scenario>>

\* A drawing under the name of a layout that is listed and not open is not
\* sent at all.
SaveLayout ==
    /\ Does("layouts")
    /\ \A n \in Alike(draft.name) \cap DOMAIN panels["layouts"].shown : n = selected
    /\ SendLayout("save", Saving(redirect))

\* Sent wherever the layout lives, and under whatever name.
SaveAndApply ==
    /\ Does("layouts")
    /\ SendLayout("apply", Saving(FALSE))

RenameLayout ==
    /\ Does("layouts") /\ selected # None
    /\ SendLayout("rename", [kind |-> "rename", name |-> selected, to |-> draft.name])

DuplicateLayout(name) ==
    /\ Does("layouts") /\ name \in Rows("layouts") \cap DOMAIN CopyName
    /\ SendLayout("duplicate", [kind |-> "duplicate", name |-> name, to |-> CopyName[name]])

DeleteLayout(name) ==
    /\ Does("layouts") /\ name \in Rows("layouts")
    /\ SendLayout("delete", [kind |-> "delete", name |-> name])
-----------------------------------------------------------------------------
(* The capture dialog. *)
OpenDialog(command) ==
    /\ Does("hotkeys") /\ dialog = None
    /\ panels["hotkeys"].reported # NotRead /\ ~panels["hotkeys"].failed
    /\ dialog' = [command |-> command, armed |-> TRUE, combo |-> None, verdict |-> None,
                  everywhere |-> FALSE]
    /\ UNCHANGED <<agent, calls, canvas, panels, scenario>>

\* A press replaces what was captured; a key Mosaix has no name for is none.
Press(combo) ==
    /\ Does("hotkeys") /\ dialog # None /\ dialog.armed
    /\ dialog' = [dialog EXCEPT !.combo = combo, !.verdict = None]
    /\ IF combo = None THEN UNCHANGED calls ELSE Asking(Probe(dialog.command, combo))
    /\ UNCHANGED <<agent, canvas, panels, scenario>>

Blur ==
    /\ Does("hotkeys") /\ dialog # None /\ dialog.armed
    /\ dialog' = [dialog EXCEPT !.armed = FALSE, !.combo = None, !.verdict = None]
    /\ UNCHANGED <<agent, calls, canvas, panels, scenario>>

Focus ==
    /\ dialog # None /\ ~dialog.armed
    /\ dialog' = [dialog EXCEPT !.armed = TRUE]
    /\ UNCHANGED <<agent, calls, canvas, panels, scenario, left>>

RedirectBinding ==
    /\ Does("hotkeys") /\ dialog # None /\ SuppliedByProfile("hotkeys", {dialog.command})
    /\ dialog' = [dialog EXCEPT !.everywhere = ~@]
    /\ UNCHANGED <<agent, calls, canvas, panels, scenario>>

Cancel ==
    /\ Does("hotkeys") /\ dialog # None
    /\ dialog' = None
    /\ UNCHANGED <<agent, calls, canvas, panels, scenario>>

Blocked(verdict) == verdict # None /\ verdict.availability \in {"reserved", "mosaix", "unsupported"}

SaveBinding ==
    /\ Does("hotkeys") /\ dialog # None
    /\ dialog.combo # None /\ ~Blocked(dialog.verdict)
    /\ Asking(Write("set", [kind |-> "set", command |-> dialog.command, combo |-> dialog.combo,
                            everywhere |-> dialog.everywhere],
                    "hotkeys", Destination("hotkeys", {dialog.command}, dialog.everywhere)))
    /\ dialog' = None
    /\ UNCHANGED <<agent, canvas, panels, scenario>>

ResetBinding(command) ==
    /\ Does("hotkeys") /\ dialog = None /\ command \in Rows("hotkeys")
    /\ Asking(Write("reset", [kind |-> "reset", command |-> command], "hotkeys", "base"))
    /\ UNCHANGED <<agent, canvas, panels, dialog, scenario>>
-----------------------------------------------------------------------------
(* The session and the agent. *)
Serving(i) == calls[i].state # "answered" /\ \A j \in 1 .. i - 1 : calls[j].state = "answered"

Answering(i, answer) ==
    calls' = [calls EXCEPT ![i] = [ask |-> @.ask, state |-> "answered", answer |-> answer]]

\* What is in force answers, whatever was confirmed before.
Telling(panel) == IF away THEN Failed ELSE Listing(panel, live)

ServeRead(i) ==
    /\ calls[i].ask.kind = "read"
    /\ Answering(i, Telling(calls[i].ask.panel))
    /\ UNCHANGED agent

Availability(command, combo) ==
    IF combo \in Reserved THEN {"reserved"}
    ELSE IF \E c \in DOMAIN Resolved(live).hotkeys : c # command /\ Resolved(live).hotkeys[c] = combo
    THEN {"mosaix"}
    ELSE {"available", "taken", "unsupported"}

ServeProbe(i) ==
    LET ask == calls[i].ask IN
    /\ ask.kind = "probe"
    /\ IF away THEN Answering(i, Failed)
       ELSE \E verdict \in Availability(ask.command, ask.combo) :
                Answering(i, [asked |-> <<ask.command, ask.combo>>, availability |-> verdict])
    /\ UNCHANGED agent

\* validate_draft and check_name: the agent is not asked.
Refused(edit) ==
    \/ edit.kind = "save" /\ (edit.cells = Unusable \/ edit.name = Blank)
    \/ edit.kind = "rename" /\ edit.to = Blank

\* The answer leaves with the change on its way to the reducer.  The second
\* half of an apply is a request of its own.
ServeWrite(i) ==
    LET ask == calls[i].ask IN
    /\ ask.kind = "write" /\ calls[i].state = "waiting"
    /\ IF Refused(ask.edit) \/ away \/ ~Accepted(files, ask.edit)
       THEN Answering(i, Failed) /\ UNCHANGED agent
       ELSE /\ files' = Planned(files, ask.edit)
            /\ mail' = Append(mail, files')
            /\ UNCHANGED <<live, away>>
            /\ IF ask.click = "apply" THEN calls' = [calls EXCEPT ![i].state = "saved"]
               ELSE Answering(i, Done)

\* ApplyLayout: refused unless the layout is in force.
ServeApply(i) ==
    /\ calls[i].ask.kind = "write" /\ calls[i].state = "saved"
    /\ Answering(i, IF away \/ calls[i].ask.edit.name \notin DOMAIN Resolved(live).layouts
                    THEN Failed ELSE Done)
    /\ UNCHANGED agent

Serve ==
    /\ \E i \in DOMAIN calls : Serving(i) /\ (ServeRead(i) \/ ServeProbe(i) \/ ServeWrite(i) \/ ServeApply(i))
    /\ UNCHANGED <<canvas, panels, dialog, scenario, left>>

Reduce ==
    /\ mail # <<>>
    /\ live' = Head(mail) /\ mail' = Tail(mail)
    /\ UNCHANGED <<files, away, calls, canvas, panels, dialog, scenario, left>>

\* Another hand, and the watcher that notices it; what does not validate does
\* not come this far.
HandEdit ==
    /\ ~away /\ Patient /\ Spend("hands")
    /\ files' \in scenario.hands /\ files' # files
    /\ mail' = Append(mail, files')
    /\ UNCHANGED <<live, away, calls, canvas, panels, dialog, scenario>>

\* The agent ends, and some day starts again with what is on disk.
Leave ==
    /\ ~away /\ Spend("mishaps")
    /\ away' = TRUE /\ mail' = <<>>
    /\ UNCHANGED <<files, live, calls, canvas, panels, dialog, scenario>>

Return ==
    /\ away
    /\ away' = FALSE /\ live' = files
    /\ UNCHANGED <<files, mail, calls, canvas, panels, dialog, scenario, left>>
-----------------------------------------------------------------------------
(* What the page does with an answer. *)

\* Every two seconds.  Bounds: one reading is answered before the next, and
\* one that would tell nothing new is left out.
Poll(panel) ==
    /\ Telling(panel) # panels[panel].reported
    /\ \A i \in DOMAIN calls : calls[i].ask # Read(panel, "watch")
    /\ Asking(Read(panel, "watch"))
    /\ UNCHANGED <<agent, canvas, panels, dialog, scenario, left>>

(* Mutant: an answer that failed is not remembered as reported. *)
ReportedDeaf(panel, answer) ==
    IF answer = panels[panel].reported THEN panels[panel]
    ELSE IF answer = Failed THEN [panels[panel] EXCEPT !.failed = TRUE]
    ELSE [shown |-> answer, failed |-> FALSE, reported |-> answer]

\* watchChanges: only an answer that differs from the one reported last.
Reported(panel, answer) ==
    IF answer = panels[panel].reported THEN panels[panel]
    ELSE IF answer = Failed
    THEN [shown |-> panels[panel].shown, failed |-> TRUE, reported |-> Failed]
    ELSE [shown |-> answer, failed |-> FALSE, reported |-> answer]

\* After a write of its own the page reads again, past the watch.
Reloaded(panel, answer) ==
    IF answer = Failed THEN panels[panel]
    ELSE [shown |-> answer, failed |-> FALSE, reported |-> panels[panel].reported]

ReceiveList(call) ==
    /\ call.ask.kind = "read"
    /\ panels' = [panels EXCEPT ![call.ask.panel] =
                    IF call.ask.why = "watch" THEN Reported(call.ask.panel, call.answer)
                    ELSE Reloaded(call.ask.panel, call.answer)]
    /\ calls' = Tail(calls)
    /\ UNCHANGED <<canvas, dialog>>

(* Mutant: it is enough that the dialog is still about the command. *)
ReceiveVerdictLate(call) ==
    /\ call.ask.kind = "probe"
    /\ dialog' = IF /\ dialog # None /\ call.answer # Failed
                    /\ dialog.command = call.ask.command
                 THEN [dialog EXCEPT !.verdict = call.answer]
                 ELSE dialog
    /\ calls' = Tail(calls)
    /\ UNCHANGED <<canvas, panels>>

\* Dropped when the dialog has moved on.
ReceiveVerdict(call) ==
    /\ call.ask.kind = "probe"
    /\ dialog' = IF /\ dialog # None /\ call.answer # Failed
                    /\ dialog.command = call.ask.command /\ dialog.combo = call.ask.combo
                 THEN [dialog EXCEPT !.verdict = call.answer]
                 ELSE dialog
    /\ calls' = Tail(calls)
    /\ UNCHANGED <<canvas, panels>>

SelectedAfter(ask) ==
    CASE ask.click = "save"   -> ask.edit.name
      [] ask.click = "rename" -> ask.edit.to
      [] ask.click = "delete" /\ selected = ask.edit.name -> None
      [] OTHER -> selected

\* A write that failed is only reported.
ReceiveWrite(call) ==
    /\ call.ask.kind = "write"
    /\ IF call.answer = Failed THEN calls' = Tail(calls) /\ UNCHANGED <<selected, redirect>>
       ELSE /\ selected' = SelectedAfter(call.ask)
            /\ redirect' = (redirect /\ call.ask.click # "save")
            /\ calls' = IF call.ask.click = "apply" THEN Tail(calls)
                        ELSE Append(Tail(calls), Call(Read(call.ask.panel, "refresh")))
    /\ UNCHANGED <<draft, past, panels, dialog>>

Receive ==
    /\ calls # <<>> /\ Head(calls).state = "answered"
    /\ LET call == Head(calls) IN ReceiveList(call) \/ ReceiveVerdict(call) \/ ReceiveWrite(call)
    /\ UNCHANGED <<agent, scenario, left>>

Clicks ==
    \/ \E name \in Names \cup {Blank} : Type(name)
    \/ \E cells \in Cells \cup {Unusable} : Draw(cells)
    \/ Undo \/ Redirect \/ SaveLayout \/ SaveAndApply \/ RenameLayout
    \/ \E name \in Names : Open(name) \/ DuplicateLayout(name) \/ DeleteLayout(name)
    \/ \E command \in Commands : OpenDialog(command) \/ ResetBinding(command)
    \/ \E combo \in Combos \cup {None} : Press(combo)
    \/ Blur \/ Focus \/ RedirectBinding \/ Cancel \/ SaveBinding

Next ==
    \/ Clicks
    \/ Serve \/ Reduce \/ HandEdit \/ Leave \/ Return
    \/ \E panel \in Panels : Poll(panel)
    \/ Receive

\* Timers, session, reducer and page go on; people and mishaps need not.
Spec ==
    /\ Init /\ [][Next]_vars
    /\ WF_vars(Serve) /\ WF_vars(Receive) /\ WF_vars(Reduce)
    /\ \A panel \in Panels : WF_vars(Poll(panel))
-----------------------------------------------------------------------------
(* Properties. *)

\* A verdict in the dialog is the agent's on the command and the combination
\* it shows, however fast keys were pressed and dialogs opened and closed
\* while the question was on its way (probeCaptured).
VerdictFitsCapture ==
    dialog # None /\ dialog.verdict # None =>
        dialog.verdict.asked = <<dialog.command, dialog.combo>>

Key(edit)   == IF OfBinding(edit) THEN edit.command ELSE edit.name
Value(edit) == IF OfBinding(edit) THEN edit.combo ELSE edit.cells

\* What was saved from a list that was true, and is confirmed by this step,
\* is listed in the file that was named beside the button.
Lands(i) ==
    LET ask == calls[i].ask IN
    /\ ask.kind = "write" /\ ask.click \in {"save", "set"}
    /\ ask.list = Listing(ask.panel, files)
    /\ calls[i].answer = None /\ calls'[i].ask = ask /\ calls'[i].answer = Done
    => /\ Key(ask.edit) \in DOMAIN Listing(ask.panel, files')
       /\ Listing(ask.panel, files')[Key(ask.edit)] = [value |-> Value(ask.edit), source |-> ask.shown]

\* "what the interface promises and where the agent writes cannot disagree"
\* (saveDestination): every save lands, or is not confirmed.
LandsWhereShown == [][\A i \in DOMAIN calls \cap DOMAIN calls' : Lands(i)]_vars

\* "a layout added by hand in a configuration file appears without reopening
\* the window" (watchSavedLayouts): again and again the page shows what is in
\* force.  The exception is a list the watch has reported already, when what a
\* reading after a write of the page's own has put in its place is outdated:
\* the watch will not report it again.  People who wait for the watch before
\* each click never meet the exception.
CatchesUp ==
    []<>(\/ away
         \/ InForce /\ \A p \in Panels :
                \/ panels[p].shown = Listing(p, live) /\ ~panels[p].failed
                \/ panels[p].reported = Listing(p, live) /\ ~scenario.calm)
=============================================================================

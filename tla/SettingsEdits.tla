--------------------------- MODULE SettingsEdits ---------------------------
(***************************************************************************)
(* What an edit of the configuration promises, as a desk sees it: the      *)
(* settings in effect change in one step, to what the edit names and       *)
(* nothing else, or they do not change at all.  It promises nothing when   *)
(* somebody else was writing while the edit was being made, nor            *)
(* for settings in which one name stands for two layouts.                  *)
(***************************************************************************)
EXTENDS ConfigLayers

CONSTANTS Writers, NoEdit

VARIABLES
    effective,      \* the settings in effect at this desk, or Garbage
    asked           \* writer -> NoEdit, or its edit, whether it was raced and whether it is done

promise == <<effective, asked>>

Ambiguous(settings) == ~NamesDistinct(DOMAIN settings.layouts)

\* The settings after a rename hold the layout under its new name only, and so on.
Effect(old, new, edit) ==
    CASE edit.kind = "set" ->
            new = [old EXCEPT !.hotkeys = With(@, edit.command, edit.combo)]
      [] edit.kind = "reset" ->
            /\ edit.command \in DOMAIN old.hotkeys
            /\ Without(new.hotkeys, edit.command) = Without(old.hotkeys, edit.command)
            /\ new = [old EXCEPT !.hotkeys = new.hotkeys]
      [] edit.kind = "save" ->
            new = [old EXCEPT !.layouts = With(@, edit.name, edit.cells)]
      [] edit.kind = "rename" ->
            /\ edit.name \in DOMAIN old.layouts
            /\ new = [old EXCEPT !.layouts =
                        With(Without(@, edit.name), edit.to, old.layouts[edit.name])]
      [] edit.kind = "duplicate" ->
            /\ edit.name \in DOMAIN old.layouts /\ edit.to \notin DOMAIN old.layouts
            /\ new = [old EXCEPT !.layouts = With(@, edit.to, old.layouts[edit.name])]
      [] edit.kind = "delete" ->
            /\ edit.name \in DOMAIN old.layouts
            /\ new = [old EXCEPT !.layouts = Without(@, edit.name)]
      [] edit.kind = "tiling" -> new = [old EXCEPT !.tiling = edit.on]

Open(w) == asked[w] # NoEdit /\ ~asked[w].done

Overrun(a) == [edit |-> a.edit, raced |-> TRUE, done |-> a.done]
Done(a)    == [edit |-> a.edit, raced |-> a.raced, done |-> TRUE]

Raced(but) == [w \in Writers |-> IF w # but /\ Open(w) THEN Overrun(asked[w]) ELSE asked[w]]

Init == asked = [w \in Writers |-> NoEdit]

Ask(w, edit) ==
    /\ asked[w] = NoEdit
    /\ asked' = [asked EXCEPT ![w] = [edit |-> edit, raced |-> FALSE, done |-> FALSE]]
    /\ UNCHANGED effective

Perform(w) ==
    /\ Open(w) /\ ~asked[w].raced
    /\ effective # Garbage /\ effective' # Garbage
    /\ Ambiguous(effective) \/ Effect(effective, effective', asked[w].edit)
    /\ asked' = [Raced(w) EXCEPT ![w] = Done(@)]

\* A step on the way, such as the first of the two files of a redirect: nobody
\* sees a difference.
Prepare(w) ==
    /\ Open(w) /\ ~asked[w].raced
    /\ asked' = Raced(w)
    /\ UNCHANGED effective

\* Confirmed when done; refused, failed or cut short when not.
End(ws) ==
    /\ asked' = [w \in Writers |-> IF w \in ws THEN NoEdit ELSE asked[w]]
    /\ UNCHANGED effective

\* A raced edit may land anywhere, in any number of steps.
Land(w) ==
    /\ Open(w) /\ asked[w].raced
    /\ \/ asked' = Raced(w)
       \/ asked' = [Raced(w) EXCEPT ![w] = Done(@)]

\* Somebody edits the files by hand.
External == asked' = Raced(NoEdit)

Next ==
    \/ \E w \in Writers : Perform(w) \/ Prepare(w) \/ Land(w) \/ \E edit \in Edit : Ask(w, edit)
    \/ \E ws \in SUBSET Writers : End(ws)
    \/ External

Spec == Init /\ [][Next]_promise
=============================================================================

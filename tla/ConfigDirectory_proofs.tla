----------------------- MODULE ConfigDirectory_proofs -----------------------
(***************************************************************************)
(* The configuration directory keeps the promise of an edit: for every set *)
(* of commands, combinations, names and writers, with hands and crashes    *)
(* around them, an edit changes the settings in effect in one step to      *)
(* exactly what it names, or leaves them alone. The lemmas follow the      *)
(* code: what each step of a writer keeps, and how each step maps to the   *)
(* promise; what an edit makes of the effective settings is shown in       *)
(* ConfigLayers_proofs.                                                    *)
(***************************************************************************)
EXTENDS ConfigDirectory, ConfigLayers_proofs

(* What becomes of the writers in a step. *)
Marked(e, stage) ==
    [edit |-> e.edit, phase |-> e.phase, stage |-> stage, seen |-> e.seen, raced |-> TRUE]
Staged(e, stage) ==
    [edit |-> e.edit, phase |-> e.phase, stage |-> stage, seen |-> e.seen, raced |-> e.raced]
Instead(w, e)    == [v \in Writers |-> IF v = w THEN e ELSE edits[v]]

\* One writer goes on, and the others that have not finished are overtaken.
OthersMarked(w, e, stages) ==
    [v \in Writers |-> IF v = w THEN e ELSE IF Pending(v) THEN Marked(edits[v], stages[v]) ELSE edits[v]]

AsTheyAre  == [v \in Writers |-> edits[v].stage]
AreAdrift(w) ==
    [v \in Writers |-> IF Target(edits[v]) = Target(edits[w]) THEN Adrift(edits[v].stage) ELSE edits[v].stage]

LEMMA FieldChanged ==
    ASSUME NEW e \in EditState, NEW r
    PROVE  /\ [e EXCEPT !.raced = r] =
                [edit |-> e.edit, phase |-> e.phase, stage |-> e.stage, seen |-> e.seen, raced |-> r]
           /\ [e EXCEPT !.stage = r] = Staged(e, r)
  BY DEF EditState, Staged

LEMMA ProfileChanged ==
    ASSUME NEW pair \in Pair, NEW profile
    PROVE  [pair EXCEPT !.profile = profile] = [base |-> pair.base, profile |-> profile]
  BY DEF Pair

LEMMA BaseChanged ==
    ASSUME NEW pair \in Pair, NEW base
    PROVE  [pair EXCEPT !.base = base] = [base |-> base, profile |-> pair.profile]
  BY DEF Pair

LEMMA OvertakenIs ==
    ASSUME DirectoryTypeOK, NEW w
    PROVE  /\ Overtaken(w) = [v \in Writers |-> Overtaken(w)[v]]
           /\ \A v \in Writers : Overtaken(w)[v] =
                IF v # w /\ Pending(v) THEN Marked(edits[v], edits[v].stage) ELSE edits[v]
<1>1. \A v \in Writers : Pending(v) => edits[v] \in EditState
  BY DEF DirectoryTypeOK, Pending
<1>2. \A v \in Writers : Pending(v) => [edits[v] EXCEPT !.raced = TRUE] = Marked(edits[v], edits[v].stage)
  BY <1>1, FieldChanged DEF Marked
<1> QED
  BY <1>2 DEF Overtaken

LEMMA DisplacedIs ==
    ASSUME DirectoryTypeOK, NEW w \in Writers
    PROVE  /\ Displaced(w) = [v \in Writers |-> Displaced(w)[v]]
           /\ \A v \in Writers : Displaced(w)[v] =
                IF v # w /\ Pending(v) THEN Marked(edits[v], AreAdrift(w)[v]) ELSE edits[v]
<1>1. ASSUME NEW v \in Writers, v # w, Pending(v)
      PROVE  Displaced(w)[v] = Marked(edits[v], AreAdrift(w)[v])
  <2> DEFINE e == edits[v]
             m == Marked(e, e.stage)
  <2>1. e \in EditState
    BY <1>1 DEF DirectoryTypeOK, Pending
  <2>2. m \in EditState
    <3>1. TRUE \in BOOLEAN
      OBVIOUS
    <3> QED
      BY <2>1, <3>1 DEF Marked, EditState
  <2>3. m.edit = e.edit /\ m.phase = e.phase /\ m.stage = e.stage /\ m.seen = e.seen /\ m.raced = TRUE
    BY DEF Marked
  <2>4. Overtaken(w)[v] = m
    BY <1>1, OvertakenIs
  <2>5. CASE Target(edits[v]) = Target(edits[w])
    <3>1. Displaced(w)[v] = [m EXCEPT !.stage = Adrift(m.stage)]
      BY <1>1, <2>4, <2>5 DEF Displaced
    <3>2. m.stage = e.stage
      BY <2>3
    <3> HIDE DEF m
    <3>3. [m EXCEPT !.stage = Adrift(m.stage)] = Staged(m, Adrift(m.stage))
      BY <2>2, FieldChanged
    <3>4. Displaced(w)[v] = Staged(m, Adrift(e.stage))
      BY <3>1, <3>2, <3>3
    <3> QED
      BY <2>3, <2>5, <3>4 DEF Staged, Marked, AreAdrift
  <2>6. CASE Target(edits[v]) # Target(edits[w])
    BY <1>1, <2>4, <2>6 DEF Displaced, AreAdrift
  <2> QED
    BY <2>5, <2>6
<1>2. ASSUME NEW v \in Writers, v = w \/ ~Pending(v)
      PROVE  Displaced(w)[v] = edits[v]
  BY <1>2, OvertakenIs DEF Displaced
<1>3. Displaced(w) = [v \in Writers |-> Displaced(w)[v]]
  BY DEF Displaced
<1> QED
  BY <1>1, <1>2, <1>3

LEMMA ReadProfileIs ==
    ASSUME DirectoryTypeOK, NEW w \in Writers, ReadProfile(w)
    PROVE  /\ edits[w] \in EditState /\ edits[w].phase = "reading" /\ files' = files /\ temps' = temps
           /\ edits' = Instead(w, MovedOn(edits[w], "read", [base |-> edits[w].seen.base, profile |-> files.profile]))
<1>1. edits[w] \in EditState /\ edits[w].phase = "reading" /\ files' = files /\ temps' = temps
  BY DEF DirectoryTypeOK, ReadProfile
<1>2. edits[w].seen \in Pair
  BY <1>1 DEF EditState
<1>3. edits' = [edits EXCEPT ![w] = MovedOn(edits[w], "read", [edits[w].seen EXCEPT !.profile = files.profile])]
  BY DEF ReadProfile
<1>4. edits = [v \in Writers |-> edits[v]]
  BY DEF DirectoryTypeOK
<1> QED
  BY <1>1, <1>2, <1>3, <1>4, ProfileChanged DEF Instead

(* The three steps of a writer that replaces a file. *)
Onto(e) == IF e.phase = "read" /\ Redirects(e.seen, e.edit) THEN "halfway" ELSE "written"

LEMMA OpenTempIs ==
    ASSUME DirectoryTypeOK, NEW w \in Writers, OpenTemp(w)
    PROVE  /\ edits[w] \in EditState /\ Pending(w) /\ files' = files
           /\ edits' = OthersMarked(w, Staged(edits[w], "opened"), AsTheyAre)
           /\ temps' = [temps EXCEPT ![Target(edits[w])] = Empty]
<1>1. edits[w] \in EditState /\ Pending(w)
  BY DEF DirectoryTypeOK, OpenTemp, Due, Pending
<1>2. Overtaken(w)[w] = edits[w]
  BY OvertakenIs
<1>3. edits' = [Overtaken(w) EXCEPT ![w] = [edits[w] EXCEPT !.stage = "opened"]]
  BY <1>2 DEF OpenTemp
<1>4. [edits[w] EXCEPT !.stage = "opened"] = Staged(edits[w], "opened")
  BY <1>1, FieldChanged
<1>5. edits' = [Overtaken(w) EXCEPT ![w] = Staged(edits[w], "opened")]
  BY <1>3, <1>4
<1>6. \A v \in Writers : Overtaken(w)[v] =
         IF v # w /\ Pending(v) THEN Marked(edits[v], AsTheyAre[v]) ELSE edits[v]
  BY OvertakenIs DEF AsTheyAre
<1>7. Overtaken(w) = [v \in Writers |-> Overtaken(w)[v]]
  BY OvertakenIs
<1>8. edits' = OthersMarked(w, Staged(edits[w], "opened"), AsTheyAre)
  BY <1>5, <1>6, <1>7 DEF OthersMarked
<1> QED
  BY <1>1, <1>8 DEF OpenTemp

LEMMA FillTempIs ==
    ASSUME DirectoryTypeOK, NEW w \in Writers, FillTemp(w)
    PROVE  /\ edits[w] \in EditState /\ Pending(w) /\ edits[w].stage \in {"opened", "astray"}
           /\ edits' = OthersMarked(w, Staged(edits[w], "filled"), AsTheyAre)
<1>1. edits[w] \in EditState /\ Pending(w)
  BY DEF DirectoryTypeOK, FillTemp, Due, Pending
<1>2. Overtaken(w)[w] = edits[w]
  BY OvertakenIs
<1>3. edits' = [Overtaken(w) EXCEPT ![w] = [edits[w] EXCEPT !.stage = "filled"]]
  BY <1>2 DEF FillTemp
<1>4. [edits[w] EXCEPT !.stage = "filled"] = Staged(edits[w], "filled")
  BY <1>1, FieldChanged
<1>5. edits' = [Overtaken(w) EXCEPT ![w] = Staged(edits[w], "filled")]
  BY <1>3, <1>4
<1>6. \A v \in Writers : Overtaken(w)[v] =
         IF v # w /\ Pending(v) THEN Marked(edits[v], AsTheyAre[v]) ELSE edits[v]
  BY OvertakenIs DEF AsTheyAre
<1>7. Overtaken(w) = [v \in Writers |-> Overtaken(w)[v]]
  BY OvertakenIs
<1>8. edits' = OthersMarked(w, Staged(edits[w], "filled"), AsTheyAre)
  BY <1>5, <1>6, <1>7 DEF OthersMarked
<1> QED
  BY <1>1, <1>8 DEF FillTemp

LEMMA ReplaceFileIs ==
    ASSUME DirectoryTypeOK, NEW w \in Writers, ReplaceFile(w)
    PROVE  /\ edits[w] \in EditState /\ Pending(w) /\ edits[w].stage = "filled"
           /\ edits' = OthersMarked(w, MovedOn(edits[w], Onto(edits[w]), edits[w].seen), AreAdrift(w))
<1>1. edits[w] \in EditState /\ Pending(w) /\ edits[w].stage = "filled"
  BY DEF DirectoryTypeOK, ReplaceFile, Due, Pending
<1>2. edits' = [Displaced(w) EXCEPT ![w] = MovedOn(edits[w], Onto(edits[w]), edits[w].seen)]
  BY DEF ReplaceFile, Onto
<1>3. edits' = OthersMarked(w, MovedOn(edits[w], Onto(edits[w]), edits[w].seen), AreAdrift(w))
  BY <1>2, DisplacedIs DEF OthersMarked
<1> QED
  BY <1>1, <1>3

Begun(edit) ==
    [edit |-> edit, phase |-> "reading", stage |-> "idle", seen |-> files, raced |-> FALSE]

LEMMA StartedIs ==
    ASSUME DirectoryTypeOK, NEW w \in Writers, NEW edit, ReadBase(w, edit)
    PROVE  /\ edits[w] = NoEdit /\ files' = files /\ temps' = temps
           /\ edits' = Instead(w, Begun(edit))
<1>1. edits = [v \in Writers |-> edits[v]]
  BY DEF DirectoryTypeOK
<1> QED
  BY <1>1 DEF ReadBase, Instead, Begun

\* A writer that is done, refused or cut short is as if it had not begun.
LEMMA EndedIs ==
    ASSUME DirectoryTypeOK, NEW w \in Writers, Refuse(w) \/ ReplaceFails(w) \/ Confirm(w) \/ WriteFails(w)
    PROVE  files' = files /\ temps' = temps /\ edits' = Instead(w, NoEdit)
<1>1. edits = [v \in Writers |-> edits[v]]
  BY DEF DirectoryTypeOK
<1> QED
  BY <1>1 DEF Refuse, ReplaceFails, Confirm, WriteFails, Instead

(* The inductive invariant: a writer nobody overtook has seen what is there, *)
(* half a redirect is the base of its plan over the profile it saw, and the  *)
(* temporary file it has opened is empty until it holds what it is to say.   *)
Sound(e, on, beside) ==
    /\ e.phase \in {"halfway", "written"} => Accepted(e.seen, e.edit)
    /\ e.phase = "halfway" => Redirects(e.seen, e.edit)
    /\ e.phase = "written" => e.stage = "idle"
    /\ ~e.raced =>
        /\ e.phase \in {"reading", "read"} => e.seen = on
        /\ e.phase = "halfway" => on.base = Planned(e.seen, e.edit).base /\ on.profile = e.seen.profile
        /\ e.stage # "astray"
        /\ e.stage = "opened" => beside[Target(e)] = Empty
        /\ e.stage = "filled" => beside[Target(e)] = Content(e)

SeenIsCurrent == \A w \in Writers : edits[w] # NoEdit => Sound(edits[w], files, temps)

DirectoryInv == DirectoryTypeOK /\ SeenIsCurrent

LEMMA MovedOnTyped ==
    ASSUME NEW e \in EditState, NEW phase \in Phases, NEW seen \in Pair
    PROVE  MovedOn(e, phase, seen) \in EditState
  BY DEF MovedOn, EditState, Stages

LEMMA MarkedTyped ==
    ASSUME NEW e \in EditState, NEW stage \in Stages
    PROVE  Marked(e, stage) \in EditState /\ Marked(e, stage).raced
<1>1. TRUE \in BOOLEAN
  OBVIOUS
<1> QED
  BY <1>1 DEF Marked, EditState

LEMMA StagedTyped ==
    ASSUME NEW e \in EditState, NEW stage \in Stages
    PROVE  /\ Staged(e, stage) \in EditState
           /\ Target(Staged(e, stage)) = Target(e) /\ Content(Staged(e, stage)) = Content(e)
  BY DEF Staged, EditState, Target, Content

\* The stages the others are left at.
LEMMA StagesTyped ==
    ASSUME DirectoryTypeOK, NEW w, NEW v \in Writers, Pending(v)
    PROVE  AsTheyAre[v] \in Stages /\ AreAdrift(w)[v] \in Stages
<1>1. edits[v].stage \in Stages
  BY DEF DirectoryTypeOK, Pending, EditState
<1> QED
  BY <1>1 DEF AsTheyAre, AreAdrift, Adrift, Stages

\* Whoever is marked as overtaken, or has written, cares no more for the files.
LEMMA SoundMarked ==
    ASSUME NEW e \in EditState, NEW stage \in Stages, NEW on, NEW beside, Sound(e, on, beside), NEW after, NEW next
    PROVE  /\ e.phase # "written" => Sound(Marked(e, stage), after, next)
           /\ e.phase = "written" => Sound(e, after, next)
<1>1. Marked(e, stage).raced
  BY MarkedTyped
<1>2. Marked(e, stage).phase = e.phase /\ Marked(e, stage).seen = e.seen /\ Marked(e, stage).edit = e.edit
  BY DEF Marked
<1> QED
  BY <1>1, <1>2 DEF Sound

\* A step of writing of w: the others are marked and stay sound, whatever was
\* written.
LEMMA OthersStaySound ==
    ASSUME DirectoryInv, NEW w, NEW e, NEW stages, \A v \in Writers : Pending(v) => stages[v] \in Stages,
           NEW v \in Writers, v # w, OthersMarked(w, e, stages)[v] # NoEdit, NEW after, NEW next
    PROVE  /\ OthersMarked(w, e, stages)[v] \in EditState
           /\ Sound(OthersMarked(w, e, stages)[v], after, next)
<1>1. edits[v] # NoEdit
  BY DEF OthersMarked, Pending
<1>2. edits[v] \in EditState /\ Sound(edits[v], files, temps)
  BY <1>1 DEF DirectoryInv, DirectoryTypeOK, SeenIsCurrent
<1>3. CASE Pending(v)
  <2>1. edits[v].phase # "written" /\ stages[v] \in Stages
    BY <1>3 DEF Pending
  <2> QED
    BY <1>2, <1>3, <2>1, SoundMarked, MarkedTyped DEF OthersMarked
<1>4. CASE ~Pending(v)
  <2>1. edits[v].phase = "written" /\ OthersMarked(w, e, stages)[v] = edits[v]
    BY <1>1, <1>4 DEF OthersMarked, Pending
  <2>2. edits[v].stage \in Stages
    BY <1>2 DEF EditState
  <2> QED
    BY <1>2, <2>1, <2>2, SoundMarked
<1> QED
  BY <1>3, <1>4

LEMMA PhaseNames == {"reading", "read", "halfway", "written"} = Phases
  BY DEF Phases

LEMMA StageNames == {"idle", "opened", "filled", "astray"} = Stages
  BY DEF Stages

\* An action that leaves the files alone and concerns one writer.
LEMMA InsteadKeeps ==
    ASSUME DirectoryInv, NEW w \in Writers, NEW e, files' = files, temps' = temps, edits' = Instead(w, e),
           e = NoEdit \/ (e \in EditState /\ Sound(e, files, temps))
    PROVE  DirectoryInv'
<1>1. edits' \in [Writers -> EditState \cup {NoEdit}]
  BY DEF Instead, DirectoryInv, DirectoryTypeOK
<1>2. \A v \in Writers : edits'[v] # NoEdit => Sound(edits'[v], files', temps')
  BY DEF Instead, DirectoryInv, SeenIsCurrent
<1> QED
  BY <1>1, <1>2 DEF DirectoryInv, DirectoryTypeOK, SeenIsCurrent

\* An action that writes for one writer.
LEMMA OthersMarkedKeeps ==
    ASSUME DirectoryInv, NEW w \in Writers, NEW e \in EditState, NEW stages,
           \A v \in Writers : Pending(v) => stages[v] \in Stages,
           files' \in Pair, temps' \in Temps, edits' = OthersMarked(w, e, stages), Sound(e, files', temps')
    PROVE  DirectoryInv'
<1>1. \A v \in Writers : edits'[v] # NoEdit =>
        edits'[v] \in EditState /\ Sound(edits'[v], files', temps')
  <2> SUFFICES ASSUME NEW v \in Writers, edits'[v] # NoEdit
               PROVE  edits'[v] \in EditState /\ Sound(edits'[v], files', temps')
    OBVIOUS
  <2>1. CASE v = w
    BY <2>1 DEF OthersMarked
  <2>2. CASE v # w
    BY <2>2, OthersStaySound
  <2> QED
    BY <2>1, <2>2
<1>2. edits' \in [Writers -> EditState \cup {NoEdit}]
  BY <1>1 DEF OthersMarked
<1> QED
  BY <1>1, <1>2 DEF DirectoryInv, DirectoryTypeOK, SeenIsCurrent

LEMMA BegunTyped ==
    ASSUME DirectoryTypeOK, NEW edit \in Edit
    PROVE  /\ Begun(edit) \in EditState /\ Sound(Begun(edit), files, temps)
           /\ Begun(edit).edit = edit /\ ~Begun(edit).raced /\ Begun(edit).phase = "reading"
<1>1. files \in Pair /\ FALSE \in BOOLEAN
  BY DEF DirectoryTypeOK
<1>2. Begun(edit) \in EditState
  BY <1>1, PhaseNames, StageNames DEF Begun, EditState
<1>3. /\ Begun(edit).phase = "reading" /\ Begun(edit).stage = "idle" /\ Begun(edit).seen = files
      /\ Begun(edit).edit = edit /\ ~Begun(edit).raced
  BY DEF Begun
<1> QED
  BY <1>2, <1>3 DEF Sound

LEMMA ReadBaseKeeps ==
    ASSUME DirectoryInv, NEW w \in Writers, NEW edit \in Edit, ReadBase(w, edit)
    PROVE  DirectoryInv'
<1>1. DirectoryTypeOK
  BY DEF DirectoryInv
<1> QED
  BY <1>1, StartedIs, BegunTyped, InsteadKeeps

LEMMA ReadProfileKeeps ==
    ASSUME DirectoryInv, NEW w \in Writers, ReadProfile(w)
    PROVE  DirectoryInv'
<1> DEFINE seen == [base |-> edits[w].seen.base, profile |-> files.profile]
           e == MovedOn(edits[w], "read", seen)
<1>1. DirectoryTypeOK /\ files \in Pair
  BY DEF DirectoryInv, DirectoryTypeOK
<1>2. /\ edits[w] \in EditState /\ edits[w].phase = "reading" /\ files' = files /\ temps' = temps
      /\ edits' = Instead(w, e)
  BY <1>1, ReadProfileIs
<1>3. edits[w] # NoEdit /\ edits[w].seen \in Pair
  BY <1>2 DEF ReadProfile, EditState
<1>4. seen \in Pair
  BY <1>1, <1>3 DEF Pair
<1>5. e \in EditState
  BY <1>2, <1>4, MovedOnTyped, PhaseNames
<1>6. ~edits[w].raced => seen = files
  <2>1. ~edits[w].raced => edits[w].seen = files
    BY <1>2, <1>3 DEF DirectoryInv, SeenIsCurrent, Sound
  <2>2. files = [base |-> files.base, profile |-> files.profile]
    BY <1>1 DEF Pair
  <2> QED
    BY <2>1, <2>2
<1>7. e.phase = "read" /\ e.seen = seen /\ e.raced = edits[w].raced /\ e.stage = "idle"
  BY DEF MovedOn
<1>8. Sound(e, files, temps)
  <2> HIDE DEF e, seen
  <2> QED
    BY <1>6, <1>7 DEF Sound
<1> HIDE DEF e
<1> QED
  BY <1>2, <1>5, <1>8, InsteadKeeps

LEMMA EndKeeps ==
    ASSUME DirectoryInv, NEW w \in Writers, Refuse(w) \/ ReplaceFails(w) \/ Confirm(w) \/ WriteFails(w)
    PROVE  DirectoryInv'
  BY EndedIs, InsteadKeeps DEF DirectoryInv

(* What is written. *)
LEMMA TargetIs == ASSUME NEW e PROVE Target(e) \in {"base", "profile"}
  BY DEF Target

\* What may be in a file, base or profile.
Sayable(f) == IF f = "base" THEN Base \cup {Garbage} ELSE Profile \cup {NoProfile, Garbage}

\* A pair, or the temporary files, after one of them has changed.
LEMMA FileChanged ==
    ASSUME NEW f \in {"base", "profile"}, NEW c
    PROVE  /\ files \in Pair /\ c \in Sayable(f) => [files EXCEPT ![f] = c] \in Pair
           /\ temps \in Temps /\ c \in Sayable(f) \cup {Empty, NoFile} => [temps EXCEPT ![f] = c] \in Temps
           /\ temps \in Temps => temps[f] \in Sayable(f) \cup {Empty, NoFile} /\ [temps EXCEPT ![f] = c][f] = c
<1>1. CASE f = "base"
  BY <1>1 DEF Pair, Temps, Sayable
<1>2. CASE f = "profile"
  BY <1>2 DEF Pair, Temps, Sayable
<1> QED
  BY <1>1, <1>2

LEMMA ContentSayable ==
    ASSUME DirectoryInv, NEW w \in Writers, Due(w)
    PROVE  /\ edits[w] \in EditState /\ Accepted(edits[w].seen, edits[w].edit) /\ Plan(w) \in Pair
           /\ Content(edits[w]) = Plan(w)[Target(edits[w])]
           /\ Content(edits[w]) \in Sayable(Target(edits[w])) /\ Garbage \in Sayable(Target(edits[w]))
           /\ Content(edits[w]) \notin {Empty, NoFile}
<1> DEFINE e == edits[w]
<1>1. e \in EditState /\ e # NoEdit /\ e.seen \in Pair /\ e.edit \in Edit
  BY DEF DirectoryInv, DirectoryTypeOK, Due, EditState
<1>2. Accepted(e.seen, e.edit)
  BY <1>1 DEF Due, DirectoryInv, SeenIsCurrent, Sound
<1>3. Plan(w) \in Pair
  BY <1>1, <1>2, PlannedTyped DEF Plan
<1>4. Content(e) = Plan(w)[Target(e)]
  BY DEF Content, Plan
<1>5. Content(e) \in Sayable(Target(e)) /\ Garbage \in Sayable(Target(e))
  <2>1. CASE Target(e) = "base"
    BY <1>3, <1>4, <2>1 DEF Pair, Sayable
  <2>2. CASE Target(e) = "profile"
    BY <1>3, <1>4, <2>2 DEF Pair, Sayable
  <2> QED
    BY <2>1, <2>2, TargetIs
<1>6. Content(e) \notin {Empty, NoFile}
  BY <1>5, TempsAssumption DEF Sayable
<1> QED
  BY <1>1, <1>2, <1>3, <1>4, <1>5, <1>6

LEMMA OpenTempKeeps ==
    ASSUME DirectoryInv, NEW w \in Writers, OpenTemp(w)
    PROVE  DirectoryInv'
<1> DEFINE e == edits[w]
           f == Staged(e, "opened")
           file == Target(e)
<1>1. DirectoryTypeOK /\ files \in Pair /\ temps \in Temps /\ file \in {"base", "profile"}
  BY TargetIs DEF DirectoryInv, DirectoryTypeOK
<1>2. /\ e \in EditState /\ Pending(w) /\ files' = files
      /\ edits' = OthersMarked(w, f, AsTheyAre) /\ temps' = [temps EXCEPT ![file] = Empty]
  BY <1>1, OpenTempIs
<1>3. Sound(e, files, temps) /\ e.phase # "written"
  BY <1>2 DEF DirectoryInv, SeenIsCurrent, Pending
<1>4. f \in EditState /\ Target(f) = file
  BY <1>2, StagedTyped, StageNames
<1>5. temps' \in Temps /\ temps'[file] = Empty
  <2> HIDE DEF file
  <2> QED
    BY <1>1, <1>2, FileChanged
<1>6. f.stage = "opened" /\ f.phase = e.phase /\ f.seen = e.seen /\ f.edit = e.edit /\ f.raced = e.raced
  BY DEF Staged
<1>7. Sound(f, files', temps')
  <2> HIDE DEF f, file, e
  <2> QED
    BY <1>2, <1>3, <1>4, <1>5, <1>6 DEF Sound
<1>8. \A v \in Writers : Pending(v) => AsTheyAre[v] \in Stages
  BY <1>1, StagesTyped
<1> HIDE DEF f
<1> QED
  BY <1>1, <1>2, <1>4, <1>5, <1>7, <1>8, OthersMarkedKeeps

\* An unraced writer fills the file it has opened, with what it is to say.
LEMMA FilledWith ==
    ASSUME DirectoryInv, NEW w \in Writers, FillTemp(w)
    PROVE  /\ files' \in Pair /\ temps' \in Temps
           /\ ~edits[w].raced => files' = files /\ temps'[Target(edits[w])] = Content(edits[w])
<1> DEFINE e == edits[w]
           file == Target(e)
<1>1. files \in Pair /\ temps \in Temps /\ file \in {"base", "profile"} /\ Due(w) /\ e # NoEdit
  BY TargetIs DEF DirectoryInv, DirectoryTypeOK, FillTemp, Due
<1>2. Content(e) \in Sayable(file) /\ Garbage \in Sayable(file)
  BY <1>1, ContentSayable
<1>3. CASE e.stage = "opened"
  <2>1. PICK content \in {Content(e), Garbage} :
            /\ temps[file] = Empty => content = Content(e)
            /\ temps' = [temps EXCEPT ![file] = content]
    BY <1>3 DEF FillTemp
  <2>2. files' = files
    BY <1>3 DEF FillTemp
  <2>3. ~e.raced => temps[file] = Empty
    BY <1>1, <1>3 DEF DirectoryInv, SeenIsCurrent, Sound
  <2> HIDE DEF file, e
  <2>4. temps' \in Temps /\ temps'[file] = content
    BY <1>1, <1>2, <2>1, FileChanged
  <2> QED
    BY <1>1, <2>1, <2>2, <2>3, <2>4 DEF file, e
<1>4. CASE e.stage # "opened"
  <2>1. e.stage = "astray" /\ e.raced
    BY <1>1, <1>4 DEF FillTemp, DirectoryInv, SeenIsCurrent, Sound
  <2>2. PICK content \in {Content(e), Garbage} : files' = [files EXCEPT ![file] = content]
    BY <1>4 DEF FillTemp
  <2>3. temps' = temps
    BY <1>4 DEF FillTemp
  <2> HIDE DEF file, e
  <2>4. files' \in Pair
    BY <1>1, <1>2, <2>2, FileChanged
  <2> QED
    BY <1>1, <2>1, <2>3, <2>4 DEF file, e
<1> QED
  BY <1>3, <1>4

LEMMA FillTempKeeps ==
    ASSUME DirectoryInv, NEW w \in Writers, FillTemp(w)
    PROVE  DirectoryInv'
<1> DEFINE e == edits[w]
           f == Staged(e, "filled")
<1>1. DirectoryTypeOK
  BY DEF DirectoryInv
<1>2. e \in EditState /\ Pending(w) /\ edits' = OthersMarked(w, f, AsTheyAre)
  BY <1>1, FillTempIs
<1>3. Sound(e, files, temps) /\ e.phase # "written"
  BY <1>2 DEF DirectoryInv, SeenIsCurrent, Pending
<1>4. f \in EditState /\ Target(f) = Target(e) /\ Content(f) = Content(e)
  BY <1>2, StagedTyped, StageNames
<1>5. files' \in Pair /\ temps' \in Temps /\ (~e.raced => files' = files /\ temps'[Target(e)] = Content(e))
  BY FilledWith
<1>6. f.stage = "filled" /\ f.phase = e.phase /\ f.seen = e.seen /\ f.edit = e.edit /\ f.raced = e.raced
  BY DEF Staged
<1>7. Sound(f, files', temps')
  <2> HIDE DEF f, e
  <2> QED
    BY <1>3, <1>4, <1>5, <1>6 DEF Sound
<1>8. \A v \in Writers : Pending(v) => AsTheyAre[v] \in Stages
  BY <1>1, StagesTyped
<1> HIDE DEF f
<1> QED
  BY <1>2, <1>4, <1>5, <1>7, <1>8, OthersMarkedKeeps

\* What an unraced writer renames is what it is to say.
LEMMA ReplacedBy ==
    ASSUME DirectoryInv, NEW w \in Writers, ReplaceFile(w)
    PROVE  /\ files' \in Pair /\ temps' \in Temps
           /\ ~edits[w].raced =>
                files' = IF Target(edits[w]) = "base" THEN [base |-> Plan(w).base, profile |-> files.profile]
                         ELSE [base |-> files.base, profile |-> Plan(w).profile]
<1> DEFINE e == edits[w]
           file == Target(e)
           content == IF temps[file] = Empty THEN Garbage ELSE temps[file]
<1>1. files \in Pair /\ temps \in Temps /\ file \in {"base", "profile"} /\ Due(w) /\ e # NoEdit
  BY TargetIs DEF DirectoryInv, DirectoryTypeOK, ReplaceFile, Due
<1>2. /\ temps[file] # NoFile /\ e.stage = "filled"
      /\ files' = [files EXCEPT ![file] = content] /\ temps' = [temps EXCEPT ![file] = NoFile]
  BY DEF ReplaceFile
<1>3. /\ Content(e) = Plan(w)[file] /\ Garbage \in Sayable(file) /\ Content(e) # Empty
  BY <1>1, ContentSayable
<1>4. ~e.raced => content = Plan(w)[file]
  <2>1. ~e.raced => temps[file] = Content(e)
    BY <1>1, <1>2 DEF DirectoryInv, SeenIsCurrent, Sound
  <2> QED
    BY <1>3, <2>1
<1>5. content \in Sayable(file)
  <2> HIDE DEF file
  <2>1. temps[file] \in Sayable(file) \cup {Empty, NoFile}
    BY <1>1, FileChanged
  <2> QED
    BY <1>2, <1>3, <2>1
<1>6. files' \in Pair /\ temps' \in Temps
  <2> HIDE DEF file, content
  <2> QED
    BY <1>1, <1>2, <1>5, FileChanged
<1>7. files' = IF file = "base" THEN [base |-> content, profile |-> files.profile]
               ELSE [base |-> files.base, profile |-> content]
  <2> HIDE DEF file, content
  <2> QED
    BY <1>1, <1>2, BaseChanged, ProfileChanged
<1>8. ~e.raced => files' = IF file = "base" THEN [base |-> Plan(w).base, profile |-> files.profile]
                           ELSE [base |-> files.base, profile |-> Plan(w).profile]
  <2>1. CASE file = "base"
    <3>1. Plan(w)[file] = Plan(w).base
      BY <2>1
    <3> QED
      BY <1>4, <1>7, <2>1, <3>1
  <2>2. CASE file = "profile"
    <3>1. Plan(w)[file] = Plan(w).profile
      BY <2>2
    <3> QED
      BY <1>4, <1>7, <2>2, <3>1
  <2> QED
    BY <1>1, <2>1, <2>2
<1> QED
  BY <1>6, <1>8

LEMMA ReplaceFileKeeps ==
    ASSUME DirectoryInv, NEW w \in Writers, ReplaceFile(w)
    PROVE  DirectoryInv'
<1> DEFINE e == edits[w]
           f == MovedOn(e, Onto(e), e.seen)
<1>1. DirectoryTypeOK /\ files' \in Pair /\ temps' \in Temps /\ Due(w)
  BY ReplacedBy DEF DirectoryInv, ReplaceFile
<1>2. e \in EditState /\ Pending(w) /\ edits' = OthersMarked(w, f, AreAdrift(w))
  BY <1>1, ReplaceFileIs
<1>3. e # NoEdit /\ e.seen \in Pair /\ e.edit \in Edit /\ Accepted(e.seen, e.edit) /\ Sound(e, files, temps)
  BY <1>1, <1>2, ContentSayable DEF Pending, EditState, DirectoryInv, SeenIsCurrent
<1>4. Onto(e) \in {"halfway", "written"} /\ (Onto(e) = "halfway" => e.phase = "read" /\ Redirects(e.seen, e.edit))
  BY DEF Onto
<1>5. f \in EditState
  BY <1>2, <1>3, <1>4, MovedOnTyped, PhaseNames
<1>6. f.phase = Onto(e) /\ f.seen = e.seen /\ f.edit = e.edit /\ f.raced = e.raced /\ f.stage = "idle"
  BY DEF MovedOn
<1>7. Onto(e) = "halfway" /\ ~e.raced =>
        files'.base = Planned(e.seen, e.edit).base /\ files'.profile = e.seen.profile
  <2> SUFFICES ASSUME Onto(e) = "halfway", ~e.raced
               PROVE  files'.base = Planned(e.seen, e.edit).base /\ files'.profile = e.seen.profile
    OBVIOUS
  <2>1. e.phase = "read" /\ Redirects(e.seen, e.edit) /\ e.seen = files
    BY <1>3, <1>4 DEF Sound
  <2>2. Target(e) = "base"
    BY <2>1 DEF Target, IntoProfile
  <2>3. files' = [base |-> Plan(w).base, profile |-> files.profile]
    BY <2>2, ReplacedBy
  <2> QED
    BY <2>1, <2>3 DEF Plan
<1>8. Sound(f, files', temps')
  <2> HIDE DEF f, e
  <2> QED
    BY <1>3, <1>4, <1>6, <1>7 DEF Sound
<1>9. \A v \in Writers : Pending(v) => AreAdrift(w)[v] \in Stages
  BY <1>1, StagesTyped
<1> HIDE DEF f
<1> QED
  BY <1>1, <1>2, <1>5, <1>8, <1>9, OthersMarkedKeeps

LEMMA PerishKeeps ==
    ASSUME DirectoryInv, NEW ws, Perish(ws)
    PROVE  DirectoryInv'
<1>1. files' = files /\ temps' = temps /\ edits' = [w \in Writers |-> IF w \in ws THEN NoEdit ELSE edits[w]]
  BY DEF Perish
<1>2. \A v \in Writers : edits'[v] # NoEdit => edits'[v] = edits[v]
  BY <1>1
<1>3. edits' \in [Writers -> EditState \cup {NoEdit}]
  BY <1>1 DEF DirectoryInv, DirectoryTypeOK
<1> QED
  BY <1>1, <1>2, <1>3 DEF DirectoryInv, DirectoryTypeOK, SeenIsCurrent

LEMMA SavedByHandIs ==
    ASSUME DirectoryTypeOK, NEW pair, SaveByHand(pair)
    PROVE  files' = pair /\ temps' = temps /\ edits' = OthersMarked(NoEdit, NoEdit, AsTheyAre)
  BY OvertakenIs, WritersAssumption DEF SaveByHand, OthersMarked, AsTheyAre

LEMMA SaveByHandKeeps ==
    ASSUME DirectoryInv, NEW pair \in Pair, SaveByHand(pair)
    PROVE  DirectoryInv'
<1>1. DirectoryTypeOK
  BY DEF DirectoryInv
<1>2. files' = pair /\ temps' = temps /\ edits' = OthersMarked(NoEdit, NoEdit, AsTheyAre)
  BY <1>1, SavedByHandIs
<1>3. \A v \in Writers : Pending(v) => AsTheyAre[v] \in Stages
  BY <1>1, StagesTyped
<1>4. \A v \in Writers : edits'[v] # NoEdit => edits'[v] \in EditState /\ Sound(edits'[v], files', temps')
  BY <1>2, <1>3, OthersStaySound, WritersAssumption
<1>5. edits' \in [Writers -> EditState \cup {NoEdit}]
  BY <1>2, <1>4 DEF OthersMarked
<1> QED
  BY <1>1, <1>2, <1>4, <1>5 DEF DirectoryInv, DirectoryTypeOK, SeenIsCurrent

LEMMA StepKeeps == DirectoryInv /\ [DirectoryNext]_directory => DirectoryInv'
<1> SUFFICES ASSUME DirectoryInv, [DirectoryNext]_directory
             PROVE  DirectoryInv'
  OBVIOUS
<1>1. ASSUME NEW w \in Writers, NEW edit \in Edit, ReadBase(w, edit)
      PROVE  DirectoryInv'
  BY <1>1, ReadBaseKeeps
<1>2. ASSUME NEW w \in Writers, ReadProfile(w)
      PROVE  DirectoryInv'
  BY <1>2, ReadProfileKeeps
<1>3. ASSUME NEW w \in Writers, Refuse(w) \/ ReplaceFails(w) \/ Confirm(w) \/ WriteFails(w)
      PROVE  DirectoryInv'
  BY <1>3, EndKeeps
<1>4. ASSUME NEW w \in Writers, OpenTemp(w) \/ FillTemp(w) \/ ReplaceFile(w)
      PROVE  DirectoryInv'
  BY <1>4, OpenTempKeeps, FillTempKeeps, ReplaceFileKeeps
<1>5. ASSUME NEW ws, Perish(ws)
      PROVE  DirectoryInv'
  BY <1>5, PerishKeeps
<1>6. ASSUME NEW pair \in Pair, SaveByHand(pair)
      PROVE  DirectoryInv'
  BY <1>6, SaveByHandKeeps
<1>7. CASE UNCHANGED directory
  BY <1>7 DEF directory, DirectoryInv, DirectoryTypeOK, SeenIsCurrent
<1> QED
  BY <1>1, <1>2, <1>3, <1>4, <1>5, <1>6, <1>7 DEF DirectoryNext

LEMMA InitKeeps == ASSUME NEW pairs \in SUBSET Pair, DirectoryInit(pairs) PROVE DirectoryInv
  BY DEF DirectoryInit, DirectoryInv, DirectoryTypeOK, SeenIsCurrent, Temps

\* The directory and the edits under way keep their types, and whoever was not
\* overtaken has read what is there and has in the temporary file it opened what
\* it put there (mosaix-config/src/io.rs).
THEOREM DirectoryInvariant == DirectorySpec => []DirectoryInv
<1>1. DirectoryInit(Pair) => DirectoryInv
  BY InitKeeps
<1> QED
  BY <1>1, StepKeeps, PTL DEF DirectorySpec

(* The refinement: what a desk sees of the directory. *)
AskedOf(e) == IF e = NoEdit THEN NoEdit
              ELSE [edit |-> e.edit, raced |-> e.raced, done |-> e.phase = "written"]

LEMMA AskedIs == Asked = [v \in Writers |-> AskedOf(edits[v])]
  BY DEF Asked, AskedOf

LEMMA AskedNothing ==
    ASSUME NEW e \in EditState
    PROVE  /\ AskedOf(e) # NoEdit /\ e # NoEdit
           /\ AskedOf(e) = [edit |-> e.edit, raced |-> e.raced, done |-> e.phase = "written"]
<1>1. e # NoEdit /\ e.edit \in Edit /\ e.raced \in BOOLEAN
  BY NoEditAssumption DEF EditState
<1>2. AskedOf(e) = [edit |-> e.edit, raced |-> e.raced, done |-> e.phase = "written"]
  BY <1>1 DEF AskedOf
<1>3. AskedOf(e) \in [edit : Edit, raced : BOOLEAN, done : BOOLEAN]
  BY <1>1, <1>2
<1> QED
  BY <1>1, <1>2, <1>3, NoEditAssumption

LEMMA OpenIsPending ==
    ASSUME DirectoryTypeOK, NEW w \in Writers
    PROVE  /\ Promise!Open(w) <=> Pending(w)
           /\ edits[w] = NoEdit <=> Asked[w] = NoEdit
           /\ edits[w] # NoEdit => Asked[w].raced = edits[w].raced /\ Asked[w].edit = edits[w].edit
<1>1. edits[w] # NoEdit => edits[w] \in EditState
  BY DEF DirectoryTypeOK
<1>2. Asked[w] = AskedOf(edits[w])
  BY AskedIs
<1>3. edits[w] = NoEdit => Asked[w] = NoEdit
  BY <1>2 DEF AskedOf
<1>4. ASSUME edits[w] # NoEdit
      PROVE  /\ Asked[w] # NoEdit
             /\ Asked[w] = [edit |-> edits[w].edit, raced |-> edits[w].raced, done |-> edits[w].phase = "written"]
  BY <1>1, <1>2, <1>4, AskedNothing
<1>5. ASSUME edits[w] # NoEdit
      PROVE  Asked[w].done <=> edits[w].phase = "written"
  <2> DEFINE a == Asked[w]
             e == edits[w]
  <2>1. a = [edit |-> e.edit, raced |-> e.raced, done |-> e.phase = "written"]
    BY <1>4, <1>5
  <2> HIDE DEF a, e
  <2>2. a.done = (e.phase = "written")
    BY <2>1
  <2> QED
    BY <2>2 DEF a, e
<1>6. edits[w] # NoEdit => Asked[w].raced = edits[w].raced /\ Asked[w].edit = edits[w].edit
  BY <1>4
<1>7. Promise!Open(w) <=> Pending(w)
  BY <1>3, <1>4, <1>5, Zenon DEF Promise!Open, Pending
<1> QED
  BY <1>3, <1>4, <1>6, <1>7

LEMMA AskedInstead ==
    ASSUME NEW w \in Writers, NEW e, edits' = Instead(w, e)
    PROVE  Asked' = [v \in Writers |-> IF v = w THEN AskedOf(e) ELSE Asked[v]]
<1>1. \A v \in Writers : edits'[v] = IF v = w THEN e ELSE edits[v]
  BY DEF Instead
<1> QED
  BY <1>1 DEF Asked, AskedOf

LEMMA AskedMarked ==
    ASSUME DirectoryTypeOK, NEW w, NEW e, NEW stages, \A v \in Writers : Pending(v) => stages[v] \in Stages,
           edits' = OthersMarked(w, e, stages)
    PROVE  Asked' = [v \in Writers |-> IF v = w THEN AskedOf(e) ELSE Promise!Raced(w)[v]]
<1>1. \A v \in Writers : edits'[v] =
        IF v = w THEN e ELSE IF Pending(v) THEN Marked(edits[v], stages[v]) ELSE edits[v]
  BY DEF OthersMarked
<1>2. Asked' = [v \in Writers |-> AskedOf(edits'[v])]
  BY DEF Asked, AskedOf
<1>3. ASSUME NEW v \in Writers, v # w, Pending(v)
      PROVE  AskedOf(Marked(edits[v], stages[v])) = Promise!Raced(w)[v]
  <2>1. edits[v] \in EditState /\ stages[v] \in Stages
    BY <1>3 DEF DirectoryTypeOK, Pending
  <2>2. Marked(edits[v], stages[v]) \in EditState
    BY <2>1, MarkedTyped
  <2>3. AskedOf(Marked(edits[v], stages[v])) = [edit |-> edits[v].edit, raced |-> TRUE, done |-> edits[v].phase = "written"]
    BY <2>2, AskedNothing DEF Marked
  <2>4. Asked[v] = [edit |-> edits[v].edit, raced |-> edits[v].raced, done |-> edits[v].phase = "written"]
    BY <2>1, AskedNothing, AskedIs
  <2>5. Promise!Raced(w)[v] = Promise!Overrun(Asked[v])
    BY <1>3, OpenIsPending DEF Promise!Raced
  <2> QED
    BY <2>3, <2>4, <2>5 DEF Promise!Overrun
<1>4. ASSUME NEW v \in Writers, v # w, ~Pending(v)
      PROVE  AskedOf(edits[v]) = Promise!Raced(w)[v]
  BY <1>4, OpenIsPending, AskedIs DEF Promise!Raced
<1>5. ASSUME NEW v \in Writers
      PROVE  AskedOf(edits'[v]) = IF v = w THEN AskedOf(e) ELSE Promise!Raced(w)[v]
  BY <1>1, <1>3, <1>4
<1> QED
  BY <1>2, <1>5

LEMMA PromiseTables ==
    /\ \A f, k, v : Promise!With(f, k, v) = With(f, k, v)
    /\ \A f, k : Promise!Without(f, k) = Without(f, k)
    /\ \A names : Promise!NamesDistinct(names) <=> NamesDistinct(names)
    /\ Promise!Edit = Edit
  BY DEF Promise!With, With, Promise!Without, Without, Promise!NamesDistinct, NamesDistinct,
         Promise!Collide, Collide, Promise!Edit, Edit

LEMMA SettingsChanged ==
    ASSUME NEW s \in Profile, NEW x
    PROVE  /\ [s EXCEPT !.hotkeys = x] = [hotkeys |-> x, layouts |-> s.layouts, tiling |-> s.tiling]
           /\ [s EXCEPT !.layouts = x] = [hotkeys |-> s.hotkeys, layouts |-> x, tiling |-> s.tiling]
           /\ [s EXCEPT !.tiling = x] = [hotkeys |-> s.hotkeys, layouts |-> s.layouts, tiling |-> x]
  BY DEF Profile

LEMMA SettingsAre ==
    ASSUME NEW s \in Profile
    PROVE  s = [hotkeys |-> s.hotkeys, layouts |-> s.layouts, tiling |-> s.tiling]
  BY DEF Profile

\* The cases of the promise, one by one.
LEMMA EffectCases ==
    ASSUME NEW old, NEW new, NEW edit
    PROVE  /\ edit.kind = "set" /\ new = [old EXCEPT !.hotkeys = With(old.hotkeys, edit.command, edit.combo)]
              => Promise!Effect(old, new, edit)
           /\ /\ edit.kind = "reset" /\ edit.command \in DOMAIN old.hotkeys
              /\ Without(new.hotkeys, edit.command) = Without(old.hotkeys, edit.command)
              /\ new = [old EXCEPT !.hotkeys = new.hotkeys]
              => Promise!Effect(old, new, edit)
           /\ edit.kind = "save" /\ new = [old EXCEPT !.layouts = With(old.layouts, edit.name, edit.cells)]
              => Promise!Effect(old, new, edit)
           /\ /\ edit.kind = "rename" /\ edit.name \in DOMAIN old.layouts
              /\ new = [old EXCEPT !.layouts =
                          With(Without(old.layouts, edit.name), edit.to, old.layouts[edit.name])]
              => Promise!Effect(old, new, edit)
           /\ /\ edit.kind = "duplicate" /\ edit.name \in DOMAIN old.layouts /\ edit.to \notin DOMAIN old.layouts
              /\ new = [old EXCEPT !.layouts = With(old.layouts, edit.to, old.layouts[edit.name])]
              => Promise!Effect(old, new, edit)
           /\ /\ edit.kind = "delete" /\ edit.name \in DOMAIN old.layouts
              /\ new = [old EXCEPT !.layouts = Without(old.layouts, edit.name)]
              => Promise!Effect(old, new, edit)
           /\ edit.kind = "tiling" /\ new = [old EXCEPT !.tiling = edit.on]
              => Promise!Effect(old, new, edit)
<1>1. CASE edit.kind = "set"
  BY <1>1, PromiseTables DEF Promise!Effect
<1>2. CASE edit.kind = "reset"
  BY <1>2, PromiseTables DEF Promise!Effect
<1>3. CASE edit.kind = "save"
  BY <1>3, PromiseTables DEF Promise!Effect
<1>4. CASE edit.kind = "rename"
  BY <1>4, PromiseTables DEF Promise!Effect
<1>5. CASE edit.kind = "duplicate"
  BY <1>5, PromiseTables DEF Promise!Effect
<1>6. CASE edit.kind = "delete"
  BY <1>6, PromiseTables DEF Promise!Effect
<1>7. CASE edit.kind = "tiling"
  BY <1>7, PromiseTables DEF Promise!Effect
<1> QED
  BY <1>1, <1>2, <1>3, <1>4, <1>5, <1>6, <1>7

\* Every accepted edit has the effect that is promised of it.
LEMMA EffectHolds ==
    ASSUME NEW pair \in Pair, NEW edit \in Edit, Accepted(pair, edit)
    PROVE  /\ Resolved(pair) \in Profile /\ Resolved(Planned(pair, edit)) \in Profile
           /\ \/ Promise!Ambiguous(Resolved(pair))
              \/ Promise!Effect(Resolved(pair), Resolved(Planned(pair, edit)), edit)
<1> DEFINE old == Resolved(pair)
           new == Resolved(Planned(pair, edit))
<1>1. Planned(pair, edit) \in Pair /\ Parses(Planned(pair, edit)) /\ Parses(pair)
  BY PlannedTyped DEF Accepted, Valid
<1>2. old \in Profile /\ new \in Profile
  BY <1>1, ResolvedTyped
<1>3. ASSUME edit.kind = "set"
      PROVE  new = [old EXCEPT !.hotkeys = With(old.hotkeys, edit.command, edit.combo)]
  <2>1. new = [hotkeys |-> With(old.hotkeys, edit.command, edit.combo),
               layouts |-> old.layouts,
               tiling |-> old.tiling]
    BY <1>3, EffectOfSet
  <2>2. [old EXCEPT !.hotkeys = With(old.hotkeys, edit.command, edit.combo)] =
          [hotkeys |-> With(old.hotkeys, edit.command, edit.combo),
           layouts |-> old.layouts,
           tiling |-> old.tiling]
    BY <1>2, SettingsChanged
  <2> QED
    BY <2>1, <2>2
<1>4. ASSUME edit.kind = "reset"
      PROVE  /\ edit.command \in DOMAIN old.hotkeys
             /\ Without(new.hotkeys, edit.command) = Without(old.hotkeys, edit.command)
             /\ new = [old EXCEPT !.hotkeys = new.hotkeys]
  <2>1. new = [hotkeys |-> new.hotkeys, layouts |-> old.layouts, tiling |-> old.tiling]
    BY <1>2, <1>4, EffectOfReset, SettingsAre
  <2>2. new = [old EXCEPT !.hotkeys = new.hotkeys]
    BY <1>2, <2>1, SettingsChanged
  <2> QED
    BY <1>4, <2>2, EffectOfReset
<1>5. ASSUME edit.kind = "save"
      PROVE  new = [old EXCEPT !.layouts = With(old.layouts, edit.name, edit.cells)]
  <2>1. new = [hotkeys |-> old.hotkeys,
               layouts |-> With(old.layouts, edit.name, edit.cells),
               tiling |-> old.tiling]
    BY <1>5, EffectOfSave
  <2>2. [old EXCEPT !.layouts = With(old.layouts, edit.name, edit.cells)] =
          [hotkeys |-> old.hotkeys,
           layouts |-> With(old.layouts, edit.name, edit.cells),
           tiling |-> old.tiling]
    BY <1>2, SettingsChanged
  <2> QED
    BY <2>1, <2>2
<1>6. ASSUME edit.kind = "rename", NamesDistinct(DOMAIN old.layouts)
      PROVE  new = [old EXCEPT !.layouts =
                      With(Without(old.layouts, edit.name), edit.to, old.layouts[edit.name])]
  <2>1. new = [hotkeys |-> old.hotkeys,
               layouts |-> With(Without(old.layouts, edit.name), edit.to, old.layouts[edit.name]),
               tiling |-> old.tiling]
    BY <1>6, EffectOfRename
  <2>2. [old EXCEPT !.layouts = With(Without(old.layouts, edit.name), edit.to, old.layouts[edit.name])] =
          [hotkeys |-> old.hotkeys,
           layouts |-> With(Without(old.layouts, edit.name), edit.to, old.layouts[edit.name]),
           tiling |-> old.tiling]
    BY <1>2, SettingsChanged
  <2> QED
    BY <2>1, <2>2
<1>7. ASSUME edit.kind = "duplicate"
      PROVE  /\ edit.to \notin DOMAIN old.layouts
             /\ new = [old EXCEPT !.layouts = With(old.layouts, edit.to, old.layouts[edit.name])]
  <2>1. new = [hotkeys |-> old.hotkeys,
               layouts |-> With(old.layouts, edit.to, old.layouts[edit.name]),
               tiling |-> old.tiling] /\ edit.to \notin DOMAIN old.layouts
    BY <1>7, EffectOfDuplicate
  <2>2. [old EXCEPT !.layouts = With(old.layouts, edit.to, old.layouts[edit.name])] =
          [hotkeys |-> old.hotkeys,
           layouts |-> With(old.layouts, edit.to, old.layouts[edit.name]),
           tiling |-> old.tiling]
    BY <1>2, SettingsChanged
  <2> QED
    BY <2>1, <2>2
<1>8. ASSUME edit.kind = "delete"
      PROVE  new = [old EXCEPT !.layouts = Without(old.layouts, edit.name)]
  <2>1. new = [hotkeys |-> old.hotkeys,
               layouts |-> Without(old.layouts, edit.name),
               tiling |-> old.tiling]
    BY <1>8, EffectOfDelete
  <2>2. [old EXCEPT !.layouts = Without(old.layouts, edit.name)] =
          [hotkeys |-> old.hotkeys,
           layouts |-> Without(old.layouts, edit.name),
           tiling |-> old.tiling]
    BY <1>2, SettingsChanged
  <2> QED
    BY <2>1, <2>2
<1>9. ASSUME edit.kind = "tiling"
      PROVE  new = [old EXCEPT !.tiling = edit.on]
  <2>1. new = [hotkeys |-> old.hotkeys,
               layouts |-> old.layouts,
               tiling |-> edit.on]
    BY <1>9, EffectOfTiling
  <2>2. [old EXCEPT !.tiling = edit.on] =
          [hotkeys |-> old.hotkeys,
           layouts |-> old.layouts,
           tiling |-> edit.on]
    BY <1>2, SettingsChanged
  <2> QED
    BY <2>1, <2>2
<1>10. edit.kind \in {"rename", "duplicate", "delete"} => edit.name \in DOMAIN old.layouts
  BY OnlyThere
<1>11. edit.kind \in {"set", "reset", "save", "rename", "duplicate", "delete", "tiling"}
  BY DEF Edit
<1>12. ~Promise!Ambiguous(old) => NamesDistinct(DOMAIN old.layouts)
  BY PromiseTables DEF Promise!Ambiguous
<1> HIDE DEF old, new
<1>13. Promise!Ambiguous(old) \/ Promise!Effect(old, new, edit)
  BY <1>3, <1>4, <1>5, <1>6, <1>7, <1>8, <1>9, <1>10, <1>11, <1>12, EffectCases
<1> QED
  BY <1>2, <1>13 DEF old, new

\* How a writer that goes on is seen.
LEMMA AskedOnward ==
    ASSUME NEW e \in EditState, NEW phase \in Phases, NEW seen \in Pair
    PROVE  /\ phase = "written" => AskedOf(MovedOn(e, phase, seen)) = Promise!Done(AskedOf(e))
           /\ phase # "written" /\ e.phase # "written" => AskedOf(MovedOn(e, phase, seen)) = AskedOf(e)
<1> DEFINE f == MovedOn(e, phase, seen)
<1>1. f \in EditState
  BY MovedOnTyped
<1>2. f.edit = e.edit /\ f.raced = e.raced /\ f.phase = phase
  BY DEF MovedOn
<1> HIDE DEF f
<1>3. /\ AskedOf(f) = [edit |-> f.edit, raced |-> f.raced, done |-> f.phase = "written"]
      /\ AskedOf(e) = [edit |-> e.edit, raced |-> e.raced, done |-> e.phase = "written"]
  BY <1>1, AskedNothing
<1>4. ASSUME phase = "written"
      PROVE  AskedOf(f) = Promise!Done(AskedOf(e))
  <2>1. AskedOf(f) = [edit |-> e.edit, raced |-> e.raced, done |-> TRUE]
    BY <1>2, <1>3, <1>4
  <2>2. AskedOf(e).edit = e.edit /\ AskedOf(e).raced = e.raced
    BY <1>3
  <2> QED
    BY <2>1, <2>2 DEF Promise!Done
<1>5. ASSUME phase # "written", e.phase # "written"
      PROVE  AskedOf(f) = AskedOf(e)
  BY <1>2, <1>3, <1>5
<1> QED
  BY <1>4, <1>5 DEF f

LEMMA AskedDone ==
    ASSUME DirectoryTypeOK, NEW w \in Writers, edits[w] \in EditState,
           edits' = OthersMarked(w, MovedOn(edits[w], "written", edits[w].seen), AreAdrift(w))
    PROVE  Asked' = [Promise!Raced(w) EXCEPT ![w] = Promise!Done(@)]
<1>1. Asked' = [v \in Writers |-> IF v = w THEN AskedOf(MovedOn(edits[w], "written", edits[w].seen))
                                  ELSE Promise!Raced(w)[v]]
  BY AskedMarked, StagesTyped
<1>2. edits[w].seen \in Pair /\ "written" \in Phases
  BY PhaseNames DEF EditState
<1>3. AskedOf(MovedOn(edits[w], "written", edits[w].seen)) = Promise!Done(AskedOf(edits[w]))
  BY <1>2, AskedOnward
<1>4. Promise!Raced(w) = [v \in Writers |-> Promise!Raced(w)[v]] /\ Promise!Raced(w)[w] = AskedOf(edits[w])
  BY AskedIs DEF Promise!Raced
<1> QED
  BY <1>1, <1>3, <1>4

\* A step of writing that does not finish the edit.
LEMMA AskedStill ==
    ASSUME DirectoryTypeOK, NEW w \in Writers, NEW e, AskedOf(e) = AskedOf(edits[w]), NEW stages,
           \A v \in Writers : Pending(v) => stages[v] \in Stages, edits' = OthersMarked(w, e, stages)
    PROVE  Asked' = Promise!Raced(w)
<1>1. Asked' = [v \in Writers |-> IF v = w THEN AskedOf(e) ELSE Promise!Raced(w)[v]]
  BY AskedMarked
<1>2. Promise!Raced(w) = [v \in Writers |-> Promise!Raced(w)[v]] /\ Promise!Raced(w)[w] = AskedOf(edits[w])
  BY AskedIs DEF Promise!Raced
<1> QED
  BY <1>1, <1>2

LEMMA AskedStaged ==
    ASSUME NEW e \in EditState, NEW stage \in Stages
    PROVE  AskedOf(Staged(e, stage)) = AskedOf(e)
<1> DEFINE f == Staged(e, stage)
<1>1. f \in EditState
  BY StagedTyped
<1>2. f.edit = e.edit /\ f.raced = e.raced /\ f.phase = e.phase
  BY DEF Staged
<1> HIDE DEF f
<1>3. /\ AskedOf(f) = [edit |-> f.edit, raced |-> f.raced, done |-> f.phase = "written"]
      /\ AskedOf(e) = [edit |-> e.edit, raced |-> e.raced, done |-> e.phase = "written"]
  BY <1>1, AskedNothing
<1>4. AskedOf(f) = AskedOf(e)
  BY <1>2, <1>3
<1> QED
  BY <1>4 DEF f

LEMMA Performed ==
    ASSUME DirectoryInv, NEW w \in Writers, Pending(w), ~edits[w].raced,
           Accepted(edits[w].seen, edits[w].edit), Parses(files), Resolved(files) = Resolved(edits[w].seen),
           files' = Plan(w), edits' = OthersMarked(w, MovedOn(edits[w], "written", edits[w].seen), AreAdrift(w))
    PROVE  Promise!Perform(w)
<1>1. DirectoryTypeOK /\ edits[w] # NoEdit /\ edits[w] \in EditState
  BY DEF DirectoryInv, DirectoryTypeOK, Pending
<1>2. edits[w].seen \in Pair /\ edits[w].edit \in Edit
  BY <1>1 DEF EditState
<1>3. /\ Resolved(edits[w].seen) \in Profile /\ Resolved(Plan(w)) \in Profile
      /\ \/ Promise!Ambiguous(Resolved(edits[w].seen))
         \/ Promise!Effect(Resolved(edits[w].seen), Resolved(Plan(w)), edits[w].edit)
  BY <1>2, EffectHolds DEF Plan
<1>4. Effective = Resolved(edits[w].seen)
  BY DEF Effective
<1>5. Effective' = Resolved(Plan(w))
  <2>1. Parses(Plan(w))
    BY DEF Accepted, Valid, Plan
  <2>2. Effective' = IF Parses(files') THEN Resolved(files') ELSE Garbage
    BY DEF Effective
  <2> QED
    BY <2>1, <2>2
<1>6. Promise!Open(w) /\ ~Asked[w].raced /\ Asked[w].edit = edits[w].edit
  BY <1>1, OpenIsPending
<1>7. Asked' = [Promise!Raced(w) EXCEPT ![w] = Promise!Done(@)]
  BY <1>1, AskedDone
<1> QED
  BY <1>3, <1>4, <1>5, <1>6, <1>7, TokensAssumption DEF Promise!Perform

(* Each step of the directory is a step of the promise, or nothing. *)
LEMMA SameFiles == ASSUME files' = files PROVE Effective' = Effective
  BY DEF Effective

LEMMA ReadBaseAsks ==
    ASSUME DirectoryInv, NEW w \in Writers, NEW edit \in Edit, ReadBase(w, edit)
    PROVE  Promise!Ask(w, edit)
<1> DEFINE e == Begun(edit)
<1>1. DirectoryTypeOK
  BY DEF DirectoryInv
<1>2. edits[w] = NoEdit /\ files' = files /\ edits' = Instead(w, e)
  BY <1>1, StartedIs
<1>3. e \in EditState /\ e.edit = edit /\ e.raced = FALSE /\ e.phase # "written"
  BY <1>1, BegunTyped DEF Begun
<1> HIDE DEF e
<1>4. AskedOf(e) = [edit |-> edit, raced |-> FALSE, done |-> FALSE]
  <2>1. AskedOf(e) = [edit |-> e.edit, raced |-> e.raced, done |-> e.phase = "written"]
    BY <1>3, AskedNothing
  <2> QED
    BY <1>3, <2>1
<1>5. Asked' = [v \in Writers |-> IF v = w THEN AskedOf(e) ELSE Asked[v]]
  BY <1>2, AskedInstead
<1>6. Asked' = [Asked EXCEPT ![w] = AskedOf(e)]
  BY <1>5, AskedIs
<1>7. Asked[w] = NoEdit
  BY <1>1, <1>2, OpenIsPending
<1> QED
  BY <1>2, <1>4, <1>6, <1>7, SameFiles DEF Promise!Ask

LEMMA ReadProfileStutters ==
    ASSUME DirectoryInv, NEW w \in Writers, ReadProfile(w)
    PROVE  Effective' = Effective /\ Asked' = Asked
<1> DEFINE seen == [base |-> edits[w].seen.base, profile |-> files.profile]
<1>1. DirectoryTypeOK /\ files \in Pair
  BY DEF DirectoryInv, DirectoryTypeOK
<1>2. /\ edits[w] \in EditState /\ edits[w].phase = "reading" /\ files' = files
      /\ edits' = Instead(w, MovedOn(edits[w], "read", seen))
  BY <1>1, ReadProfileIs
<1>3. edits[w].seen \in Pair
  BY <1>2 DEF EditState
<1>4. seen \in Pair
  BY <1>1, <1>3 DEF Pair
<1>5. AskedOf(MovedOn(edits[w], "read", seen)) = AskedOf(edits[w])
  BY <1>2, <1>4, AskedOnward, PhaseNames
<1>6. Asked' = [v \in Writers |-> IF v = w THEN AskedOf(MovedOn(edits[w], "read", seen)) ELSE Asked[v]]
  BY <1>2, AskedInstead
<1>7. Asked' = Asked
  BY <1>5, <1>6, AskedIs
<1> QED
  BY <1>2, <1>7, SameFiles

LEMMA EndEnds ==
    ASSUME DirectoryInv, NEW w \in Writers, Refuse(w) \/ ReplaceFails(w) \/ Confirm(w) \/ WriteFails(w)
    PROVE  Promise!End({w})
<1>1. files' = files /\ edits' = Instead(w, NoEdit)
  BY EndedIs DEF DirectoryInv
<1>2. Asked' = [v \in Writers |-> IF v = w THEN AskedOf(NoEdit) ELSE Asked[v]]
  BY <1>1, AskedInstead
<1> QED
  BY <1>1, <1>2, SameFiles DEF Promise!End, AskedOf

LEMMA PerishEnds ==
    ASSUME NEW ws, Perish(ws)
    PROVE  Promise!End(ws)
<1>1. files' = files /\ \A v \in Writers : edits'[v] = IF v \in ws THEN NoEdit ELSE edits[v]
  BY DEF Perish
<1>2. Asked' = [v \in Writers |-> IF v \in ws THEN NoEdit ELSE Asked[v]]
  BY <1>1 DEF Asked, AskedOf
<1> QED
  BY <1>1, <1>2, SameFiles DEF Promise!End

LEMMA SaveByHandIsExternal ==
    ASSUME DirectoryInv, NEW pair, SaveByHand(pair)
    PROVE  Promise!External
<1>1. DirectoryTypeOK
  BY DEF DirectoryInv
<1>2. edits' = OthersMarked(NoEdit, NoEdit, AsTheyAre)
  BY <1>1, SavedByHandIs
<1>3. Asked' = [v \in Writers |-> IF v = NoEdit THEN AskedOf(NoEdit) ELSE Promise!Raced(NoEdit)[v]]
  BY <1>1, <1>2, AskedMarked, StagesTyped
<1>4. Asked' = Promise!Raced(NoEdit)
  BY <1>3, WritersAssumption DEF Promise!Raced
<1> QED
  BY <1>4 DEF Promise!External

\* The unraced replacement that finishes an edit that is not a redirect makes
\* the directory that was planned.
LEMMA WholePlan ==
    ASSUME DirectoryInv, NEW w \in Writers, ReplaceFile(w), ~edits[w].raced, edits[w].phase = "read",
           ~Redirects(edits[w].seen, edits[w].edit)
    PROVE  edits[w].seen = files /\ files' = Plan(w)
<1> DEFINE e == edits[w]
<1>1. Due(w) /\ e # NoEdit
  BY DEF ReplaceFile, Due
<1>2. /\ Plan(w) \in Pair
      /\ files' = IF Target(e) = "base" THEN [base |-> Plan(w).base, profile |-> files.profile]
                  ELSE [base |-> files.base, profile |-> Plan(w).profile]
  BY <1>1, ContentSayable, ReplacedBy
<1>3. e.seen = files
  BY <1>1 DEF DirectoryInv, SeenIsCurrent, Sound
<1>4. Target(e) = "base" <=> ~IntoProfile(e.seen, e.edit)
  BY DEF Target
<1>5. Plan(w) = [base |-> Plan(w).base, profile |-> Plan(w).profile]
  BY <1>2 DEF Pair
<1>6. IF IntoProfile(e.seen, e.edit) THEN Plan(w).base = files.base ELSE Plan(w).profile = files.profile
  BY <1>3 DEF Plan, Planned
<1> QED
  BY <1>2, <1>3, <1>4, <1>5, <1>6

\* Half a redirect parses, and reads as the directory did.
LEMMA HalfReads ==
    ASSUME NEW pair \in Pair, NEW edit \in Edit, Accepted(pair, edit), Redirects(pair, edit),
           NEW half, half.base = Planned(pair, edit).base, half.profile = pair.profile
    PROVE  Parses(half) /\ Resolved(half) = Resolved(pair)
<1>1. Parses(pair) /\ Parses(Planned(pair, edit))
  BY DEF Accepted, Valid
<1> QED
  BY <1>1, RedirectHidden DEF Parses

\* So does the second one of a redirect.
LEMMA VacatedIsWhole ==
    ASSUME DirectoryInv, NEW w \in Writers, ReplaceFile(w), ~edits[w].raced, edits[w].phase = "halfway"
    PROVE  /\ Accepted(edits[w].seen, edits[w].edit) /\ files' = Plan(w)
           /\ Parses(files) /\ Resolved(files) = Resolved(edits[w].seen)
<1>1. Due(w) /\ edits[w] # NoEdit
  BY DEF ReplaceFile, Due
<1>2. /\ edits[w] \in EditState /\ Accepted(edits[w].seen, edits[w].edit) /\ Plan(w) \in Pair
      /\ Target(edits[w]) = "profile"
  BY <1>1, ContentSayable DEF Target
<1>3. files' = [base |-> files.base, profile |-> Plan(w).profile]
  BY <1>2, ReplacedBy
<1>4. edits[w].seen \in Pair /\ edits[w].edit \in Edit
  BY <1>2 DEF EditState
<1>5. /\ Redirects(edits[w].seen, edits[w].edit)
      /\ files.base = Plan(w).base /\ files.profile = edits[w].seen.profile
  BY <1>1 DEF DirectoryInv, SeenIsCurrent, Sound, Plan
<1>6. Plan(w) = [base |-> Plan(w).base, profile |-> Plan(w).profile]
  BY <1>2 DEF Pair
<1> QED
  BY <1>2, <1>3, <1>4, <1>5, <1>6, HalfReads DEF Plan

\* The first one makes half of it, which nobody sees.
LEMMA HalfIsThere ==
    ASSUME DirectoryInv, NEW w \in Writers, ReplaceFile(w), ~edits[w].raced, edits[w].phase = "read",
           Redirects(edits[w].seen, edits[w].edit)
    PROVE  /\ edits[w].seen = files /\ edits[w].edit \in Edit /\ Accepted(files, edits[w].edit)
           /\ Redirects(files, edits[w].edit)
           /\ files'.base = Planned(files, edits[w].edit).base /\ files'.profile = files.profile
<1>1. Due(w) /\ edits[w] # NoEdit
  BY DEF ReplaceFile, Due
<1>2. edits[w] \in EditState /\ Accepted(edits[w].seen, edits[w].edit) /\ Target(edits[w]) = "base"
  BY <1>1, ContentSayable DEF Target, IntoProfile
<1>3. files' = [base |-> Plan(w).base, profile |-> files.profile]
  BY <1>2, ReplacedBy
<1>4. edits[w].seen = files
  BY <1>1 DEF DirectoryInv, SeenIsCurrent, Sound
<1> QED
  BY <1>2, <1>3, <1>4 DEF Plan, EditState

\* To empty and to fill a temporary file changes nothing that anybody asked
\* for, unless the writer was raced.
LEMMA StagingSimulates ==
    ASSUME DirectoryInv, NEW w \in Writers, OpenTemp(w) \/ FillTemp(w)
    PROVE  Promise!Prepare(w) \/ Promise!Land(w)
<1>1. DirectoryTypeOK /\ "opened" \in Stages /\ "filled" \in Stages
  BY StageNames DEF DirectoryInv
<1>2. PICK stage \in {"opened", "filled"} :
        /\ edits[w] \in EditState /\ Pending(w) /\ (~edits[w].raced => files' = files)
        /\ edits' = OthersMarked(w, Staged(edits[w], stage), AsTheyAre)
  <2>1. CASE OpenTemp(w)
    BY <1>1, <2>1, OpenTempIs
  <2>2. CASE FillTemp(w)
    BY <1>1, <2>2, FillTempIs, FilledWith
  <2> QED
    BY <2>1, <2>2
<1>3. AskedOf(Staged(edits[w], stage)) = AskedOf(edits[w])
  BY <1>1, <1>2, AskedStaged
<1>4. \A v \in Writers : Pending(v) => AsTheyAre[v] \in Stages
  BY <1>1, StagesTyped
<1>5. Asked' = Promise!Raced(w)
  BY <1>1, <1>2, <1>3, <1>4, AskedStill
<1>6. Promise!Open(w) /\ (Asked[w].raced <=> edits[w].raced)
  BY <1>1, <1>2, OpenIsPending DEF Pending
<1>7. CASE edits[w].raced
  BY <1>5, <1>6, <1>7 DEF Promise!Land
<1>8. CASE ~edits[w].raced
  BY <1>2, <1>5, <1>6, <1>8, SameFiles DEF Promise!Prepare
<1> QED
  BY <1>7, <1>8

LEMMA ReplaceFileSimulates ==
    ASSUME DirectoryInv, NEW w \in Writers, ReplaceFile(w)
    PROVE  Promise!Perform(w) \/ Promise!Prepare(w) \/ Promise!Land(w)
<1>1. DirectoryTypeOK /\ Due(w)
  BY DEF DirectoryInv, ReplaceFile
<1>2. /\ edits[w] \in EditState /\ Pending(w) /\ Accepted(edits[w].seen, edits[w].edit)
      /\ edits' = OthersMarked(w, MovedOn(edits[w], Onto(edits[w]), edits[w].seen), AreAdrift(w))
  BY <1>1, ReplaceFileIs, ContentSayable
<1>3. edits[w] # NoEdit /\ edits[w].seen \in Pair /\ edits[w].edit \in Edit
  BY <1>2 DEF Pending, EditState
<1>4. Promise!Open(w) /\ (Asked[w].raced <=> edits[w].raced)
  BY <1>1, <1>2, <1>3, OpenIsPending
<1>5. edits[w].phase \in {"read", "halfway"}
  BY <1>1 DEF Due
<1>6. CASE Onto(edits[w]) = "halfway"
  <2>1. edits[w].phase = "read" /\ Redirects(edits[w].seen, edits[w].edit)
    BY <1>6 DEF Onto
  <2>2. AskedOf(MovedOn(edits[w], "halfway", edits[w].seen)) = AskedOf(edits[w])
    BY <1>2, <1>3, <2>1, AskedOnward, PhaseNames
  <2>3. \A v \in Writers : Pending(v) => AreAdrift(w)[v] \in Stages
    BY <1>1, StagesTyped
  <2>4. Asked' = Promise!Raced(w)
    BY <1>1, <1>2, <1>6, <2>2, <2>3, AskedStill
  <2>5. CASE edits[w].raced
    BY <1>4, <2>4, <2>5 DEF Promise!Land
  <2>6. CASE ~edits[w].raced
    <3>1. /\ files'.base = Planned(files, edits[w].edit).base /\ files'.profile = files.profile
          /\ edits[w].seen = files /\ Accepted(files, edits[w].edit) /\ Redirects(files, edits[w].edit)
      BY <2>1, <2>6, HalfIsThere
    <3>2. Parses(files') /\ Resolved(files') = Resolved(files) /\ Parses(files)
      BY <1>3, <3>1, HalfReads DEF Accepted
    <3>3. Effective' = Effective
      BY <3>2 DEF Effective
    <3> QED
      BY <1>4, <2>4, <2>6, <3>3 DEF Promise!Prepare
  <2> QED
    BY <2>5, <2>6
<1>7. CASE Onto(edits[w]) # "halfway"
  <2>1. /\ edits' = OthersMarked(w, MovedOn(edits[w], "written", edits[w].seen), AreAdrift(w))
        /\ ~(edits[w].phase = "read" /\ Redirects(edits[w].seen, edits[w].edit))
    BY <1>2, <1>7 DEF Onto
  <2>2. CASE edits[w].raced
    <3>1. Asked' = [Promise!Raced(w) EXCEPT ![w] = Promise!Done(@)]
      BY <1>1, <1>2, <2>1, AskedDone
    <3> QED
      BY <1>4, <2>2, <3>1 DEF Promise!Land
  <2>3. CASE ~edits[w].raced /\ edits[w].phase = "read"
    <3>1. edits[w].seen = files /\ files' = Plan(w)
      BY <2>1, <2>3, WholePlan
    <3>2. Parses(files)
      BY <1>2, <3>1 DEF Accepted
    <3> QED
      BY <1>2, <2>1, <2>3, <3>1, <3>2, Performed
  <2>4. CASE ~edits[w].raced /\ edits[w].phase = "halfway"
    BY <1>2, <2>1, <2>4, VacatedIsWhole, Performed
  <2> QED
    BY <1>5, <2>2, <2>3, <2>4
<1> QED
  BY <1>6, <1>7

LEMMA StepSimulates ==
    ASSUME DirectoryInv, [DirectoryNext]_directory
    PROVE  [Promise!Next]_(Promise!promise)
<1>1. ASSUME NEW w \in Writers, NEW edit \in Edit, ReadBase(w, edit)
      PROVE  Promise!Next
  BY <1>1, ReadBaseAsks, PromiseTables DEF Promise!Next
<1>2. ASSUME NEW w \in Writers, ReadProfile(w)
      PROVE  UNCHANGED Promise!promise
  BY <1>2, ReadProfileStutters DEF Promise!promise
<1>3. ASSUME NEW w \in Writers, Refuse(w) \/ ReplaceFails(w) \/ Confirm(w) \/ WriteFails(w)
      PROVE  Promise!Next
  <2>1. Promise!End({w}) /\ {w} \in SUBSET Writers
    BY <1>3, EndEnds
  <2> QED
    BY <2>1 DEF Promise!Next
<1>4. ASSUME NEW w \in Writers, OpenTemp(w) \/ FillTemp(w) \/ ReplaceFile(w)
      PROVE  Promise!Next
  BY <1>4, StagingSimulates, ReplaceFileSimulates DEF Promise!Next
<1>5. ASSUME NEW ws \in SUBSET Writers, Perish(ws)
      PROVE  Promise!Next
  BY <1>5, PerishEnds DEF Promise!Next
<1>6. ASSUME NEW pair \in Pair, SaveByHand(pair)
      PROVE  Promise!Next
  BY <1>6, SaveByHandIsExternal DEF Promise!Next
<1>7. CASE UNCHANGED directory
  <2>1. files' = files /\ \A w \in Writers : edits'[w] = edits[w]
    BY <1>7 DEF directory
  <2>2. Asked' = Asked
    BY <2>1 DEF Asked
  <2> QED
    BY <2>1, <2>2, SameFiles DEF Promise!promise
<1> QED
  BY <1>1, <1>2, <1>3, <1>4, <1>5, <1>6, <1>7 DEF DirectoryNext

LEMMA StartPromises == ASSUME NEW pairs, DirectoryInit(pairs) PROVE Promise!Init
  BY DEF DirectoryInit, Promise!Init, Asked

\* The directory, any number of writers, a hand and crashes keep the promise:
\* an edit changes the settings in effect once, to what it names and nothing
\* else, or not at all (commit, mosaix-config/src/io.rs).
THEOREM DirectoryImplements == DirectorySpec => Promise!Spec
<1>1. DirectoryInit(Pair) => Promise!Init
  BY StartPromises
<1>2. DirectoryInv /\ [DirectoryNext]_directory => [Promise!Next]_(Promise!promise)
  BY StepSimulates
<1> QED
  BY <1>1, <1>2, DirectoryInvariant, PTL DEF DirectorySpec, Promise!Spec

(* Validity. *)
LEMMA HalfIsValid ==
    ASSUME NEW pair \in Pair, Valid(pair), NEW edit \in Edit, Accepted(pair, edit), Redirects(pair, edit),
           NEW half, half.base = Planned(pair, edit).base, half.profile = pair.profile
    PROVE  Valid(half)
<1>1. Parses(half) /\ Resolved(half) = Resolved(pair)
  BY HalfReads
<1>2. Valid(Planned(pair, edit))
  BY DEF Accepted
<1> QED
  BY <1>1, <1>2 DEF Valid

\* No step of writing of an edit that was not overtaken breaks a valid directory.
LEMMA WriteKeepsValid ==
    ASSUME DirectoryInv, NEW w \in Writers, Valid(files), ~edits[w].raced,
           OpenTemp(w) \/ FillTemp(w) \/ ReplaceFile(w)
    PROVE  Valid(files')
<1>1. CASE OpenTemp(w) \/ FillTemp(w)
  <2>1. files' = files
    BY <1>1, FilledWith DEF OpenTemp
  <2> QED
    BY <2>1
<1>2. CASE ReplaceFile(w)
  <2>1. Due(w) /\ edits[w].phase \in {"read", "halfway"}
    BY <1>2 DEF ReplaceFile, Due
  <2>2. Accepted(edits[w].seen, edits[w].edit)
    BY <2>1, ContentSayable
  <2>3. CASE edits[w].phase = "halfway"
    BY <1>2, <2>3, VacatedIsWhole DEF Accepted, Plan
  <2>4. CASE edits[w].phase = "read" /\ Redirects(edits[w].seen, edits[w].edit)
    <3>1. /\ files'.base = Planned(files, edits[w].edit).base /\ files'.profile = files.profile
          /\ edits[w].edit \in Edit /\ Accepted(files, edits[w].edit) /\ Redirects(files, edits[w].edit)
      BY <1>2, <2>4, HalfIsThere
    <3>2. files \in Pair
      BY DEF DirectoryInv, DirectoryTypeOK
    <3> QED
      BY <3>1, <3>2, HalfIsValid
  <2>5. CASE edits[w].phase = "read" /\ ~Redirects(edits[w].seen, edits[w].edit)
    BY <1>2, <2>2, <2>5, WholePlan DEF Accepted, Plan
  <2> QED
    BY <2>1, <2>3, <2>4, <2>5
<1> QED
  BY <1>1, <1>2
=============================================================================

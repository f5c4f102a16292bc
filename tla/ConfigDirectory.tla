-------------------------- MODULE ConfigDirectory --------------------------
(***************************************************************************)
(* The configuration directory and its writers: threads of the agent that  *)
(* serve an edit each (mosaix-ipc/src/pipe.rs, one thread a client), the   *)
(* settings application saving its tiling page by itself, and a hand.      *)
(*                                                                         *)
(* An edit reads the base and then the profile, plans and validates, and   *)
(* replaces one file or, for a redirect, two one after the other.  A file  *)
(* is replaced by way of a temporary one beside it, whose name is the same *)
(* for every writer and which nothing locks: it is emptied, filled, and    *)
(* renamed over the file (write_atomically, mosaix-config/src/io.rs).      *)
(* raced is an auxiliary record: somebody else took a step of writing      *)
(* since the edit began to read.                                           *)
(***************************************************************************)
EXTENDS ConfigLayers

CONSTANTS
    Writers, NoEdit,
    Empty, NoFile       \* a temporary file that was just emptied, or is not there

ASSUME WritersAssumption == NoEdit \notin Writers

VARIABLES
    files,      \* the pair on disk
    temps,      \* the temporary file beside each of them
    edits       \* writer -> NoEdit or the edit it is carrying out

directory == <<files, temps, edits>>

Phases == {"reading", "read", "halfway", "written"}

\* How far the replacement of the next file is.  A writer is astray when the
\* file it opened has been renamed over the destination by somebody else.
Stages == {"idle", "opened", "filled", "astray"}

EditState == [edit : Edit, phase : Phases, stage : Stages, seen : Pair, raced : BOOLEAN]

Temps == [base : Base \cup {Garbage, Empty, NoFile},
          profile : Profile \cup {NoProfile, Garbage, Empty, NoFile}]

ASSUME TempsAssumption == {Empty, NoFile} \cap (Base \cup Profile \cup {NoProfile, Garbage}) = {}

\* No edit under way is told from any edit, here and as others see it.
ASSUME NoEditAssumption ==
    NoEdit \notin EditState /\ NoEdit \notin [edit : Edit, raced : BOOLEAN, done : BOOLEAN]

DirectoryTypeOK ==
    /\ files \in Pair /\ temps \in Temps
    /\ edits \in [Writers -> EditState \cup {NoEdit}]

\* The writers that have read something and not finished writing.
Pending(w) == edits[w] # NoEdit /\ edits[w].phase # "written"

Overtaken(but) ==
    [w \in Writers |-> IF w # but /\ Pending(w) THEN [edits[w] EXCEPT !.raced = TRUE] ELSE edits[w]]

MovedOn(e, phase, seen) ==
    [edit |-> e.edit, phase |-> phase, stage |-> "idle", seen |-> seen, raced |-> e.raced]

Plan(w) == Planned(edits[w].seen, edits[w].edit)

DirectoryInit(pairs) ==
    /\ files \in pairs /\ temps = [base |-> NoFile, profile |-> NoFile]
    /\ edits = [w \in Writers |-> NoEdit]

\* read_candidate: the base first.
ReadBase(w, edit) ==
    /\ edits[w] = NoEdit
    /\ edits' = [edits EXCEPT ![w] = [edit |-> edit, phase |-> "reading", stage |-> "idle",
                                        seen |-> files, raced |-> FALSE]]
    /\ UNCHANGED <<files, temps>>

ReadProfile(w) ==
    /\ edits[w] # NoEdit /\ edits[w].phase = "reading"
    /\ edits' = [edits EXCEPT ![w] = MovedOn(@, "read", [@.seen EXCEPT !.profile = files.profile])]
    /\ UNCHANGED <<files, temps>>

\* Nothing is written, and the client is told why.
Refuse(w) ==
    /\ edits[w] # NoEdit /\ edits[w].phase = "read"
    /\ ~Accepted(edits[w].seen, edits[w].edit)
    /\ edits' = [edits EXCEPT ![w] = NoEdit]
    /\ UNCHANGED <<files, temps>>

(* Mutant: the file a redirect empties comes first. *)
VacatedFirst(e) ==
    IF e.phase = "read" /\ Supplier(e.seen, e.edit) = "profile" THEN "profile" ELSE "base"

\* commit: the destination, before the profile a redirect empties.
Target(e) == IF e.phase = "read" /\ ~IntoProfile(e.seen, e.edit) THEN "base" ELSE "profile"

Content(e) == Planned(e.seen, e.edit)[Target(e)]

Due(w) ==
    /\ edits[w] # NoEdit
    /\ \/ edits[w].phase = "read" /\ Accepted(edits[w].seen, edits[w].edit)
       \/ edits[w].phase = "halfway"

(* Mutant: the file itself is emptied and written. *)
OpenInPlace(w) ==
    /\ Due(w) /\ edits[w].stage = "idle"
    /\ files' = [files EXCEPT ![Target(edits[w])] = Garbage]
    /\ temps' = [temps EXCEPT ![Target(edits[w])] = Empty]
    /\ edits' = [Overtaken(w) EXCEPT ![w].stage = "opened"]

OpenTemp(w) ==
    /\ Due(w) /\ edits[w].stage = "idle"
    /\ temps' = [temps EXCEPT ![Target(edits[w])] = Empty]
    /\ edits' = [Overtaken(w) EXCEPT ![w].stage = "opened"]
    /\ UNCHANGED files

\* Over what somebody else has put there the content may come out mixed, and
\* a writer that is astray writes the file everybody reads.
FillTemp(w) ==
    LET file == Target(edits[w]) IN
    /\ Due(w)
    /\ \/ /\ edits[w].stage = "opened"
          /\ \E content \in {Content(edits[w]), Garbage} :
                /\ temps[file] = Empty => content = Content(edits[w])
                /\ temps' = [temps EXCEPT ![file] = content]
          /\ UNCHANGED files
       \/ /\ edits[w].stage = "astray"
          /\ \E content \in {Content(edits[w]), Garbage} : files' = [files EXCEPT ![file] = content]
          /\ UNCHANGED temps
    /\ edits' = [Overtaken(w) EXCEPT ![w].stage = "filled"]

\* The others with the renamed file open have the destination open; the old
\* destination, which some may have open, is no file any more.
Adrift(stage) ==
    IF stage = "opened" THEN "astray" ELSE IF stage = "astray" THEN "filled" ELSE stage

Displaced(w) ==
    [v \in Writers |->
        IF v # w /\ Pending(v) /\ Target(edits[v]) = Target(edits[w])
        THEN [Overtaken(w)[v] EXCEPT !.stage = Adrift(@)] ELSE Overtaken(w)[v]]

\* replace_file.  No file of the configuration is complete without content.
ReplaceFile(w) ==
    LET file == Target(edits[w]) IN
    /\ Due(w) /\ edits[w].stage = "filled"
    /\ temps[file] # NoFile
    /\ files' = [files EXCEPT ![file] = IF temps[file] = Empty THEN Garbage ELSE temps[file]]
    /\ temps' = [temps EXCEPT ![file] = NoFile]
    /\ edits' = [Displaced(w) EXCEPT
                    ![w] = MovedOn(edits[w], IF edits[w].phase = "read" /\ Redirects(edits[w].seen, edits[w].edit)
                                             THEN "halfway" ELSE "written", edits[w].seen)]

\* The temporary file has been renamed by somebody else, or somebody has the
\* destination open: an error is answered.
ReplaceFails(w) ==
    LET file == Target(edits[w]) IN
    /\ Due(w) /\ edits[w].stage = "filled"
    /\ \/ temps[file] = NoFile
       \/ \E v \in Writers : Pending(v) /\ edits[v].stage = "astray" /\ Target(edits[v]) = file
    /\ edits' = [edits EXCEPT ![w] = NoEdit]
    /\ UNCHANGED <<files, temps>>

Confirm(w) ==
    /\ edits[w] # NoEdit /\ edits[w].phase = "written"
    /\ edits' = [edits EXCEPT ![w] = NoEdit]
    /\ UNCHANGED <<files, temps>>

\* The disk refuses: an error is answered, and what has been written stays,
\* also of a temporary file.
WriteFails(w) ==
    /\ edits[w] # NoEdit /\ edits[w].phase \in {"read", "halfway"}
    /\ edits' = [edits EXCEPT ![w] = NoEdit]
    /\ UNCHANGED <<files, temps>>

\* The process of these writers ends.
Perish(ws) ==
    /\ edits' = [w \in Writers |-> IF w \in ws THEN NoEdit ELSE edits[w]]
    /\ UNCHANGED <<files, temps>>

\* An editor outside Mosaix saves a file, perhaps half of it.
SaveByHand(pair) ==
    /\ files' = pair
    /\ edits' = Overtaken(NoEdit)
    /\ UNCHANGED temps

DirectoryNext ==
    \/ \E w \in Writers :
        \/ \E edit \in Edit : ReadBase(w, edit)
        \/ ReadProfile(w) \/ Refuse(w) \/ OpenTemp(w) \/ FillTemp(w) \/ ReplaceFile(w)
        \/ ReplaceFails(w) \/ Confirm(w) \/ WriteFails(w)
    \/ \E ws \in SUBSET Writers : Perish(ws)
    \/ \E pair \in Pair : SaveByHand(pair)

DirectorySpec == DirectoryInit(Pair) /\ [][DirectoryNext]_directory

-----------------------------------------------------------------------------
(* What the directory implements. *)
Effective == IF Parses(files) THEN Resolved(files) ELSE Garbage

Asked ==
    [w \in Writers |->
        IF edits[w] = NoEdit THEN NoEdit
        ELSE [edit |-> edits[w].edit, raced |-> edits[w].raced, done |-> edits[w].phase = "written"]]

Promise == INSTANCE SettingsEdits WITH effective <- Effective, asked <- Asked
=============================================================================

---------------------------- MODULE ControlPlane ----------------------------
(***************************************************************************)
(* How configuration and hotkeys reach the running agent.  Edits of the    *)
(* directory (ConfigDirectory) are sent to the reducer by the thread that  *)
(* made them and noticed by the watcher, which reads the whole directory   *)
(* again; the rebind poller registers what the reducer's configuration     *)
(* says; and the settings application suspends all of it, through a        *)
(* connection the hold lives and dies with, while it captures a key.       *)
(*                                                                         *)
(* One desk: its fingerprint does not change.  mail is the reducer's queue,*)
(* reports the watcher's channel to its forwarder.  A client is a settings *)
(* application: its process, its page, what it believes and its connection.*)
(* scenario and left bound what people and mishaps do; missed and stray    *)
(* are auxiliary: a write nobody watched, an end of capture from a         *)
(* connection that held none.                                              *)
(***************************************************************************)
EXTENDS ConfigDirectory, Integers, Sequences, FiniteSets

CONSTANTS
    Clients, Page,      \* settings applications; their tiling page's own save
    Keyless,            \* combinations whose key has no virtual-key code
    Scenarios           \* records [pair, asks, hands, calm, left]

ASSUME ClientsAssumption == Page \notin Clients /\ Writers = Clients \cup {Page}

ASSUME KeylessAssumption == Keyless \subseteq Combos

\* A hand leaves any content in one of the files, or what does not parse.
Hand == [file : {"base"}, content : Base \cup {Garbage}]
            \cup [file : {"profile"}, content : Profile \cup {NoProfile, Garbage}]

ASSUME ScenariosAssumption ==
    \A s \in Scenarios : s.pair \in Pair /\ s.asks \subseteq Edit /\ s.hands \subseteq Hand

\* The configuration Mosaix ships is valid.
ASSUME DefaultsAssumption == Valid(FallbackPair)

VARIABLES
    agent,          \* "running", "starting" (loaded, not watching yet) or "dead"
    engine,         \* the reducer's configuration and its account of capture
    mail, reports,
    watcher,        \* [touched, reading, base]
    poller,         \* [hotkeys, suspended, busy, failed]: the snapshot it acts
                    \* on, and whether the last registration did not start
    registered,     \* the hotkeys the operating system gave the agent
    taken,          \* combinations other programs own
    clients,        \* client -> [alive, open, capturing, link, held]
    ending,         \* clients whose dead connection still owes the release
    missed, stray, scenario, left

wire  == <<engine, mail>>
keys  == <<poller, registered, taken>>
rest  == <<agent, reports, watcher, missed>>
edges == <<clients, ending, stray>>
vars  == <<directory, wire, keys, rest, edges, scenario, left>>

\* Mail is what the reducer is sent by all of the above.
Config(pair)     == [kind |-> "config", set |-> pair]
Started          == [kind |-> "started"]
Ended            == [kind |-> "ended"]
Report(commands) == [kind |-> "report", commands |-> commands]

TypeOK ==
    /\ DirectoryTypeOK
    /\ agent \in {"running", "starting", "dead"}
    /\ engine.set \in Pair /\ engine.holds \in Nat /\ engine.unregistered \subseteq Commands
    /\ (engine.suspended <=> engine.holds > 0)
    /\ registered \in Tables(Commands, Combos \ taken)
    /\ \A c \in Clients :
        /\ clients[c].link \in {"up", "broken", "none"}
        /\ clients[c].held => clients[c].link = "up"
        /\ clients[c].capturing => clients[c].alive /\ clients[c].open
    /\ ending \subseteq Clients

Spend(what) == left[what] > 0 /\ left' = [left EXCEPT ![what] = @ - 1]

Loaded(pair) == IF Valid(pair) THEN pair ELSE FallbackPair
Runtime(set) == RuntimeHotkeys(Resolved(set))

FreshEngine(set) == [set |-> set, holds |-> 0, suspended |-> FALSE, unregistered |-> {}]
AtRestWatcher    == [touched |-> FALSE, reading |-> FALSE, base |-> Garbage]

\* bindings_from_resolved passes over a key it has no code for; the operating
\* system refuses what another program owns.
Keyed(table) == {c \in DOMAIN table : table[c] \notin Keyless}
Free(table)  == {c \in Keyed(table) : table[c] \notin taken}
Registration(table) == [c \in Free(table) |-> table[c]]

Init ==
    /\ scenario \in Scenarios
    /\ left = scenario.left
    /\ DirectoryInit({scenario.pair})
    /\ agent = "running" /\ mail = <<>> /\ reports = <<>>
    /\ engine = FreshEngine(Loaded(files))
    /\ watcher = AtRestWatcher
    /\ poller = [hotkeys |-> Runtime(engine.set), suspended |-> FALSE, busy |-> FALSE, failed |-> FALSE]
    /\ taken = {} /\ registered = Registration(poller.hotkeys)
    /\ clients = [c \in Clients |->
                    [alive |-> TRUE, open |-> FALSE, capturing |-> FALSE, link |-> "up", held |-> FALSE]]
    /\ ending = {} /\ missed = FALSE /\ stray = FALSE
-----------------------------------------------------------------------------
\* The configuration and the suspension the poller compares with its own.
Wanted ==
    [hotkeys |-> Runtime(engine.set), suspended |-> engine.suspended, busy |-> TRUE, failed |-> FALSE]

Idle == agent # "starting" /\ (\A w \in Writers : edits[w] = NoEdit)
Quiet ==
    /\ Idle
    /\ agent = "running" =>
        /\ mail = <<>> /\ reports = <<>> /\ ending = {}
        /\ ~watcher.touched /\ ~watcher.reading /\ ~poller.busy
        /\ poller.hotkeys = Wanted.hotkeys /\ poller.suspended = Wanted.suspended

\* In a calm scenario people wait until nothing is under way.
Patient == scenario.calm => Quiet
-----------------------------------------------------------------------------
(* The directory's writers. *)
Noticed ==
    /\ watcher' = IF agent = "running" THEN [watcher EXCEPT !.touched = TRUE] ELSE watcher
    /\ missed' = (missed \/ agent = "starting")
    /\ UNCHANGED <<agent, reports>>

AskEdit(c) ==
    /\ clients[c].alive /\ clients[c].link = "up" /\ c \notin ending
    /\ Spend("edits") /\ Patient
    /\ \E edit \in scenario.asks : edit.kind # "tiling" /\ ReadBase(c, edit)
    /\ UNCHANGED <<wire, keys, rest, edges, scenario>>

SaveTiling ==
    /\ Spend("edits") /\ Patient
    /\ \E edit \in scenario.asks : edit.kind = "tiling" /\ ReadBase(Page, edit)
    /\ UNCHANGED <<wire, keys, rest, edges, scenario>>

ReadOn(w) ==
    /\ ReadProfile(w) \/ Refuse(w) \/ ReplaceFails(w)
    /\ UNCHANGED <<wire, keys, rest, edges, scenario, left>>

Write(w) ==
    /\ OpenTemp(w) \/ FillTemp(w) \/ ReplaceFile(w)
    /\ Noticed
    /\ UNCHANGED <<wire, keys, edges, scenario, left>>

\* The agent sends what it validated, without reading the directory again.
Answer(w) ==
    /\ Confirm(w)
    /\ mail' = IF w \in Clients THEN Append(mail, Config(Plan(w))) ELSE mail
    /\ UNCHANGED <<engine, keys, rest, edges, scenario, left>>

Fail(w) ==
    /\ WriteFails(w) /\ Spend("mishaps")
    /\ UNCHANGED <<wire, keys, rest, edges, scenario>>

HandEdit ==
    /\ Spend("hands") /\ Patient
    /\ \E hand \in scenario.hands : SaveByHand([files EXCEPT ![hand.file] = hand.content])
    /\ Noticed
    /\ UNCHANGED <<wire, keys, edges, scenario>>
-----------------------------------------------------------------------------
(* Watcher, forwarder and reducer. *)

\* Time enters here alone: the watcher waits for 300 ms without a change, and a
\* thread that is replacing a file, or has written what it had to and is to send
\* it, takes its next step within them.
Debounced ==
    ~\E w \in Writers : edits[w] # NoEdit /\ (edits[w].stage # "idle" \/ edits[w].phase = "written")

Watch ==
    /\ agent = "running" /\ watcher.touched /\ ~watcher.reading
    /\ Debounced
    /\ watcher' = [touched |-> FALSE, reading |-> TRUE, base |-> files.base]
    /\ UNCHANGED <<directory, agent, reports, missed, wire, keys, edges, scenario, left>>

(* Mutant: what does not validate is sent as well. *)
ReloadUnchecked ==
    /\ watcher.reading
    /\ watcher' = [watcher EXCEPT !.reading = FALSE, !.base = Garbage]
    /\ reports' = LET pair == [base |-> watcher.base, profile |-> files.profile]
                  IN  IF Parses(pair) THEN Append(reports, pair) ELSE reports
    /\ missed' = FALSE
    /\ UNCHANGED <<directory, agent, wire, keys, edges, scenario, left>>

(* Mutant: a change made while it reads is taken for one it has read. *)
ReloadForgets ==
    /\ watcher.reading
    /\ watcher' = AtRestWatcher
    /\ reports' = LET pair == [base |-> watcher.base, profile |-> files.profile]
                  IN  IF Valid(pair) THEN Append(reports, pair) ELSE reports
    /\ missed' = FALSE
    /\ UNCHANGED <<directory, agent, wire, keys, edges, scenario, left>>

Reload ==
    /\ watcher.reading
    /\ watcher' = [watcher EXCEPT !.reading = FALSE, !.base = Garbage]
    /\ reports' = LET pair == [base |-> watcher.base, profile |-> files.profile]
                  IN  IF Valid(pair) THEN Append(reports, pair) ELSE reports
    /\ missed' = FALSE
    /\ UNCHANGED <<directory, agent, wire, keys, edges, scenario, left>>

Forward ==
    /\ reports # <<>>
    /\ mail' = Append(mail, Config(Head(reports)))
    /\ reports' = Tail(reports)
    /\ UNCHANGED <<directory, agent, watcher, missed, engine, keys, edges, scenario, left>>

HotkeyCaptureStarted(state) == [state EXCEPT !.holds = @ + 1, !.suspended = TRUE]

(* Mutant: the first capture that ends gives the keys back. *)
HotkeyCaptureEndedForAll(state) ==
    IF state.holds = 0 THEN state
    ELSE [state EXCEPT !.holds = @ - 1, !.suspended = FALSE]

HotkeyCaptureEnded(state) ==
    IF state.holds = 0 THEN state
    ELSE [state EXCEPT !.holds = @ - 1, !.suspended = state.holds > 1]

Reduced(state, event) ==
    CASE event.kind = "config"  -> [state EXCEPT !.set = event.set]
      [] event.kind = "started" -> HotkeyCaptureStarted(state)
      [] event.kind = "ended"   -> HotkeyCaptureEnded(state)
      [] event.kind = "report"  -> [state EXCEPT !.unregistered = event.commands]

Reduce ==
    /\ agent # "dead" /\ mail # <<>>
    /\ engine' = Reduced(engine, Head(mail))
    /\ mail' = Tail(mail)
    /\ UNCHANGED <<directory, keys, rest, edges, scenario, left>>
-----------------------------------------------------------------------------
(* The rebind poller. *)
(* Mutant: it keeps every binding of the configuration as its own. *)
PollEverything ==
    /\ agent = "running" /\ ~poller.busy
    /\ poller.hotkeys # Wanted.hotkeys \/ poller.suspended # Wanted.suspended
    /\ poller' = [Wanted EXCEPT !.hotkeys = Resolved(engine.set).hotkeys]
    /\ registered' = EmptyTable
    /\ UNCHANGED <<directory, wire, taken, rest, edges, scenario, left>>

\* The old registration stops before the new one is made.
Poll ==
    /\ agent = "running" /\ ~poller.busy
    /\ poller.hotkeys # Wanted.hotkeys \/ poller.suspended # Wanted.suspended
    /\ poller' = Wanted
    /\ registered' = EmptyTable
    /\ UNCHANGED <<directory, wire, taken, rest, edges, scenario, left>>

(* Mutant: it compares from now on with what is published by now. *)
RegisterOutdated ==
    /\ poller.busy
    /\ poller' = [Wanted EXCEPT !.busy = FALSE]
    /\ IF poller.suspended THEN UNCHANGED <<registered, mail>>
       ELSE /\ registered' = Registration(poller.hotkeys)
            /\ mail' = Append(mail, Report(Keyed(poller.hotkeys) \ Free(poller.hotkeys)))
    /\ UNCHANGED <<directory, engine, taken, rest, edges, scenario, left>>

Register ==
    /\ poller.busy
    /\ poller' = [poller EXCEPT !.busy = FALSE]
    /\ IF poller.suspended THEN UNCHANGED <<registered, mail>>
       ELSE /\ registered' = Registration(poller.hotkeys)
            /\ mail' = Append(mail, Report(Keyed(poller.hotkeys) \ Free(poller.hotkeys)))
    /\ UNCHANGED <<directory, engine, taken, rest, edges, scenario, left>>

\* The thread of a registration does not start: nothing is registered, nothing
\* is reported, and the poller takes it for done.
RegistrationFails ==
    /\ poller.busy /\ ~poller.suspended
    /\ Spend("mishaps")
    /\ poller' = [poller EXCEPT !.busy = FALSE, !.failed = TRUE]
    /\ UNCHANGED <<directory, wire, registered, taken, rest, edges, scenario>>

\* Another program takes a combination nobody holds, or gives one up.
OtherProgram ==
    /\ Spend("takes")
    /\ \/ \E k \in Combos \ taken : (\A c \in DOMAIN registered : registered[c] # k) /\ taken' = taken \cup {k}
       \/ \E k \in taken : taken' = taken \ {k}
    /\ UNCHANGED <<directory, wire, poller, registered, rest, edges, scenario>>
-----------------------------------------------------------------------------
(* The settings application's connection and hotkey capture. *)
AtHand(c) == clients[c].alive /\ edits[c] = NoEdit

\* The page mounts and asks for the keys; a broken connection is found out
\* by the request that fails on it.
OpenEditor(c) ==
    /\ AtHand(c) /\ ~clients[c].open
    /\ Spend("opens")
    /\ IF clients[c].link # "broken" /\ agent # "dead"
       THEN /\ clients' = [clients EXCEPT ![c] = [alive |-> TRUE, open |-> TRUE, capturing |-> TRUE,
                                                 link |-> "up", held |-> TRUE]]
            /\ mail' = Append(mail, Started)
       ELSE clients' = [clients EXCEPT ![c] = [@ EXCEPT !.open = TRUE, !.link = "none"]] /\ UNCHANGED mail
    /\ UNCHANGED <<directory, engine, keys, rest, ending, stray, scenario>>

\* The page unmounts: no longer capturing, whatever the agent answers.  The
\* agent counts the end of a capture from any connection.
CloseEditor(c) ==
    /\ AtHand(c) /\ clients[c].open
    /\ IF clients[c].link # "broken" /\ agent # "dead"
       THEN /\ clients' = [clients EXCEPT ![c] = [alive |-> TRUE, open |-> FALSE, capturing |-> FALSE,
                                                 link |-> "up", held |-> FALSE]]
            /\ mail' = Append(mail, Ended)
            /\ stray' = (stray \/ ~clients[c].held)
       ELSE /\ clients' = [clients EXCEPT ![c] = [@ EXCEPT !.open = FALSE, !.capturing = FALSE, !.link = "none"]]
            /\ UNCHANGED <<mail, stray>>
    /\ UNCHANGED <<directory, engine, keys, rest, ending, scenario, left>>

(* Mutant: a new connection asserts nothing. *)
RequestSilently(c) ==
    /\ AtHand(c) /\ clients[c].link # "up"
    /\ IF clients[c].link = "broken"
       THEN clients' = [clients EXCEPT ![c] = [@ EXCEPT !.link = "none"]] /\ UNCHANGED mail
       ELSE /\ agent # "dead"
            /\ clients' = [clients EXCEPT ![c] = [@ EXCEPT !.link = "up", !.held = FALSE]] /\ UNCHANGED mail
    /\ UNCHANGED <<directory, engine, keys, rest, ending, stray, scenario, left>>

\* Any other request finds out a broken connection, or opens a new one and
\* first asserts again what the page believes.
Request(c) ==
    /\ AtHand(c) /\ clients[c].link # "up"
    /\ IF clients[c].link = "broken"
       THEN clients' = [clients EXCEPT ![c] = [@ EXCEPT !.link = "none"]] /\ UNCHANGED mail
       ELSE /\ agent # "dead"
            /\ clients' = [clients EXCEPT ![c] = [@ EXCEPT !.link = "up", !.held = clients[c].capturing]]
            /\ mail' = IF clients[c].capturing THEN Append(mail, Started) ELSE mail
    /\ UNCHANGED <<directory, engine, keys, rest, ending, stray, scenario, left>>

\* A connection that ended owes the release of what it held.
Owes(c) == ending' = IF clients[c].held THEN ending \cup {c} ELSE ending

\* Too many requests: the agent hangs up.
HangUp(c) ==
    /\ AtHand(c) /\ clients[c].link = "up" /\ c \notin ending
    /\ Spend("mishaps")
    /\ clients' = [clients EXCEPT ![c] = [@ EXCEPT !.link = "broken", !.held = FALSE]]
    /\ Owes(c)
    /\ UNCHANGED <<directory, wire, keys, rest, stray, scenario>>

\* The process is killed.  An edit of its own under way is finished by the
\* agent's thread; a save of the tiling page is not this process's.
Kill(c) ==
    /\ clients[c].alive /\ c \notin ending
    /\ Spend("mishaps")
    /\ clients' = [clients EXCEPT ![c] = [alive |-> FALSE, open |-> FALSE, capturing |-> FALSE,
                                         link |-> "none", held |-> FALSE]]
    /\ Owes(c)
    /\ UNCHANGED <<directory, wire, keys, rest, stray, scenario>>

Launch(c) ==
    /\ ~clients[c].alive /\ edits[c] = NoEdit
    /\ clients' = [clients EXCEPT ![c] = [@ EXCEPT !.alive = TRUE, !.link = IF agent = "dead" THEN "none" ELSE "up"]]
    /\ UNCHANGED <<directory, wire, keys, rest, ending, stray, scenario, left>>

(* Mutant: the thread of a dead connection forgets what it held. *)
ReleaseNothing(c) ==
    /\ c \in ending /\ edits[c] = NoEdit
    /\ ending' = ending \ {c}
    /\ UNCHANGED <<directory, wire, keys, rest, clients, stray, scenario, left>>

Release(c) ==
    /\ c \in ending /\ edits[c] = NoEdit
    /\ ending' = ending \ {c}
    /\ mail' = Append(mail, Ended)
    /\ UNCHANGED <<directory, engine, keys, rest, clients, stray, scenario, left>>
-----------------------------------------------------------------------------
(* The agent's life. *)
Crash ==
    /\ agent # "dead" /\ Spend("mishaps")
    /\ agent' = "dead"
    /\ Perish(Clients)
    /\ mail' = <<>> /\ reports' = <<>>
    /\ watcher' = AtRestWatcher
    /\ registered' = EmptyTable
    /\ poller' = [hotkeys |-> EmptyTable, suspended |-> FALSE, busy |-> FALSE, failed |-> FALSE]
    /\ clients' = [c \in Clients |->
                    [clients[c] EXCEPT !.held = FALSE, !.link = IF @ = "up" THEN "broken" ELSE @]]
    /\ ending' = {} /\ missed' = FALSE /\ stray' = FALSE
    /\ UNCHANGED <<engine, taken, scenario>>

\* Loads the directory, or falls back, and serves clients before it watches.
Restart ==
    /\ agent = "dead"
    /\ agent' = "starting"
    /\ engine' = FreshEngine(Loaded(files))
    /\ UNCHANGED <<directory, mail, keys, reports, watcher, missed, edges, scenario, left>>

\* The first registration takes no notice of a capture under way; the
\* poller then does.
StartWatching ==
    /\ agent = "starting"
    /\ agent' = "running"
    /\ poller' = [Wanted EXCEPT !.suspended = FALSE]
    /\ UNCHANGED <<directory, wire, registered, taken, reports, watcher, missed, edges, scenario, left>>

\* What the agent's threads do of themselves.
Working ==
    \/ Reduce \/ Forward \/ Reload \/ Watch \/ Poll \/ Register \/ StartWatching
    \/ \E c \in Clients : Release(c)
    \/ \E w \in Writers : Answer(w) \/ Write(w) \/ ReadOn(w)

Next ==
    \/ Working
    \/ \E w \in Writers : Fail(w)
    \/ SaveTiling \/ HandEdit \/ RegistrationFails \/ OtherProgram
    \/ \E c \in Clients :
        \/ AskEdit(c) \/ OpenEditor(c) \/ CloseEditor(c) \/ Request(c)
        \/ HangUp(c) \/ Kill(c) \/ Launch(c)
    \/ Crash \/ Restart

\* Some thread with work to do goes on; nobody else need do anything.
Spec == Init /\ [][Next]_vars /\ WF_vars(Working)
-----------------------------------------------------------------------------
(* Properties. *)

AtRest == Quiet /\ agent = "running"

\* An edit changes the settings in effect once, to what it names and nothing
\* else, or not at all: also a redirect, which writes two files and may be cut
\* short between them (commit, mosaix-config/src/io.rs).
EditsAtOnce == Promise!Spec

\* No step of writing of an edit that was not overtaken leaves a valid directory
\* invalid: not while a file is being replaced, and not between the two files
\* of a redirect.
DirectoryStaysValid ==
    [][\A w \in Writers :
        Valid(files) /\ Pending(w) /\ ~edits[w].raced /\ Write(w) => Valid(files')]_vars

\* A directory that is half written or does not validate is never what the
\* agent runs on: the last good configuration stays in force.
OnlyValidGoesLive == [][engine'.set # engine.set => Valid(engine'.set)]_vars

\* When nothing is under way the agent runs on what the directory says, in
\* whatever order edits were answered and reloads arrived.
LiveIsWritten == AtRest /\ Valid(files) /\ ~missed => engine.set = files

\* When nothing is under way every binding in force whose key has a code is
\* either registered or reported as not registered, and nothing else is; none
\* is while capture suspends them, nor after a registration that did not start.
BindingsAccountedFor ==
    AtRest =>
        IF engine.suspended \/ poller.failed THEN registered = EmptyTable
        ELSE LET wanted == Runtime(engine.set) IN
             /\ DOMAIN registered = Keyed(wanted) \ engine.unregistered
             /\ engine.unregistered \subseteq Keyed(wanted)
             /\ \A c \in DOMAIN registered : registered[c] = wanted[c]

Count(kind) == Cardinality({i \in 1..Len(mail) : mail[i].kind = kind})

\* The reducer's count of holds is the number of connections that hold
\* capture, or died holding it, once its queue is taken into account.
HoldsMatchEditors ==
    agent # "dead" /\ ~stray =>
        engine.holds + Count("started") - Count("ended")
            = Cardinality({c \in Clients : clients[c].held}) + Cardinality(ending)

\* A page that believes it captures over a live connection has the keyboard
\* to itself as soon as the agent has caught up.
EditorOwnsKeys ==
    AtRest /\ ~stray =>
        \A c \in Clients :
            clients[c].capturing /\ clients[c].link = "up" => engine.suspended /\ registered = EmptyTable

\* Whatever happened, the agent comes to rest again, or is dead.
Settles == []<>Quiet
=============================================================================

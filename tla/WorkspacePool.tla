--------------------------- MODULE WorkspacePool ---------------------------
(***************************************************************************)
(* The global workspace pool of crates/mosaix-domain/src/workspace.rs, as  *)
(* a value and the operators on it.  The pool holds which workspaces exist *)
(* and who owns them, which workspace each display shows, and which        *)
(* workspace each managed window belongs to.                               *)
(*                                                                         *)
(* A name is a model value: resolve() compares names without case, so the  *)
(* names of this model are those equivalence classes.  The tree and the    *)
(* last focused window a workspace keeps while hidden are left out; the    *)
(* reducer module says where that matters.                                 *)
(***************************************************************************)
EXTENDS Integers, FiniteSets

CONSTANTS
    Workspace,  \* the names a user or a configuration may choose
    Window,     \* native window handles
    Display,    \* displays that can be connected
    None        \* no workspace, or no display

ASSUME NoneAssumption == None \notin Workspace /\ None \notin Display

Origin == {"Absent", "Configuration", "Command"}

(* BTreeMap<WorkspaceName, Workspace>, HashMap<DisplayId, WorkspaceName>   *)
(* and HashMap<WindowId, WorkspaceName>, each as a total function.         *)
Pool == [origin    : [Workspace -> Origin],
         displayed : [Display -> Workspace \cup {None}],
         member    : [Window -> Workspace \cup {None}]]

Names(p) == {n \in Workspace : p.origin[n] # "Absent"}

IsDisplayed(p, n) == \E d \in Display : p.displayed[d] = n

MembersOf(p, n) == {w \in Window : p.member[w] = n}

(* Mutant: forgets that a hidden workspace may hold windows. *)
HiddenAndEmptyAnyHidden(p) == {n \in Names(p) : ~IsDisplayed(p, n)}

HiddenAndEmpty(p) ==
    {n \in Names(p) : ~IsDisplayed(p, n) /\ MembersOf(p, n) = {}}

(* Mutant: lets a displayed workspace go. *)
CanDeleteDisplayed(p, n) ==
    n \in Names(p) /\ p.origin[n] = "Command" /\ MembersOf(p, n) = {}

(* The live conditions under which check_delete lets a workspace go.  It   *)
(* also refuses a workspace whose stashed tree holds a dormant position,   *)
(* which only makes deletion rarer.                                        *)
CanDelete(p, n) ==
    /\ n \in Names(p)
    /\ ~IsDisplayed(p, n)
    /\ p.origin[n] = "Command"
    /\ MembersOf(p, n) = {}

Create(p, n, origin) ==
    IF n \in Names(p) THEN p ELSE [p EXCEPT !.origin[n] = origin]

Delete(p, n) == [p EXCEPT !.origin[n] = "Absent"]

(* WorkspacePool::display: shown here, it is removed from wherever it was. *)
Show(p, n, d) ==
    [p EXCEPT !.displayed =
        [e \in Display |-> IF e = d THEN n
                           ELSE IF p.displayed[e] = n THEN None
                           ELSE p.displayed[e]]]

(* Mutant: the display it came from keeps showing it. *)
SwapDisplaysCopies(p, from, to) ==
    [p EXCEPT !.displayed[to] = p.displayed[from]]

SwapDisplays(p, from, to) ==
    [p EXCEPT !.displayed =
        [e \in Display |-> IF e = to THEN p.displayed[from]
                           ELSE IF e = from THEN p.displayed[to]
                           ELSE p.displayed[e]]]

(* Mutant: a vanished display goes on showing its workspace. *)
RetainDisplaysAll(p, live) == p

RetainDisplays(p, live) ==
    [p EXCEPT !.displayed =
        [d \in Display |-> IF d \in live THEN p.displayed[d] ELSE None]]

RetainMembers(p, live) ==
    [p EXCEPT !.member =
        [w \in Window |-> IF w \in live THEN p.member[w] ELSE None]]

(* assign, for every window of a map at once: `to` names the workspace of  *)
(* each window that gets one and is None elsewhere.                        *)
Assign(p, to) ==
    [p EXCEPT !.member =
        [w \in Window |-> IF to[w] = None THEN p.member[w] ELSE to[w]]]

-----------------------------------------------------------------------------
(* What every caller relies on.  The first is what the comment in display  *)
(* states; the second and third are the debug assertions of display and    *)
(* assign: only a workspace the pool holds is shown, or has members.       *)
DisplayedOnce(p) ==
    \A d, e \in Display :
        p.displayed[d] # None /\ p.displayed[d] = p.displayed[e] => d = e

DisplayedExists(p) ==
    \A d \in Display : p.displayed[d] # None => p.displayed[d] \in Names(p)

MembersExist(p) ==
    \A w \in Window : p.member[w] # None => p.member[w] \in Names(p)
=============================================================================

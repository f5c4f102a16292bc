---------------------------- MODULE ConfigLayers ----------------------------
(***************************************************************************)
(* The configuration directory as mosaix-config reads and edits it: base   *)
(* config.toml, the profile that matches this desk, their merge, the       *)
(* validation of the pair, and the plan of every edit.                     *)
(*                                                                         *)
(* A pair is [base, profile].  A file is its parsed content, or Garbage    *)
(* when it does not parse; NoProfile when no profile matches.  Of the      *)
(* content the model keeps the bindings, the saved layouts and whether the *)
(* profile enables automatic tiling.  Partial functions stand for the      *)
(* tables of a file.                                                       *)
(***************************************************************************)
CONSTANTS
    Commands, Combos, Names, Cells,
    Defaults,           \* the bindings Mosaix ships: a table of Commands to Combos
    ManualCommands,     \* the commands a desk without automatic tiling keeps
    Applies,            \* command -> the saved layout it applies
    Folded,             \* name -> the name without regard to case
    Garbage, NoProfile

Tables(keys, values) == UNION {[some -> values] : some \in SUBSET keys}

ASSUME LayersAssumption ==
    /\ Defaults \in Tables(Commands, Combos)
    /\ DOMAIN Applies \subseteq Commands  /\ \A c \in DOMAIN Applies : Applies[c] \in Names
    /\ DOMAIN Folded = Names

Base    == [hotkeys : Tables(Commands, Combos), layouts : Tables(Names, Cells)]
Profile == [hotkeys : Tables(Commands, Combos), layouts : Tables(Names, Cells), tiling : BOOLEAN]
Pair    == [base : Base \cup {Garbage}, profile : Profile \cup {NoProfile, Garbage}]

\* What does not parse and what is not there are told from any content.
ASSUME TokensAssumption == Garbage \notin Profile /\ NoProfile \notin Profile

With(table, key, value) ==
    [k \in DOMAIN table \cup {key} |-> IF k = key THEN value ELSE table[k]]
Without(table, key)     == [k \in DOMAIN table \ {key} |-> table[k]]
Over(above, below)      ==
    [k \in DOMAIN above \cup DOMAIN below |-> IF k \in DOMAIN above THEN above[k] ELSE below[k]]

EmptyTable    == [k \in {} |-> k]
EmptyProfile  == [hotkeys |-> EmptyTable, layouts |-> EmptyTable, tiling |-> FALSE]
FallbackPair  == [base |-> [hotkeys |-> Defaults, layouts |-> EmptyTable], profile |-> NoProfile]

Parses(pair)  == pair.base # Garbage /\ pair.profile # Garbage
Layer(pair)   == IF pair.profile = NoProfile THEN EmptyProfile ELSE pair.profile

\* merge: the profile over the base, command by command and name by name.
Resolved(pair) ==
    [hotkeys |-> Over(Layer(pair).hotkeys, pair.base.hotkeys),
     layouts |-> Over(Layer(pair).layouts, pair.base.layouts),
     tiling  |-> Layer(pair).tiling]
-----------------------------------------------------------------------------
(* Validation of the whole directory. *)
Collide(a, b) == Folded[a] = Folded[b]

NoDuplicateBinding(hotkeys) ==
    \A c, d \in DOMAIN hotkeys : hotkeys[c] = hotkeys[d] => c = d
BindingsKnown(hotkeys, layouts) ==
    \A c \in DOMAIN hotkeys \cap DOMAIN Applies : Applies[c] \in DOMAIN layouts
NamesDistinct(names) == \A a, b \in names : Collide(a, b) => a = b

\* Each layer's names and the two layers' together: an exactly equal name
\* in both is an override, one that differs by case is refused.
Valid(pair) ==
    /\ Parses(pair)
    /\ NoDuplicateBinding(pair.base.hotkeys)
    /\ BindingsKnown(pair.base.hotkeys, pair.base.layouts)
    /\ NoDuplicateBinding(Resolved(pair).hotkeys)
    /\ BindingsKnown(Resolved(pair).hotkeys, Resolved(pair).layouts)
    /\ NamesDistinct(DOMAIN Resolved(pair).layouts)
-----------------------------------------------------------------------------
(* Edits and their plans. *)
Edit ==
    [kind : {"set"}, command : Commands, combo : Combos, everywhere : BOOLEAN]
        \cup [kind : {"reset"}, command : Commands]
        \cup [kind : {"save"}, name : Names, cells : Cells, everywhere : BOOLEAN]
        \cup [kind : {"rename", "duplicate"}, name : Names, to : Names]
        \cup [kind : {"delete"}, name : Names]
        \cup [kind : {"tiling"}, on : BOOLEAN]

OfBinding(edit) == edit.kind \in {"set", "reset"}
OfLayout(edit)  == edit.kind \in {"save", "rename", "duplicate", "delete"}

\* A command both layers bind is an override; a layout both declare is not
\* for an edit to decide.
BindingSupplier(pair, command) ==
    IF command \in DOMAIN Layer(pair).hotkeys THEN "profile"
    ELSE IF command \in DOMAIN pair.base.hotkeys THEN "base" ELSE "none"
LayoutSupplier(pair, name) ==
    IF name \in DOMAIN Layer(pair).layouts
    THEN IF name \in DOMAIN pair.base.layouts THEN "both" ELSE "profile"
    ELSE IF name \in DOMAIN pair.base.layouts THEN "base" ELSE "none"
Supplier(pair, edit) ==
    IF OfBinding(edit) THEN BindingSupplier(pair, edit.command)
    ELSE IF OfLayout(edit) THEN LayoutSupplier(pair, edit.name) ELSE "profile"

Redirects(pair, edit) ==
    edit.kind \in {"set", "save"} /\ edit.everywhere /\ Supplier(pair, edit) = "profile"
IntoProfile(pair, edit) == Supplier(pair, edit) = "profile" /\ ~Redirects(pair, edit)

NameTaken(pair, name) == \E other \in DOMAIN Resolved(pair).layouts : Collide(other, name)

Planless(pair, edit) ==
    \/ edit.kind = "reset" /\ Supplier(pair, edit) = "none"
    \/ edit.kind = "save" /\ Supplier(pair, edit) = "none" /\ NameTaken(pair, edit.name)
    \/ edit.kind \in {"rename", "duplicate", "delete"} /\ Supplier(pair, edit) = "none"
    \/ edit.kind = "rename" /\ ~Collide(edit.name, edit.to) /\ NameTaken(pair, edit.to)
    \/ edit.kind = "duplicate" /\ NameTaken(pair, edit.to)
    \/ OfLayout(edit) /\ Supplier(pair, edit) = "both"

\* What the destination's two tables say afterwards.
Bindings(layer, edit, ofProfile) ==
    IF edit.kind = "set" THEN With(layer.hotkeys, edit.command, edit.combo)
    ELSE IF edit.kind = "reset"
         THEN IF ofProfile \/ edit.command \notin DOMAIN Defaults
              THEN Without(layer.hotkeys, edit.command)
              ELSE With(layer.hotkeys, edit.command, Defaults[edit.command])
    ELSE layer.hotkeys
Layouts(layer, edit) ==
    IF edit.kind = "save" THEN With(layer.layouts, edit.name, edit.cells)
    ELSE IF edit.kind = "rename"
         THEN With(Without(layer.layouts, edit.name), edit.to, layer.layouts[edit.name])
    ELSE IF edit.kind = "duplicate"
         THEN With(layer.layouts, edit.to, layer.layouts[edit.name])
    ELSE IF edit.kind = "delete" THEN Without(layer.layouts, edit.name)
    ELSE layer.layouts

\* The layer an edit writes, as it will read: base config, or the profile.
InBase(base, edit) == [hotkeys |-> Bindings(base, edit, FALSE), layouts |-> Layouts(base, edit)]
InProfile(profile, edit) ==
    [hotkeys |-> Bindings(profile, edit, TRUE), layouts |-> Layouts(profile, edit),
     tiling  |-> IF edit.kind = "tiling" THEN edit.on ELSE profile.tiling]

\* A redirect takes the value out of the profile it lived in.
Vacated(profile, edit) ==
    [hotkeys |-> IF edit.kind = "set" THEN Without(profile.hotkeys, edit.command) ELSE profile.hotkeys,
     layouts |-> IF edit.kind = "save" THEN Without(profile.layouts, edit.name) ELSE profile.layouts,
     tiling  |-> profile.tiling]

\* The directory the edit asks for; nothing is written unless it is valid.
Planned(pair, edit) ==
    IF IntoProfile(pair, edit) THEN [base |-> pair.base, profile |-> InProfile(Layer(pair), edit)]
    ELSE [base |-> InBase(pair.base, edit),
          profile |-> IF Redirects(pair, edit) THEN Vacated(pair.profile, edit) ELSE pair.profile]

Accepted(pair, edit) ==
    Parses(pair) /\ ~Planless(pair, edit) /\ Valid(Planned(pair, edit))
-----------------------------------------------------------------------------
(* What a desk registers with the operating system. *)
RuntimeCommands(config) ==
    {c \in DOMAIN config.hotkeys : config.tiling \/ c \in ManualCommands}
RuntimeHotkeys(config)  == [c \in RuntimeCommands(config) |-> config.hotkeys[c]]
=============================================================================

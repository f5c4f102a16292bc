------------------------ MODULE ConfigLayers_proofs ------------------------
(***************************************************************************)
(* What a merge makes of a change to one layer, and what each edit         *)
(* therefore makes of the effective settings, for every set of commands,   *)
(* combinations, names and cells.                                          *)
(***************************************************************************)
EXTENDS ConfigLayers, TLAPS

(* Tables. *)
LEMMA WithTyped ==
    ASSUME NEW K, NEW V, NEW f \in Tables(K, V), NEW k \in K, NEW v \in V
    PROVE  With(f, k, v) \in Tables(K, V)
<1>1. PICK D \in SUBSET K : f \in [D -> V]
  BY DEF Tables
<1>2. With(f, k, v) \in [D \cup {k} -> V]
  BY <1>1 DEF With
<1> QED
  BY <1>1, <1>2 DEF Tables

LEMMA WithoutTyped ==
    ASSUME NEW K, NEW V, NEW f \in Tables(K, V), NEW k
    PROVE  Without(f, k) \in Tables(K, V)
<1>1. PICK D \in SUBSET K : f \in [D -> V]
  BY DEF Tables
<1>2. Without(f, k) \in [D \ {k} -> V]
  BY <1>1 DEF Without
<1> QED
  BY <1>1, <1>2 DEF Tables

LEMMA OverTyped ==
    ASSUME NEW K, NEW V, NEW f \in Tables(K, V), NEW g \in Tables(K, V)
    PROVE  Over(f, g) \in Tables(K, V)
<1>1. PICK D \in SUBSET K : f \in [D -> V]
  BY DEF Tables
<1>2. PICK E \in SUBSET K : g \in [E -> V]
  BY DEF Tables
<1>3. Over(f, g) \in [D \cup E -> V]
  BY <1>1, <1>2 DEF Over
<1> QED
  BY <1>1, <1>2, <1>3 DEF Tables

LEMMA EmptyTyped == ASSUME NEW K, NEW V PROVE EmptyTable \in Tables(K, V)
<1>1. EmptyTable \in [{} -> V]
  BY DEF EmptyTable
<1> QED
  BY <1>1 DEF Tables

LEMMA EntryTyped ==
    ASSUME NEW K, NEW V, NEW f \in Tables(K, V), NEW k \in DOMAIN f
    PROVE  k \in K /\ f[k] \in V
  BY DEF Tables

(* What the merge of two tables makes of a change to one of them. *)
LEMMA OverHidden ==
    ASSUME NEW f, NEW g, NEW k \in DOMAIN f, NEW v
    PROVE  Over(f, With(g, k, v)) = Over(f, g)
  BY DEF Over, With

LEMMA OverWithBelow ==
    ASSUME NEW f, NEW g, NEW k, k \notin DOMAIN f, NEW v
    PROVE  Over(f, With(g, k, v)) = With(Over(f, g), k, v)
  BY DEF Over, With

LEMMA OverWithAbove ==
    ASSUME NEW f, NEW g, NEW k, NEW v
    PROVE  Over(With(f, k, v), g) = With(Over(f, g), k, v)
  BY DEF Over, With

LEMMA OverRedirected ==
    ASSUME NEW f, NEW g, NEW k, NEW v
    PROVE  Over(Without(f, k), With(g, k, v)) = With(Over(f, g), k, v)
  BY DEF Over, With, Without

LEMMA OverWithoutBelow ==
    ASSUME NEW f, NEW g, NEW k, k \notin DOMAIN f
    PROVE  Over(f, Without(g, k)) = Without(Over(f, g), k)
  BY DEF Over, Without

LEMMA OverWithoutAbove ==
    ASSUME NEW f, NEW g, NEW k, k \notin DOMAIN g
    PROVE  Over(Without(f, k), g) = Without(Over(f, g), k)
  BY DEF Over, Without

(* Types of layers and plans. *)
LEMMA LayerTyped ==
    ASSUME NEW pair \in Pair, Parses(pair)
    PROVE  Layer(pair) \in Profile /\ pair.base \in Base
<1>1. EmptyProfile \in Profile
  BY EmptyTyped DEF EmptyProfile, Profile
<1>2. pair.base \in Base \cup {Garbage} /\ pair.profile \in Profile \cup {NoProfile, Garbage}
  BY DEF Pair
<1> QED
  BY <1>1, <1>2 DEF Layer, Parses

LEMMA ResolvedTyped ==
    ASSUME NEW pair \in Pair, Parses(pair)
    PROVE  Resolved(pair) \in Profile
<1>1. Layer(pair).hotkeys \in Tables(Commands, Combos) /\ Layer(pair).layouts \in Tables(Names, Cells)
      /\ Layer(pair).tiling \in BOOLEAN
  BY LayerTyped DEF Profile
<1>2. pair.base.hotkeys \in Tables(Commands, Combos) /\ pair.base.layouts \in Tables(Names, Cells)
  BY LayerTyped DEF Base
<1> QED
  BY <1>1, <1>2, OverTyped DEF Resolved, Profile

\* A value the profile supplies is in a profile that is there.
LEMMA ProfileSupplies ==
    ASSUME NEW pair \in Pair, Parses(pair), NEW edit \in Edit, edit.kind # "tiling",
           Supplier(pair, edit) = "profile"
    PROVE  /\ pair.profile \in Profile /\ Layer(pair) = pair.profile
           /\ OfBinding(edit) => edit.command \in DOMAIN pair.profile.hotkeys
           /\ OfLayout(edit) => /\ edit.name \in DOMAIN pair.profile.layouts
                                /\ edit.name \notin DOMAIN pair.base.layouts
<1>1. pair.profile \in Profile \cup {NoProfile, Garbage}
  BY DEF Pair
<1>2. OfBinding(edit) \/ OfLayout(edit)
  BY DEF Edit, OfBinding, OfLayout
<1>3. ~(OfBinding(edit) /\ OfLayout(edit))
  BY DEF OfBinding, OfLayout
<1>4. /\ OfBinding(edit) => edit.command \in DOMAIN Layer(pair).hotkeys
      /\ OfLayout(edit) => /\ edit.name \in DOMAIN Layer(pair).layouts
                           /\ edit.name \notin DOMAIN pair.base.layouts
  BY <1>3 DEF Supplier, BindingSupplier, LayoutSupplier
<1>5. pair.profile # NoProfile
  BY <1>2, <1>4 DEF Layer, EmptyProfile, EmptyTable
<1> QED
  BY <1>1, <1>4, <1>5 DEF Layer, Parses

LEMMA BindingsTyped ==
    ASSUME NEW layer, layer.hotkeys \in Tables(Commands, Combos), NEW edit \in Edit, NEW ofProfile
    PROVE  Bindings(layer, edit, ofProfile) \in Tables(Commands, Combos)
<1>1. CASE edit.kind = "set"
  <2>1. edit.command \in Commands /\ edit.combo \in Combos
    BY <1>1 DEF Edit
  <2> QED
    BY <1>1, <2>1, WithTyped DEF Bindings
<1>2. CASE edit.kind = "reset"
  <2>1. edit.command \in Commands
    BY <1>2 DEF Edit
  <2>2. Without(layer.hotkeys, edit.command) \in Tables(Commands, Combos)
    BY WithoutTyped
  <2>3. edit.command \in DOMAIN Defaults =>
            With(layer.hotkeys, edit.command, Defaults[edit.command]) \in Tables(Commands, Combos)
    BY <2>1, WithTyped, EntryTyped, LayersAssumption
  <2> QED
    BY <1>2, <2>2, <2>3 DEF Bindings
<1>3. CASE edit.kind \notin {"set", "reset"}
  BY <1>3 DEF Bindings
<1> QED
  BY <1>1, <1>2, <1>3

LEMMA LayoutsTyped ==
    ASSUME NEW layer, layer.layouts \in Tables(Names, Cells), NEW edit \in Edit,
           edit.kind \in {"rename", "duplicate"} => edit.name \in DOMAIN layer.layouts
    PROVE  Layouts(layer, edit) \in Tables(Names, Cells)
<1>1. CASE edit.kind = "save"
  <2>1. edit.name \in Names /\ edit.cells \in Cells
    BY <1>1 DEF Edit
  <2> QED
    BY <1>1, <2>1, WithTyped DEF Layouts
<1>2. CASE edit.kind \in {"rename", "duplicate"}
  <2>1. edit.to \in Names
    BY <1>2 DEF Edit
  <2>2. layer.layouts[edit.name] \in Cells
    BY <1>2, EntryTyped
  <2>3. Without(layer.layouts, edit.name) \in Tables(Names, Cells)
    BY WithoutTyped
  <2> QED
    BY <1>2, <2>1, <2>2, <2>3, WithTyped DEF Layouts
<1>3. CASE edit.kind = "delete"
  BY <1>3, WithoutTyped DEF Layouts
<1>4. CASE edit.kind \notin {"save", "rename", "duplicate", "delete"}
  BY <1>4 DEF Layouts
<1> QED
  BY <1>1, <1>2, <1>3, <1>4

\* A layout an accepted edit takes from, and not the profile's, is the base's alone.
LEMMA BaseSupplies ==
    ASSUME NEW pair \in Pair, NEW edit \in Edit, ~Planless(pair, edit),
           edit.kind \in {"rename", "duplicate", "delete"}, Supplier(pair, edit) # "profile"
    PROVE  edit.name \in DOMAIN pair.base.layouts /\ edit.name \notin DOMAIN Layer(pair).layouts
<1>1. OfLayout(edit) /\ ~OfBinding(edit)
  BY DEF OfLayout, OfBinding
<1>2. Supplier(pair, edit) # "none" /\ Supplier(pair, edit) # "both"
  BY <1>1 DEF Planless
<1> QED
  BY <1>1, <1>2 DEF Supplier, LayoutSupplier

LEMMA LayersWrittenTyped ==
    ASSUME NEW pair \in Pair, Parses(pair), NEW edit \in Edit, ~Planless(pair, edit)
    PROVE  /\ IntoProfile(pair, edit) => InProfile(Layer(pair), edit) \in Profile
           /\ ~IntoProfile(pair, edit) => InBase(pair.base, edit) \in Base
           /\ Redirects(pair, edit) => Vacated(pair.profile, edit) \in Profile
<1>1. pair.base \in Base /\ Layer(pair) \in Profile
  BY LayerTyped
<1>2. /\ pair.base.hotkeys \in Tables(Commands, Combos) /\ pair.base.layouts \in Tables(Names, Cells)
      /\ Layer(pair).hotkeys \in Tables(Commands, Combos) /\ Layer(pair).layouts \in Tables(Names, Cells)
      /\ Layer(pair).tiling \in BOOLEAN
  BY <1>1 DEF Base, Profile
<1>3. ASSUME IntoProfile(pair, edit)
      PROVE  InProfile(Layer(pair), edit) \in Profile
  <2>1. edit.kind \in {"rename", "duplicate"} => edit.name \in DOMAIN Layer(pair).layouts
    BY <1>3, ProfileSupplies DEF IntoProfile, OfLayout
  <2>2. edit.kind = "tiling" => edit.on \in BOOLEAN
    BY DEF Edit
  <2> QED
    BY <1>2, <2>1, <2>2, BindingsTyped, LayoutsTyped DEF InProfile, Profile
<1>4. ASSUME ~IntoProfile(pair, edit)
      PROVE  InBase(pair.base, edit) \in Base
  <2>1. edit.kind \in {"rename", "duplicate"} => edit.name \in DOMAIN pair.base.layouts
    BY <1>4, BaseSupplies DEF IntoProfile, Redirects
  <2> QED
    BY <1>2, <2>1, BindingsTyped, LayoutsTyped DEF InBase, Base
<1>5. ASSUME Redirects(pair, edit)
      PROVE  Vacated(pair.profile, edit) \in Profile
  <2>1. Layer(pair) = pair.profile
    BY <1>5, ProfileSupplies DEF Redirects
  <2> QED
    BY <1>2, <2>1, WithoutTyped DEF Vacated, Profile
<1> QED
  BY <1>3, <1>4, <1>5

LEMMA PlannedTyped ==
    ASSUME NEW pair \in Pair, NEW edit \in Edit, Accepted(pair, edit)
    PROVE  Planned(pair, edit) \in Pair
<1>1. Parses(pair) /\ ~Planless(pair, edit)
  BY DEF Accepted
<1>2. pair.base \in Base /\ pair.profile \in Profile \cup {NoProfile, Garbage}
  BY <1>1, LayerTyped DEF Pair
<1> QED
  BY <1>1, <1>2, LayersWrittenTyped DEF Planned, Pair

(* What an accepted edit does to the settings in effect. *)
\* The first write of a redirect is hidden by the profile.
LEMMA RedirectHidden ==
    ASSUME NEW pair \in Pair, NEW edit \in Edit, Accepted(pair, edit), Redirects(pair, edit),
           NEW half, half.base = Planned(pair, edit).base, half.profile = pair.profile
    PROVE  Resolved(half) = Resolved(pair)
<1>1. Parses(pair) /\ ~IntoProfile(pair, edit)
  BY DEF Accepted, IntoProfile
<1>2. half.base = InBase(pair.base, edit) /\ Layer(half) = Layer(pair)
  BY <1>1 DEF Planned, Layer
<1>3. CASE edit.kind = "set"
  <2>1. edit.command \in DOMAIN Layer(pair).hotkeys
    BY <1>1, <1>3, ProfileSupplies DEF Redirects, OfBinding
  <2> QED
    BY <1>2, <1>3, <2>1, OverHidden DEF Resolved, InBase, Bindings, Layouts
<1>4. CASE edit.kind = "save"
  <2>1. edit.name \in DOMAIN Layer(pair).layouts
    BY <1>1, <1>4, ProfileSupplies DEF Redirects, OfLayout
  <2> QED
    BY <1>2, <1>4, <2>1, OverHidden DEF Resolved, InBase, Bindings, Layouts
<1> QED
  BY <1>3, <1>4 DEF Redirects

LEMMA LayersOfPlan ==
    ASSUME NEW pair \in Pair, NEW edit \in Edit, Accepted(pair, edit)
    PROVE  /\ IntoProfile(pair, edit) =>
                /\ Planned(pair, edit).base = pair.base
                /\ Layer(Planned(pair, edit)) = InProfile(Layer(pair), edit)
           /\ ~IntoProfile(pair, edit) => Planned(pair, edit).base = InBase(pair.base, edit)
           /\ Redirects(pair, edit) =>
                Layer(Planned(pair, edit)) = Vacated(Layer(pair), edit) /\ Layer(pair) = pair.profile
           /\ ~IntoProfile(pair, edit) /\ ~Redirects(pair, edit) =>
                Layer(Planned(pair, edit)) = Layer(pair)
<1>1. Parses(pair) /\ ~Planless(pair, edit)
  BY DEF Accepted
<1>2. /\ IntoProfile(pair, edit) => InProfile(Layer(pair), edit) \in Profile
      /\ Redirects(pair, edit) => Vacated(pair.profile, edit) \in Profile
  BY <1>1, LayersWrittenTyped
<1>3. Redirects(pair, edit) => Layer(pair) = pair.profile
  BY <1>1, ProfileSupplies DEF Redirects
<1>4. Redirects(pair, edit) => ~IntoProfile(pair, edit)
  BY DEF IntoProfile
<1> QED
  BY <1>2, <1>3, <1>4, TokensAssumption DEF Planned, Layer

LEMMA EffectOfSet ==
    ASSUME NEW pair \in Pair, NEW edit \in Edit, Accepted(pair, edit), edit.kind = "set"
    PROVE  Resolved(Planned(pair, edit)) =
             [hotkeys |-> With(Resolved(pair).hotkeys, edit.command, edit.combo),
              layouts |-> Resolved(pair).layouts, tiling |-> Resolved(pair).tiling]
<1>1. CASE IntoProfile(pair, edit)
  BY <1>1, LayersOfPlan, OverWithAbove DEF Resolved, InProfile, Bindings, Layouts
<1>2. CASE Redirects(pair, edit)
  <2>1. ~IntoProfile(pair, edit)
    BY <1>2 DEF IntoProfile
  <2>2. /\ Planned(pair, edit).base = InBase(pair.base, edit)
        /\ Layer(Planned(pair, edit)) = Vacated(Layer(pair), edit)
    BY <1>2, <2>1, LayersOfPlan
  <2>3. InBase(pair.base, edit) =
          [hotkeys |-> With(pair.base.hotkeys, edit.command, edit.combo), layouts |-> pair.base.layouts]
    BY DEF InBase, Bindings, Layouts
  <2>4. Vacated(Layer(pair), edit) =
          [hotkeys |-> Without(Layer(pair).hotkeys, edit.command), layouts |-> Layer(pair).layouts,
           tiling |-> Layer(pair).tiling]
    BY DEF Vacated
  <2> QED
    BY <2>2, <2>3, <2>4, OverRedirected DEF Resolved
<1>3. CASE ~IntoProfile(pair, edit) /\ ~Redirects(pair, edit)
  <2>1. edit.command \notin DOMAIN Layer(pair).hotkeys
    BY <1>3 DEF IntoProfile, Supplier, BindingSupplier, OfBinding
  <2>2. Planned(pair, edit).base = InBase(pair.base, edit) /\ Layer(Planned(pair, edit)) = Layer(pair)
    BY <1>3, LayersOfPlan
  <2>3. InBase(pair.base, edit) =
          [hotkeys |-> With(pair.base.hotkeys, edit.command, edit.combo), layouts |-> pair.base.layouts]
    BY DEF InBase, Bindings, Layouts
  <2> QED
    BY <2>1, <2>2, <2>3, OverWithBelow DEF Resolved
<1> QED
  BY <1>1, <1>2, <1>3

LEMMA EffectOfSave ==
    ASSUME NEW pair \in Pair, NEW edit \in Edit, Accepted(pair, edit), edit.kind = "save"
    PROVE  Resolved(Planned(pair, edit)) =
             [hotkeys |-> Resolved(pair).hotkeys,
              layouts |-> With(Resolved(pair).layouts, edit.name, edit.cells), tiling |-> Resolved(pair).tiling]
<1>1. CASE IntoProfile(pair, edit)
  BY <1>1, LayersOfPlan, OverWithAbove DEF Resolved, InProfile, Bindings, Layouts
<1>2. CASE Redirects(pair, edit)
  <2>1. ~IntoProfile(pair, edit)
    BY <1>2 DEF IntoProfile
  <2>2. /\ Planned(pair, edit).base = InBase(pair.base, edit)
        /\ Layer(Planned(pair, edit)) = Vacated(Layer(pair), edit)
    BY <1>2, <2>1, LayersOfPlan
  <2>3. InBase(pair.base, edit) =
          [hotkeys |-> pair.base.hotkeys, layouts |-> With(pair.base.layouts, edit.name, edit.cells)]
    BY DEF InBase, Bindings, Layouts
  <2>4. Vacated(Layer(pair), edit) =
          [hotkeys |-> Layer(pair).hotkeys, layouts |-> Without(Layer(pair).layouts, edit.name),
           tiling |-> Layer(pair).tiling]
    BY DEF Vacated
  <2> QED
    BY <2>2, <2>3, <2>4, OverRedirected DEF Resolved
<1>3. CASE ~IntoProfile(pair, edit) /\ ~Redirects(pair, edit)
  <2>1. OfLayout(edit) /\ ~OfBinding(edit) /\ Supplier(pair, edit) # "profile"
    BY <1>3 DEF IntoProfile, OfLayout, OfBinding
  <2>2. Supplier(pair, edit) # "both"
    BY <2>1 DEF Accepted, Planless
  <2>3. edit.name \notin DOMAIN Layer(pair).layouts
    BY <2>1, <2>2 DEF Supplier, LayoutSupplier
  <2>4. Planned(pair, edit).base = InBase(pair.base, edit) /\ Layer(Planned(pair, edit)) = Layer(pair)
    BY <1>3, LayersOfPlan
  <2>5. InBase(pair.base, edit) =
          [hotkeys |-> pair.base.hotkeys, layouts |-> With(pair.base.layouts, edit.name, edit.cells)]
    BY DEF InBase, Bindings, Layouts
  <2> QED
    BY <2>3, <2>4, <2>5, OverWithBelow DEF Resolved
<1> QED
  BY <1>1, <1>2, <1>3

\* A reset changes no other command's binding; what is left of it is the
\* layer's below, or the one Mosaix ships.
LEMMA WithoutWith ==
    ASSUME NEW f, NEW g, NEW k, NEW v
    PROVE  /\ Without(Over(f, With(g, k, v)), k) = Without(Over(f, g), k)
           /\ Without(Over(Without(f, k), g), k) = Without(Over(f, g), k)
           /\ Without(Over(f, Without(g, k)), k) = Without(Over(f, g), k)
  BY DEF Over, With, Without

LEMMA EffectOfReset ==
    ASSUME NEW pair \in Pair, NEW edit \in Edit, Accepted(pair, edit), edit.kind = "reset"
    PROVE  /\ edit.command \in DOMAIN Resolved(pair).hotkeys
           /\ Without(Resolved(Planned(pair, edit)).hotkeys, edit.command) =
                Without(Resolved(pair).hotkeys, edit.command)
           /\ Resolved(Planned(pair, edit)).layouts = Resolved(pair).layouts
           /\ Resolved(Planned(pair, edit)).tiling = Resolved(pair).tiling
<1>1. Supplier(pair, edit) # "none" /\ ~Redirects(pair, edit)
  BY DEF Accepted, Planless, Redirects
<1>2. edit.command \in DOMAIN Resolved(pair).hotkeys
  BY <1>1 DEF Supplier, BindingSupplier, OfBinding, Resolved, Over
<1>3. CASE IntoProfile(pair, edit)
  BY <1>2, <1>3, LayersOfPlan, WithoutWith DEF Resolved, InProfile, Bindings, Layouts
<1>4. CASE ~IntoProfile(pair, edit)
  <2>1. Planned(pair, edit).base = InBase(pair.base, edit) /\ Layer(Planned(pair, edit)) = Layer(pair)
    BY <1>1, <1>4, LayersOfPlan
  <2>2. /\ InBase(pair.base, edit).layouts = pair.base.layouts
        /\ \/ InBase(pair.base, edit).hotkeys = Without(pair.base.hotkeys, edit.command)
           \/ InBase(pair.base, edit).hotkeys =
                With(pair.base.hotkeys, edit.command, Defaults[edit.command])
    BY DEF InBase, Bindings, Layouts
  <2> QED
    BY <1>2, <2>1, <2>2, WithoutWith DEF Resolved
<1> QED
  BY <1>3, <1>4

LEMMA EffectOfTiling ==
    ASSUME NEW pair \in Pair, NEW edit \in Edit, Accepted(pair, edit), edit.kind = "tiling"
    PROVE  Resolved(Planned(pair, edit)) =
             [hotkeys |-> Resolved(pair).hotkeys, layouts |-> Resolved(pair).layouts, tiling |-> edit.on]
<1>1. IntoProfile(pair, edit)
  BY DEF IntoProfile, Redirects, Supplier, OfBinding, OfLayout
<1>2. Planned(pair, edit).base = pair.base /\ Layer(Planned(pair, edit)) = InProfile(Layer(pair), edit)
  BY <1>1, LayersOfPlan
<1>3. InProfile(Layer(pair), edit) =
        [hotkeys |-> Layer(pair).hotkeys, layouts |-> Layer(pair).layouts, tiling |-> edit.on]
  BY DEF InProfile, Bindings, Layouts
<1> QED
  BY <1>2, <1>3 DEF Resolved

\* Rename, duplicate and delete take from one layer, which alone has the name.
LEMMA OnlyThere ==
    ASSUME NEW pair \in Pair, NEW edit \in Edit, Accepted(pair, edit),
           edit.kind \in {"rename", "duplicate", "delete"}
    PROVE  /\ edit.name \in DOMAIN Resolved(pair).layouts
           /\ ~Redirects(pair, edit)
           /\ IntoProfile(pair, edit) =>
                /\ edit.name \in DOMAIN Layer(pair).layouts /\ edit.name \notin DOMAIN pair.base.layouts
                /\ Resolved(pair).layouts[edit.name] = Layer(pair).layouts[edit.name]
           /\ ~IntoProfile(pair, edit) =>
                /\ edit.name \notin DOMAIN Layer(pair).layouts /\ edit.name \in DOMAIN pair.base.layouts
                /\ Resolved(pair).layouts[edit.name] = pair.base.layouts[edit.name]
<1>1. ~Redirects(pair, edit) /\ OfLayout(edit)
  BY DEF Redirects, OfLayout
<1>2. Parses(pair) /\ ~Planless(pair, edit)
  BY DEF Accepted
<1>3. IntoProfile(pair, edit) =>
        edit.name \in DOMAIN Layer(pair).layouts /\ edit.name \notin DOMAIN pair.base.layouts
  BY <1>1, <1>2, ProfileSupplies DEF IntoProfile
<1>4. ~IntoProfile(pair, edit) =>
        edit.name \notin DOMAIN Layer(pair).layouts /\ edit.name \in DOMAIN pair.base.layouts
  BY <1>1, <1>2, BaseSupplies DEF IntoProfile
<1> QED
  BY <1>1, <1>3, <1>4 DEF Resolved, Over

LEMMA EffectOfDelete ==
    ASSUME NEW pair \in Pair, NEW edit \in Edit, Accepted(pair, edit), edit.kind = "delete"
    PROVE  Resolved(Planned(pair, edit)) =
             [hotkeys |-> Resolved(pair).hotkeys, layouts |-> Without(Resolved(pair).layouts, edit.name),
              tiling |-> Resolved(pair).tiling]
<1>1. CASE IntoProfile(pair, edit)
  <2>1. Planned(pair, edit).base = pair.base /\ Layer(Planned(pair, edit)) = InProfile(Layer(pair), edit)
    BY <1>1, LayersOfPlan
  <2>2. InProfile(Layer(pair), edit) =
          [hotkeys |-> Layer(pair).hotkeys, layouts |-> Without(Layer(pair).layouts, edit.name),
           tiling |-> Layer(pair).tiling]
    BY DEF InProfile, Bindings, Layouts
  <2> QED
    BY <1>1, <2>1, <2>2, OnlyThere, OverWithoutAbove DEF Resolved
<1>2. CASE ~IntoProfile(pair, edit)
  <2>1. Planned(pair, edit).base = InBase(pair.base, edit) /\ Layer(Planned(pair, edit)) = Layer(pair)
    BY <1>2, LayersOfPlan, OnlyThere
  <2>2. InBase(pair.base, edit) =
          [hotkeys |-> pair.base.hotkeys, layouts |-> Without(pair.base.layouts, edit.name)]
    BY DEF InBase, Bindings, Layouts
  <2> QED
    BY <1>2, <2>1, <2>2, OnlyThere, OverWithoutBelow DEF Resolved
<1> QED
  BY <1>1, <1>2

LEMMA EffectOfDuplicate ==
    ASSUME NEW pair \in Pair, NEW edit \in Edit, Accepted(pair, edit), edit.kind = "duplicate"
    PROVE  /\ edit.to \notin DOMAIN Resolved(pair).layouts
           /\ Resolved(Planned(pair, edit)) =
                [hotkeys |-> Resolved(pair).hotkeys,
                 layouts |-> With(Resolved(pair).layouts, edit.to, Resolved(pair).layouts[edit.name]),
                 tiling |-> Resolved(pair).tiling]
<1>1. edit.to \notin DOMAIN Resolved(pair).layouts
  BY DEF Accepted, Planless, NameTaken, Collide
<1>2. CASE IntoProfile(pair, edit)
  <2>1. Planned(pair, edit).base = pair.base /\ Layer(Planned(pair, edit)) = InProfile(Layer(pair), edit)
    BY <1>2, LayersOfPlan
  <2>2. InProfile(Layer(pair), edit) =
          [hotkeys |-> Layer(pair).hotkeys, tiling |-> Layer(pair).tiling,
           layouts |-> With(Layer(pair).layouts, edit.to, Resolved(pair).layouts[edit.name])]
    BY <1>2, OnlyThere DEF InProfile, Bindings, Layouts
  <2> QED
    BY <1>1, <2>1, <2>2, OverWithAbove DEF Resolved
<1>3. CASE ~IntoProfile(pair, edit)
  <2>1. Planned(pair, edit).base = InBase(pair.base, edit) /\ Layer(Planned(pair, edit)) = Layer(pair)
    BY <1>3, LayersOfPlan, OnlyThere
  <2>2. InBase(pair.base, edit) =
          [hotkeys |-> pair.base.hotkeys,
           layouts |-> With(pair.base.layouts, edit.to, Resolved(pair).layouts[edit.name])]
    BY <1>3, OnlyThere DEF InBase, Bindings, Layouts
  <2>3. edit.to \notin DOMAIN Layer(pair).layouts
    BY <1>1 DEF Resolved, Over
  <2> QED
    BY <1>1, <2>1, <2>2, <2>3, OverWithBelow DEF Resolved
<1> QED
  BY <1>2, <1>3

\* Of two spellings of one name the profile's wins: a rename to the other
\* spelling is promised nothing.
LEMMA EffectOfRename ==
    ASSUME NEW pair \in Pair, NEW edit \in Edit, Accepted(pair, edit), edit.kind = "rename",
           NamesDistinct(DOMAIN Resolved(pair).layouts)
    PROVE  Resolved(Planned(pair, edit)) =
             [hotkeys |-> Resolved(pair).hotkeys,
              layouts |-> With(Without(Resolved(pair).layouts, edit.name), edit.to,
                               Resolved(pair).layouts[edit.name]),
              tiling |-> Resolved(pair).tiling]
<1>1. edit.to \in DOMAIN Resolved(pair).layouts => edit.to = edit.name
  <2>1. CASE Collide(edit.name, edit.to)
    BY <2>1, OnlyThere DEF NamesDistinct
  <2>2. CASE ~Collide(edit.name, edit.to)
    BY <2>2 DEF Accepted, Planless, NameTaken, Collide
  <2> QED
    BY <2>1, <2>2
<1>2. CASE IntoProfile(pair, edit)
  <2>1. Planned(pair, edit).base = pair.base /\ Layer(Planned(pair, edit)) = InProfile(Layer(pair), edit)
    BY <1>2, LayersOfPlan
  <2>2. InProfile(Layer(pair), edit) =
          [hotkeys |-> Layer(pair).hotkeys, tiling |-> Layer(pair).tiling,
           layouts |-> With(Without(Layer(pair).layouts, edit.name), edit.to,
                            Resolved(pair).layouts[edit.name])]
    BY <1>2, OnlyThere DEF InProfile, Bindings, Layouts
  <2> QED
    BY <1>2, <2>1, <2>2, OnlyThere, OverWithAbove, OverWithoutAbove DEF Resolved
<1>3. CASE ~IntoProfile(pair, edit)
  <2>1. Planned(pair, edit).base = InBase(pair.base, edit) /\ Layer(Planned(pair, edit)) = Layer(pair)
    BY <1>3, LayersOfPlan, OnlyThere
  <2>2. InBase(pair.base, edit) =
          [hotkeys |-> pair.base.hotkeys,
           layouts |-> With(Without(pair.base.layouts, edit.name), edit.to,
                            Resolved(pair).layouts[edit.name])]
    BY <1>3, OnlyThere DEF InBase, Bindings, Layouts
  <2>3. edit.to \notin DOMAIN Layer(pair).layouts
    BY <1>1, <1>3, OnlyThere DEF Resolved, Over
  <2> QED
    BY <1>3, <2>1, <2>2, <2>3, OnlyThere, OverWithBelow, OverWithoutBelow DEF Resolved
<1> QED
  BY <1>2, <1>3
=============================================================================

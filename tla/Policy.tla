------------------------------- MODULE Policy -------------------------------
(***************************************************************************)
(* resolve_policy: the effective policy of a system on a route, merged     *)
(* from four layers.  A profile; the system's overrides of it; the types   *)
(* of the route; the system's overrides for that route.                    *)
(*                                                                         *)
(* A map of the configuration is a total function with Absent for what it  *)
(* does not mention.  Names that are not strings of the code are values of *)
(* small sets.                                                             *)
(***************************************************************************)
EXTENDS Integers, FiniteSets

CONSTANTS
    PdType, Mask, Rule, Filter,
    ProfileName, System, Route,
    Address, AddressParts,   \* the type ADDRESS, and its ADDR_* components
    Absent

\* What a layer says of a type: a mask, whether an address is masked part
\* by part (mode: components), or that the type is not masked at all.
TypeSetting == [mask : Mask, parts : BOOLEAN, disabled : BOOLEAN]
Types == [PdType -> TypeSetting \union {Absent}]

\* The rule of a type, none for "drop the rule of the layer below".
None == [none |-> TRUE]
Combination == [rules : [PdType -> Rule \union {Absent, None}],
                min_distinct_types : Nat, always_mask : SUBSET PdType]

\* ambiguous_ids is merged as on_failure is.
Profile == [types : Types, ner : BOOLEAN, ner_types : SUBSET PdType,
            on_failure : {"fail", "degrade", Absent},
            filters : SUBSET Filter, combination : Combination,
            demask : BOOLEAN \union {Absent}]

RouteOverride == [types : Types, combination : Combination \union {Absent},
                  demask : BOOLEAN \union {Absent}]

SystemConfig == [enabled : BOOLEAN, profile : ProfileName \union {Absent},
                 demask : BOOLEAN, overrides : Profile \union {Absent},
                 route_overrides : [Route -> RouteOverride \union {Absent}]]

Action == {"mask", "bypass", "block"}

RouteConfig == [systems : SUBSET System, profile : ProfileName \union {Absent},
                types : Types, demask : BOOLEAN, action : Action \union {Absent}]

Config == [profiles : [ProfileName -> Profile \union {Absent}],
           default_profile : ProfileName \union {Absent},
           default_action : Action,
           systems : [System -> SystemConfig \union {Absent}],
           routes : [Route -> RouteConfig \union {Absent}]]

\* What is absent is nothing that could be there.
ASSUME PolicyAssumption ==
    /\ Absent \notin TypeSetting /\ Absent \notin BOOLEAN
    /\ Absent \notin Profile /\ Absent \notin SystemConfig
    /\ Absent \notin RouteConfig /\ Absent \notin RouteOverride

NoRule == [t \in PdType |-> Absent]
NoTypes == [t \in PdType |-> Absent]

\* ProfileConfig::default().
EmptyProfile ==
    [types |-> NoTypes, ner |-> FALSE, ner_types |-> {}, on_failure |-> Absent,
     filters |-> {}, demask |-> Absent,
     combination |-> [rules |-> NoRule, min_distinct_types |-> 0, always_mask |-> {}]]

-----------------------------------------------------------------------------
(* validate, as far as the policy depends on it.  Types are checked in     *)
(* profiles alone, profiles in systems and defaults alone.                 *)

Declared(cfg, name) == name \in {Absent} \union {n \in ProfileName : cfg.profiles[n] # Absent}

Valid(cfg) ==
    /\ Declared(cfg, cfg.default_profile)
    /\ \A s \in System :
          cfg.systems[s] # Absent => Declared(cfg, cfg.systems[s].profile)

-----------------------------------------------------------------------------
(* Merging.                                                                *)

\* What is set in the upper of two layers hides the lower one.
Or(upper, lower) == IF upper = Absent THEN lower ELSE upper

\* A list of the overrides replaces the whole list unless it is empty.
OrList(upper, lower) == IF upper = {} THEN lower ELSE upper

InsertTypes(base, ov) == [t \in PdType |-> Or(ov[t], base[t])]

MergeTypes(base, ov) ==
    [t \in PdType |-> IF ov[t] # Absent /\ ov[t].disabled THEN Absent ELSE Or(ov[t], base[t])]

MergeCombination(base, ov) ==
    [rules |-> [t \in PdType |-> IF ov.rules[t] = None THEN Absent
                                 ELSE Or(ov.rules[t], base.rules[t])],
     min_distinct_types |-> IF ov.min_distinct_types = 0 THEN base.min_distinct_types
                            ELSE ov.min_distinct_types,
     always_mask |-> OrList(ov.always_mask, base.always_mask)]

\* deep_merge_profile.  The engine is only ever switched on.
DeepMerge(base, ov) ==
    [types |-> MergeTypes(base.types, ov.types),
     ner |-> base.ner \/ ov.ner,
     ner_types |-> OrList(ov.ner_types, base.ner_types),
     on_failure |-> Or(ov.on_failure, base.on_failure),
     filters |-> OrList(ov.filters, base.filters),
     combination |-> MergeCombination(base.combination, ov.combination),
     demask |-> Or(ov.demask, base.demask)]

\* The profile a request starts from.  A name that is not declared, which
\* only a route can have, is the empty profile.
BaseProfile(cfg, system, route) ==
    LET name == Or(route.profile, Or(system.profile, cfg.default_profile)) IN
    IF name = Absent \/ cfg.profiles[name] = Absent THEN EmptyProfile
    ELSE cfg.profiles[name]

\* What a request without a route, or with an unknown one, is on.
NoRoute == [systems |-> {}, profile |-> Absent, types |-> NoTypes, demask |-> TRUE,
            action |-> Absent]
NoOverride == [types |-> NoTypes, combination |-> Absent, demask |-> Absent]

RouteOf(cfg, r) ==
    IF r = Absent THEN NoRoute ELSE IF cfg.routes[r] = Absent THEN NoRoute ELSE cfg.routes[r]
OverrideOf(system, r) ==
    IF r = Absent THEN NoOverride ELSE Or(system.route_overrides[r], NoOverride)

MergedProfileRouteLast(cfg, system, r) ==
    LET route == RouteOf(cfg, r)
        ro == OverrideOf(system, r)
        base == BaseProfile(cfg, system, route)
        p == IF system.overrides = Absent THEN base ELSE DeepMerge(base, system.overrides)
    IN [p EXCEPT !.types = InsertTypes(InsertTypes(@, ro.types), route.types),
                 !.combination = Or(ro.combination, @),
                 !.demask = Or(ro.demask, @)]
MergedProfile(cfg, system, r) ==
    LET route == RouteOf(cfg, r)
        ro == OverrideOf(system, r)
        base == BaseProfile(cfg, system, route)
        p == IF system.overrides = Absent THEN base ELSE DeepMerge(base, system.overrides)
    IN [p EXCEPT !.types = InsertTypes(InsertTypes(@, route.types), ro.types),
                 !.combination = Or(ro.combination, @),
                 !.demask = Or(ro.demask, @)]

-----------------------------------------------------------------------------
(* build_effective and enable_address_components.                          *)

Enabled(types) == {t \in PdType : types[t] # Absent /\ ~types[t].disabled}

PartsByAddress(types) ==
    IF Address \in Enabled(types) /\ types[Address].parts THEN AddressParts ELSE {}
\* A type that is masked part by part, whichever it is, switches the mode on;
\* an address then needs its parts among the types.
Parts(types) ==
    IF Address \in Enabled(types) /\ \E t \in Enabled(types) : types[t].parts
    THEN AddressParts ELSE {}

MaskKinds(types) ==
    [t \in Enabled(types) \union Parts(types) |->
        IF t \in Enabled(types) THEN types[t].mask ELSE types[Address].mask]

DemaskAnyLayer(route, system, p) ==
    route.demask /\ (system.demask \/ p.demask = TRUE)
Demask(route, system, p) == route.demask /\ system.demask /\ p.demask \in {TRUE, Absent}

BuildEffective(p, demask, action) ==
    [action |-> action,
     mask_kinds |-> MaskKinds(p.types),
     parts |-> \E t \in Enabled(p.types) : p.types[t].parts,
     demask |-> demask,
     ner |-> p.ner, ner_types |-> p.ner_types,
     ner_on_failure |-> IF p.on_failure = "fail" THEN "fail" ELSE "degrade",
     filters |-> p.filters,
     min_distinct_types |-> p.combination.min_distinct_types,
     always_mask |-> p.combination.always_mask,
     rules |-> [t \in PdType |-> IF p.combination.rules[t] = None THEN Absent
                                 ELSE p.combination.rules[t]]]

\* Why resolve_policy gives no policy, or "none".
Refusal(cfg, s, r) ==
    LET system == cfg.systems[s]
        route == RouteOf(cfg, r)
    IN IF system = Absent THEN "unknown system"
       ELSE IF ~system.enabled THEN "system disabled"
       ELSE IF route.systems # {} /\ s \notin route.systems THEN "route forbidden"
       ELSE "none"

\* resolve_policy.
EffectivePolicy(cfg, s, r) ==
    LET route == RouteOf(cfg, r)
        p == MergedProfile(cfg, cfg.systems[s], r)
    IN BuildEffective(p, Demask(route, cfg.systems[s], p), Or(route.action, cfg.default_action))

-----------------------------------------------------------------------------
(* Reference definitions.                                                  *)

\* The layers of a type's setting, from the last to the first.
TypeLayers(cfg, system, r, t) ==
    <<OverrideOf(system, r).types[t],
      RouteOf(cfg, r).types[t],
      IF system.overrides = Absent THEN Absent ELSE system.overrides.types[t],
      BaseProfile(cfg, system, RouteOf(cfg, r)).types[t]>>

\* The layers of the permission to demask a response, likewise.
DemaskLayers(cfg, system, r) ==
    <<OverrideOf(system, r).demask,
      IF system.overrides = Absent THEN Absent ELSE system.overrides.demask,
      BaseProfile(cfg, system, RouteOf(cfg, r)).demask>>

Speaks(layers, i) ==
    i \in DOMAIN layers /\ layers[i] # Absent /\ \A j \in 1..i - 1 : layers[j] = Absent

(* The layer nearest to the request that mentions a type decides whether   *)
(* it is masked and how; the parts of an address that none mentions go the *)
(* way of the address.                                                     *)
NearestLayerDecides(cfg, s, r, policy) ==
    LET system == cfg.systems[s]
        Layers(t) == TypeLayers(cfg, system, r, t)
        Says(t, mask) == \E i \in 1..4 :
            Speaks(Layers(t), i) /\ ~Layers(t)[i].disabled /\ Layers(t)[i].mask = mask
        Masked(t) == t \in DOMAIN policy.mask_kinds
    IN \A t \in PdType :
         /\ (\E mask \in Mask : Says(t, mask)) => Masked(t) /\ Says(t, policy.mask_kinds[t])
         /\ Masked(t) => \/ Says(t, policy.mask_kinds[t])
                         \/ t \in AddressParts /\ Says(Address, policy.mask_kinds[t])

(* A response is demasked only if its route, its system and the nearest    *)
(* layer that speaks of it all let it be.                                  *)
DemaskNeedsAll(cfg, s, r, policy) ==
    LET system == cfg.systems[s]
        layers == DemaskLayers(cfg, system, r)
    IN policy.demask <=>
          /\ system.demask /\ RouteOf(cfg, r).demask
          /\ \A i \in 1..3 : Speaks(layers, i) => layers[i]

(* An address that is masked part by part leaves no part of it unmasked.   *)
PartsCovered(policy) ==
    policy.parts /\ Address \in DOMAIN policy.mask_kinds =>
        AddressParts \subseteq DOMAIN policy.mask_kinds
=============================================================================

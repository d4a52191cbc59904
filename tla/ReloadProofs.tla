---------------------------- MODULE ReloadProofs ----------------------------
(***************************************************************************)
(* Theorems about Reload and Policy: what the resolver computes follows    *)
(* the layers of the configuration, whatever the configuration says.       *)
(***************************************************************************)
EXTENDS Reload, TLAPS

-----------------------------------------------------------------------------
(* The merge of the layers of types and of the permission to demask.       *)

\* The profile under the overrides of a route.
Overridden(cfg, system, r) ==
    LET base == BaseProfile(cfg, system, RouteOf(cfg, r)) IN
    IF system.overrides = Absent THEN base ELSE DeepMerge(base, system.overrides)

LEMMA EmptyType == NoTypes \in Types /\ EmptyProfile.types = NoTypes
  BY DEF NoTypes, Types, EmptyProfile

LEMMA ConfigFacts ==
    ASSUME NEW cfg \in Config, NEW s \in System, NEW r \in Route, cfg.systems[s] # Absent
    PROVE  /\ cfg.systems[s] \in SystemConfig
           /\ RouteOf(cfg, r) \in RouteConfig \union {NoRoute}
           /\ OverrideOf(cfg.systems[s], r) \in RouteOverride \union {NoOverride}
           /\ BaseProfile(cfg, cfg.systems[s], RouteOf(cfg, r)) \in Profile \union {EmptyProfile}
           /\ cfg.systems[s].overrides \in Profile \union {Absent}
<1>1. cfg.systems[s] \in SystemConfig
  BY DEF Config
<1>2. /\ cfg.systems[s].overrides \in Profile \union {Absent}
      /\ cfg.systems[s].route_overrides[r] \in RouteOverride \union {Absent}
      /\ cfg.systems[s].profile \in ProfileName \union {Absent}
  BY <1>1 DEF SystemConfig
<1>3. /\ cfg.routes[r] \in RouteConfig \union {Absent}
      /\ cfg.default_profile \in ProfileName \union {Absent}
      /\ cfg.profiles \in [ProfileName -> Profile \union {Absent}]
  BY DEF Config
<1>4. RouteOf(cfg, r) \in RouteConfig \union {NoRoute}
  BY <1>3 DEF RouteOf
<1>5. RouteOf(cfg, r).profile \in ProfileName \union {Absent}
  BY <1>4 DEF RouteConfig, NoRoute
<1>6. OverrideOf(cfg.systems[s], r) \in RouteOverride \union {NoOverride}
  BY <1>2 DEF OverrideOf, Or
<1>7. BaseProfile(cfg, cfg.systems[s], RouteOf(cfg, r)) \in Profile \union {EmptyProfile}
  BY <1>2, <1>3, <1>5 DEF BaseProfile, Or
<1> QED
  BY <1>1, <1>2, <1>4, <1>6, <1>7

LEMMA MergedFields ==
    ASSUME NEW cfg \in Config, NEW s \in System, NEW r \in Route, cfg.systems[s] # Absent
    PROVE  LET system == cfg.systems[s]
               p == Overridden(cfg, system, r)
               merged == MergedProfile(cfg, system, r)
           IN /\ merged.types = InsertTypes(InsertTypes(p.types, RouteOf(cfg, r).types),
                                            OverrideOf(system, r).types)
              /\ merged.demask = Or(OverrideOf(system, r).demask, p.demask)
<1> DEFINE system == cfg.systems[s]
           base == BaseProfile(cfg, system, RouteOf(cfg, r))
           p == Overridden(cfg, system, r)
           merged == MergedProfile(cfg, system, r)
<1>1. base \in Profile \union {EmptyProfile}
  BY ConfigFacts
<1>2. {"types", "combination", "demask"} \subseteq DOMAIN p
  <2>1. CASE system.overrides = Absent
    <3>1. p = base
      BY <2>1 DEF Overridden
    <3>2. CASE base \in Profile
      BY <3>1, <3>2 DEF Profile
    <3>3. CASE base = EmptyProfile
      BY <3>1, <3>3 DEF EmptyProfile
    <3> QED
      BY <1>1, <3>2, <3>3
  <2>2. CASE system.overrides # Absent
    <3>1. p = DeepMerge(base, system.overrides)
      BY <2>2 DEF Overridden
    <3> QED
      BY <3>1 DEF DeepMerge
  <2> QED
    BY <2>1, <2>2
<1>3. merged = [p EXCEPT
          !.types = InsertTypes(InsertTypes(p.types, RouteOf(cfg, r).types), OverrideOf(system, r).types),
          !.combination = Or(OverrideOf(system, r).combination, p.combination),
          !.demask = Or(OverrideOf(system, r).demask, p.demask)]
  BY DEF MergedProfile, Overridden
<1> HIDE DEF p, merged
<1>4. /\ merged.types = InsertTypes(InsertTypes(p.types, RouteOf(cfg, r).types),
                                    OverrideOf(system, r).types)
      /\ merged.demask = Or(OverrideOf(system, r).demask, p.demask)
  BY <1>2, <1>3
<1> QED
  BY <1>4 DEF p, merged

\* Four layers, and what is left of them when they are merged.
Merge4(a, b, c, d) ==
    Or(a, Or(b, IF c # Absent /\ c.disabled THEN Absent ELSE Or(c, d)))

LEMMA NearestOfFour ==
    ASSUME NEW a \in TypeSetting \union {Absent}, NEW b \in TypeSetting \union {Absent},
           NEW c \in TypeSetting \union {Absent}, NEW d \in TypeSetting \union {Absent}
    PROVE  LET layers == <<a, b, c, d>>
               x == Merge4(a, b, c, d)
           IN /\ \A i \in 1..4 :
                    Speaks(layers, i) /\ ~layers[i].disabled => x = layers[i] /\ x # Absent
              /\ x # Absent /\ ~x.disabled => \E i \in 1..4 : Speaks(layers, i) /\ layers[i] = x
              /\ x \in TypeSetting \union {Absent}
<1> DEFINE layers == <<a, b, c, d>>
           x == Merge4(a, b, c, d)
<1>1. /\ layers[1] = a /\ layers[2] = b /\ layers[3] = c /\ layers[4] = d
      /\ DOMAIN layers = 1..4
  OBVIOUS
<1> HIDE DEF layers
<1>2. /\ Speaks(layers, 1) <=> a # Absent
      /\ Speaks(layers, 2) <=> b # Absent /\ a = Absent
      /\ Speaks(layers, 3) <=> c # Absent /\ a = Absent /\ b = Absent
      /\ Speaks(layers, 4) <=> d # Absent /\ a = Absent /\ b = Absent /\ c = Absent
  <2>1. /\ 1..1 - 1 = {} /\ 1..2 - 1 = {1} /\ 1..3 - 1 = {1, 2} /\ 1..4 - 1 = {1, 2, 3}
        /\ 1 \in 1..4 /\ 2 \in 1..4 /\ 3 \in 1..4 /\ 4 \in 1..4
    OBVIOUS
  <2> QED
    BY <1>1, <2>1 DEF Speaks
<1>3. \A i \in 1..4 : i = 1 \/ i = 2 \/ i = 3 \/ i = 4
  OBVIOUS
<1>4. \A i \in 1..4 :
          Speaks(layers, i) /\ ~layers[i].disabled => x = layers[i] /\ x # Absent
  BY <1>1, <1>2, <1>3 DEF Merge4, Or
<1>5. ASSUME x # Absent, ~x.disabled
      PROVE  \E i \in 1..4 : Speaks(layers, i) /\ layers[i] = x
  <2>1. CASE a # Absent
    BY <2>1, <1>1, <1>2 DEF Merge4, Or
  <2>2. CASE a = Absent /\ b # Absent
    BY <2>2, <1>1, <1>2 DEF Merge4, Or
  <2>3. CASE a = Absent /\ b = Absent /\ c # Absent
    BY <2>3, <1>1, <1>2, <1>5 DEF Merge4, Or
  <2>4. CASE a = Absent /\ b = Absent /\ c = Absent
    BY <2>4, <1>1, <1>2, <1>5 DEF Merge4, Or
  <2> QED
    BY <2>1, <2>2, <2>3, <2>4
<1>6. x \in TypeSetting \union {Absent}
  BY DEF Merge4, Or
<1> QED
  BY <1>4, <1>5, <1>6 DEF layers

LEMMA MergedTypes ==
    ASSUME NEW cfg \in Config, NEW s \in System, NEW r \in Route, cfg.systems[s] # Absent,
           NEW t \in PdType
    PROVE  LET system == cfg.systems[s]
               layers == TypeLayers(cfg, system, r, t)
               x == MergedProfile(cfg, system, r).types[t]
           IN /\ \A i \in 1..4 :
                    Speaks(layers, i) /\ ~layers[i].disabled => x = layers[i] /\ x # Absent
              /\ x # Absent /\ ~x.disabled => \E i \in 1..4 : Speaks(layers, i) /\ layers[i] = x
<1> DEFINE system == cfg.systems[s]
           base == BaseProfile(cfg, system, RouteOf(cfg, r))
           a == OverrideOf(system, r).types[t]
           b == RouteOf(cfg, r).types[t]
           c == IF system.overrides = Absent THEN Absent ELSE system.overrides.types[t]
           d == base.types[t]
           p == Overridden(cfg, system, r)
           x == MergedProfile(cfg, system, r).types[t]
<1>1. \A types \in Types : types[t] \in TypeSetting \union {Absent}
  BY DEF Types
<1>2. /\ OverrideOf(system, r).types \in Types
      /\ RouteOf(cfg, r).types \in Types
      /\ base.types \in Types
      /\ system.overrides # Absent => system.overrides.types \in Types
  <2>1. OverrideOf(system, r).types \in Types
    BY ConfigFacts, EmptyType DEF RouteOverride, NoOverride
  <2>2. RouteOf(cfg, r).types \in Types
    BY ConfigFacts, EmptyType DEF RouteConfig, NoRoute
  <2>3. base.types \in Types
    BY ConfigFacts, EmptyType DEF Profile
  <2>4. system.overrides # Absent => system.overrides.types \in Types
    BY ConfigFacts DEF Profile
  <2> QED
    BY <2>1, <2>2, <2>3, <2>4
<1>3. /\ a \in TypeSetting \union {Absent} /\ b \in TypeSetting \union {Absent}
      /\ c \in TypeSetting \union {Absent} /\ d \in TypeSetting \union {Absent}
  BY <1>1, <1>2
<1>4. p.types[t] = IF c # Absent /\ c.disabled THEN Absent ELSE Or(c, d)
  <2>1. CASE system.overrides = Absent
    <3>1. p = base
      BY <2>1 DEF Overridden
    <3> QED
      BY <2>1, <3>1 DEF Or
  <2>2. CASE system.overrides # Absent
    <3>1. p.types = MergeTypes(base.types, system.overrides.types)
      BY <2>2 DEF Overridden, DeepMerge
    <3>2. c = system.overrides.types[t]
      BY <2>2
    <3> QED
      BY <3>1, <3>2 DEF MergeTypes
  <2> QED
    BY <2>1, <2>2
<1>5. x = Or(a, Or(b, p.types[t]))
  <2>1. MergedProfile(cfg, system, r).types
          = InsertTypes(InsertTypes(p.types, RouteOf(cfg, r).types), OverrideOf(system, r).types)
    BY MergedFields
  <2> QED
    BY <2>1 DEF InsertTypes
<1>6. TypeLayers(cfg, system, r, t) = <<a, b, c, d>>
  BY DEF TypeLayers
<1> HIDE DEF a, b, c, d, p, x
<1>7. x = Merge4(a, b, c, d)
  BY <1>4, <1>5 DEF Merge4
<1>8. /\ \A i \in 1..4 :
            Speaks(<<a, b, c, d>>, i) /\ ~<<a, b, c, d>>[i].disabled
            => x = <<a, b, c, d>>[i] /\ x # Absent
      /\ x # Absent /\ ~x.disabled
         => \E i \in 1..4 : Speaks(<<a, b, c, d>>, i) /\ <<a, b, c, d>>[i] = x
  BY <1>3, <1>7, NearestOfFour
<1> QED
  BY <1>6, <1>8 DEF x

-----------------------------------------------------------------------------
(* The policy of any configuration.                                        *)

(* What resolve_policy masks, and how, is what the nearest layer says.     *)
THEOREM PolicyFollowsNearestLayer ==
    ASSUME NEW cfg \in Config, NEW s \in System, NEW r \in Route, cfg.systems[s] # Absent
    PROVE  /\ NearestLayerDecides(cfg, s, r, EffectivePolicy(cfg, s, r))
           /\ PartsCovered(EffectivePolicy(cfg, s, r))
<1> DEFINE system == cfg.systems[s]
           types == MergedProfile(cfg, system, r).types
           policy == EffectivePolicy(cfg, s, r)
           kinds == policy.mask_kinds
           Layers(t) == TypeLayers(cfg, system, r, t)
           Says(t, mask) == \E i \in 1..4 :
               Speaks(Layers(t), i) /\ ~Layers(t)[i].disabled /\ Layers(t)[i].mask = mask
<1>1. /\ kinds = MaskKinds(types)
      /\ policy.parts = \E t \in Enabled(types) : types[t].parts
  BY DEF EffectivePolicy, BuildEffective
<1>2. /\ DOMAIN kinds = Enabled(types) \union Parts(types)
      /\ \A t \in Enabled(types) : kinds[t] = types[t].mask
      /\ \A t \in Parts(types) \ Enabled(types) : kinds[t] = types[Address].mask
  BY <1>1 DEF MaskKinds
<1>3. \A t \in PdType :
          /\ \A i \in 1..4 : Speaks(Layers(t), i) /\ ~Layers(t)[i].disabled
                            => types[t] = Layers(t)[i] /\ types[t] # Absent
          /\ types[t] # Absent /\ ~types[t].disabled
             => \E i \in 1..4 : Speaks(Layers(t), i) /\ Layers(t)[i] = types[t]
  BY MergedTypes
<1>4. Parts(types) # {} => Address \in Enabled(types) /\ Parts(types) = AddressParts
  BY DEF Parts
<1> HIDE DEF types, policy, Layers
<1>5. \A t \in Enabled(types) : t \in PdType /\ Says(t, types[t].mask)
  BY <1>3 DEF Enabled
<1>6. ASSUME NEW t \in PdType, NEW mask \in Mask, Says(t, mask)
      PROVE  t \in Enabled(types) /\ kinds[t] = mask
  BY <1>2, <1>3, <1>6 DEF Enabled
<1>7. ASSUME NEW t \in PdType, t \in DOMAIN kinds
      PROVE  Says(t, kinds[t]) \/ (t \in AddressParts /\ Says(Address, kinds[t]))
  <2>1. CASE t \in Enabled(types)
    BY <2>1, <1>2, <1>5
  <2>2. CASE t \in Parts(types) \ Enabled(types)
    BY <2>2, <1>2, <1>4, <1>5
  <2> QED
    BY <2>1, <2>2, <1>2, <1>7
<1>8. NearestLayerDecides(cfg, s, r, policy)
  <2>1. \A t \in PdType :
          /\ (\E mask \in Mask : Says(t, mask)) => t \in DOMAIN kinds /\ Says(t, kinds[t])
          /\ t \in DOMAIN kinds => \/ Says(t, kinds[t])
                                   \/ t \in AddressParts /\ Says(Address, kinds[t])
    BY <1>2, <1>6, <1>7
  <2> QED
    BY <2>1 DEF NearestLayerDecides, Layers
<1>9. PartsCovered(policy)
  <2> SUFFICES ASSUME policy.parts, Address \in DOMAIN kinds
               PROVE  AddressParts \subseteq DOMAIN kinds
    BY DEF PartsCovered
  <2>1. Address \in Enabled(types)
    BY <1>2, <1>4
  <2>2. Parts(types) = AddressParts
    BY <2>1, <1>1 DEF Parts
  <2> QED
    BY <2>2, <1>2
<1> QED
  BY <1>8, <1>9 DEF policy

(* resolve_policy lets a response be demasked when the system, the route   *)
(* and the nearest layer that speaks of it do, and only then.              *)
THEOREM PolicyDemasksIfAllDo ==
    ASSUME NEW cfg \in Config, NEW s \in System, NEW r \in Route, cfg.systems[s] # Absent
    PROVE  DemaskNeedsAll(cfg, s, r, EffectivePolicy(cfg, s, r))
<1> DEFINE system == cfg.systems[s]
           base == BaseProfile(cfg, system, RouteOf(cfg, r))
           a == OverrideOf(system, r).demask
           b == IF system.overrides = Absent THEN Absent ELSE system.overrides.demask
           c == base.demask
           merged == MergedProfile(cfg, system, r)
           layers == <<a, b, c>>
<1>1. /\ a \in BOOLEAN \union {Absent} /\ b \in BOOLEAN \union {Absent}
      /\ c \in BOOLEAN \union {Absent}
  <2>1. a \in BOOLEAN \union {Absent}
    BY ConfigFacts DEF RouteOverride, NoOverride
  <2>2. b \in BOOLEAN \union {Absent}
    BY ConfigFacts DEF Profile
  <2>3. c \in BOOLEAN \union {Absent}
    BY ConfigFacts DEF Profile, EmptyProfile
  <2> QED
    BY <2>1, <2>2, <2>3
<1>2. merged.demask = Or(a, Or(b, c))
  <2>1. Overridden(cfg, system, r).demask = Or(b, c)
    <3>1. CASE system.overrides = Absent
      BY <3>1 DEF Overridden, Or
    <3>2. CASE system.overrides # Absent
      BY <3>2 DEF Overridden, DeepMerge
    <3> QED
      BY <3>1, <3>2
  <2> QED
    BY <2>1, MergedFields
<1>3. EffectivePolicy(cfg, s, r).demask
        = (RouteOf(cfg, r).demask /\ system.demask /\ merged.demask \in {TRUE, Absent})
  BY DEF EffectivePolicy, BuildEffective, Demask
<1>4. DemaskLayers(cfg, system, r) = layers
  BY DEF DemaskLayers
<1>5. /\ layers[1] = a /\ layers[2] = b /\ layers[3] = c /\ DOMAIN layers = 1..3
  OBVIOUS
<1> HIDE DEF layers, a, b, c, merged
<1>6. /\ Speaks(layers, 1) <=> a # Absent
      /\ Speaks(layers, 2) <=> b # Absent /\ a = Absent
      /\ Speaks(layers, 3) <=> c # Absent /\ a = Absent /\ b = Absent
  <2>1. /\ 1..1 - 1 = {} /\ 1..2 - 1 = {1} /\ 1..3 - 1 = {1, 2}
        /\ 1 \in 1..3 /\ 2 \in 1..3 /\ 3 \in 1..3
    OBVIOUS
  <2> QED
    BY <1>5, <2>1 DEF Speaks
<1>7. (\A i \in 1..3 : Speaks(layers, i) => layers[i]) <=> merged.demask \in {TRUE, Absent}
  <2>1. (\A i \in 1..3 : Speaks(layers, i) => layers[i])
          <=> /\ a # Absent => a
              /\ b # Absent /\ a = Absent => b
              /\ c # Absent /\ a = Absent /\ b = Absent => c
    <3>1. \A i \in 1..3 : i = 1 \/ i = 2 \/ i = 3
      OBVIOUS
    <3> QED
      BY <1>5, <1>6, <3>1
  <2>2. Absent \notin BOOLEAN
    BY PolicyAssumption
  <2> QED
    BY <1>1, <1>2, <2>1, <2>2 DEF Or
<1> QED
  BY <1>3, <1>4, <1>7 DEF DemaskNeedsAll

-----------------------------------------------------------------------------
(* The configuration at run time.                                          *)

ResolvedOK(q) ==
    request[q].pc = "masked" =>
        /\ request[q].cfg \in Config
        /\ request[q].system \in System /\ request[q].route \in Route
        /\ request[q].cfg.systems[request[q].system] # Absent
        /\ request[q].policy
              = EffectivePolicy(request[q].cfg, request[q].system, request[q].route)

Inv ==
    /\ file \in Config \union {Unreadable}
    /\ inForce \in Config
    /\ reloader \in [Reloader -> [pc : {"starting", "idle", "called"}]
                        \union [pc : {"read"}, cfg : Config \union {Unreadable}, edition : Nat]]
    /\ edition \in Nat
    /\ DOMAIN request = Request
    /\ \A q \in Request : ResolvedOK(q)

LEMMA InvInit == Init => Inv
<1> SUFFICES ASSUME Init PROVE Inv
  OBVIOUS
<1>1. start \in Config /\ Valid(start) /\ start # Unreadable
  BY ReloadAssumption DEF Init
<1>2. \A a \in Reloader : reloader[a] \in [pc : {"starting", "idle", "called"}]
  BY DEF Init, Idle
<1>3. \A q \in Request : request[q].pc = "idle"
  BY DEF Init, Idle
<1> QED
  BY <1>1, <1>2, <1>3 DEF Init, Inv, Loads, ResolvedOK

LEMMA InvStep == Inv /\ [Next]_vars => Inv'
<1> SUFFICES ASSUME Inv, [Next]_vars PROVE Inv'
  OBVIOUS
<1> DEFINE State == [pc : {"starting", "idle", "called"}]
                    \union [pc : {"read"}, cfg : Config \union {Unreadable}, edition : Nat]
<1> USE DEF Inv
<1>0. /\ [pc |-> "called"] \in State /\ Idle \in State
      /\ \A c \in Config \union {Unreadable}, n \in Nat :
            [pc |-> "read", cfg |-> c, edition |-> n] \in State
  BY DEF Idle
<1>1. ASSUME NEW c \in Edited, Edit(c)
      PROVE  Inv'
  <2>1. file' \in Config \union {Unreadable} /\ edition' \in Nat
        /\ UNCHANGED <<reloader, inForce, request>>
    BY <1>1, ReloadAssumption DEF Edit
  <2> QED
    BY <2>1 DEF ResolvedOK
<1>2. CASE Tell
  BY <1>2 DEF Tell, ResolvedOK
<1>3. ASSUME NEW a \in Reloader, NEW state \in State, reloader' = [reloader EXCEPT ![a] = state],
             UNCHANGED <<file, edition, request>>, inForce' \in Config
      PROVE  Inv'
  <2>1. reloader' \in [Reloader -> State]
    BY <1>3
  <2> QED
    BY <1>3, <2>1 DEF ResolvedOK
<1>4. CASE StartWatching \/ Take
  <2>1. Watcher \in Reloader
    BY DEF Reloader
  <2>2. UNCHANGED <<file, edition, request, inForce>>
    BY <1>4 DEF StartWatching, Take
  <2>3. \E state \in State : reloader' = [reloader EXCEPT ![Watcher] = state]
    <3>1. CASE StartWatching
      BY <3>1, <1>0 DEF StartWatching
    <3>2. CASE Take
      BY <3>2, <1>0 DEF Take
    <3> QED
      BY <1>4, <3>1, <3>2
  <2> QED
    BY <2>1, <2>2, <2>3, <1>3
<1>5. ASSUME NEW a \in Reloader, Call(a) \/ Read(a) \/ Fail(a)
      PROVE  Inv'
  <2>1. UNCHANGED <<file, edition, request, inForce>>
    BY <1>5 DEF Call, Read, Fail
  <2>2. \E state \in State : reloader' = [reloader EXCEPT ![a] = state]
    BY <1>5, <1>0 DEF Call, Read, Fail
  <2> QED
    BY <2>1, <2>2, <1>3
<1>6. ASSUME NEW a \in Reloader, Swap(a)
      PROVE  Inv'
  <2>1. /\ reloader[a].pc = "read" /\ Loads(reloader[a].cfg)
        /\ inForce' = reloader[a].cfg
        /\ reloader' = [reloader EXCEPT ![a] = Idle]
        /\ UNCHANGED <<file, edition, request>>
    BY <1>6 DEF Swap
  <2>2. reloader[a].cfg \in Config
    BY <2>1 DEF Loads
  <2> QED
    BY <2>1, <2>2, <1>0, <1>3
<1>7. ASSUME NEW q \in Request, NEW s \in System, NEW r \in Route, Resolve(q, s, r)
      PROVE  Inv'
  <2>1. /\ Refusal(inForce, s, r) = "none"
        /\ request' = [request EXCEPT ![q] =
              [pc |-> "masked", system |-> s, route |-> r, cfg |-> inForce,
               policy |-> EffectivePolicy(inForce, s, r)]]
        /\ UNCHANGED <<file, edition, inForce, reloader>>
    BY <1>7 DEF Resolve, Step, reloads
  <2>2. inForce.systems[s] # Absent
    BY <2>1 DEF Refusal
  <2>3. ResolvedOK(q)'
    BY <2>1, <2>2 DEF ResolvedOK
  <2>4. \A x \in Request \ {q} : ResolvedOK(x)'
    BY <2>1 DEF ResolvedOK
  <2> QED
    BY <2>1, <2>3, <2>4
<1>8. ASSUME NEW q \in Request, UNCHANGED <<file, edition, inForce, reloader>>,
             NEW state, state.pc # "masked", request' = [request EXCEPT ![q] = state]
      PROVE  Inv'
  <2>1. \A x \in Request : ResolvedOK(x)'
    BY <1>8 DEF ResolvedOK
  <2> QED
    BY <1>8, <2>1
<1>9. ASSUME NEW q \in Request, NEW s \in System, NEW r \in Route, Bypass(q, s, r)
      PROVE  Inv'
  BY <1>8, <1>9 DEF Bypass, Step, reloads
<1>10. ASSUME NEW q \in Request, Answer(q)
       PROVE  Inv'
  BY <1>8, <1>10 DEF Answer, Idle, reloads
<1>11. CASE UNCHANGED vars
  BY <1>11 DEF vars, reloads, ResolvedOK
<1>12. ASSUME NEW q \in Request, NEW s \in System, NEW r \in Route, Refuse(q, s, r)
       PROVE  Inv'
  BY <1>11, <1>12 DEF Refuse
<1> QED
  BY <1>1, <1>2, <1>4, <1>5, <1>6, <1>7, <1>9, <1>10, <1>11, <1>12 DEF Next

(* Whatever is reloaded, edited and asked in whatever order, every request *)
(* that is masked has the policy resolve computes from one configuration.  *)
THEOREM ReloadInvariant == Spec => []Inv
  BY InvInit, InvStep, PTL DEF Spec

(* What a request is masked by follows the layers of one configuration,    *)
(* whatever is reloaded meanwhile.                                         *)
THEOREM ReloadMasksByNearestLayer == Spec => []MaskedByNearestLayer
<1>1. Inv => MaskedByNearestLayer
  BY PolicyFollowsNearestLayer DEF Inv, ResolvedOK, Masked, MaskedByNearestLayer
<1> QED
  BY <1>1, ReloadInvariant, PTL

(* A response is demasked for those alone whose every layer lets it be.    *)
THEOREM ReloadDemasksByAll == Spec => []DemaskedByAll
<1>1. Inv => DemaskedByAll
  BY PolicyDemasksIfAllDo DEF Inv, ResolvedOK, Masked, DemaskedByAll
<1> QED
  BY <1>1, ReloadInvariant, PTL
=============================================================================

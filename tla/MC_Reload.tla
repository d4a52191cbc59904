----------------------------- MODULE MC_Reload -----------------------------
(***************************************************************************)
(* An instance of Reload: one system, one route, two profiles, a file that *)
(* is written twice, one reload over the endpoint and one request.         *)
(***************************************************************************)
EXTENDS Reload, TLC

CONSTANTS crm, erp, chat, strict, cards, strct, address, street, phone, r1

Masking(mask) == [mask |-> mask, parts |-> FALSE, disabled |-> FALSE]
ByParts == [Masking("partial") EXCEPT !.parts = TRUE]
Off == [Masking("placeholder") EXCEPT !.disabled = TRUE]

Only(t, setting) == [NoTypes EXCEPT ![t] = setting]

Strict == [EmptyProfile EXCEPT
    !.types = [t \in PdType |-> IF t = street THEN Absent ELSE Masking("placeholder")],
    !.ner = TRUE, !.on_failure = "fail", !.demask = TRUE,
    !.combination.rules = [NoRule EXCEPT ![phone] = r1], !.combination.always_mask = {address}]
Cards == [EmptyProfile EXCEPT !.types = Only(phone, ByParts), !.filters = {"bank"}]

Crm == [enabled |-> TRUE, profile |-> Absent, demask |-> TRUE, overrides |-> Absent,
        route_overrides |-> [r \in Route |-> Absent]]
Chat == [systems |-> {}, profile |-> Absent, types |-> NoTypes, demask |-> TRUE,
         action |-> "mask"]

Base == [profiles |-> (strict :> Strict @@ cards :> Cards @@ strct :> Absent),
         default_profile |-> strict, default_action |-> "mask",
         systems |-> (crm :> Crm @@ erp :> Absent), routes |-> chat :> Chat]

Overriding(p) == [Base EXCEPT !.systems[crm].overrides = p]
OnRoute(types, demask) == [types |-> types, combination |-> Absent, demask |-> demask]

\* Layers that contradict one another, one at a time and together.
OverridesSwitchOff ==
    Overriding([EmptyProfile EXCEPT !.types = Only(phone, Off), !.demask = FALSE])
RouteSwitchesOn ==
    [OverridesSwitchOff EXCEPT !.routes[chat].types = Only(phone, Masking("partial")),
                               !.routes[chat].profile = cards]
SystemHasTheLastWord ==
    [RouteSwitchesOn EXCEPT
        !.systems[crm].route_overrides[chat] =
            [OnRoute(Only(phone, Off), TRUE) EXCEPT !.combination = Cards.combination]]
Parted ==
    [Overriding([EmptyProfile EXCEPT !.types = Only(address, ByParts),
                                     !.combination.rules = [NoRule EXCEPT ![phone] = None]])
        EXCEPT !.routes[chat].types = Only(street, Off)]
\* The mode is set on a type that is no address.
PartedByPhone ==
    [Overriding([EmptyProfile EXCEPT !.types = Only(phone, ByParts)])
        EXCEPT !.systems[crm].demask = FALSE]
Misspelt == [Base EXCEPT !.routes[chat].profile = strct]

Bypassing == [Base EXCEPT !.routes[chat].action = "bypass"]
Blocking == [Base EXCEPT !.routes[chat].action = "block"]
Closed == [Base EXCEPT !.routes[chat].systems = {erp}, !.routes[chat].action = Absent]
Disabled == [Base EXCEPT !.systems[crm].enabled = FALSE]
Removed == [Base EXCEPT !.routes[chat] = Absent]
\* The profile of the system is not there.
Dangling == [Base EXCEPT !.systems[crm].profile = cards, !.profiles[cards] = Absent]

MCInitial ==
    {Base, OverridesSwitchOff, RouteSwitchesOn, SystemHasTheLastWord, Parted,
     PartedByPhone, Misspelt, Bypassing, Blocking}
MCEdited == {Base, Closed, Disabled, Removed, Dangling, Unreadable}
MCEditedRoutes == {Base, Blocking, Unreadable}
=============================================================================

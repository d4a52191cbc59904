CONSTANTS
    w = w
    numero = numero
    ann = ann
    bob = bob
    phone1 = phone1
    phone2 = phone2
    phone3 = phone3
    a = a
    b = b
    noback = noback
    s1 = s1
    s2 = s2
    Word <- MCWord
    Value <- MCValue
    PdType <- MCPdType
    TypeOf <- MCTypeOf
    Canon <- MCCanon
    KindOf <- MCKind
    Shape <- MCShape
    Profile <- MCProfile
    DetectorOrder <- MCDetectorOrder
    NerOnly <- MCNames
    Kept = {}
    Bare <- MCWord
    Stop = {}
    Capital <- MCNames
    Trigger = {}
    MaxWindows = 1
    Misread <- MCMisread
    Uncut <- MCUncut
    Inputs <- MCInputsStateless
    Heavy <- MCHeavy
    Mode = "stateless"
    System = {a, b, noback}
    MayDemask = {a, b}
    Session = {s1}
    Request = {r1, r2, r3}
    Ops = {"tz", "mask", "dry_run", "demask"}
    Trouble = {"overlap", "ner", "deadline"}
    DeleteAfterDemask = FALSE
    NerMustWork = {b}
SPECIFICATION Spec
CHECK_DEADLOCK FALSE
INVARIANTS TenantIsolation ContextRestores

CONSTANTS
    w = w
    client = client
    numero = numero
    stop = stop
    ann = ann
    bob = bob
    phone1 = phone1
    a = a
    b = b
    Word <- MCWord
    Value <- MCValue
    PdType <- MCPdType
    TypeOf <- MCTypeOf
    Canon <- MCCanon
    KindOf <- MCKind
    Shape <- MCShape
    Profile <- MCProfile
    DetectorOrder <- MCDetectorOrder
    NerOnly <- MCNerOnly
    Kept = {}
    Bare <- MCBare
    Stop = {stop}
    Capital <- MCNames
    Trigger = {client, stop}
    MaxWindows = 1
    Misread <- MCMisread
    Uncut <- MCUncut
    Heavy <- MCHeavy
    OwnToken <- MCOwnToken
    System = {a, b}
    Route <- MCRouteTwo
    Inputs <- MCInputsTwo
    Mode = "memory"
    MayDemask = {a, b}
    NerMustWork = {b}
    DeleteAfterDemask = FALSE
    Trouble = {}
    MaxChoices = 1
    MaxReply = 2
SPECIFICATION Spec
CHECK_DEADLOCK FALSE
INVARIANTS NeverAnotherValue

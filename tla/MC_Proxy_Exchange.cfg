CONSTANTS
    w = w
    client = client
    numero = numero
    stop = stop
    ann = ann
    bob = bob
    phone1 = phone1
    a = a
    b = b
    Word <- MCWord
    Value <- MCValue
    PdType <- MCPdType
    TypeOf <- MCTypeOf
    Canon <- MCCanon
    KindOf <- MCKind
    Shape <- MCShape
    Profile <- MCProfile
    DetectorOrder <- MCDetectorOrder
    NerOnly <- MCNerOnly
    Kept = {}
    Bare <- MCBare
    Stop = {stop}
    Capital <- MCNames
    Trigger = {client, stop}
    MaxWindows = 1
    Misread <- MCMisread
    Uncut <- MCUncut
    Heavy <- MCHeavy
    OwnToken <- MCOwnToken
    System = {a, b}
    Route <- MCRouteAll
    Inputs <- MCInputsAll
    Mode = "memory"
    MayDemask = {a, b}
    NerMustWork = {b}
    DeleteAfterDemask = FALSE
    Trouble = {"evict", "ner", "deadline", "stall"}
    MaxChoices = 2
    MaxReply = 2
SPECIFICATION Spec
CHECK_DEADLOCK FALSE
INVARIANTS UnmarkedMeansUndisturbed LastTextRestored
PROPERTIES AnsweredUnlessStalled

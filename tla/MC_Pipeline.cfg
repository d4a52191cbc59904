CONSTANTS
    Address = "ADDRESS"
    City = "CITY"
    Street = "STREET"
    House = "HOUSE"
    Fio = "FIO"
    PlaceTypes = {"ADDRESS", "CITY", "STREET", "HOUSE"}
    NumberTypes = {"INN", "ORG_INN"}
    Blank <- MCBlank
    PdType <- MCPdType
    Candidate <- MCCandidate
    Part <- MCPart
    Policy <- MCPolicy
    MaxFound = 4
SPECIFICATION Spec
CHECK_DEADLOCK FALSE
INVARIANTS SelectedApart StrongestSelected NothingPassedOver LeftForAReason MoreFoundMoreMasked

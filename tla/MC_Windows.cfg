CONSTANTS
    MaxWindows = 1
    Character <- MCCharacter
    MaxText = 4
    Digit = {0, 1, 9}
    MaxDigits = 10
    DateNumber <- MCDateNumber
    Json <- MCJson
    Segment <- MCSegment
    MaxPath = 4
SPECIFICATION InputsSpec
CHECK_DEADLOCK FALSE
INVARIANTS WindowsInOriginal

CONSTANTS
    Caller = {c1, c2}
    Window = 2
    OpensAt <- MCOpensAt
    OpenSeconds = 2
    Outcome = {"success", "failure"}
SPECIFICATION Spec
PROPERTIES StaysOpen

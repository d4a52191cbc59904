CONSTANTS
    Caller = {c1, c2}
    Window = 3
    OpensAt <- MCOpensAt
    OpenSeconds = 2
    Outcome = {"success", "failure", "lost"}
SPECIFICATION Spec
INVARIANTS TypeOK
PROPERTIES CutsOff NeverShutForGood

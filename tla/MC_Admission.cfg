CONSTANTS
    rated = rated
    open = open
    c1 = c1
    c2 = c2
    r1 = r1
    r2 = r2
    System = {rated, open}
    Limiter = {"process", "proxy"}
    Rate <- MCRate
    TicksPerSecond = 2
    Horizon = 2
    Request = {r1, r2}
    Ops <- MCOps
    MaxInflight = 1
    Anonymous = {open}
    Config = {c1, c2}
    Verdict <- MCVerdict
    MaxTexts = 2
    NoSystem = NoSystem
    NoConfig = NoConfig
    Trouble = {"hang_up", "stall", "await", "reload"}
SPECIFICATION Spec
INVARIANTS NeverOverRate AdmitsUpToRate PermitsAccounted BatchHangsTogether
PROPERTIES TakesRequestsAgain

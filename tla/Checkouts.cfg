SPECIFICATION Spec
CONSTANTS
    Session = {s1, s2}
    Pushed = {"good", "bad"}
    Refused = {"bad"}
    OnMaster = OnMaster
    Free = Free
    MaxCommits = 4
    MaxAtOnce = 1
    MaxCrashes = 2
INVARIANTS
    TypeOK
    RefusedNeverLands
PROPERTIES
    CheckoutKeepsMaster
    MasterOnlyGrows
    ReloadSettles
CHECK_DEADLOCK TRUE

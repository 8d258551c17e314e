SPECIFICATION Spec
CONSTANTS
    Session = {s1, s2}
    Pushed = {"good", "bad"}
    Refused = {"bad"}
    OnMaster = OnMaster
    Free = Free
    MaxCommits = 2
    MaxAtOnce = 2
    MaxCrashes = 0
PROPERTIES
    CheckoutKeepsMaster
CHECK_DEADLOCK TRUE

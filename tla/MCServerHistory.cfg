SPECIFICATION HistorySpec
CONSTANTS
    u1 = u1  u2 = u2  g1 = g1  g2 = g2  o1 = o1  r1 = r1
    k1 = k1  k2 = k2  h1 = h1  h2 = h2  s1 = s1  s2 = s2
    User <- MCUser
    Group <- MCGroup
    Org = {o1}
    Repo = {r1}
    Key = {k1, k2}
    NoKey = NoKey
    BadKey = BadKey
    Prefix <- MCPrefix
    OrgSigil = "@"
    UserSigil = "~"
    Nil = Nil
    Session = {s1, s2}
    Main = Main
    Free = Free
    OnMaster = OnMaster
    NoUser = NoUser
    NoPath = NoPath
    HostKey = {h1, h2}
    AdminUser = u1
    AdminKey = k1
    InitialDisk <- HistoryDisk
    PushPath <- AdminPush
    Proposal <- HistoryProposal
    MaxVersion = 2
    MaxInFlight = 2
    MaxCrashes = 1
SYMMETRY Sessions
INVARIANTS
    TypeOK
    SettledServesDisk
PROPERTIES
    NeverServesOlder
    ServesPublished
    LandingKeyIsKnown
CHECK_DEADLOCK TRUE

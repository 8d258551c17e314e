SPECIFICATION Spec
CONSTANTS
    u1 = u1  u2 = u2  g1 = g1  g2 = g2  o1 = o1  r1 = r1
    k1 = k1  k2 = k2  h1 = h1  h2 = h2  s1 = s1  s2 = s2
    User <- MCUser
    Group <- MCGroup
    Org = {o1}
    Repo = {r1}
    Key = {k1, k2}
    NoKey = NoKey
    BadKey = BadKey
    Prefix <- MCPrefix
    OrgSigil = "@"
    UserSigil = "~"
    Nil = Nil
    Session = {s1, s2}
    Main = Main
    Free = Free
    OnMaster = OnMaster
    NoUser = NoUser
    NoPath = NoPath
    HostKey = {h1}
    AdminUser = NoUser
    AdminKey = k1
    InitialDisk <- PanicDisk
    PushPath <- EveryPath
    Proposal <- PanicProposal
    MaxVersion = 1
    MaxInFlight = 2
    MaxCrashes = 0
PROPERTIES
    PanicsAreCaught

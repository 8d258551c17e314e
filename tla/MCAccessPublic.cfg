SPECIFICATION Spec
CONSTANTS
    u1 = u1  u2 = u2  g1 = g1  g2 = g2  g3 = g3  o1 = o1  r1 = r1
    User = {u1, u2}
    Group = {g1, g2, g3}
    Org = {o1}
    Repo = {r1}
    Key = {}
    HostKey = {}
    NoKey = NoKey
    BadKey = BadKey
    Prefix = {"@", "~"}
    OrgSigil = "@"
    UserSigil = "~"
    Nil = Nil
    MaxEntries = 4
SYMMETRY Groups
INVARIANTS
    PublicIsReadable
CHECK_DEADLOCK FALSE

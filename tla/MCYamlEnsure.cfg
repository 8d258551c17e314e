SPECIFICATION Spec
CONSTANTS
    u1 = u1  u2 = u2  k1 = k1  k2 = k2  h1 = h1
    Nil = Nil  NoKey = NoKey  BadKey = BadKey
    Document <- Documents
    Text <- AnyText
    Below = {}
    AdminUser = {"u1"}
    AdminKey = {"k1", "k2"}
INVARIANTS
    AdminUserIsThere
PROPERTIES
    KeepsWhatIsWritten
    EnsuringSettles
    EditsAreConfigs
CHECK_DEADLOCK TRUE

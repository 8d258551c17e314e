--------------------------- MODULE PublishedConfig --------------------------
(***************************************************************************)
(* What the server promises to those who push configuration: config repos  *)
(* only get new versions, and the server, while it is up, serves the       *)
(* meaning of versions that are there, each time of none older than those  *)
(* it served before. Nothing is said of sessions, hooks, locks or loads:   *)
(* Server is shown to implement this by ServerHistory.                     *)
(***************************************************************************)
EXTENDS Config, Sequences, SequencesExt

CONSTANT Unread \* in place of the version of a repo the config does not depend on

VARIABLES
    log,     \* per config repo, the trees its master branch has had
    serving, \* the config sessions are given, Nil while the server is not up
    at       \* the versions it is made of

vars == <<log, serving, at>>

Tip(r) == Len(log[r]) - 1
VersionVector == {v \in [ConfigRepo -> Int] :
                    \A r \in ConfigRepo : v[r] = Unread \/ v[r] \in 0..Tip(r)}

TreeAt(r, n) == IF n = Unread THEN EmptyTree(r) ELSE log[r][n + 1]
DiskAt(v) == [r \in ConfigRepo |-> TreeAt(r, v[r])]

Init ==
    /\ DOMAIN log = ConfigRepo
    /\ \A r \in ConfigRepo : Len(log[r]) = 1
    /\ serving = Nil
    /\ at = [r \in ConfigRepo |-> Unread]

\* A new version of some config repo, pushed or committed by the server.
Land ==
    /\ \E r \in ConfigRepo :
          /\ log'[r] = Append(log[r], Last(log'[r]))
          /\ Last(log'[r]) \in TreeOf(r)
          /\ log' = [log EXCEPT ![r] = log'[r]]
    /\ UNCHANGED <<serving, at>>

\* It depends on the admin repo and on just those others it refers to.
DependsOn(c) == {AdminRepo} \cup UserSubRepos(c) \cup OrgSubRepos(c)

\* An entry a key has without being anybody's any more is one it had earlier:
\* flatten does not clear the keys of the load before it.
OnceOwned(k, u, v) ==
    \E n \in 0..v[AdminRepo], m \in 0..Tip(UserRepo(u)) \cup {Unread} :
        LET admin == LoadAdminConfig(NewConfig, TreeAt(AdminRepo, n))
            own == MergedUser(admin.options, admin.users[u], TreeAt(UserRepo(u), m))
        IN u \in Keys(admin.users) /\ k \in own.keys

Means(config, v) ==
    \E c \in Meaning(DiskAt(v)) :
        /\ config = [c EXCEPT !.publicKeys = config.publicKeys]
        /\ \A k \in Key :
              IF k \in KeysOf(c.users)
              THEN config.publicKeys[k] \in Keys(c.users) /\ k \in c.users[config.publicKeys[k]].keys
              ELSE config.publicKeys[k] = Nil \/ OnceOwned(k, config.publicKeys[k], v)

Serve ==
    /\ serving' # Nil /\ at' \in VersionVector
    /\ Means(serving', at')
    /\ {r \in ConfigRepo : at'[r] # Unread} = DependsOn(serving')
    /\ serving # Nil => \A r \in ConfigRepo : at'[r] = Unread \/ at'[r] >= at[r]
    /\ UNCHANGED log

Stop ==
    /\ serving' = Nil /\ at' = [r \in ConfigRepo |-> Unread]
    /\ UNCHANGED log

Next == Land \/ Serve \/ Stop

Spec == Init /\ [][Next]_vars
=============================================================================

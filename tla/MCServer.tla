------------------------------ MODULE MCServer ------------------------------
(* Small instances of Server: two users, a handful of trees to push.       *)
EXTENDS Server, TLC

CONSTANTS u1, u2, g1, g2, o1, r1, k1, k2, h1, h2, s1, s2

MCUser == {u1, u2}
MCGroup == {g1, g2}
MCPrefix == {"@", "~"}

Reg(keys) == [isAdmin |-> "no", disabled |-> FALSE, keys |-> keys, repos |-> EmptyMap(Repo)]
Adm(keys) == [Reg(keys) EXCEPT !.isAdmin = "yes"]

\* u1 is the admin and u2 is not.
Base ==
    [EmptyAdminTree EXCEPT !.yml = "ok", !.complete = TRUE, !.hostKey = h1,
                           !.users = u1 :> Adm({k1}) @@ u2 :> Reg({k2})]
OnBase(users) == [Base EXCEPT !.users = users]

\* Edits of Base. The first three are good, the others are for the hook to
\* refuse, whoever pushes them or when u1 does.
Promote == OnBase(u1 :> Adm({k1}) @@ u2 :> Adm({k2}))
Sections == [Base EXCEPT !.complete = FALSE, !.groups = g1 :> {u1, g2} @@ g2 :> {u2}]
Takeover == OnBase(u1 :> [Adm({k1}) EXCEPT !.disabled = TRUE] @@ u2 :> Adm({k2}))
RemoveU1 == OnBase(u1 :> Nil @@ u2 :> Adm({k2}))
Unkey == OnBase(u1 :> Adm({k2}) @@ u2 :> Reg({}))
NoAdmins == OnBase(u1 :> Reg({k1}) @@ u2 :> Reg({k2}))
Loop == [Base EXCEPT !.groups = g1 :> {g2} @@ g2 :> {u2, g1}]
BadHostKey == [Base EXCEPT !.hostKey = BadKey]
NoFile == [EmptyAdminTree EXCEPT !.hostKey = h1]

Repos == r1 :> [public |-> FALSE, write |-> {g1}, read |-> {}]

\* Each user may add keys and repos, and orgs have a config repo of their own.
\* There also is a repo that is nobody's config.
Delegated ==
    [Base EXCEPT !.options.userConfigKeys = TRUE, !.options.userConfigRepos = TRUE,
                 !.options.orgConfig = TRUE, !.options.orgConfigRepos = TRUE,
                 !.orgs = o1 :> [admin |-> {g1}, write |-> {}, read |-> {}, repos |-> EmptyMap(Repo)],
                 !.groups[g1] = {u2}, !.repos = Repos]
\* The same, but without a "repos" map under u2.
NoRepos == [Delegated EXCEPT !.users[u2].repos = Nil]

UserYml(y, keys, repos) == [yml |-> y, keys |-> keys, repos |-> repos]
OrgYml(y, admin, repos) ==
    [yml |-> y, admin |-> admin, write |-> {}, read |-> {}, repos |-> repos]

DiskWith(admin, org) ==
    [r \in ConfigRepo |-> IF r = AdminRepo THEN admin
                          ELSE IF r[1] = "org" THEN org ELSE EmptyTree(r)]

UserPath(u) == [sigil |-> UserSigil, parts |-> <<u>>]
OrgPath(o) == [sigil |-> OrgSigil, parts |-> <<o>>]

\* Pushes to the admin repo only.
AdminPush == {AdminPath}
AdminProposal(trees) == [r \in ConfigRepo |-> IF r = AdminRepo THEN trees ELSE {}]

BaseDisk == {DiskWith(Base, EmptyOrgTree)}
\* A server that was set up before, one that is new, and one that cannot start.
ConcurrentDisk ==
    BaseDisk \cup {DiskWith(EmptyAdminTree, EmptyOrgTree),
                   DiskWith([Base EXCEPT !.yml = "shape"], EmptyOrgTree)}
BadKeyDisk == {DiskWith(BadHostKey, EmptyOrgTree)}
LiveDisk == BaseDisk \cup {DiskWith([EmptyAdminTree EXCEPT !.yml = "syntax"], EmptyOrgTree)}
LiveProposal == AdminProposal({Sections, Loop})
LockoutProposal == AdminProposal({Base, Unkey})

\* Pushes to every config repo.
EveryPath == {AdminPath, UserPath(u2), OrgPath(o1)}
OrdinaryPath == [sigil |-> NoSigil, parts |-> <<r1>>]
EveryRepoPath == EveryPath \cup {OrdinaryPath}
\* In two disks the server finds u1 as it is told to ensure the user, in two not.
Disabled == OnBase(u1 :> [Adm({k2}) EXCEPT !.disabled = TRUE] @@ u2 :> Reg({}))
Garbled == [EmptyAdminTree EXCEPT !.yml = "syntax", !.hostKey = h1]
EveryDisk == {DiskWith(Base, EmptyOrgTree),
              DiskWith(Delegated, OrgYml("ok", {}, EmptyMap(Repo))),
              DiskWith(Disabled, EmptyOrgTree), DiskWith(Garbled, EmptyOrgTree)}
EveryProposal ==
    [r \in ConfigRepo |->
        CASE r = AdminRepo ->
               {Takeover, RemoveU1, Sections, NoAdmins, Loop, NoFile,
                Delegated, NoRepos}
          [] r = UserRepo(u2) ->
               {UserYml("bad", {}, EmptyMap(Repo)), UserYml("ok", {k1}, Repos)}
          [] r = OrgRepo(o1) -> {OrgYml("missing", {}, EmptyMap(Repo)), OrgYml("ok", {u1}, Repos)}
          [] OTHER -> {}]

\* u1 lets users keep their own keys, in a file without all its sections, while
\* u2 pushes a file that does not parse.
SkewProposal ==
    [r \in ConfigRepo |->
        CASE r = AdminRepo -> {[Sections EXCEPT !.options.userConfigKeys = TRUE]}
          [] r = UserRepo(u2) -> {UserYml("bad", {}, EmptyMap(Repo))}
          [] OTHER -> {}]

\* Any name is a repo for who may create it, and org_prefix moves to "+" while
\* a connection that knows the org's config repo by the old prefix is open.
ThreePrefixes == MCPrefix \cup {"+"}
Implicit == [Delegated EXCEPT !.options.implicitRepos = TRUE]
PrefixDisk == {DiskWith(Implicit, OrgYml("ok", {}, EmptyMap(Repo)))}
PrefixProposal ==
    [r \in ConfigRepo |->
        CASE r = AdminRepo -> {[Implicit EXCEPT !.options.orgPrefix = "+"]}
          [] r = OrgRepo(o1) -> {OrgYml("bad", {}, EmptyMap(Repo))}
          [] OTHER -> {}]

\* The admin lets users list repos in their own files, in an entry without a
\* "repos" map for u2, while u2 pushes a file that lists one.
PanicDisk == {DiskWith([Delegated EXCEPT !.options.userConfigRepos = FALSE], OrgYml("ok", {}, EmptyMap(Repo)))}
PanicProposal ==
    [r \in ConfigRepo |->
        CASE r = AdminRepo -> {NoRepos}
          [] r = UserRepo(u2) -> {UserYml("ok", {}, Repos)}
          [] OTHER -> {}]

Sessions == Permutations({s1, s2})
=============================================================================

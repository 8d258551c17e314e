------------------------------- MODULE Config -------------------------------
(***************************************************************************)
(* The configuration gitdir keeps in its own git repositories, and the     *)
(* in-memory Config built from it (config.go, config_admin.go,             *)
(* config_user.go, config_org.go, config_validate.go, config_ensure.go).   *)
(* This module has no variables: it is the data and the functions on it.   *)
(* The processes that run them are in Server.                              *)
(*                                                                         *)
(* A "tree" is what a checkout of a config repo puts in the worktree.      *)
(* Lists of names and keys are sets: the code only ever searches them.     *)
(***************************************************************************)
EXTENDS Integers, FiniteSets

CONSTANTS
    User, Group, Org, Repo, \* the names a config may mention
    Key,                    \* public keys of people
    HostKey,                \* private keys of the server, the pair of files under ssh/
    NoKey, BadKey,          \* the key files are absent / do not parse
    Prefix,                 \* what org_prefix and user_prefix may be set to
    OrgSigil, UserSigil,    \* their defaults, "@" and "~"
    Nil                     \* Go's nil: a map never made, an entry that is not there

ASSUME ConfigAssumption ==
    /\ Nil \notin User
    /\ NoKey # BadKey /\ {NoKey, BadKey} \cap HostKey = {}
    /\ {OrgSigil, UserSigil} \subseteq Prefix
    /\ OrgSigil # UserSigil

\* A config file lists finitely many groups, by names of their own: an entry
\* with a "$" is a group's, whatever the users are called.
ASSUME GroupAssumption == IsFiniteSet(Group) /\ Group \cap User = {}

-----------------------------------------------------------------------------
(* Types                                                                   *)

\* Go maps with keys in S and values in T, their empty one and their keys.
MapOf(S, T) == [S -> T \cup {Nil}]
EmptyMap(S) == [x \in S |-> Nil]
Keys(m) == {x \in DOMAIN m : m[x] # Nil}

\* The entries of m, and those of n that m lacks.
Over(m, n) == [x \in DOMAIN m |-> IF m[x] # Nil THEN m[x] ELSE n[x]]

\* An entry of a user or group list; groups are written with a "$".
Member == User \cup Group

RepoConfig == [public : BOOLEAN, write : SUBSET Member, read : SUBSET Member]
RepoMap == MapOf(Repo, RepoConfig)

\* is_admin keeps "unset" apart from "no": both load as false, but
\* ensureAdminUser only writes a key that is not there.
AdminConfigUser ==
    [isAdmin : {"unset", "no", "yes"}, disabled : BOOLEAN,
     keys : SUBSET Key, repos : RepoMap \cup {Nil}]

OrgConfig ==
    [admin : SUBSET Member, write : SUBSET Member, read : SUBSET Member,
     repos : RepoMap \cup {Nil}]

Options ==
    [orgPrefix : Prefix, userPrefix : Prefix, implicitRepos : BOOLEAN,
     userConfigKeys : BOOLEAN, userConfigRepos : BOOLEAN,
     orgConfig : BOOLEAN, orgConfigRepos : BOOLEAN]

DefaultOptions ==
    [orgPrefix |-> OrgSigil, userPrefix |-> UserSigil, implicitRepos |-> FALSE,
     userConfigKeys |-> FALSE, userConfigRepos |-> FALSE,
     orgConfig |-> FALSE, orgConfigRepos |-> FALSE]

\* The admin repo: config.yml and the two host key files. yml is "syntax" when
\* the file is no YAML, "shape" when it is YAML that does not fit the structs,
\* and complete tells whether it has its four top-level sections.
AdminTree ==
    [yml : {"missing", "syntax", "shape", "ok"}, complete : BOOLEAN,
     hostKey : HostKey \cup {NoKey, BadKey},
     users : MapOf(User, AdminConfigUser), groups : [Group -> SUBSET Member],
     orgs : MapOf(Org, OrgConfig), repos : RepoMap, options : Options]

\* A user's and an org's config repo. A repo without commits has no config.yml.
UserTree == [yml : {"missing", "bad", "ok"}, keys : SUBSET Key, repos : RepoMap]

OrgTree ==
    [yml : {"missing", "bad", "ok"}, admin : SUBSET Member,
     write : SUBSET Member, read : SUBSET Member, repos : RepoMap]

EmptyAdminTree ==
    [yml |-> "missing", complete |-> FALSE, hostKey |-> NoKey, users |-> EmptyMap(User),
     groups |-> [g \in Group |-> {}], orgs |-> EmptyMap(Org), repos |-> EmptyMap(Repo),
     options |-> DefaultOptions]

EmptyUserTree == [yml |-> "missing", keys |-> {}, repos |-> EmptyMap(Repo)]

EmptyOrgTree ==
    [yml |-> "missing", admin |-> {}, write |-> {}, read |-> {}, repos |-> EmptyMap(Repo)]

\* The repositories the configuration is read from, by their path on disk:
\* admin/admin, admin/user-<name> and admin/org-<name>.
AdminRepo == <<"admin", "admin">>
UserRepo(u) == <<"user", u>>
OrgRepo(o) == <<"org", o>>
ConfigRepo ==
    {AdminRepo} \cup {UserRepo(u) : u \in User} \cup {OrgRepo(o) : o \in Org}

TreeOf(r) == CASE r[1] = "admin" -> AdminTree
               [] r[1] = "user"  -> UserTree
               [] r[1] = "org"   -> OrgTree

EmptyTree(r) == CASE r[1] = "admin" -> EmptyAdminTree
                  [] r[1] = "user"  -> EmptyUserTree
                  [] r[1] = "org"   -> EmptyOrgTree

\* The Config struct, without the invites, which nothing reads.
ConfigType ==
    [users : MapOf(User, AdminConfigUser), groups : [Group -> SUBSET Member],
     orgs : MapOf(Org, OrgConfig), repos : RepoMap, options : Options,
     hostKey : HostKey \cup {NoKey}, publicKeys : MapOf(Key, User)]

NewConfig ==
    [users |-> EmptyMap(User), groups |-> [g \in Group |-> {}], orgs |-> EmptyMap(Org),
     repos |-> EmptyMap(Repo), options |-> DefaultOptions, hostKey |-> NoKey,
     publicKeys |-> EmptyMap(Key)]

\* Nil is no value of any of the types.
ASSUME NilAssumption ==
    /\ Nil \notin AdminConfigUser /\ Nil \notin OrgConfig /\ Nil \notin ConfigType
    /\ Nil \notin RepoConfig /\ Nil \notin RepoMap

IsAdmin(user) == user.isAdmin = "yes"

-----------------------------------------------------------------------------
(* Ensuring the admin repo has the files the server needs                  *)

\* A config.yml that does not parse is replaced by a fresh sample, like one
\* that is not there.
EnsureConfigYaml(t) ==
    IF t.yml \in {"missing", "syntax"}
    THEN [EmptyAdminTree EXCEPT !.yml = "ok", !.complete = TRUE, !.hostKey = t.hostKey]
    ELSE [t EXCEPT !.complete = TRUE]

\* What ensureAdminConfig may leave in the worktree: host keys are generated,
\* and only when the files are absent.
EnsureAdminConfig(t) ==
    LET y == EnsureConfigYaml(t) IN
    IF t.hostKey = NoKey THEN {[y EXCEPT !.hostKey = k] : k \in HostKey} ELSE {y}

\* ensureAdminUser adds the key, leaves an is_admin that is there alone and
\* drops the disabled flag. A user it creates has no "repos" entry.
EnsureAdminUser(t, u, k) ==
    LET old == IF t.users[u] # Nil THEN t.users[u]
               ELSE [isAdmin |-> "unset", disabled |-> FALSE, keys |-> {}, repos |-> Nil]
        new == [old EXCEPT !.isAdmin = IF @ = "unset" THEN "yes" ELSE @,
                           !.disabled = FALSE,
                           !.keys = @ \cup {k}]
    IN IF t.yml = "ok" THEN [t EXCEPT !.users[u] = new] ELSE t

-----------------------------------------------------------------------------
(* Loading                                                                 *)

ConfigParses(t) == t.yml = "ok" \* mutant

\* loadAdminConfig fails unless config.yml and the host keys parse.
AdminLoads(t) == t.yml = "ok" /\ t.hostKey \in HostKey

\* It replaces every field but publicKeys.
LoadAdminConfig(c, t) ==
    [users |-> t.users, groups |-> t.groups, orgs |-> t.orgs, repos |-> t.repos,
     options |-> t.options, hostKey |-> t.hostKey, publicKeys |-> c.publicKeys]

\* The config repos a load goes on to open.
UserSubRepos(c) ==
    IF c.options.userConfigKeys \/ c.options.userConfigRepos
    THEN {UserRepo(u) : u \in Keys(c.users)} ELSE {}

OrgSubRepos(c) ==
    IF c.options.orgConfig THEN {OrgRepo(o) : o \in Keys(c.orgs)} ELSE {}

\* Assigning into a nil map panics, merging nothing into one does not.
Panics(m, new) == m = Nil /\ Keys(new) # {}
Fill(m, new) == IF m = Nil THEN m ELSE Over(m, new)

\* loadUserConfig and loadOrgConfig end in "ok", "error" or "panic". A user
\* repo may lack its config.yml, an org repo may not.
UserOutcome(c, u, t) ==
    CASE t.yml = "missing" -> "ok"
      [] t.yml = "bad" -> "error"
      [] OTHER -> IF c.options.userConfigRepos /\ Panics(c.users[u].repos, t.repos)
                  THEN "panic" ELSE "ok"

OrgOutcome(c, o, t) ==
    IF t.yml # "ok" THEN "error"
    ELSE IF c.options.orgConfigRepos /\ Panics(c.orgs[o].repos, t.repos)
         THEN "panic" ELSE "ok"

\* What they make of the user's or org's entry when they end in "ok".
MergedUser(options, user, t) ==
    IF t.yml # "ok" THEN user
    ELSE [user EXCEPT !.keys = IF options.userConfigKeys THEN @ \cup t.keys ELSE @,
                      !.repos = IF options.userConfigRepos THEN Fill(@, t.repos) ELSE @]

MergedOrg(options, org, t) ==
    [org EXCEPT !.admin = @ \cup t.admin,
                !.write = @ \cup t.write,
                !.read = @ \cup t.read,
                !.repos = IF options.orgConfigRepos THEN Fill(@, t.repos) ELSE @]

SubOutcome(c, r, t) ==
    IF r[1] = "user" THEN UserOutcome(c, r[2], t) ELSE OrgOutcome(c, r[2], t)

LoadSubConfig(c, r, t) ==
    IF r[1] = "user"
    THEN [c EXCEPT !.users[r[2]] = MergedUser(c.options, @, t)]
    ELSE [c EXCEPT !.orgs[r[2]] = MergedOrg(c.options, @, t)]

\* flatten writes every user's keys into publicKeys, which it does not clear.
\* Users come in map order: a key two users share goes to either.
KeysOf(users) == UNION {users[u].keys : u \in Keys(users)}

KeyOwners(users) ==
    {f \in [KeysOf(users) -> Keys(users)] :
        \A k \in KeysOf(users) : k \in users[f[k]].keys}

Flatten(c) ==
    {[c EXCEPT !.publicKeys =
         [k \in Key |-> IF k \in KeysOf(c.users) THEN owner[k] ELSE @[k]]] :
        owner \in KeyOwners(c.users)}

-----------------------------------------------------------------------------
(* Looking up a user, and validating a config a push would install         *)

\* LookupUserFromKey for the git user finds the enabled owner of the key.
UserOfKey(c, k) ==
    {u \in Keys(c.users) : c.publicKeys[k] = u /\ ~c.users[u].disabled}

FindsSelfLoop(groups) == \E g \in Group : g \in groups[g] \* mutant

\* The depth first search of validateGroupLoopInternal: the groups for which it
\* reports a loop when it comes to them at the end of path.
FindsLoop(groups) ==
    LET Looping[path \in SUBSET Group] ==
            {g \in Group : \/ g \in path
                           \/ \E h \in groups[g] \cap Group : h \in Looping[path \cup {g}]}
    IN Looping[{}] # {}

ValidateUser(c, u) == u \in Keys(c.users)
ValidatePublicKey(c, k) == k \in Keys(c.publicKeys)
ValidateAdmins(c) == \E u \in Keys(c.users) : IsAdmin(c.users[u])
ValidateGroupLoop(c) == ~FindsLoop(c.groups)

ValidateAllButUser(c, u, k) == \* mutant
    ValidatePublicKey(c, k) /\ ValidateAdmins(c) /\ ValidateGroupLoop(c)

Validate(c, u, k) ==
    /\ ValidateUser(c, u)
    /\ ValidatePublicKey(c, k)
    /\ ValidateAdmins(c)
    /\ ValidateGroupLoop(c)

-----------------------------------------------------------------------------
(* What a disk means: the reference for the step by step load of Server.   *)
(* A disk maps every config repo to the tree at the tip of its master.     *)

\* The config before flatten, all sub-configs merged at once.
Merged(c, disk) ==
    [c EXCEPT
       !.users = [u \in User |->
                    IF UserRepo(u) \in UserSubRepos(c)
                    THEN MergedUser(c.options, @[u], disk[UserRepo(u)]) ELSE @[u]],
       !.orgs = [o \in Org |->
                    IF OrgRepo(o) \in OrgSubRepos(c)
                    THEN MergedOrg(c.options, @[o], disk[OrgRepo(o)]) ELSE @[o]]]

\* A fresh process can load this disk.
Loadable(disk) ==
    LET c == LoadAdminConfig(NewConfig, disk[AdminRepo]) IN
    /\ AdminLoads(disk[AdminRepo])
    /\ \A r \in UserSubRepos(c) \cup OrgSubRepos(c) : SubOutcome(c, r, disk[r]) = "ok"

\* The configs it may then hold.
Meaning(disk) == Flatten(Merged(LoadAdminConfig(NewConfig, disk[AdminRepo]), disk))
=============================================================================

---------------------------- MODULE ConfigProofs ----------------------------
(* What the functions of Config return, for all trees and configs.         *)
EXTENDS Config, FiniteSetTheorems, TLAPS

\* Filling the gaps of a map from another map of the type keeps the type.
LEMMA OverType ==
    ASSUME NEW S, NEW T, NEW m \in MapOf(S, T), NEW n \in MapOf(S, T)
    PROVE  Over(m, n) \in MapOf(S, T)
BY DEF Over, MapOf

\* The default options are options.
LEMMA DefaultOptionsType == DefaultOptions \in Options
BY ConfigAssumption DEF DefaultOptions, Options

\* NewConfig gives a Config of the right shape.
LEMMA NewConfigType == NewConfig \in ConfigType
BY DefaultOptionsType DEF NewConfig, ConfigType, EmptyMap, MapOf, RepoMap

\* A fresh admin repo holds an admin tree.
LEMMA EmptyAdminTreeType == EmptyAdminTree \in AdminTree
BY DefaultOptionsType DEF EmptyAdminTree, AdminTree, EmptyMap, MapOf, RepoMap

\* ensureAdminConfig turns an admin tree into admin trees.
LEMMA EnsureAdminConfigType ==
    ASSUME NEW t \in AdminTree
    PROVE  EnsureAdminConfig(t) \subseteq AdminTree
<1>1. EnsureConfigYaml(t) \in AdminTree
  BY EmptyAdminTreeType DEF EnsureConfigYaml, AdminTree
<1>2. ASSUME NEW k \in HostKey
      PROVE  [EnsureConfigYaml(t) EXCEPT !.hostKey = k] \in AdminTree
  BY <1>1 DEF AdminTree
<1> QED BY <1>1, <1>2 DEF EnsureAdminConfig

\* So does ensureAdminUser.
LEMMA EnsureAdminUserType ==
    ASSUME NEW t \in AdminTree, NEW u \in User, NEW k \in Key
    PROVE  EnsureAdminUser(t, u, k) \in AdminTree
<1> DEFINE old == IF t.users[u] # Nil THEN t.users[u]
                  ELSE [isAdmin |-> "unset", disabled |-> FALSE, keys |-> {}, repos |-> Nil]
           new == [old EXCEPT !.isAdmin = IF @ = "unset" THEN "yes" ELSE @,
                              !.disabled = FALSE, !.keys = @ \cup {k}]
<1>1. t.users \in MapOf(User, AdminConfigUser)
  BY DEF AdminTree
<1>2. old \in AdminConfigUser
  BY <1>1 DEF MapOf, AdminConfigUser
<1>3. new \in AdminConfigUser
  BY <1>2 DEF AdminConfigUser
<1> HIDE DEF new
<1>4. [t.users EXCEPT ![u] = new] \in MapOf(User, AdminConfigUser)
  BY <1>1, <1>3 DEF MapOf
<1>5. [t EXCEPT !.users[u] = new] \in AdminTree
  BY <1>4 DEF AdminTree
<1> QED BY <1>5 DEF EnsureAdminUser, new

\* A tree that loads gives a Config of the right shape.
LEMMA LoadAdminConfigType ==
    ASSUME NEW c \in ConfigType, NEW t \in AdminTree, AdminLoads(t)
    PROVE  LoadAdminConfig(c, t) \in ConfigType
BY DEF LoadAdminConfig, ConfigType, AdminTree, AdminLoads

\* Merging repos (loadUserConfig, loadOrgConfig) gives a repo map, or leaves nil.
LEMMA FillType ==
    ASSUME NEW m \in RepoMap \cup {Nil}, NEW n \in RepoMap
    PROVE  Fill(m, n) \in RepoMap \cup {Nil}
BY OverType DEF Fill, RepoMap

\* loadUserConfig leaves a user entry a user entry.
LEMMA MergedUserType ==
    ASSUME NEW o, NEW user \in AdminConfigUser, NEW t \in UserTree
    PROVE  MergedUser(o, user, t) \in AdminConfigUser
<1>1. Fill(user.repos, t.repos) \in RepoMap \cup {Nil}
  BY FillType DEF AdminConfigUser, UserTree
<1> QED BY <1>1 DEF MergedUser, AdminConfigUser, UserTree

\* loadOrgConfig leaves an org entry an org entry.
LEMMA MergedOrgType ==
    ASSUME NEW o, NEW org \in OrgConfig, NEW t \in OrgTree
    PROVE  MergedOrg(o, org, t) \in OrgConfig
<1>1. Fill(org.repos, t.repos) \in RepoMap \cup {Nil}
  BY FillType DEF OrgConfig, OrgTree
<1> QED BY <1>1 DEF MergedOrg, OrgConfig, OrgTree

\* The config repos a config may still have to open are those of its own users
\* and orgs.
Opens(c, r) ==
    \/ \E u \in User : r = UserRepo(u) /\ c.users[u] # Nil
    \/ \E o \in Org : r = OrgRepo(o) /\ c.orgs[o] # Nil

\* A load goes on to the repos of its own users and orgs only.
LEMMA SubReposOpen ==
    ASSUME NEW c \in ConfigType, NEW r \in UserSubRepos(c) \cup OrgSubRepos(c)
    PROVE  r \in ConfigRepo /\ Opens(c, r)
BY DEF UserSubRepos, OrgSubRepos, Keys, ConfigType, MapOf, Opens, ConfigRepo

\* Merging a sub-config keeps the shape, and the entries of the others.
LEMMA LoadSubConfigType ==
    ASSUME NEW c \in ConfigType, NEW r, Opens(c, r), NEW t \in TreeOf(r)
    PROVE  /\ LoadSubConfig(c, r, t) \in ConfigType
           /\ \A q : q # r /\ Opens(c, q) => Opens(LoadSubConfig(c, r, t), q)
<1>1. CASE \E u \in User : r = UserRepo(u) /\ c.users[u] # Nil
  <2>1. PICK u \in User : r = UserRepo(u) /\ c.users[u] # Nil
    BY <1>1
  <2>2. t \in UserTree /\ r[1] = "user" /\ r[2] = u
    BY <2>1 DEF UserRepo, TreeOf
  <2>3. c.users[u] \in AdminConfigUser
    BY <2>1 DEF ConfigType, MapOf
  <2>4. MergedUser(c.options, c.users[u], t) \in AdminConfigUser
    BY <2>2, <2>3, MergedUserType
  <2>5. LoadSubConfig(c, r, t) =
           [c EXCEPT !.users = [@ EXCEPT ![u] = MergedUser(c.options, c.users[u], t)]]
    BY <2>2 DEF LoadSubConfig, ConfigType
  <2>6. LoadSubConfig(c, r, t) \in ConfigType
    BY <2>4, <2>5 DEF ConfigType, MapOf
  <2>7. ASSUME NEW q, q # r, Opens(c, q) PROVE Opens(LoadSubConfig(c, r, t), q)
    BY <2>1, <2>5, <2>7 DEF Opens, UserRepo, OrgRepo, ConfigType, MapOf
  <2> QED BY <2>6, <2>7
<1>2. CASE \E o \in Org : r = OrgRepo(o) /\ c.orgs[o] # Nil
  <2>1. PICK o \in Org : r = OrgRepo(o) /\ c.orgs[o] # Nil
    BY <1>2
  <2>2. t \in OrgTree /\ r[1] # "user" /\ r[2] = o
    BY <2>1 DEF OrgRepo, TreeOf
  <2>3. c.orgs[o] \in OrgConfig
    BY <2>1 DEF ConfigType, MapOf
  <2>4. MergedOrg(c.options, c.orgs[o], t) \in OrgConfig
    BY <2>2, <2>3, MergedOrgType
  <2>5. LoadSubConfig(c, r, t) =
           [c EXCEPT !.orgs = [@ EXCEPT ![o] = MergedOrg(c.options, c.orgs[o], t)]]
    BY <2>2 DEF LoadSubConfig, ConfigType
  <2>6. LoadSubConfig(c, r, t) \in ConfigType
    BY <2>4, <2>5 DEF ConfigType, MapOf
  <2>7. ASSUME NEW q, q # r, Opens(c, q) PROVE Opens(LoadSubConfig(c, r, t), q)
    BY <2>1, <2>5, <2>7 DEF Opens, UserRepo, OrgRepo, ConfigType, MapOf
  <2> QED BY <2>6, <2>7
<1> QED BY <1>1, <1>2 DEF Opens

\* flatten keeps the shape: a key is only ever given to a user of the config.
LEMMA FlattenType ==
    ASSUME NEW c \in ConfigType, NEW d \in Flatten(c)
    PROVE  d \in ConfigType
<1>1. PICK owner \in KeyOwners(c.users) :
          d = [c EXCEPT !.publicKeys =
                 [k \in Key |-> IF k \in KeysOf(c.users) THEN owner[k] ELSE @[k]]]
  BY DEF Flatten
<1>2. \A k \in KeysOf(c.users) : owner[k] \in User
  BY DEF KeyOwners, Keys, ConfigType, MapOf
<1>3. [k \in Key |-> IF k \in KeysOf(c.users) THEN owner[k] ELSE c.publicKeys[k]]
        \in MapOf(Key, User)
  BY <1>2 DEF ConfigType, MapOf
<1> QED BY <1>1, <1>3 DEF ConfigType

-----------------------------------------------------------------------------
(* A load that has yet to open some of the config repos                    *)

SubRepos(c) == UserSubRepos(c) \cup OrgSubRepos(c)

UsersBut(c, disk, todo) ==
    [u \in User |-> IF UserRepo(u) \in UserSubRepos(c) \ todo
                    THEN MergedUser(c.options, c.users[u], disk[UserRepo(u)]) ELSE c.users[u]]

OrgsBut(c, disk, todo) ==
    [o \in Org |-> IF OrgRepo(o) \in OrgSubRepos(c) \ todo
                   THEN MergedOrg(c.options, c.orgs[o], disk[OrgRepo(o)]) ELSE c.orgs[o]]

\* What Merged makes of c, without the config repos in todo.
MergedBut(c, disk, todo) ==
    [c EXCEPT !.users = UsersBut(c, disk, todo), !.orgs = OrgsBut(c, disk, todo)]

\* The fields of a config.
LEMMA ConfigFields ==
    ASSUME NEW c \in ConfigType
    PROVE  /\ c = [users |-> c.users, groups |-> c.groups, orgs |-> c.orgs, repos |-> c.repos,
                   options |-> c.options, hostKey |-> c.hostKey, publicKeys |-> c.publicKeys]
           /\ c.users \in MapOf(User, AdminConfigUser) /\ c.orgs \in MapOf(Org, OrgConfig)
BY DEF ConfigType

\* The fields of a config some config repos have been merged into.
LEMMA MergedButFields ==
    ASSUME NEW c \in ConfigType, NEW disk, NEW todo
    PROVE  MergedBut(c, disk, todo) =
              [users |-> UsersBut(c, disk, todo), groups |-> c.groups,
               orgs |-> OrgsBut(c, disk, todo), repos |-> c.repos,
               options |-> c.options, hostKey |-> c.hostKey, publicKeys |-> c.publicKeys]
<1>1. ASSUME NEW users, NEW orgs
      PROVE  [c EXCEPT !.users = users, !.orgs = orgs] =
                [users |-> users, groups |-> c.groups, orgs |-> orgs, repos |-> c.repos,
                 options |-> c.options, hostKey |-> c.hostKey, publicKeys |-> c.publicKeys]
  <2> DEFINE d == [c EXCEPT !.users = users]
  <2>1. [c EXCEPT !.users = users, !.orgs = orgs] = [d EXCEPT !.orgs = orgs]
    BY DEF ConfigType
  <2>2. d = [users |-> users, groups |-> c.groups, orgs |-> c.orgs, repos |-> c.repos,
             options |-> c.options, hostKey |-> c.hostKey, publicKeys |-> c.publicKeys]
    BY DEF ConfigType
  <2> HIDE DEF d
  <2> QED BY <2>1, <2>2
<1> QED BY <1>1 DEF MergedBut

\* Before the first of them is opened it is the admin repo's config.
LEMMA MergedButAll ==
    ASSUME NEW c \in ConfigType, NEW disk
    PROVE  MergedBut(c, disk, SubRepos(c)) = c
<1>1. UsersBut(c, disk, SubRepos(c)) = c.users
  BY ConfigFields DEF UsersBut, SubRepos, MapOf
<1>2. OrgsBut(c, disk, SubRepos(c)) = c.orgs
  BY ConfigFields DEF OrgsBut, SubRepos, MapOf
<1> QED BY <1>1, <1>2, MergedButFields, ConfigFields

\* After the last of them it is what Merged says.
LEMMA MergedButNone ==
    ASSUME NEW c \in ConfigType, NEW disk
    PROVE  MergedBut(c, disk, {}) = Merged(c, disk)
BY DEF MergedBut, UsersBut, OrgsBut, Merged, ConfigType

\* Only the config repos already opened count.
LEMMA MergedButDepends ==
    ASSUME NEW c \in ConfigType, NEW d, NEW e, NEW todo,
           \A r \in SubRepos(c) \ todo : d[r] = e[r]
    PROVE  MergedBut(c, d, todo) = MergedBut(c, e, todo)
<1>1. UsersBut(c, d, todo) = UsersBut(c, e, todo)
  BY DEF UsersBut, SubRepos
<1>2. OrgsBut(c, d, todo) = OrgsBut(c, e, todo)
  BY DEF OrgsBut, SubRepos
<1> QED BY <1>1, <1>2 DEF MergedBut

\* The config repos of users are not those of orgs.
LEMMA SubReposApart ==
    /\ \A u, v : UserRepo(u) = UserRepo(v) => u = v
    /\ \A o, p : OrgRepo(o) = OrgRepo(p) => o = p
    /\ \A u, o : UserRepo(u) # OrgRepo(o)
    /\ \A u : UserRepo(u)[1] = "user" /\ UserRepo(u)[2] = u /\ UserRepo(u) # AdminRepo
    /\ \A o : OrgRepo(o)[1] = "org" /\ OrgRepo(o)[2] = o /\ OrgRepo(o) # AdminRepo
BY DEF UserRepo, OrgRepo, AdminRepo

\* Opening one more.
LEMMA MergedButStep ==
    ASSUME NEW c \in ConfigType, NEW disk, NEW todo, todo \subseteq SubRepos(c), NEW r \in todo
    PROVE  LoadSubConfig(MergedBut(c, disk, todo), r, disk[r]) = MergedBut(c, disk, todo \ {r})
<1> DEFINE m == MergedBut(c, disk, todo)
<1>0. m = [users |-> UsersBut(c, disk, todo), groups |-> c.groups,
           orgs |-> OrgsBut(c, disk, todo), repos |-> c.repos,
           options |-> c.options, hostKey |-> c.hostKey, publicKeys |-> c.publicKeys]
  BY MergedButFields
<1> HIDE DEF m
<1>1. ASSUME NEW u \in User, r = UserRepo(u)
      PROVE  LoadSubConfig(m, r, disk[r]) = MergedBut(c, disk, todo \ {r})
  <2>1. r \in UserSubRepos(c) /\ r[1] = "user" /\ r[2] = u
    BY <1>1, SubReposApart DEF SubRepos, OrgSubRepos, UserSubRepos
  <2>2. UsersBut(c, disk, todo)[u] = c.users[u]
    BY <1>1 DEF UsersBut
  <2>3. LoadSubConfig(m, r, disk[r]) =
           [m EXCEPT !.users = [UsersBut(c, disk, todo) EXCEPT
                                  ![u] = MergedUser(c.options, c.users[u], disk[r])]]
    BY <1>0, <2>1, <2>2 DEF LoadSubConfig
  <2>4. [UsersBut(c, disk, todo) EXCEPT ![u] = MergedUser(c.options, c.users[u], disk[r])]
          = UsersBut(c, disk, todo \ {r})
    <3> DEFINE new == [UsersBut(c, disk, todo) EXCEPT
                         ![u] = MergedUser(c.options, c.users[u], disk[r])]
    <3>1. new[u] = UsersBut(c, disk, todo \ {r})[u]
      BY <1>1, <2>1 DEF UsersBut
    <3>2. ASSUME NEW v \in User, v # u PROVE new[v] = UsersBut(c, disk, todo \ {r})[v]
      <4>1. UserRepo(v) # r
        BY <1>1, <3>2, SubReposApart
      <4> QED BY <3>2, <4>1 DEF UsersBut
    <3>3. DOMAIN new = User /\ new = [v \in User |-> new[v]]
      BY DEF UsersBut
    <3> HIDE DEF new
    <3>4. new = [v \in User |-> UsersBut(c, disk, todo \ {r})[v]]
      BY <3>1, <3>2, <3>3
    <3> QED BY <3>4 DEF UsersBut, new
  <2>5. OrgsBut(c, disk, todo) = OrgsBut(c, disk, todo \ {r})
    BY <1>1, SubReposApart DEF OrgsBut
  <2> QED BY <1>0, <2>3, <2>4, <2>5, MergedButFields
<1>2. ASSUME NEW o \in Org, r = OrgRepo(o)
      PROVE  LoadSubConfig(m, r, disk[r]) = MergedBut(c, disk, todo \ {r})
  <2>1. r \in OrgSubRepos(c) /\ r[1] # "user" /\ r[2] = o
    BY <1>2, SubReposApart DEF SubRepos, OrgSubRepos, UserSubRepos
  <2>2. OrgsBut(c, disk, todo)[o] = c.orgs[o]
    BY <1>2 DEF OrgsBut
  <2>3. LoadSubConfig(m, r, disk[r]) =
           [m EXCEPT !.orgs = [OrgsBut(c, disk, todo) EXCEPT
                                  ![o] = MergedOrg(c.options, c.orgs[o], disk[r])]]
    BY <1>0, <2>1, <2>2 DEF LoadSubConfig
  <2>4. [OrgsBut(c, disk, todo) EXCEPT ![o] = MergedOrg(c.options, c.orgs[o], disk[r])]
          = OrgsBut(c, disk, todo \ {r})
    <3> DEFINE new == [OrgsBut(c, disk, todo) EXCEPT
                         ![o] = MergedOrg(c.options, c.orgs[o], disk[r])]
    <3>1. new[o] = OrgsBut(c, disk, todo \ {r})[o]
      BY <1>2, <2>1 DEF OrgsBut
    <3>2. ASSUME NEW v \in Org, v # o PROVE new[v] = OrgsBut(c, disk, todo \ {r})[v]
      <4>1. OrgRepo(v) # r
        BY <1>2, <3>2, SubReposApart
      <4> QED BY <3>2, <4>1 DEF OrgsBut
    <3>3. DOMAIN new = Org /\ new = [v \in Org |-> new[v]]
      BY DEF OrgsBut
    <3> HIDE DEF new
    <3>4. new = [v \in Org |-> OrgsBut(c, disk, todo \ {r})[v]]
      BY <3>1, <3>2, <3>3
    <3> QED BY <3>4 DEF OrgsBut, new
  <2>5. UsersBut(c, disk, todo) = UsersBut(c, disk, todo \ {r})
    BY <1>2, SubReposApart DEF UsersBut
  <2> QED BY <1>0, <2>3, <2>4, <2>5, MergedButFields
<1>3. (\E u \in User : r = UserRepo(u)) \/ (\E o \in Org : r = OrgRepo(o))
  BY ConfigFields DEF SubRepos, UserSubRepos, OrgSubRepos, Keys, MapOf
<1> QED BY <1>1, <1>2, <1>3 DEF m

\* Merging keeps the users and orgs there are and so the config repos to open.
LEMMA MergedButKeeps ==
    ASSUME NEW c \in ConfigType, NEW disk, NEW todo,
           \A r \in SubRepos(c) \ todo : disk[r] \in TreeOf(r),
           NEW m, m = MergedBut(c, disk, todo)
    PROVE  /\ m \in ConfigType /\ m.options = c.options /\ m.publicKeys = c.publicKeys
           /\ Keys(m.users) = Keys(c.users) /\ Keys(m.orgs) = Keys(c.orgs)
           /\ UserSubRepos(m) = UserSubRepos(c) /\ OrgSubRepos(m) = OrgSubRepos(c)
<1>1. ASSUME NEW u \in User
      PROVE  /\ UsersBut(c, disk, todo)[u] \in AdminConfigUser \cup {Nil}
             /\ UsersBut(c, disk, todo)[u] = Nil <=> c.users[u] = Nil
  <2>1. CASE UserRepo(u) \in UserSubRepos(c) \ todo
    <3>1. c.users[u] \in AdminConfigUser /\ c.users[u] # Nil
      BY <2>1, NilAssumption, ConfigFields, SubReposApart DEF UserSubRepos, Keys, MapOf
    <3>2. disk[UserRepo(u)] \in UserTree
      BY <2>1, SubReposApart DEF SubRepos, TreeOf
    <3>3. MergedUser(c.options, c.users[u], disk[UserRepo(u)]) \in AdminConfigUser
      BY <3>1, <3>2, MergedUserType
    <3> QED BY <2>1, <3>1, <3>3, NilAssumption DEF UsersBut
  <2>2. CASE UserRepo(u) \notin UserSubRepos(c) \ todo
    BY <2>2, ConfigFields DEF UsersBut, MapOf
  <2> QED BY <2>1, <2>2
<1>2. ASSUME NEW o \in Org
      PROVE  /\ OrgsBut(c, disk, todo)[o] \in OrgConfig \cup {Nil}
             /\ OrgsBut(c, disk, todo)[o] = Nil <=> c.orgs[o] = Nil
  <2>1. CASE OrgRepo(o) \in OrgSubRepos(c) \ todo
    <3>1. c.orgs[o] \in OrgConfig /\ c.orgs[o] # Nil
      BY <2>1, NilAssumption, ConfigFields, SubReposApart DEF OrgSubRepos, Keys, MapOf
    <3>2. disk[OrgRepo(o)] \in OrgTree
      BY <2>1, SubReposApart DEF SubRepos, TreeOf
    <3>3. MergedOrg(c.options, c.orgs[o], disk[OrgRepo(o)]) \in OrgConfig
      BY <3>1, <3>2, MergedOrgType
    <3> QED BY <2>1, <3>1, <3>3, NilAssumption DEF OrgsBut
  <2>2. CASE OrgRepo(o) \notin OrgSubRepos(c) \ todo
    BY <2>2, ConfigFields DEF OrgsBut, MapOf
  <2> QED BY <2>1, <2>2
<1>3. /\ UsersBut(c, disk, todo) \in MapOf(User, AdminConfigUser)
      /\ Keys(UsersBut(c, disk, todo)) = Keys(c.users)
  BY <1>1, ConfigFields DEF UsersBut, MapOf, Keys
<1>4. /\ OrgsBut(c, disk, todo) \in MapOf(Org, OrgConfig)
      /\ Keys(OrgsBut(c, disk, todo)) = Keys(c.orgs)
  BY <1>2, ConfigFields DEF OrgsBut, MapOf, Keys
<1> DEFINE users == UsersBut(c, disk, todo)  orgs == OrgsBut(c, disk, todo)
<1>5. m = [users |-> users, groups |-> c.groups, orgs |-> orgs, repos |-> c.repos,
           options |-> c.options, hostKey |-> c.hostKey, publicKeys |-> c.publicKeys]
  BY MergedButFields
<1> HIDE DEF users, orgs
<1>6. m \in ConfigType
  BY <1>3, <1>4, <1>5 DEF ConfigType, users, orgs
<1>7. /\ m.options = c.options /\ m.publicKeys = c.publicKeys
      /\ m.users = users /\ m.orgs = orgs
  BY <1>5
<1>8. Keys(m.users) = Keys(c.users) /\ Keys(m.orgs) = Keys(c.orgs)
  BY <1>3, <1>4, <1>7 DEF users, orgs
<1> QED BY <1>6, <1>7, <1>8 DEF UserSubRepos, OrgSubRepos

-----------------------------------------------------------------------------
(* flatten, and the keys it finds in publicKeys                            *)

WithKeys(c, publicKeys) == [c EXCEPT !.publicKeys = publicKeys]

\* The fields of a config with other public keys.
LEMMA WithKeysFields ==
    ASSUME NEW c \in ConfigType, NEW keys
    PROVE  /\ WithKeys(c, keys) = [users |-> c.users, groups |-> c.groups, orgs |-> c.orgs,
                   repos |-> c.repos, options |-> c.options, hostKey |-> c.hostKey,
                   publicKeys |-> keys]
           /\ keys \in MapOf(Key, User) => WithKeys(c, keys) \in ConfigType
BY DEF WithKeys, ConfigType

\* flatten gives every key of a user to one who has it, leaves every other key
\* alone, and touches nothing else.
LEMMA FlattenKeys ==
    ASSUME NEW c \in ConfigType, NEW d \in Flatten(c)
    PROVE  /\ d = WithKeys(c, d.publicKeys)
           /\ \A k \in Key :
                 IF k \in KeysOf(c.users)
                 THEN d.publicKeys[k] \in Keys(c.users) /\ k \in c.users[d.publicKeys[k]].keys
                 ELSE d.publicKeys[k] = c.publicKeys[k]
<1>1. PICK owner \in KeyOwners(c.users) :
          d = WithKeys(c, [k \in Key |-> IF k \in KeysOf(c.users) THEN owner[k]
                                         ELSE c.publicKeys[k]])
  BY DEF Flatten, WithKeys, ConfigType
<1>2. d.publicKeys = [k \in Key |-> IF k \in KeysOf(c.users) THEN owner[k]
                                    ELSE c.publicKeys[k]]
  BY <1>1, WithKeysFields
<1>3. \A k \in KeysOf(c.users) : owner[k] \in Keys(c.users) /\ k \in c.users[owner[k]].keys
  BY DEF KeyOwners
<1> QED BY <1>1, <1>2, <1>3

\* What flatten makes of a config does not depend on the public keys it finds,
\* but for the keys that are nobody's.
LEMMA FlattenAnew ==
    ASSUME NEW c \in ConfigType, NEW keys \in MapOf(Key, User), NEW d \in Flatten(c)
    PROVE  \E e \in Flatten(WithKeys(c, keys)) :
              /\ d = WithKeys(e, d.publicKeys)
              /\ (\A k \in Key \ KeysOf(c.users) : c.publicKeys[k] = keys[k]) => d = e
<1> DEFINE all(owner, old) == [k \in Key |-> IF k \in KeysOf(c.users) THEN owner[k] ELSE old[k]]
           b == WithKeys(c, keys)
<1>1. PICK owner \in KeyOwners(c.users) : d = WithKeys(c, all(owner, c.publicKeys))
  BY DEF Flatten, WithKeys, ConfigType
<1>2. b.users = c.users /\ b.publicKeys = keys /\ b \in ConfigType
  BY WithKeysFields
<1> DEFINE e == WithKeys(b, all(owner, keys))
<1>3. e \in Flatten(b)
  BY <1>2 DEF Flatten, WithKeys
<1>4. d.publicKeys = all(owner, c.publicKeys)
  BY <1>1, WithKeysFields
<1>5. all(owner, keys) \in MapOf(Key, User)
  BY DEF KeyOwners, Keys, MapOf, ConfigType
<1> HIDE DEF all
<1>6. e = WithKeys(c, all(owner, keys)) /\ e \in ConfigType
  <2>1. \A k \in MapOf(Key, User) : WithKeys(b, k) = WithKeys(c, k) /\ WithKeys(c, k) \in ConfigType
    BY <1>2, WithKeysFields
  <2> QED BY <1>5, <2>1
<1>7. d = WithKeys(e, d.publicKeys)
  <2>1. \A x, y : y \in MapOf(Key, User) => WithKeys(WithKeys(c, y), x) = WithKeys(c, x)
    BY WithKeysFields
  <2> QED BY <1>1, <1>4, <1>5, <1>6, <2>1
<1>8. (\A k \in Key \ KeysOf(c.users) : c.publicKeys[k] = keys[k])
         => all(owner, c.publicKeys) = all(owner, keys)
  BY DEF all
<1> QED BY <1>1, <1>3, <1>6, <1>7, <1>8

\* Merging sub-configs does not look at the public keys.
LEMMA MergedWithKeys ==
    ASSUME NEW c \in ConfigType, NEW keys \in MapOf(Key, User), NEW disk,
           MergedBut(c, disk, {}) \in ConfigType
    PROVE  Merged(WithKeys(c, keys), disk) = WithKeys(MergedBut(c, disk, {}), keys)
<1> DEFINE b == WithKeys(c, keys)
<1>1. b = [users |-> c.users, groups |-> c.groups, orgs |-> c.orgs, repos |-> c.repos,
           options |-> c.options, hostKey |-> c.hostKey, publicKeys |-> keys]
  BY WithKeysFields
<1>2. b \in ConfigType
  BY WithKeysFields
<1> HIDE DEF b
<1>3. UsersBut(b, disk, {}) = UsersBut(c, disk, {})
  BY <1>1 DEF UsersBut, UserSubRepos
<1>4. OrgsBut(b, disk, {}) = OrgsBut(c, disk, {})
  BY <1>1 DEF OrgsBut, OrgSubRepos
<1>5. MergedBut(b, disk, {}) =
         [users |-> UsersBut(c, disk, {}), groups |-> c.groups,
          orgs |-> OrgsBut(c, disk, {}), repos |-> c.repos,
          options |-> c.options, hostKey |-> c.hostKey, publicKeys |-> keys]
  BY <1>1, <1>2, <1>3, <1>4, MergedButFields
<1>6. WithKeys(MergedBut(c, disk, {}), keys) =
         [users |-> UsersBut(c, disk, {}), groups |-> c.groups,
          orgs |-> OrgsBut(c, disk, {}), repos |-> c.repos,
          options |-> c.options, hostKey |-> c.hostKey, publicKeys |-> keys]
  <2> DEFINE m == MergedBut(c, disk, {})
  <2>1. m = [users |-> UsersBut(c, disk, {}), groups |-> c.groups,
             orgs |-> OrgsBut(c, disk, {}), repos |-> c.repos,
             options |-> c.options, hostKey |-> c.hostKey, publicKeys |-> c.publicKeys]
    BY MergedButFields
  <2>2. WithKeys(m, keys) =
           [users |-> m.users, groups |-> m.groups, orgs |-> m.orgs, repos |-> m.repos,
            options |-> m.options, hostKey |-> m.hostKey, publicKeys |-> keys]
    BY WithKeysFields
  <2> HIDE DEF m
  <2>3. /\ m.users = UsersBut(c, disk, {}) /\ m.groups = c.groups
        /\ m.orgs = OrgsBut(c, disk, {}) /\ m.repos = c.repos
        /\ m.options = c.options /\ m.hostKey = c.hostKey
    BY <2>1
  <2> QED BY <2>2, <2>3 DEF m
<1>7. Merged(b, disk) = MergedBut(b, disk, {})
  BY <1>2, MergedButNone
<1> QED BY <1>5, <1>6, <1>7 DEF b

-----------------------------------------------------------------------------
(* The search for group loops: it follows every path, and cuts off where a *)
(* path comes back to itself. What it computes is the one solution of an   *)
(* equation; the proof finds that solution in closed form. Paths only get  *)
(* longer and there are finitely many groups, so a longest path on which   *)
(* two solutions differ would be one on which they do not.                 *)

\* Every nonempty set of subsets of a finite set has a smallest one for inclusion.
LEMMA MinimalSet ==
    ASSUME NEW G, IsFiniteSet(G), NEW Ts \in SUBSET (SUBSET G), Ts # {}
    PROVE  \E T \in Ts : \A U \in Ts : U \subseteq T => U = T
<1>1. IsWellFoundedOn(StrictSubsetOrdering(G), SUBSET G)
  BY FS_StrictSubsetOrderingWellFounded, FS_FiniteSubsetsOfFinite
<1>2. PICK T \in Ts : \A U \in Ts : ~(<<U, T>> \in StrictSubsetOrdering(G))
  BY <1>1, WFMin
<1>3. ASSUME NEW U \in Ts, U \subseteq T
      PROVE  U = T
  <2>1. <<U, T>> \in (SUBSET G) \X (SUBSET G)
    OBVIOUS
  <2> QED BY <1>2, <1>3, <2>1 DEF StrictSubsetOrdering
<1> QED BY <1>3

\* And a largest one.
LEMMA MaximalSet ==
    ASSUME NEW G, IsFiniteSet(G), NEW Ts \in SUBSET (SUBSET G), Ts # {}
    PROVE  \E T \in Ts : \A U \in Ts : T \subseteq U => U = T
<1> DEFINE Cs == {G \ T : T \in Ts}
<1>1. PICK C \in Cs : \A D \in Cs : D \subseteq C => D = C
  <2>1. Cs \in SUBSET (SUBSET G)
    OBVIOUS
  <2>2. Cs # {}
    <3>1. PICK U \in Ts : TRUE
      OBVIOUS
    <3>2. G \ U \in Cs
      OBVIOUS
    <3> QED BY <3>2
  <2> HIDE DEF Cs
  <2> QED BY <2>1, <2>2, MinimalSet
<1>2. PICK T \in Ts : C = G \ T
  OBVIOUS
<1>3. ASSUME NEW U \in Ts, T \subseteq U
      PROVE  U = T
  <2>1. G \ U \in Cs /\ G \ U \subseteq C
    BY <1>2, <1>3
  <2>2. G \ U = G \ T
    BY <1>1, <1>2, <2>1
  <2> QED BY <2>2
<1> QED BY <1>3

\* The equation of the search for loops.
LoopEq(groups, f) ==
    f = [path \in SUBSET Group |->
           {g \in Group : \/ g \in path
                          \/ \E h \in groups[g] \cap Group : h \in f[path \cup {g}]}]

\* A set of groups all of whose member groups are in it, and one none of whose
\* parts goes round.
ClosedIn(groups, S) == \A g \in S : groups[g] \cap Group \subseteq S
LoopFree(groups, S) == \A T \in SUBSET S : T # {} => \E g \in T : groups[g] \cap T = {}

\* The loop free sets the search may walk from path without meeting it.
Clear(groups, path) ==
    {S \in SUBSET Group : S \cap path = {} /\ ClosedIn(groups, S) /\ LoopFree(groups, S)}
LoopingFrom(groups) ==
    [path \in SUBSET Group |-> {g \in Group : \A S \in Clear(groups, path) : g \notin S}]

\* The equation, group by group.
LEMMA LoopEqAt ==
    ASSUME NEW groups, NEW f, LoopEq(groups, f), NEW path \in SUBSET Group, NEW g \in Group
    PROVE  g \in f[path] <=> \/ g \in path
                            \/ \E h \in groups[g] \cap Group : h \in f[path \cup {g}]
<1> DEFINE Now == {x \in Group : \/ x \in path
                               \/ \E h \in groups[x] \cap Group : h \in f[path \cup {x}]}
<1>1. f[path] = Now
  BY DEF LoopEq
<1> QED BY <1>1

\* The equation has at most one solution.
LEMMA LoopEqUnique ==
    ASSUME NEW groups, NEW f, NEW e, LoopEq(groups, f), LoopEq(groups, e)
    PROVE  f = e
<1> DEFINE Apart == {path \in SUBSET Group : f[path] # e[path]}
<1>1. SUFFICES Apart = {}
  BY DEF LoopEq
<1>2. SUFFICES ASSUME Apart # {} PROVE FALSE
  OBVIOUS
<1>3. PICK path \in Apart : \A p \in Apart : path \subseteq p => p = path
  <2>1. Apart \in SUBSET (SUBSET Group)
    OBVIOUS
  <2> HIDE DEF Apart
  <2> QED BY <1>2, <2>1, GroupAssumption, MaximalSet
<1>4. ASSUME NEW g \in Group
      PROVE  g \in f[path] <=> g \in e[path]
  <2>1. CASE g \in path
    BY <2>1, LoopEqAt
  <2>2. CASE g \notin path
    <3>1. f[path \cup {g}] = e[path \cup {g}]
      BY <1>3, <2>2
    <3> QED BY <2>2, <3>1, LoopEqAt
  <2> QED BY <2>1, <2>2
<1>5. f[path] \subseteq Group /\ e[path] \subseteq Group
  BY DEF LoopEq
<1>6. f[path] = e[path]
  BY <1>4, <1>5
<1> QED BY <1>6

\* Taking away what reaches h leaves a set that is closed, if the set is loop free
\* and one of the members of h is in it.
LEMMA ClearWithout ==
    ASSUME NEW groups, NEW path \in SUBSET Group, NEW g \in Group, NEW h \in groups[g] \cap Group,
           NEW S \in Clear(groups, path), g \in S
    PROVE  \E T \in Clear(groups, path \cup {g}) : h \in T
<1> DEFINE Avoiding == {T \in SUBSET S : g \notin T /\ ClosedIn(groups, T)}
           A == UNION Avoiding
           C == S \ A
<1>1. A \in Avoiding
  <2>1. A \in SUBSET S /\ g \notin A
    OBVIOUS
  <2>2. ClosedIn(groups, A)
    BY DEF ClosedIn
  <2> QED BY <2>1, <2>2
<1>2. \A T \in Avoiding : T \subseteq A
  OBVIOUS
<1> HIDE DEF A
<1>3. S \in SUBSET Group /\ S \cap path = {} /\ ClosedIn(groups, S) /\ LoopFree(groups, S)
  BY DEF Clear
<1>4. h \in A
  <2>1. SUFFICES ASSUME h \notin A PROVE FALSE
    OBVIOUS
  <2>2. ASSUME NEW x \in C
        PROVE  groups[x] \cap C # {}
    <3>1. CASE x = g
      <4>1. h \in S
        BY <1>3 DEF ClosedIn
      <4> QED BY <2>1, <3>1, <4>1
    <3>2. CASE x # g
      <4>1. SUFFICES ASSUME groups[x] \cap C = {} PROVE FALSE
        OBVIOUS
      <4>2. groups[x] \cap Group \subseteq A
        BY <1>3, <4>1 DEF ClosedIn
      <4>3. ClosedIn(groups, A \cup {x})
        BY <1>1, <4>2 DEF ClosedIn
      <4>4. A \cup {x} \in Avoiding
        BY <1>1, <3>2, <4>3
      <4> QED BY <1>2, <4>4
    <3> QED BY <3>1, <3>2
  <2>3. g \in C
    BY <1>1
  <2> QED BY <1>3, <2>2, <2>3 DEF LoopFree
<1>5. A \in Clear(groups, path \cup {g})
  <2>1. A \in SUBSET Group /\ A \cap (path \cup {g}) = {}
    BY <1>1, <1>3
  <2>2. LoopFree(groups, A)
    BY <1>1, <1>3 DEF LoopFree
  <2> QED BY <1>1, <2>1, <2>2 DEF Clear
<1> QED BY <1>4, <1>5

\* The largest clear set, if any, is clear.
LEMMA ClearUnion ==
    ASSUME NEW groups, NEW path \in SUBSET Group
    PROVE  UNION Clear(groups, path) \in Clear(groups, path)
<1> DEFINE B == UNION Clear(groups, path)
<1>1. B \in SUBSET Group /\ B \cap path = {}
  BY DEF Clear
<1>2. ClosedIn(groups, B)
  BY DEF Clear, ClosedIn
<1>3. LoopFree(groups, B)
  <2>1. SUFFICES ASSUME NEW T \in SUBSET B, T # {}, \A x \in T : groups[x] \cap T # {}
                 PROVE  FALSE
    BY DEF LoopFree
  <2>2. PICK y \in T : TRUE
    BY <2>1
  <2>3. PICK S \in Clear(groups, path) : y \in S
    BY <2>2
  <2>4. S \in SUBSET Group /\ ClosedIn(groups, S) /\ LoopFree(groups, S)
    BY DEF Clear
  <2>5. ASSUME NEW x \in T \cap S
        PROVE  groups[x] \cap (T \cap S) # {}
    <3>1. PICK z \in groups[x] \cap T : TRUE
      BY <2>1
    <3>2. z \in S
      BY <1>1, <2>4, <3>1 DEF ClosedIn
    <3> QED BY <3>1, <3>2
  <2> QED BY <2>3, <2>4, <2>5 DEF LoopFree
<1> HIDE DEF B
<1> QED BY <1>1, <1>2, <1>3 DEF Clear, B

\* Walking on from a group the path may be left for.
LEMMA ClearWith ==
    ASSUME NEW groups, NEW path \in SUBSET Group, NEW g \in Group, g \notin path,
           \A h \in groups[g] \cap Group : \E S \in Clear(groups, path \cup {g}) : h \in S
    PROVE  \E S \in Clear(groups, path) : g \in S
<1> DEFINE B == UNION Clear(groups, path \cup {g})
<1>1. B \in Clear(groups, path \cup {g})
  BY ClearUnion
<1>2. groups[g] \cap Group \subseteq B
  OBVIOUS
<1> HIDE DEF B
<1>3. /\ B \in SUBSET Group /\ B \cap path = {} /\ g \notin B
      /\ ClosedIn(groups, B) /\ LoopFree(groups, B)
  BY <1>1 DEF Clear
<1>4. ClosedIn(groups, B \cup {g})
  BY <1>2, <1>3 DEF ClosedIn
<1>5. LoopFree(groups, B \cup {g})
  <2>1. SUFFICES ASSUME NEW T \in SUBSET (B \cup {g}), T # {}, \A x \in T : groups[x] \cap T # {}
                 PROVE  FALSE
    BY DEF LoopFree
  <2>2. \A x \in T : groups[x] \cap (T \cap B) # {}
    <3>1. TAKE x \in T
    <3>2. PICK z \in groups[x] \cap T : TRUE
      BY <2>1
    <3>3. groups[x] \cap Group \subseteq B
      BY <1>2, <1>3 DEF ClosedIn
    <3>4. z \in Group
      BY <1>3
    <3> QED BY <3>2, <3>3, <3>4
  <2>3. T \cap B # {}
    BY <2>1, <2>2
  <2> QED BY <1>3, <2>2, <2>3 DEF LoopFree
<1>6. B \cup {g} \in Clear(groups, path)
  BY <1>3, <1>4, <1>5 DEF Clear
<1> QED BY <1>6

\* The equation has a solution.
LEMMA LoopEqSolved ==
    ASSUME NEW groups
    PROVE  LoopEq(groups, LoopingFrom(groups))
<1> DEFINE F == LoopingFrom(groups)
<1>1. ASSUME NEW path \in SUBSET Group, NEW g \in Group
      PROVE  g \in F[path] <=> \/ g \in path
                              \/ \E h \in groups[g] \cap Group : h \in F[path \cup {g}]
  <2>1. \A p \in SUBSET Group, x \in Group :
           x \in F[p] <=> ~\E S \in Clear(groups, p) : x \in S
    BY DEF LoopingFrom
  <2>2. path \cup {g} \in SUBSET Group
    OBVIOUS
  <2> HIDE DEF F
  <2>3. ASSUME g \notin F[path]
        PROVE  g \notin path /\ \A h \in groups[g] \cap Group : h \notin F[path \cup {g}]
    <3>1. PICK S \in Clear(groups, path) : g \in S
      BY <2>1, <2>3
    <3>2. g \notin path
      BY <3>1 DEF Clear
    <3>3. ASSUME NEW h \in groups[g] \cap Group
          PROVE  h \notin F[path \cup {g}]
      <4>1. \E T \in Clear(groups, path \cup {g}) : h \in T
        BY <3>1, ClearWithout
      <4> QED BY <2>1, <2>2, <4>1
    <3> QED BY <3>2, <3>3
  <2>4. ASSUME g \notin path, \A h \in groups[g] \cap Group : h \notin F[path \cup {g}]
        PROVE  g \notin F[path]
    <3>1. \A h \in groups[g] \cap Group : \E S \in Clear(groups, path \cup {g}) : h \in S
      BY <2>1, <2>2, <2>4
    <3>2. \E S \in Clear(groups, path) : g \in S
      BY <2>4, <3>1, ClearWith
    <3> QED BY <2>1, <3>2
  <2> QED BY <2>3, <2>4
<1> DEFINE G(path) == {g \in Group : \/ g \in path
                                    \/ \E h \in groups[g] \cap Group : h \in F[path \cup {g}]}
<1>2. ASSUME NEW path \in SUBSET Group
      PROVE  F[path] = G(path)
  <2>1. F[path] \subseteq Group
    BY DEF LoopingFrom
  <2> HIDE DEF F
  <2> QED BY <1>1, <2>1
<1>3. F = [path \in SUBSET Group |-> F[path]]
  BY DEF LoopingFrom
<1> HIDE DEF F
<1>4. [path \in SUBSET Group |-> F[path]] = [path \in SUBSET Group |-> G(path)]
  <2> HIDE DEF G
  <2> QED BY <1>2
<1>5. F = [path \in SUBSET Group |-> G(path)]
  BY <1>3, <1>4
<1>6. LoopEq(groups, F)
  BY <1>5 DEF LoopEq
<1> QED BY <1>6 DEF F

\* validateGroupLoop reports a loop if and only if there is one.
LEMMA FindsLoopIsExact ==
    ASSUME NEW groups
    PROVE  FindsLoop(groups) <=> \E S \in SUBSET Group : S # {} /\ \A g \in S : groups[g] \cap S # {}
<1> DEFINE L == CHOOSE f : LoopEq(groups, f)
<1>1. LoopEq(groups, L)
  BY LoopEqSolved
<1>2. L = LoopingFrom(groups)
  <2> HIDE DEF L
  <2> QED BY <1>1, LoopEqSolved, LoopEqUnique
<1>3. FindsLoop(groups) <=> L[{}] # {}
  BY DEF FindsLoop, LoopEq
<1> HIDE DEF L
<1>4. FindsLoop(groups) <=> \E g \in Group : \A S \in Clear(groups, {}) : g \notin S
  BY <1>2, <1>3 DEF LoopingFrom
<1>5. ASSUME LoopFree(groups, Group)
      PROVE  ~FindsLoop(groups)
  <2>1. Group \in Clear(groups, {})
    BY <1>5 DEF Clear, ClosedIn
  <2> QED BY <1>4, <2>1
<1>6. ASSUME NEW T \in SUBSET Group, T # {}, \A g \in T : groups[g] \cap T # {}
      PROVE  FindsLoop(groups)
  <2>1. PICK g \in T : TRUE
    BY <1>6
  <2>2. ASSUME NEW S \in Clear(groups, {}), g \in S
        PROVE  FALSE
    <3>1. ClosedIn(groups, S) /\ LoopFree(groups, S)
      BY DEF Clear
    <3>2. \A x \in T \cap S : groups[x] \cap (T \cap S) # {}
      BY <1>6, <3>1 DEF ClosedIn
    <3> QED BY <2>1, <2>2, <3>1, <3>2 DEF LoopFree
  <2> QED BY <1>4, <2>2
<1> QED BY <1>5, <1>6 DEF LoopFree

-----------------------------------------------------------------------------
(* Disks: what loads, what it means and what ensuring does to it           *)

\* The admin repo is a config repo and holds admin trees.
LEMMA AdminRepoTree == AdminRepo \in ConfigRepo /\ TreeOf(AdminRepo) = AdminTree
BY DEF AdminRepo, ConfigRepo, TreeOf

\* A disk has a tree of the right type for every config repo.
IsDisk(disk) == DOMAIN disk = ConfigRepo /\ \A r \in ConfigRepo : disk[r] \in TreeOf(r)

\* The config of the admin repo, as a fresh process loads it.
Fresh(disk) == LoadAdminConfig(NewConfig, disk[AdminRepo])

\* The keys that are somebody's on a disk.
DiskKeys(disk) == KeysOf(Merged(Fresh(disk), disk).users)

\* Which config repos a load goes on to and how they load does not depend on
\* the public keys it has found.
LEMMA FreshLoads ==
    ASSUME NEW c, NEW t \in AdminTree, NEW d, d = LoadAdminConfig(c, t),
           NEW f, f = LoadAdminConfig(NewConfig, t)
    PROVE  /\ d.users = f.users /\ d.orgs = f.orgs /\ d.options = f.options
           /\ d.groups = f.groups
           /\ UserSubRepos(d) = UserSubRepos(f) /\ OrgSubRepos(d) = OrgSubRepos(f)
           /\ SubRepos(d) = SubRepos(f)
           /\ \A r, x : SubOutcome(d, r, x) = SubOutcome(f, r, x)
<1>1. d.users = f.users /\ d.orgs = f.orgs /\ d.options = f.options /\ d.groups = f.groups
  BY DEF LoadAdminConfig
<1>2. UserSubRepos(d) = UserSubRepos(f) /\ OrgSubRepos(d) = OrgSubRepos(f)
  BY <1>1 DEF UserSubRepos, OrgSubRepos
<1>3. SubRepos(d) = SubRepos(f)
  BY <1>2 DEF SubRepos
<1>4. \A r, x : SubOutcome(d, r, x) = SubOutcome(f, r, x)
  BY <1>1 DEF SubOutcome, UserOutcome, OrgOutcome
<1> QED BY <1>1, <1>2, <1>3, <1>4

\* A config repo that is not merged yet loads as it does into the admin repo's
\* config.
LEMMA UnmergedLoads ==
    ASSUME NEW c \in ConfigType, NEW disk, NEW todo, NEW r \in todo, r \in SubRepos(c),
           NEW m, m = MergedBut(c, disk, todo), NEW t
    PROVE  SubOutcome(m, r, t) = SubOutcome(c, r, t)
<1>1. /\ m.users = UsersBut(c, disk, todo) /\ m.orgs = OrgsBut(c, disk, todo)
      /\ m.options = c.options
  BY MergedButFields
<1>2. ASSUME NEW u \in User, r = UserRepo(u) PROVE SubOutcome(m, r, t) = SubOutcome(c, r, t)
  <2>1. UsersBut(c, disk, todo)[u] = c.users[u]
    BY <1>2 DEF UsersBut
  <2> QED BY <1>1, <1>2, <2>1, SubReposApart DEF SubOutcome, UserOutcome
<1>3. ASSUME NEW o \in Org, r = OrgRepo(o) PROVE SubOutcome(m, r, t) = SubOutcome(c, r, t)
  <2>1. OrgsBut(c, disk, todo)[o] = c.orgs[o]
    BY <1>3 DEF OrgsBut
  <2> QED BY <1>1, <1>3, <2>1, SubReposApart DEF SubOutcome, OrgOutcome
<1> QED BY <1>2, <1>3, SubReposOpen DEF SubRepos, Opens

\* flatten touches nothing but the public keys.
LEMMA FlattenFields ==
    ASSUME NEW c \in ConfigType, NEW d \in Flatten(c)
    PROVE  d.users = c.users /\ d.groups = c.groups /\ d.options = c.options
<1>1. d = WithKeys(c, d.publicKeys)
  BY FlattenKeys
<1>2. /\ WithKeys(c, d.publicKeys).users = c.users
      /\ WithKeys(c, d.publicKeys).groups = c.groups
      /\ WithKeys(c, d.publicKeys).options = c.options
  BY WithKeysFields
<1> QED BY <1>1, <1>2

\* The public keys flatten leaves are somebody's, or were there before.
LEMMA FlattenLeaves ==
    ASSUME NEW c \in ConfigType, NEW d \in Flatten(c), NEW k \in Key, d.publicKeys[k] # Nil
    PROVE  k \in KeysOf(c.users) \/ c.publicKeys[k] # Nil
BY FlattenKeys

\* The users of a config the config repos have been merged into.
LEMMA MergedUsers ==
    ASSUME NEW c \in ConfigType, NEW disk, NEW m, m = Merged(c, disk)
    PROVE  m.users = UsersBut(c, disk, {}) /\ m.groups = c.groups
<1>1. m = MergedBut(c, disk, {})
  BY MergedButNone
<1>2. m = [users |-> UsersBut(c, disk, {}), groups |-> c.groups,
           orgs |-> OrgsBut(c, disk, {}), repos |-> c.repos,
           options |-> c.options, hostKey |-> c.hostKey, publicKeys |-> c.publicKeys]
  BY <1>1, MergedButFields
<1> QED BY <1>2

\* What ensureAdminConfig does to a tree that loads: at most it adds sections.
LEMMA CompletedTree ==
    ASSUME NEW old \in AdminTree, AdminLoads(old), NEW t \in EnsureAdminConfig(old)
    PROVE  /\ t = [old EXCEPT !.complete = TRUE] /\ t \in AdminTree /\ AdminLoads(t)
           /\ \A c : LoadAdminConfig(c, t) = LoadAdminConfig(c, old)
<1>1. old.yml = "ok" /\ old.hostKey # NoKey
  BY ConfigAssumption DEF AdminLoads
<1>2. t = [old EXCEPT !.complete = TRUE]
  BY <1>1 DEF EnsureAdminConfig, EnsureConfigYaml
<1>3. /\ t \in AdminTree /\ t.yml = old.yml /\ t.hostKey = old.hostKey
      /\ t.users = old.users /\ t.groups = old.groups /\ t.orgs = old.orgs
      /\ t.repos = old.repos /\ t.options = old.options
  BY <1>2 DEF AdminTree
<1>4. AdminLoads(t)
  BY <1>3 DEF AdminLoads
<1>5. \A c : LoadAdminConfig(c, t) = LoadAdminConfig(c, old)
  BY <1>3 DEF LoadAdminConfig
<1> QED BY <1>2, <1>3, <1>4, <1>5

\* The server can be started on a disk that loads.
LEMMA LoadableStarts ==
    ASSUME NEW disk, IsDisk(disk), Loadable(disk), NEW t \in EnsureAdminConfig(disk[AdminRepo])
    PROVE  Loadable([disk EXCEPT ![AdminRepo] = t])
<1> DEFINE e == [disk EXCEPT ![AdminRepo] = t]
<1>1. disk[AdminRepo] \in AdminTree /\ AdminLoads(disk[AdminRepo])
  BY AdminRepoTree DEF IsDisk, Loadable
<1>2. /\ AdminLoads(t) /\ Fresh(disk) \in ConfigType
      /\ LoadAdminConfig(NewConfig, t) = LoadAdminConfig(NewConfig, disk[AdminRepo])
  BY <1>1, CompletedTree, LoadAdminConfigType, NewConfigType DEF Fresh
<1>3. e[AdminRepo] = t /\ \A r \in SubRepos(Fresh(disk)) : e[r] = disk[r]
  <2>1. \A r \in SubRepos(Fresh(disk)) : r \in ConfigRepo /\ r # AdminRepo
    BY <1>2, SubReposOpen, SubReposApart DEF SubRepos, Opens
  <2> QED BY <2>1, AdminRepoTree DEF IsDisk
<1> HIDE DEF e
<1>4. Loadable(e)
  BY <1>2, <1>3 DEF Loadable, Fresh, SubRepos
<1> QED BY <1>4 DEF e

\* The keys a user has when the own file is merged.
LEMMA MergedUserKeys ==
    ASSUME NEW o, NEW user \in AdminConfigUser, NEW x
    PROVE  MergedUser(o, user, x).keys =
              user.keys \cup (IF x.yml = "ok" /\ o.userConfigKeys THEN x.keys ELSE {})
<1> DEFINE keys == IF o.userConfigKeys THEN user.keys \cup x.keys ELSE user.keys
           repos == IF o.userConfigRepos THEN Fill(user.repos, x.repos) ELSE user.repos
<1>1. CASE x.yml = "ok"
  <2> HIDE DEF keys, repos
  <2>1. MergedUser(o, user, x) = [user EXCEPT !.keys = keys, !.repos = repos]
    BY <1>1 DEF MergedUser, keys, repos, AdminConfigUser
  <2>2. MergedUser(o, user, x).keys = keys
    BY <2>1 DEF AdminConfigUser
  <2> QED BY <1>1, <2>2 DEF keys
<1>2. CASE x.yml # "ok"
  BY <1>2 DEF MergedUser
<1> QED BY <1>1, <1>2

\* ensureAdminUser takes no key from anybody.
LEMMA EnsureUserKeeps ==
    ASSUME NEW old \in AdminTree, NEW u \in User, NEW k \in Key,
           NEW t, t = EnsureAdminUser(old, u, k)
    PROVE  /\ t \in AdminTree /\ t.options = old.options /\ t.groups = old.groups
           /\ t.orgs = old.orgs /\ t.repos = old.repos /\ t.hostKey = old.hostKey
           /\ t.yml = old.yml
           /\ \A v \in Keys(old.users) :
                 /\ v \in Keys(t.users) /\ old.users[v].keys \subseteq t.users[v].keys
                 /\ IsAdmin(old.users[v]) => IsAdmin(t.users[v])
<1>0. t \in AdminTree
  BY EnsureAdminUserType
<1>1. CASE old.yml # "ok"
  BY <1>0, <1>1 DEF EnsureAdminUser
<1>2. CASE old.yml = "ok"
  <2> DEFINE was == IF old.users[u] # Nil THEN old.users[u]
                    ELSE [isAdmin |-> "unset", disabled |-> FALSE, keys |-> {}, repos |-> Nil]
             admin == IF was.isAdmin = "unset" THEN "yes" ELSE was.isAdmin
             keys == was.keys \cup {k}
             new == [was EXCEPT !.isAdmin = admin, !.disabled = FALSE, !.keys = keys]
             users == [old.users EXCEPT ![u] = new]
  <2>1. t = [old EXCEPT !.users = users]
    BY <1>2 DEF EnsureAdminUser, AdminTree
  <2>2. /\ t.options = old.options /\ t.groups = old.groups /\ t.orgs = old.orgs
        /\ t.repos = old.repos /\ t.hostKey = old.hostKey /\ t.yml = old.yml
        /\ t.users = users
    <3> HIDE DEF users
    <3> QED BY <2>1 DEF AdminTree
  <2>3. was \in AdminConfigUser /\ old.users \in MapOf(User, AdminConfigUser)
    BY DEF AdminTree, MapOf, AdminConfigUser
  <2>4. new.isAdmin = admin /\ new.keys = keys /\ new \in AdminConfigUser
    <3> HIDE DEF was
    <3>1. admin \in {"unset", "no", "yes"} /\ keys \in SUBSET Key
      BY <2>3 DEF AdminConfigUser
    <3> HIDE DEF admin, keys
    <3> QED BY <2>3, <3>1 DEF AdminConfigUser
  <2>5. ASSUME NEW v \in Keys(old.users)
        PROVE  /\ v \in Keys(users) /\ old.users[v].keys \subseteq users[v].keys
               /\ IsAdmin(old.users[v]) => IsAdmin(users[v])
    <3>1. CASE v = u
      <4>1. users[v] = new /\ was = old.users[v]
        BY <2>3, <2>5, <3>1 DEF Keys, MapOf
      <4> HIDE DEF new, was
      <4>2. users[v] # Nil /\ DOMAIN users = User
        BY <2>3, <2>4, <4>1, NilAssumption DEF MapOf
      <4> QED BY <2>4, <3>1, <4>1, <4>2 DEF Keys, IsAdmin
    <3>2. CASE v # u
      <4> HIDE DEF new
      <4> QED BY <2>3, <2>5, <3>2 DEF Keys, MapOf
    <3> QED BY <3>1, <3>2
  <2> QED BY <1>0, <2>2, <2>5
<1> QED BY <1>1, <1>2

\* What a disk means and whether it loads depends on its config repos only.
LEMMA SameDisk ==
    ASSUME NEW d, NEW e, IsDisk(d), \A r \in ConfigRepo : d[r] = e[r]
    PROVE  /\ Loadable(d) <=> Loadable(e)
           /\ AdminLoads(d[AdminRepo]) => Meaning(d) = Meaning(e) /\ DiskKeys(d) = DiskKeys(e)
<1> DEFINE c == Fresh(d)
<1>1. d[AdminRepo] = e[AdminRepo] /\ d[AdminRepo] \in AdminTree
  BY AdminRepoTree DEF IsDisk
<1>2. ASSUME AdminLoads(d[AdminRepo])
      PROVE  /\ c \in ConfigType /\ \A r \in SubRepos(c) : d[r] = e[r]
             /\ Merged(c, d) = Merged(c, e)
  <2>1. c \in ConfigType
    BY <1>1, <1>2, LoadAdminConfigType, NewConfigType DEF Fresh
  <2> HIDE DEF c
  <2>2. \A r \in SubRepos(c) \ {} : d[r] = e[r]
    BY <2>1, SubReposOpen DEF SubRepos
  <2>3. Merged(c, d) = MergedBut(c, d, {}) /\ Merged(c, e) = MergedBut(c, e, {})
    BY <2>1, MergedButNone
  <2> QED BY <2>1, <2>2, <2>3, MergedButDepends
<1>3. c = Fresh(e)
  BY <1>1 DEF Fresh
<1> HIDE DEF c
<1>4. Loadable(d) <=> Loadable(e)
  BY <1>1, <1>2, <1>3 DEF Loadable, c, Fresh, SubRepos
<1>5. ASSUME AdminLoads(d[AdminRepo]) PROVE Meaning(d) = Meaning(e) /\ DiskKeys(d) = DiskKeys(e)
  BY <1>2, <1>3, <1>5 DEF Meaning, DiskKeys, c, Fresh
<1> QED BY <1>4, <1>5
=============================================================================

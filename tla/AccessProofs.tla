---------------------------- MODULE AccessProofs ----------------------------
(***************************************************************************)
(* For any users, groups and lists: who is found in a group, and what it   *)
(* takes to get access to a repo.                                          *)
(***************************************************************************)
EXTENDS MCAccess, ConfigProofs

-----------------------------------------------------------------------------
(* The search for a user in a group, like the one for loops in             *)
(* ConfigProofs.                                                           *)

\* The equation of the search for a user.
HoldEq(groups, u, f) ==
    f = [path \in SUBSET Group |->
           {h \in Group \ path :
              \E m \in groups[h] :
                 IF m \in Group THEN m \in f[path \cup {h}] ELSE m = u}]

\* The sets a search below path may walk through without meeting u.
Without(groups, u, path) ==
    {S \in SUBSET (Group \ path) :
       /\ \A h \in S : (groups[h] \cap Group) \ path \subseteq S
       /\ \A h \in S : u \notin groups[h]}
HoldingBelow(groups, u) ==
    [path \in SUBSET Group |->
       {h \in Group \ path : \A S \in Without(groups, u, path) : h \notin S}]

\* The equation, group by group.
LEMMA HoldEqAt ==
    ASSUME NEW groups, NEW u, NEW f, HoldEq(groups, u, f),
           NEW path \in SUBSET Group, NEW h \in Group
    PROVE  h \in f[path] <=> /\ h \notin path
                            /\ \E m \in groups[h] :
                                  IF m \in Group THEN m \in f[path \cup {h}] ELSE m = u
<1> DEFINE Now == {x \in Group \ path :
                     \E m \in groups[x] :
                        IF m \in Group THEN m \in f[path \cup {x}] ELSE m = u}
<1>1. f[path] = Now
  BY DEF HoldEq
<1> QED BY <1>1

\* The equation has at most one solution.
LEMMA HoldEqUnique ==
    ASSUME NEW groups, NEW u, NEW f, NEW e, HoldEq(groups, u, f), HoldEq(groups, u, e)
    PROVE  f = e
<1> DEFINE Apart == {path \in SUBSET Group : f[path] # e[path]}
<1>1. SUFFICES Apart = {}
  BY DEF HoldEq
<1>2. SUFFICES ASSUME Apart # {} PROVE FALSE
  OBVIOUS
<1>3. PICK path \in Apart : \A p \in Apart : path \subseteq p => p = path
  <2>1. Apart \in SUBSET (SUBSET Group)
    OBVIOUS
  <2> HIDE DEF Apart
  <2> QED BY <1>2, <2>1, GroupAssumption, MaximalSet
<1>4. ASSUME NEW h \in Group
      PROVE  h \in f[path] <=> h \in e[path]
  <2>1. CASE h \in path
    BY <2>1, HoldEqAt
  <2>2. CASE h \notin path
    <3>1. f[path \cup {h}] = e[path \cup {h}]
      BY <1>3, <2>2
    <3> QED BY <2>2, <3>1, HoldEqAt
  <2> QED BY <2>1, <2>2
<1>5. f[path] \subseteq Group /\ e[path] \subseteq Group
  BY DEF HoldEq
<1>6. f[path] = e[path]
  BY <1>4, <1>5
<1> QED BY <1>6

\* The equation has a solution, if groups have no users' names.
LEMMA HoldEqSolved ==
    ASSUME NEW groups, NEW u, u \notin Group
    PROVE  HoldEq(groups, u, HoldingBelow(groups, u))
<1> DEFINE F == HoldingBelow(groups, u)
           Hit(path, h) == \E m \in groups[h] :
                              IF m \in Group THEN m \in F[path \cup {h}] ELSE m = u
<1>1. \A p \in SUBSET Group, x \in Group :
         x \in F[p] <=> x \notin p /\ ~\E S \in Without(groups, u, p) : x \in S
  BY DEF HoldingBelow
<1>2. ASSUME NEW path \in SUBSET Group, NEW h \in Group
      PROVE  h \in F[path] <=> h \notin path /\ Hit(path, h)
  <2>1. path \cup {h} \in SUBSET Group
    OBVIOUS
  <2> HIDE DEF F
  <2>2. ASSUME h \notin path, h \notin F[path]
        PROVE  ~Hit(path, h)
    <3>1. PICK S \in Without(groups, u, path) : h \in S
      BY <1>1, <2>2
    <3>2. /\ S \in SUBSET (Group \ path) /\ \A x \in S : u \notin groups[x]
          /\ \A x \in S : (groups[x] \cap Group) \ path \subseteq S
      BY DEF Without
    <3>3. S \ {h} \in Without(groups, u, path \cup {h})
      BY <3>2 DEF Without
    <3>4. ASSUME NEW m \in groups[h] \cap Group, m \in F[path \cup {h}]
          PROVE  FALSE
      <4>1. m \notin path \cup {h} /\ m \in Group
        BY <1>1, <2>1, <3>4
      <4>2. m \in S \ {h}
        BY <3>1, <3>2, <4>1
      <4> QED BY <1>1, <2>1, <3>3, <3>4, <4>2
    <3> QED BY <3>1, <3>2, <3>4
  <2>3. ASSUME h \notin path, ~Hit(path, h)
        PROVE  h \notin F[path]
    <3> DEFINE B == UNION Without(groups, u, path \cup {h})
    <3>1. /\ B \in SUBSET (Group \ (path \cup {h})) /\ \A x \in B : u \notin groups[x]
          /\ \A x \in B : (groups[x] \cap Group) \ (path \cup {h}) \subseteq B
      BY DEF Without
    <3>2. u \notin groups[h]
      BY <2>3
    <3>3. (groups[h] \cap Group) \ (path \cup {h}) \subseteq B
      BY <1>1, <2>1, <2>3
    <3> HIDE DEF B
    <3>4. B \cup {h} \in SUBSET (Group \ path)
      BY <2>3, <3>1
    <3>5. \A x \in B \cup {h} : (groups[x] \cap Group) \ path \subseteq B \cup {h}
      BY <3>1, <3>3
    <3>6. B \cup {h} \in Without(groups, u, path)
      BY <3>1, <3>2, <3>4, <3>5 DEF Without
    <3> QED BY <1>1, <3>6
  <2>4. h \in F[path] => h \notin path
    BY <1>1
  <2> QED BY <2>2, <2>3, <2>4
<1> DEFINE G(path) == {h \in Group \ path : Hit(path, h)}
<1>3. ASSUME NEW path \in SUBSET Group
      PROVE  F[path] = G(path)
  <2>1. F[path] \subseteq Group
    BY DEF HoldingBelow
  <2> HIDE DEF F, Hit
  <2> QED BY <1>2, <2>1
<1>4. F = [path \in SUBSET Group |-> F[path]]
  BY DEF HoldingBelow
<1> HIDE DEF F
<1>5. [path \in SUBSET Group |-> F[path]] = [path \in SUBSET Group |-> G(path)]
  <2> HIDE DEF G
  <2> QED BY <1>3
<1>6. F = [path \in SUBSET Group |-> G(path)]
  BY <1>4, <1>5
<1>7. HoldEq(groups, u, F)
  BY <1>6 DEF HoldEq
<1> QED BY <1>7 DEF F

\* doesGroupContainUser finds the members of a group and nobody else.
LEMMA SearchIsComplete ==
    ASSUME NEW groups, NEW u, u \notin Group, NEW g \in Group
    PROVE  DoesGroupContainUser(groups, u, g) <=> IsMember(groups, u, g)
<1> DEFINE H == CHOOSE f : HoldEq(groups, u, f)
<1>1. HoldEq(groups, u, H)
  BY HoldEqSolved
<1>2. H = HoldingBelow(groups, u)
  <2> HIDE DEF H
  <2> QED BY <1>1, HoldEqSolved, HoldEqUnique
<1>3. DoesGroupContainUser(groups, u, g) <=> g \in H[{}]
  BY DEF DoesGroupContainUser, HoldEq
<1> HIDE DEF H
<1>4. DoesGroupContainUser(groups, u, g) <=> \A S \in Without(groups, u, {}) : g \notin S
  BY <1>2, <1>3 DEF HoldingBelow
<1> QED BY <1>4 DEF Without, IsMember
\* So does the search of a list.
LEMMA ListSearch ==
    ASSUME NEW groups, NEW u \in User, NEW list
    PROVE  CheckListsForUser(groups, u, list) <=> Listed(groups, u, list)
<1>1. u \notin Group
  BY GroupAssumption
<1>2. \A g \in Group : DoesGroupContainUser(groups, u, g) <=> IsMember(groups, u, g)
  BY <1>1, SearchIsComplete
<1> QED BY <1>1, <1>2 DEF CheckListsForUser, Listed

-----------------------------------------------------------------------------
(* What access takes                                                       *)

\* A repo's own lists.
OwnLists(c, repo) ==
    CASE repo.type = "Org"  -> ListsOf(c.orgs[repo.parts[1]].repos, repo.parts[2])
      [] repo.type = "User" -> ListsOf(c.users[repo.parts[1]].repos, repo.parts[2])
      [] repo.type = "TopLevel" /\ repo.parts[1] = NoSigil -> ListsOf(c.repos, repo.parts[2])
      [] OTHER -> NoLists

\* u owns the repo, or is listed for it or for the organization it belongs to.
Granted(c, u, repo) ==
    \/ repo.type \in {"UserConfig", "User"} /\ repo.parts[1] = u
    \/ /\ repo.type = "OrgConfig"
       /\ Listed(c.groups, u, c.orgs[repo.parts[1]].admin)
    \/ /\ repo.type = "Org"
       /\ LET org == c.orgs[repo.parts[1]] IN
             \/ Listed(c.groups, u, org.admin)
             \/ Listed(c.groups, u, org.write)
             \/ Listed(c.groups, u, org.read)
    \/ Listed(c.groups, u, OwnLists(c, repo).write)
    \/ Listed(c.groups, u, OwnLists(c, repo).read)

\* Who is on two lists put together is on one of them.
LEMMA ListedInEither ==
    ASSUME NEW groups, NEW u, NEW a, NEW b, Listed(groups, u, a \cup b)
    PROVE  Listed(groups, u, a) \/ Listed(groups, u, b)
BY DEF Listed

\* The last two steps give somebody who is on neither list nothing.
LEMMA LevelNeedsList ==
    ASSUME NEW groups, NEW u \in User, NEW write, NEW read, LevelOf(groups, u, write, read) > None
    PROVE  Listed(groups, u, write) \/ Listed(groups, u, read)
BY ListSearch DEF LevelOf, None

\* With any config, nobody has access to any repo but administrators, its owner
\* and those who are listed for it, directly or through groups (lookupRepo and
\* checkUserRepoAccess). This is of the code as it is, which lets nobody read a
\* repo for its being public.
THEOREM AccessIsGranted ==
    ASSUME NEW c, NEW u \in User, NEW path, AccessTo(c, u, path) > None
    PROVE  IsAdmin(c.users[u]) \/ Granted(c, u, LookupRepo(c, path))
<1> DEFINE repo == LookupRepo(c, path)
<1>1. repo # NoRepo /\ CheckUserRepoAccess(c, u, IsAdmin(c.users[u]), repo) > None
  BY DEF AccessTo, None
<1> HIDE DEF repo
<1>2. SUFFICES ASSUME ~IsAdmin(c.users[u]) PROVE Granted(c, u, repo)
  BY DEF repo
<1>3. CASE repo.type = "OrgConfig"
  BY <1>1, <1>2, <1>3, ListSearch DEF CheckUserRepoAccess, Granted, None
<1>4. CASE repo.type = "UserConfig"
  BY <1>1, <1>2, <1>4 DEF CheckUserRepoAccess, Granted, None
<1>5. CASE repo.type = "Org"
  <2> DEFINE org == c.orgs[repo.parts[1]]
             own == ListsOf(org.repos, repo.parts[2])
  <2>1. OwnLists(c, repo) = own
    BY <1>5 DEF OwnLists
  <2>2. OrgAccess(c, u, repo.parts) > None
    BY <1>1, <1>2, <1>5 DEF CheckUserRepoAccess
  <2>3. \/ CheckListsForUser(c.groups, u, org.admin)
        \/ LevelOf(c.groups, u, org.write \cup own.write, org.read \cup own.read) > None
    BY <2>2 DEF OrgAccess
  <2> HIDE DEF own
  <2>4. \/ Listed(c.groups, u, org.admin)
        \/ Listed(c.groups, u, org.write \cup own.write)
        \/ Listed(c.groups, u, org.read \cup own.read)
    BY <2>3, ListSearch, LevelNeedsList
  <2> QED BY <1>5, <2>1, <2>4, ListedInEither DEF Granted
<1>6. CASE repo.type = "User"
  <2> DEFINE own == ListsOf(c.users[repo.parts[1]].repos, repo.parts[2])
  <2>1. OwnLists(c, repo) = own
    BY <1>6 DEF OwnLists
  <2>2. UserAccess(c, u, repo.parts) > None
    BY <1>1, <1>2, <1>6 DEF CheckUserRepoAccess
  <2>3. repo.parts[1] = u \/ LevelOf(c.groups, u, own.write, own.read) > None
    BY <2>2 DEF UserAccess
  <2> HIDE DEF own
  <2> QED BY <1>6, <2>1, <2>3, LevelNeedsList DEF Granted
<1>7. CASE repo.type = "TopLevel"
  <2> DEFINE own == IF repo.parts[1] = NoSigil THEN ListsOf(c.repos, repo.parts[2]) ELSE NoLists
  <2>1. OwnLists(c, repo) = own
    BY <1>7 DEF OwnLists
  <2>2. TopLevelAccess(c, u, repo.parts) > None
    BY <1>1, <1>2, <1>7 DEF CheckUserRepoAccess
  <2>3. LevelOf(c.groups, u, own.write, own.read) > None
    BY <2>2 DEF TopLevelAccess
  <2> HIDE DEF own
  <2> QED BY <2>1, <2>3, LevelNeedsList DEF Granted
<1>8. repo.type \in {"OrgConfig", "UserConfig", "Org", "User", "TopLevel"}
  BY <1>1, <1>2 DEF CheckUserRepoAccess, None
<1> QED BY <1>3, <1>4, <1>5, <1>6, <1>7, <1>8

-----------------------------------------------------------------------------
(* More entries never mean less access                                     *)

\* Every list of lists is on the other side too, with more on it.
ListsGrow(a, b) == a.write \subseteq b.write /\ a.read \subseteq b.read
ReposGrow(m, n) ==
    m # Nil => \A r \in Keys(m) : Has(n, r) /\ ListsGrow(m[r], n[r])

\* d has all that c has, and more entries in some lists, groups and maps.
Grows(c, d) ==
    /\ \A g \in Group : c.groups[g] \subseteq d.groups[g]
    /\ c.options.orgPrefix = d.options.orgPrefix
    /\ c.options.userPrefix = d.options.userPrefix
    /\ c.options.implicitRepos => d.options.implicitRepos
    /\ Keys(c.users) \subseteq Keys(d.users) /\ Keys(c.orgs) \subseteq Keys(d.orgs)
    /\ \A u \in Keys(c.users) :
          /\ IsAdmin(c.users[u]) => IsAdmin(d.users[u])
          /\ ReposGrow(c.users[u].repos, d.users[u].repos)
    /\ \A o \in Keys(c.orgs) :
          /\ c.orgs[o].admin \subseteq d.orgs[o].admin
          /\ ListsGrow(c.orgs[o], d.orgs[o])
          /\ ReposGrow(c.orgs[o].repos, d.orgs[o].repos)
    /\ ReposGrow(c.repos, d.repos)

\* Who is in a group stays in it.
LEMMA MembersStay ==
    ASSUME NEW a, NEW b, \A g \in Group : a[g] \subseteq b[g],
           NEW u, NEW list, NEW more, list \subseteq more, Listed(a, u, list)
    PROVE  Listed(b, u, more)
<1>1. ASSUME NEW g \in Group, IsMember(a, u, g)
      PROVE  IsMember(b, u, g)
  <2>1. SUFFICES ASSUME NEW S \in SUBSET Group, g \in S, \A h \in S : b[h] \cap Group \subseteq S
                 PROVE  \E h \in S : u \in b[h]
    BY DEF IsMember
  <2>2. \A h \in S : a[h] \cap Group \subseteq S
    BY <2>1
  <2>3. \E h \in S : u \in a[h]
    BY <1>1, <2>1, <2>2 DEF IsMember
  <2> QED BY <2>3
<1> QED BY <1>1 DEF Listed

\* The last two steps give no less for longer lists.
LEMMA LevelGrows ==
    ASSUME NEW a, NEW b, \A g \in Group : a[g] \subseteq b[g], NEW u \in User,
           NEW write, NEW read, NEW moreWrite, NEW moreRead,
           write \subseteq moreWrite, read \subseteq moreRead
    PROVE  LevelOf(b, u, moreWrite, moreRead) >= LevelOf(a, u, write, read)
<1>1. Listed(a, u, write) => Listed(b, u, moreWrite)
  BY MembersStay
<1>2. Listed(a, u, read) => Listed(b, u, moreRead)
  BY MembersStay
<1>3. CheckListsForUser(a, u, write) => CheckListsForUser(b, u, moreWrite)
  BY <1>1, ListSearch
<1>4. CheckListsForUser(a, u, read) => CheckListsForUser(b, u, moreRead)
  BY <1>2, ListSearch
<1> QED BY <1>3, <1>4 DEF LevelOf, None, Read, Write

\* A repo's own lists grow with the map it is in.
LEMMA ListsOfGrow ==
    ASSUME NEW m, NEW n, ReposGrow(m, n), NEW r
    PROVE  ListsGrow(ListsOf(m, r), ListsOf(n, r))
BY DEF ReposGrow, ListsGrow, ListsOf, NoLists, Has

\* A repo that is found is one of an organization or a user of the config, or
\* one that belongs to neither.
LEMMA LookupNames ==
    ASSUME NEW c, NEW path, LookupRepo(c, path) # NoRepo
    PROVE  LET repo == LookupRepo(c, path) IN
           /\ repo.type \in RepoType
           /\ repo.type \in {"OrgConfig", "Org"} => repo.parts[1] \in Keys(c.orgs)
           /\ repo.type \in {"UserConfig", "User"} => repo.parts[1] \in Keys(c.users)
<1>1. CASE LookupRepo(c, path) = LookupOrgRepo(c, path.parts)
  BY <1>1 DEF LookupOrgRepo, RepoType
<1>2. CASE LookupRepo(c, path) = LookupUserRepo(c, path.parts)
  BY <1>2 DEF LookupUserRepo, RepoType
<1>3. CASE LookupRepo(c, path) = LookupTopLevelRepo(c, path)
  BY <1>3 DEF LookupTopLevelRepo, RepoType
<1>4. CASE LookupRepo(c, path) = [type |-> "Admin", parts |-> <<"admin", "admin">>]
  BY <1>4 DEF RepoType
<1> QED BY <1>1, <1>2, <1>3, <1>4 DEF LookupRepo

\* It is still there with more in the config, and is the same repo.
LEMMA LookupStays ==
    ASSUME NEW c, NEW d, Grows(c, d), NEW path, LookupRepo(c, path) # NoRepo
    PROVE  LookupRepo(d, path) = LookupRepo(c, path)
<1>1. LookupOrgRepo(c, path.parts) # NoRepo
        => LookupOrgRepo(d, path.parts) = LookupOrgRepo(c, path.parts)
  <2>1. \A o \in Keys(c.orgs) : \A r : Has(c.orgs[o].repos, r) => Has(d.orgs[o].repos, r)
    BY DEF Grows, ReposGrow, Has
  <2> QED BY <2>1 DEF LookupOrgRepo, Grows
<1>2. LookupUserRepo(c, path.parts) # NoRepo
        => LookupUserRepo(d, path.parts) = LookupUserRepo(c, path.parts)
  <2>1. \A o \in Keys(c.users) : \A r : Has(c.users[o].repos, r) => Has(d.users[o].repos, r)
    BY DEF Grows, ReposGrow, Has
  <2> QED BY <2>1 DEF LookupUserRepo, Grows
<1>3. LookupTopLevelRepo(c, path) # NoRepo
        => LookupTopLevelRepo(d, path) = LookupTopLevelRepo(c, path)
  <2>1. \A r : Has(c.repos, r) => Has(d.repos, r)
    BY DEF Grows, ReposGrow, Has
  <2> QED BY <2>1 DEF LookupTopLevelRepo, Grows
<1> QED BY <1>1, <1>2, <1>3 DEF LookupRepo, Grows

\* The four levels are all there is.
LEMMA AccessIsALevel ==
    ASSUME NEW c, NEW u, NEW isAdmin \in BOOLEAN, NEW repo
    PROVE  CheckUserRepoAccess(c, u, isAdmin, repo) \in AccessLevel
<1>1. \A groups, write, read : LevelOf(groups, u, write, read) \in AccessLevel
  BY DEF LevelOf, AccessLevel, None, Read, Write, Admin
<1>2. Admin \in AccessLevel /\ None \in AccessLevel
  BY DEF AccessLevel, None, Admin
<1>3. OrgAccess(c, u, repo.parts) \in AccessLevel
  BY <1>1, <1>2 DEF OrgAccess
<1>4. UserAccess(c, u, repo.parts) \in AccessLevel
  BY <1>1, <1>2 DEF UserAccess
<1>5. TopLevelAccess(c, u, repo.parts) \in AccessLevel
  BY <1>1 DEF TopLevelAccess
<1> QED BY <1>2, <1>3, <1>4, <1>5 DEF CheckUserRepoAccess

\* Access to a repo of an organization.
LEMMA OrgAccessGrows ==
    ASSUME NEW c, NEW d, Grows(c, d), NEW u \in User, NEW parts, parts[1] \in Keys(c.orgs)
    PROVE  OrgAccess(d, u, parts) >= OrgAccess(c, u, parts)
<1> DEFINE o == parts[1]
           own == ListsOf(c.orgs[o].repos, parts[2])
           more == ListsOf(d.orgs[o].repos, parts[2])
<1>1. \A g \in Group : c.groups[g] \subseteq d.groups[g]
  BY DEF Grows
<1>2. c.orgs[o].admin \subseteq d.orgs[o].admin /\ ListsGrow(c.orgs[o], d.orgs[o])
      /\ ReposGrow(c.orgs[o].repos, d.orgs[o].repos)
  BY DEF Grows
<1>3. ListsGrow(own, more)
  BY <1>2, ListsOfGrow
<1>4. CheckListsForUser(c.groups, u, c.orgs[o].admin)
        => CheckListsForUser(d.groups, u, d.orgs[o].admin)
  BY <1>1, <1>2, ListSearch, MembersStay
<1> HIDE DEF own, more
<1> DEFINE had == LevelOf(c.groups, u, c.orgs[o].write \cup own.write,
                          c.orgs[o].read \cup own.read)
           has == LevelOf(d.groups, u, d.orgs[o].write \cup more.write,
                          d.orgs[o].read \cup more.read)
<1>5. has >= had
  <2>1. /\ c.orgs[o].write \cup own.write \subseteq d.orgs[o].write \cup more.write
        /\ c.orgs[o].read \cup own.read \subseteq d.orgs[o].read \cup more.read
    BY <1>2, <1>3 DEF ListsGrow
  <2> QED BY <1>1, <2>1, LevelGrows
<1>6. had \in None .. Write /\ has \in None .. Write
  BY DEF LevelOf, None, Read, Write
<1>7. /\ OrgAccess(c, u, parts)
           = IF CheckListsForUser(c.groups, u, c.orgs[o].admin) THEN Admin ELSE had
      /\ OrgAccess(d, u, parts)
           = IF CheckListsForUser(d.groups, u, d.orgs[o].admin) THEN Admin ELSE has
  BY DEF OrgAccess, own, more
<1> HIDE DEF had, has
<1> QED BY <1>4, <1>5, <1>6, <1>7 DEF None, Write, Admin

\* Adding entries to the lists, groups and maps of a config, whatever they are,
\* never takes access from a user it has: no entry hides another one
\* (checkUserRepoAccess).
THEOREM GrantsOnlyAdd ==
    ASSUME NEW c, NEW d, Grows(c, d), NEW u \in User, u \in Keys(c.users), NEW path
    PROVE  AccessTo(d, u, path) >= AccessTo(c, u, path)
<1> DEFINE repo == LookupRepo(c, path)
           had == CheckUserRepoAccess(c, u, IsAdmin(c.users[u]), repo)
           has == CheckUserRepoAccess(d, u, IsAdmin(d.users[u]), repo)
<1>1. IsAdmin(c.users[u]) \in BOOLEAN /\ IsAdmin(d.users[u]) \in BOOLEAN
  BY DEF IsAdmin
<1>2. had \in AccessLevel /\ has \in AccessLevel
        /\ CheckUserRepoAccess(d, u, IsAdmin(d.users[u]), LookupRepo(d, path)) \in AccessLevel
  BY <1>1, AccessIsALevel
<1>3. CASE repo = NoRepo
  <2>1. AccessTo(c, u, path) = 0
    BY <1>3 DEF AccessTo, None
  <2>2. AccessTo(d, u, path) \in 0 .. 3
    BY <1>2 DEF AccessTo, AccessLevel, None, Admin
  <2> QED BY <2>1, <2>2
<1>4. CASE repo # NoRepo
  <2>1. AccessTo(c, u, path) = had /\ AccessTo(d, u, path) = has
    BY <1>4, LookupStays DEF AccessTo
  <2>2. /\ repo.type \in RepoType
        /\ repo.type \in {"OrgConfig", "Org"} => repo.parts[1] \in Keys(c.orgs)
        /\ repo.type \in {"UserConfig", "User"} => repo.parts[1] \in Keys(c.users)
    BY <1>4, LookupNames
  <2>3. \A g \in Group : c.groups[g] \subseteq d.groups[g]
    BY DEF Grows
  <2> HIDE DEF repo
  <2> SUFFICES has >= had
    BY <2>1
  <2>4. CASE IsAdmin(d.users[u])
    BY <1>2, <2>4 DEF CheckUserRepoAccess, AccessLevel, None, Admin
  <2>5. CASE ~IsAdmin(d.users[u])
    <3>1. ~IsAdmin(c.users[u])
      BY <2>5 DEF Grows
    <3>2. CASE repo.type = "OrgConfig"
      <4>1. c.orgs[repo.parts[1]].admin \subseteq d.orgs[repo.parts[1]].admin
        BY <2>2, <3>2 DEF Grows
      <4>2. CheckListsForUser(c.groups, u, c.orgs[repo.parts[1]].admin)
              => CheckListsForUser(d.groups, u, d.orgs[repo.parts[1]].admin)
        BY <2>3, <4>1, ListSearch, MembersStay
      <4> QED BY <2>5, <3>1, <3>2, <4>2 DEF CheckUserRepoAccess, None, Admin
    <3>3. CASE repo.type = "UserConfig"
      BY <2>5, <3>1, <3>3 DEF CheckUserRepoAccess, None, Admin
    <3>4. CASE repo.type = "Org"
      <4>1. had = OrgAccess(c, u, repo.parts) /\ has = OrgAccess(d, u, repo.parts)
        BY <2>5, <3>1, <3>4 DEF CheckUserRepoAccess
      <4> QED BY <2>2, <3>4, <4>1, OrgAccessGrows
    <3>5. CASE repo.type = "User"
      <4> DEFINE own == ListsOf(c.users[repo.parts[1]].repos, repo.parts[2])
                 more == ListsOf(d.users[repo.parts[1]].repos, repo.parts[2])
      <4>1. ReposGrow(c.users[repo.parts[1]].repos, d.users[repo.parts[1]].repos)
        BY <2>2, <3>5 DEF Grows
      <4>2. ListsGrow(own, more)
        BY <4>1, ListsOfGrow
      <4>3. /\ had = IF repo.parts[1] = u THEN Admin ELSE LevelOf(c.groups, u, own.write, own.read)
            /\ has = IF repo.parts[1] = u THEN Admin ELSE LevelOf(d.groups, u, more.write, more.read)
        BY <2>5, <3>1, <3>5 DEF CheckUserRepoAccess, UserAccess
      <4> HIDE DEF own, more
      <4>4. LevelOf(d.groups, u, more.write, more.read) >= LevelOf(c.groups, u, own.write, own.read)
        BY <2>3, <4>2, LevelGrows DEF ListsGrow
      <4> QED BY <4>3, <4>4 DEF Admin
    <3>6. CASE repo.type = "TopLevel"
      <4> DEFINE own == IF repo.parts[1] = NoSigil THEN ListsOf(c.repos, repo.parts[2]) ELSE NoLists
                 more == IF repo.parts[1] = NoSigil THEN ListsOf(d.repos, repo.parts[2]) ELSE NoLists
      <4>1. ReposGrow(c.repos, d.repos)
        BY DEF Grows
      <4>2. ListsGrow(own, more)
        BY <4>1, ListsOfGrow DEF ListsGrow, NoLists
      <4>3. /\ had = LevelOf(c.groups, u, own.write, own.read)
            /\ has = LevelOf(d.groups, u, more.write, more.read)
        BY <2>5, <3>1, <3>6 DEF CheckUserRepoAccess, TopLevelAccess
      <4> HIDE DEF own, more
      <4> QED BY <2>3, <4>2, <4>3, LevelGrows DEF ListsGrow
    <3>7. CASE repo.type = "Admin"
      BY <2>5, <3>1, <3>7 DEF CheckUserRepoAccess, None
    <3> QED BY <2>2, <3>2, <3>3, <3>4, <3>5, <3>6, <3>7 DEF RepoType
  <2> QED BY <2>4, <2>5
<1> QED BY <1>3, <1>4

-----------------------------------------------------------------------------
(* The configs an administrator comes by                                   *)

\* The options but implicit_repos, and who is there, are as at the start; of
\* the lists that are never edited, none has an entry.
Edited(c) ==
    /\ c \in ConfigType
    /\ c.options.orgPrefix = OrgSigil /\ c.options.userPrefix = UserSigil
    /\ \A u \in User : /\ c.users[u] # Nil
                       /\ u # u1 => c.users[u].repos = Nil
    /\ LET own == c.users[u1].repos IN own # Nil /\ own[r1] # Nil /\ own[r1].read = {}
    /\ LET org == c.orgs[o1] IN
          /\ org # Nil /\ org.read = {} /\ org.repos # Nil
          /\ org.repos[r1] # Nil /\ org.repos[r1].write = {}
    /\ c.repos[r1] # Nil /\ c.repos[r1].write = {}

EditInv == Edited(config)

\* No lists are those of a repo.
LEMMA NoListsType == NoLists \in RepoConfig /\ OneRepo \in RepoMap /\ OneRepo[r1] = NoLists
<1>1. NoLists \in RepoConfig
  BY DEF NoLists, RepoConfig
<1>2. EmptyMap(Repo) \in RepoMap
  BY DEF EmptyMap, RepoMap, MapOf
<1> QED BY <1>1, <1>2, AccessAssumption DEF OneRepo, RepoMap, MapOf

\* The invariant holds at the start.
LEMMA EditInit == Init => EditInv
<1> SUFFICES ASSUME NEW implicit \in BOOLEAN, NEW public \in BOOLEAN,
                    config = [Start EXCEPT !.options.implicitRepos = implicit,
                                           !.repos[r1].public = public]
             PROVE  EditInv
  BY DEF Init
<1> DEFINE org == [admin |-> {}, write |-> {}, read |-> {}, repos |-> OneRepo]
           other == [Owner EXCEPT !.isAdmin = "no", !.repos = Nil]
<1>1. NewConfig \in ConfigType
  BY NewConfigType
<1>2. Owner \in AdminConfigUser /\ other \in AdminConfigUser /\ org \in OrgConfig
  BY NoListsType DEF Owner, AdminConfigUser, OrgConfig
<1>3. /\ [u \in User |-> IF u = u1 THEN Owner ELSE other] \in MapOf(User, AdminConfigUser)
      /\ [NewConfig.orgs EXCEPT ![o1] = org] \in MapOf(Org, OrgConfig)
      /\ [NewConfig.repos EXCEPT ![r1] = NoLists] \in RepoMap
  <2>1. NewConfig.orgs \in MapOf(Org, OrgConfig) /\ NewConfig.repos \in RepoMap
    BY <1>1 DEF ConfigType
  <2> HIDE DEF org, other
  <2> QED BY <1>2, <2>1, NoListsType DEF MapOf, RepoMap
<1> DEFINE users == [u \in User |-> IF u = u1 THEN Owner ELSE other]
           orgs == [NewConfig.orgs EXCEPT ![o1] = org]
           repos == [NewConfig.repos EXCEPT ![r1] = NoLists]
<1>4. /\ Start.users = users /\ Start.orgs = orgs /\ Start.repos = repos
      /\ Start.groups = NewConfig.groups /\ Start.options = NewConfig.options
      /\ Start \in ConfigType
  BY <1>1, <1>3 DEF Start, ConfigType
<1>5. /\ config.users = users /\ config.orgs = orgs
      /\ config.repos = [repos EXCEPT ![r1].public = public]
      /\ config.options = [DefaultOptions EXCEPT !.implicitRepos = implicit]
  BY <1>4 DEF ConfigType, NewConfig
<1>6. config \in ConfigType
  <2>1. [NoLists EXCEPT !.public = public] \in RepoConfig
    BY DEF NoLists, RepoConfig
  <2>2. [repos EXCEPT ![r1].public = public] \in RepoMap
    BY <1>3, <2>1, AccessAssumption DEF RepoMap, MapOf
  <2>3. [DefaultOptions EXCEPT !.implicitRepos = implicit] \in Options
    BY DefaultOptionsType DEF Options
  <2> HIDE DEF repos, users, orgs
  <2> QED BY <1>4, <1>5, <2>2, <2>3 DEF ConfigType
<1>7. /\ repos[r1] = NoLists /\ orgs[o1] = org
      /\ \A u \in User : users[u] = IF u = u1 THEN Owner ELSE other
  BY <1>1, AccessAssumption DEF ConfigType, MapOf, RepoMap
<1>8. /\ config.options.orgPrefix = OrgSigil /\ config.options.userPrefix = UserSigil
  BY <1>5 DEF DefaultOptions
<1>9. config.repos[r1] = [NoLists EXCEPT !.public = public]
  BY <1>3, <1>5, <1>7, AccessAssumption DEF RepoMap, MapOf
<1> HIDE DEF users, orgs, repos
<1>10. config.repos[r1] # Nil /\ config.repos[r1].write = {}
  BY <1>9, <1>6, NilAssumption DEF NoLists, RepoConfig
<1>11. org # Nil /\ org.read = {} /\ org.repos = OneRepo /\ OneRepo # Nil
       /\ OneRepo[r1] # Nil /\ OneRepo[r1].write = {} /\ OneRepo[r1].read = {}
  <2>1. org # Nil
    BY <1>2, NilAssumption
  <2>2. OneRepo # Nil /\ OneRepo[r1] # Nil
    BY NoListsType, NilAssumption
  <2>3. OneRepo[r1].write = {} /\ OneRepo[r1].read = {}
    BY NoListsType DEF NoLists
  <2> QED BY <2>1, <2>2, <2>3
<1>12. Owner # Nil /\ other # Nil /\ other.repos = Nil /\ Owner.repos = OneRepo
  BY <1>2, NilAssumption DEF Owner
<1> HIDE DEF org, other
<1> QED BY <1>5, <1>6, <1>7, <1>8, <1>10, <1>11, <1>12, AccessAssumption DEF EditInv, Edited

\* Maps and lists grow into themselves.
LEMMA GrowSame == \A m : ReposGrow(m, m) /\ ListsGrow(m, m)
BY DEF ReposGrow, ListsGrow, Has

\* A map with one more entry in a list of one of its repos.
LEMMA RepoEdit ==
    ASSUME NEW m \in RepoMap, m[r1] # Nil, NEW lists \in RepoConfig, ListsGrow(m[r1], lists)
    PROVE  /\ [m EXCEPT ![r1] = lists] \in RepoMap
           /\ [m EXCEPT ![r1] = lists] # Nil
           /\ [m EXCEPT ![r1] = lists][r1] = lists
           /\ lists # Nil
           /\ ReposGrow(m, [m EXCEPT ![r1] = lists])
<1> DEFINE n == [m EXCEPT ![r1] = lists]
<1>1. n \in RepoMap /\ n[r1] = lists /\ DOMAIN n = DOMAIN m
  BY AccessAssumption DEF RepoMap, MapOf
<1>2. n # Nil /\ lists # Nil
  BY <1>1, NilAssumption
<1>3. \A r \in DOMAIN m : r # r1 => n[r] = m[r]
  OBVIOUS
<1> HIDE DEF n
<1>4. ReposGrow(m, n)
  BY <1>1, <1>2, <1>3 DEF ReposGrow, Has, Keys, ListsGrow
<1> QED BY <1>1, <1>2, <1>4 DEF n

\* A list of a repo with one more entry.
LEMMA ListEdit ==
    ASSUME NEW a \in RepoConfig, NEW m \in Member
    PROVE  /\ [a EXCEPT !.read = @ \cup {m}] \in RepoConfig
           /\ [a EXCEPT !.write = @ \cup {m}] \in RepoConfig
           /\ ListsGrow(a, [a EXCEPT !.read = @ \cup {m}])
           /\ ListsGrow(a, [a EXCEPT !.write = @ \cup {m}])
           /\ [a EXCEPT !.read = @ \cup {m}].write = a.write
           /\ [a EXCEPT !.write = @ \cup {m}].read = a.read
BY DEF RepoConfig, ListsGrow

\* One more member of a group.
LEMMA EditGroup ==
    ASSUME NEW c, Edited(c), NEW m \in Member, NEW g \in Group, NEW d,
           d = [c EXCEPT !.groups[g] = @ \cup {m}]
    PROVE  Edited(d) /\ Grows(c, d)
<1>1. c.groups \in [Group -> SUBSET Member]
  BY DEF Edited, ConfigType
<1>2. /\ d \in ConfigType /\ d.groups = [c.groups EXCEPT ![g] = @ \cup {m}]
      /\ d.users = c.users /\ d.orgs = c.orgs /\ d.repos = c.repos /\ d.options = c.options
  BY <1>1 DEF Edited, ConfigType
<1>3. Edited(d)
  BY <1>2 DEF Edited
<1>4. \A h \in Group : c.groups[h] \subseteq d.groups[h]
  BY <1>1, <1>2
<1> QED BY <1>2, <1>3, <1>4, GrowSame DEF Grows

\* One more reader of the top-level repo.
LEMMA EditRepo ==
    ASSUME NEW c, Edited(c), NEW m \in Member, NEW d,
           d = [c EXCEPT !.repos[r1].read = @ \cup {m}]
    PROVE  Edited(d) /\ Grows(c, d)
<1> DEFINE lists == [c.repos[r1] EXCEPT !.read = @ \cup {m}]
           repos == [c.repos EXCEPT ![r1] = lists]
<1>1. c.repos \in RepoMap /\ c.repos[r1] # Nil /\ c.repos[r1] \in RepoConfig
  BY AccessAssumption DEF Edited, ConfigType, RepoMap, MapOf
<1>2. lists \in RepoConfig /\ ListsGrow(c.repos[r1], lists) /\ lists.write = c.repos[r1].write
  BY <1>1, ListEdit
<1> HIDE DEF lists
<1>3. /\ repos \in RepoMap /\ repos # Nil /\ repos[r1] = lists /\ lists # Nil
      /\ ReposGrow(c.repos, repos)
  BY <1>1, <1>2, RepoEdit
<1>4. d = [c EXCEPT !.repos = repos]
  BY DEF lists, Edited, ConfigType
<1> HIDE DEF repos
<1>5. /\ d \in ConfigType /\ d.repos = repos
      /\ d.users = c.users /\ d.orgs = c.orgs /\ d.groups = c.groups /\ d.options = c.options
  BY <1>3, <1>4 DEF Edited, ConfigType
<1>6. Edited(d)
  BY <1>2, <1>3, <1>5 DEF Edited
<1> QED BY <1>3, <1>5, <1>6, GrowSame DEF Grows

\* Another value for the organization.
LEMMA EditOrg ==
    ASSUME NEW c, Edited(c), NEW org \in OrgConfig, NEW d, d = [c EXCEPT !.orgs[o1] = org],
           c.orgs[o1].admin \subseteq org.admin, ListsGrow(c.orgs[o1], org),
           ReposGrow(c.orgs[o1].repos, org.repos),
           org.read = {}, org.repos # Nil, org.repos[r1] # Nil, org.repos[r1].write = {}
    PROVE  Edited(d) /\ Grows(c, d)
<1>1. c.orgs \in MapOf(Org, OrgConfig) /\ org # Nil
  BY NilAssumption DEF Edited, ConfigType
<1> DEFINE orgs == [c.orgs EXCEPT ![o1] = org]
<1>2. /\ orgs \in MapOf(Org, OrgConfig) /\ orgs[o1] = org
      /\ \A o \in Org : o # o1 => orgs[o] = c.orgs[o]
  BY <1>1, AccessAssumption DEF MapOf
<1>3. d = [c EXCEPT !.orgs = orgs]
  BY DEF Edited, ConfigType
<1> HIDE DEF orgs
<1>4. /\ d \in ConfigType /\ d.orgs = orgs
      /\ d.users = c.users /\ d.repos = c.repos /\ d.groups = c.groups /\ d.options = c.options
  BY <1>2, <1>3 DEF Edited, ConfigType
<1>5. Edited(d)
  BY <1>1, <1>2, <1>4 DEF Edited
<1>6. DOMAIN c.orgs = Org /\ DOMAIN orgs = Org
  BY <1>1, <1>2 DEF MapOf
<1>7. Keys(c.orgs) \subseteq Keys(d.orgs) /\ Keys(c.orgs) \subseteq Org
  BY <1>1, <1>2, <1>4, <1>6 DEF Keys
<1>8. \A o \in Keys(c.orgs) :
          /\ c.orgs[o].admin \subseteq d.orgs[o].admin
          /\ ListsGrow(c.orgs[o], d.orgs[o])
          /\ ReposGrow(c.orgs[o].repos, d.orgs[o].repos)
  BY <1>2, <1>4, <1>7, GrowSame
<1> QED BY <1>4, <1>5, <1>7, <1>8, GrowSame DEF Grows

\* One more writer of the owner's repo.
LEMMA EditUser ==
    ASSUME NEW c, Edited(c), NEW m \in Member, NEW d,
           d = [c EXCEPT !.users[u1].repos[r1].write = @ \cup {m}]
    PROVE  Edited(d) /\ Grows(c, d)
<1> DEFINE own == c.users[u1].repos
           lists == [own[r1] EXCEPT !.write = @ \cup {m}]
           repos == [own EXCEPT ![r1] = lists]
           user == [c.users[u1] EXCEPT !.repos = repos]
           users == [c.users EXCEPT ![u1] = user]
<1>1. c.users \in MapOf(User, AdminConfigUser) /\ c.users[u1] \in AdminConfigUser
  BY AccessAssumption DEF Edited, ConfigType, MapOf
<1>2. own \in RepoMap /\ own # Nil /\ own[r1] # Nil
  BY <1>1 DEF Edited, AdminConfigUser
<1>3. own[r1] \in RepoConfig /\ own[r1].read = {}
  BY <1>2, AccessAssumption DEF Edited, RepoMap, MapOf
<1> HIDE DEF own
<1>4. lists \in RepoConfig /\ ListsGrow(own[r1], lists) /\ lists.read = {}
  BY <1>3, ListEdit
<1>5. d = [c EXCEPT !.users = users]
  BY DEF Edited, ConfigType, own
<1> HIDE DEF lists
<1>6. /\ repos \in RepoMap /\ repos # Nil /\ repos[r1] = lists /\ lists # Nil
      /\ ReposGrow(own, repos)
  BY <1>2, <1>4, RepoEdit
<1> HIDE DEF repos
<1>7. user \in AdminConfigUser /\ user.repos = repos /\ user.isAdmin = c.users[u1].isAdmin
  BY <1>1, <1>6 DEF AdminConfigUser
<1>8. user # Nil
  BY <1>7, NilAssumption
<1> HIDE DEF user
<1>9. /\ users \in MapOf(User, AdminConfigUser) /\ users[u1] = user
      /\ \A u \in User : u # u1 => users[u] = c.users[u]
  BY <1>1, <1>7, AccessAssumption DEF MapOf
<1> HIDE DEF users
<1>10. /\ d \in ConfigType /\ d.users = users
       /\ d.orgs = c.orgs /\ d.repos = c.repos /\ d.groups = c.groups /\ d.options = c.options
  BY <1>5, <1>9 DEF Edited, ConfigType
<1>11. Edited(d)
  BY <1>4, <1>6, <1>7, <1>8, <1>9, <1>10 DEF Edited
<1>12. DOMAIN c.users = User /\ DOMAIN users = User
  BY <1>1, <1>9 DEF MapOf
<1>13. Keys(c.users) \subseteq Keys(d.users) /\ Keys(c.users) \subseteq User
  BY <1>8, <1>9, <1>10, <1>12 DEF Keys
<1>14. \A u \in Keys(c.users) :
          /\ IsAdmin(c.users[u]) => IsAdmin(d.users[u])
          /\ ReposGrow(c.users[u].repos, d.users[u].repos)
  BY <1>6, <1>7, <1>9, <1>10, <1>13, GrowSame DEF IsAdmin, own
<1> QED BY <1>10, <1>11, <1>13, <1>14, GrowSame DEF Grows

\* Every edit keeps the invariant and adds to the config.
LEMMA EditStep == ASSUME EditInv, Next PROVE EditInv' /\ Grows(config, config')
<1>1. PICK m \in Member :
         \/ \E g \in Group : Edit([config EXCEPT !.groups[g] = @ \cup {m}])
         \/ Edit([config EXCEPT !.orgs[o1].admin = @ \cup {m}])
         \/ Edit([config EXCEPT !.orgs[o1].write = @ \cup {m}])
         \/ Edit([config EXCEPT !.orgs[o1].repos[r1].read = @ \cup {m}])
         \/ Edit([config EXCEPT !.users[u1].repos[r1].write = @ \cup {m}])
         \/ Edit([config EXCEPT !.repos[r1].read = @ \cup {m}])
  BY DEF Next
<1>2. Edited(config)
  BY DEF EditInv
<1> DEFINE org == config.orgs[o1]
<1>3. /\ org \in OrgConfig /\ org.repos # Nil /\ org.repos \in RepoMap
      /\ org.read = {} /\ org.repos[r1] # Nil /\ org.repos[r1].write = {}
      /\ org.repos[r1] \in RepoConfig
  <2>1. org \in OrgConfig
    BY <1>2, AccessAssumption DEF Edited, ConfigType, MapOf
  <2>2. /\ org.repos # Nil /\ org.read = {}
        /\ org.repos[r1] # Nil /\ org.repos[r1].write = {}
    BY <1>2 DEF Edited
  <2>3. org.repos \in RepoMap
    BY <2>1, <2>2 DEF OrgConfig
  <2>4. org.repos[r1] \in RepoConfig
    BY <2>2, <2>3, AccessAssumption DEF RepoMap, MapOf
  <2> QED BY <2>1, <2>2, <2>3, <2>4
<1>4. SUFFICES Edited(config') /\ Grows(config, config')
  BY DEF EditInv
<1>5. CASE \E g \in Group : Edit([config EXCEPT !.groups[g] = @ \cup {m}])
  BY <1>2, <1>5, EditGroup DEF Edit
<1>6. CASE Edit([config EXCEPT !.orgs[o1].admin = @ \cup {m}])
  <2> DEFINE new == [org EXCEPT !.admin = @ \cup {m}]
  <2>1. /\ new \in OrgConfig /\ new.repos = org.repos
        /\ org.admin \subseteq new.admin /\ ListsGrow(org, new) /\ new.read = org.read
    BY <1>3 DEF OrgConfig, ListsGrow
  <2>2. config' = [config EXCEPT !.orgs[o1] = new]
    BY <1>6 DEF Edit
  <2> HIDE DEF new
  <2> QED BY <1>2, <1>3, <2>1, <2>2, EditOrg, GrowSame
<1>7. CASE Edit([config EXCEPT !.orgs[o1].write = @ \cup {m}])
  <2> DEFINE new == [org EXCEPT !.write = @ \cup {m}]
  <2>1. /\ new \in OrgConfig /\ new.repos = org.repos
        /\ org.admin \subseteq new.admin /\ ListsGrow(org, new) /\ new.read = org.read
    BY <1>3 DEF OrgConfig, ListsGrow
  <2>2. config' = [config EXCEPT !.orgs[o1] = new]
    BY <1>7 DEF Edit
  <2> HIDE DEF new
  <2> QED BY <1>2, <1>3, <2>1, <2>2, EditOrg, GrowSame
<1>8. CASE Edit([config EXCEPT !.orgs[o1].repos[r1].read = @ \cup {m}])
  <2> DEFINE lists == [org.repos[r1] EXCEPT !.read = @ \cup {m}]
             repos == [org.repos EXCEPT ![r1] = lists]
             new == [org EXCEPT !.repos = repos]
  <2>1. lists \in RepoConfig /\ ListsGrow(org.repos[r1], lists) /\ lists.write = {}
    BY <1>3, ListEdit
  <2>2. config' = [config EXCEPT !.orgs[o1] = new]
    BY <1>8 DEF Edit
  <2> HIDE DEF lists
  <2>3. /\ repos \in RepoMap /\ repos # Nil /\ repos[r1] = lists /\ lists # Nil
        /\ ReposGrow(org.repos, repos)
    BY <1>3, <2>1, RepoEdit
  <2> HIDE DEF repos
  <2>4. /\ new \in OrgConfig /\ new.repos = repos /\ new.read = {}
        /\ org.admin \subseteq new.admin /\ ListsGrow(org, new)
    BY <1>3, <2>3 DEF OrgConfig, ListsGrow
  <2> HIDE DEF new
  <2> QED BY <1>2, <1>3, <2>1, <2>2, <2>3, <2>4, EditOrg
<1>9. CASE Edit([config EXCEPT !.users[u1].repos[r1].write = @ \cup {m}])
  BY <1>2, <1>9, EditUser DEF Edit
<1>10. CASE Edit([config EXCEPT !.repos[r1].read = @ \cup {m}])
  BY <1>2, <1>10, EditRepo DEF Edit
<1> QED BY <1>1, <1>5, <1>6, <1>7, <1>8, <1>9, <1>10

\* So the invariant always holds.
LEMMA EditInvariance == Spec => []EditInv
<1>1. EditInv /\ [Next]_vars => EditInv'
  BY EditStep DEF vars, EditInv
<1> QED BY EditInit, <1>1, PTL DEF Spec

-----------------------------------------------------------------------------
\* The search for a user in a group finds all members and nobody else, also in
\* a config with group loops.
THEOREM GroupsAreSearched == Spec => []GroupSearchIsComplete
<1>1. GroupSearchIsComplete
  <2>1. \A u \in User : u \notin Group
    BY GroupAssumption
  <2> QED BY <2>1, SearchIsComplete DEF GroupSearchIsComplete
<1> QED BY <1>1, PTL

\* The update hook reports a group loop exactly when there is one.
THEOREM LoopsAreFound == Spec => []LoopSearchIsExact
<1>1. LoopSearchIsExact
  BY FindsLoopIsExact DEF LoopSearchIsExact, IsCyclic
<1> QED BY <1>1, PTL

\* No config an administrator comes by lets in anybody who is not listed, but
\* for readers of a repo that is public. From AccessIsGranted, so that no such
\* reader is let in either: the code has no rule that reads "public".
THEOREM AccessIsListed == Spec => []AccessNeedsGrant
<1>1. EditInv => AccessNeedsGrant
  <2> SUFFICES ASSUME EditInv, NEW u \in User, NEW path \in Paths,
                      AccessTo(config, u, path) > None, ~IsAdmin(config.users[u])
               PROVE  \/ /\ path.sigil = UserSigil
                         /\ \/ path.parts[1] = u
                            \/ /\ path.parts = <<u1, r1>>
                               /\ IsListed(u, config.users[u1].repos[r1].write)
                      \/ /\ path.sigil = OrgSigil
                         /\ \/ IsListed(u, config.orgs[o1].admin)
                            \/ /\ path.parts = <<o1, r1>>
                               /\ IsListed(u, config.orgs[o1].write
                                                \cup config.orgs[o1].repos[r1].read)
                      \/ /\ path.sigil = NoSigil /\ path # AdminPath
                         /\ \/ IsListed(u, config.repos[r1].read)
                            \/ config.repos[r1].public /\ AccessTo(config, u, path) = Read
    BY DEF AccessNeedsGrant
  <2> DEFINE repo == LookupRepo(config, path)
  <2>1. Granted(config, u, repo) /\ repo # NoRepo
    BY AccessIsGranted DEF AccessTo, None
  <2>2. Edited(config) /\ OrgSigil # UserSigil /\ NoSigil # OrgSigil /\ NoSigil # UserSigil
    BY ConfigAssumption, AccessAssumption DEF EditInv
  <2>3. \A groups : ~Listed(groups, u, {})
    BY DEF Listed
  <2>4. ASSUME NEW a, NEW b, Listed(config.groups, u, a)
        PROVE  Listed(config.groups, u, a \cup b) /\ Listed(config.groups, u, b \cup a)
    BY <2>4 DEF Listed
  <2>5. path # AdminPath
    BY <2>1, <2>3 DEF LookupRepo, Granted, OwnLists, NoLists
  <2>6. /\ config.options.orgPrefix = OrgSigil /\ config.options.userPrefix = UserSigil
        /\ config.repos \in RepoMap /\ config.repos # Nil
    BY <2>2, NilAssumption DEF Edited, ConfigType
  <2>7. CASE path = [sigil |-> NoSigil, parts |-> <<r1>>]
    <3>1. repo = LookupTopLevelRepo(config, path)
      BY <2>2, <2>5, <2>6, <2>7 DEF LookupRepo
    <3>2. repo = [type |-> "TopLevel", parts |-> <<NoSigil, r1>>]
      BY <2>1, <2>7, <3>1 DEF LookupTopLevelRepo
    <3>3. Has(config.repos, r1) /\ config.repos[r1].write = {}
      BY <2>2, <2>6, AccessAssumption DEF Edited, Has, Keys, RepoMap, MapOf
    <3>4. OwnLists(config, repo) = config.repos[r1]
      BY <3>2, <3>3 DEF OwnLists, ListsOf
    <3> HIDE DEF repo
    <3>5. Listed(config.groups, u, config.repos[r1].read)
      BY <2>1, <2>3, <3>2, <3>3, <3>4 DEF Granted
    <3> QED BY <2>5, <2>7, <3>5 DEF IsListed
  <2>8. CASE path = [sigil |-> OrgSigil, parts |-> <<o1>>]
    <3>1. repo = LookupOrgRepo(config, path.parts)
      BY <2>5, <2>6, <2>8 DEF LookupRepo
    <3>2. repo = [type |-> "OrgConfig", parts |-> <<o1>>]
      BY <2>1, <2>8, <3>1 DEF LookupOrgRepo
    <3>3. OwnLists(config, repo) = NoLists
      BY <3>2 DEF OwnLists
    <3> HIDE DEF repo
    <3>4. Listed(config.groups, u, config.orgs[o1].admin)
      BY <2>1, <2>3, <3>2, <3>3 DEF Granted, NoLists
    <3> QED BY <2>8, <3>4 DEF IsListed
  <2>9. CASE path = [sigil |-> OrgSigil, parts |-> <<o1, r1>>]
    <3>1. repo = LookupOrgRepo(config, path.parts)
      BY <2>5, <2>6, <2>9 DEF LookupRepo
    <3>2. repo = [type |-> "Org", parts |-> <<o1, r1>>]
      BY <2>1, <2>9, <3>1 DEF LookupOrgRepo
    <3> DEFINE org == config.orgs[o1]
    <3>3. /\ org \in OrgConfig /\ org.read = {} /\ org.repos # Nil
          /\ org.repos[r1] # Nil /\ org.repos[r1].write = {}
      BY <2>2, AccessAssumption DEF Edited, ConfigType, MapOf
    <3>4. Has(org.repos, r1)
      BY <3>3, AccessAssumption DEF Has, Keys, OrgConfig, RepoMap, MapOf
    <3>5. OwnLists(config, repo) = org.repos[r1]
      BY <3>2, <3>4 DEF OwnLists, ListsOf
    <3> HIDE DEF repo
    <3>6. \/ Listed(config.groups, u, org.admin)
          \/ Listed(config.groups, u, org.write)
          \/ Listed(config.groups, u, org.repos[r1].read)
      BY <2>1, <2>3, <3>2, <3>3, <3>5 DEF Granted
    <3> QED BY <2>4, <2>9, <3>6 DEF IsListed
  <2>10. CASE path = [sigil |-> UserSigil, parts |-> <<u1>>]
    <3>1. repo = LookupUserRepo(config, path.parts)
      BY <2>2, <2>5, <2>6, <2>10 DEF LookupRepo
    <3>2. repo = [type |-> "UserConfig", parts |-> <<u1>>]
      BY <2>1, <2>10, <3>1 DEF LookupUserRepo
    <3>3. OwnLists(config, repo) = NoLists
      BY <3>2 DEF OwnLists
    <3> HIDE DEF repo
    <3> QED BY <2>1, <2>3, <2>10, <3>2, <3>3 DEF Granted, NoLists
  <2>11. ASSUME NEW v \in User, path = [sigil |-> UserSigil, parts |-> <<v, r1>>]
         PROVE  \/ path.parts[1] = u
                \/ v = u1 /\ IsListed(u, config.users[u1].repos[r1].write)
    <3>1. repo = LookupUserRepo(config, path.parts)
      BY <2>2, <2>5, <2>6, <2>11 DEF LookupRepo
    <3>2. repo = [type |-> "User", parts |-> <<v, r1>>]
      BY <2>1, <2>11, <3>1 DEF LookupUserRepo
    <3>3. OwnLists(config, repo) = ListsOf(config.users[v].repos, r1)
      BY <3>2 DEF OwnLists
    <3> HIDE DEF repo
    <3>4. \/ v = u
          \/ Listed(config.groups, u, ListsOf(config.users[v].repos, r1).write)
          \/ Listed(config.groups, u, ListsOf(config.users[v].repos, r1).read)
      BY <2>1, <3>2, <3>3 DEF Granted
    <3>5. CASE v # u1
      <4>1. ListsOf(config.users[v].repos, r1) = NoLists
        BY <2>2, <3>5 DEF Edited, ListsOf, Has
      <4> QED BY <2>3, <2>11, <3>4, <4>1 DEF NoLists
    <3>6. CASE v = u1
      <4> DEFINE own == config.users[u1].repos
      <4>1. own \in RepoMap \cup {Nil}
        BY <2>2, AccessAssumption DEF Edited, ConfigType, MapOf, AdminConfigUser
      <4>2. own # Nil /\ own[r1] # Nil /\ own[r1].read = {}
        BY <2>2 DEF Edited
      <4>3. ListsOf(own, r1) = own[r1]
        BY <4>1, <4>2, AccessAssumption DEF ListsOf, Has, Keys, RepoMap, MapOf
      <4> QED BY <2>3, <2>11, <3>4, <3>6, <4>2, <4>3 DEF IsListed
    <3> QED BY <3>5, <3>6
  <2>12. CASE \E v \in User : path = [sigil |-> UserSigil, parts |-> <<v, r1>>]
    BY <2>11, <2>12
  <2> QED BY <2>5, <2>7, <2>8, <2>9, <2>10, <2>12, AccessAssumption DEF Paths
<1> QED BY EditInvariance, <1>1, PTL

\* Whatever entries an administrator adds, nobody loses access by it.
THEOREM GrantsStay == Spec => GrantsNeverRevoke
<1>1. ASSUME EditInv, [Next]_vars
      PROVE  [\A u \in User, path \in Paths :
                 AccessTo(config', u, path) >= AccessTo(config, u, path)]_vars
  <2>1. CASE Next
    <3>1. Grows(config, config') /\ \A u \in User : u \in Keys(config.users)
      <4>1. Grows(config, config')
        BY <1>1, <2>1, EditStep
      <4>2. \A u \in User : config.users[u] # Nil /\ u \in DOMAIN config.users
        BY <1>1 DEF EditInv, Edited, ConfigType, MapOf
      <4> QED BY <4>1, <4>2 DEF Keys
    <3> QED BY <3>1, GrantsOnlyAdd
  <2> QED BY <1>1, <2>1
<1>2. EditInv /\ [Next]_vars
        => [\A u \in User, path \in Paths :
               AccessTo(config', u, path) >= AccessTo(config, u, path)]_vars
  BY <1>1
<1> QED BY EditInvariance, <1>2, PTL DEF Spec, GrantsNeverRevoke
=============================================================================

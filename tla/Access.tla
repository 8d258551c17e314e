------------------------------- MODULE Access -------------------------------
(***************************************************************************)
(* Which repository a path names and what a user may do to it (repo.go and *)
(* repo_perms.go): functions of a loaded Config, the user and the path.    *)
(***************************************************************************)
EXTENDS Config, Sequences

-----------------------------------------------------------------------------
(* Paths. A path is split into its sigil, the one-character prefix that    *)
(* may be an org_prefix or a user_prefix ("" when there is none), and its  *)
(* parts between slashes; a ".git" suffix is gone.                         *)

NoSigil == ""
Path == [sigil : Prefix \cup {NoSigil},
         parts : UNION {[1..n -> User \cup Org \cup Repo \cup {"admin"}] : n \in 1..3}]

AdminPath == [sigil |-> NoSigil, parts |-> <<"admin">>]

RepoType == {"Admin", "OrgConfig", "Org", "UserConfig", "User", "TopLevel"}
ConfigRepoType == {"Admin", "OrgConfig", "UserConfig"}

\* The outcome of lookupRepo when it returns an error.
NoRepo == [type |-> "none", parts |-> <<>>]

-----------------------------------------------------------------------------
(* Lookup                                                                  *)

\* Reading a nil map finds nothing.
Has(m, x) == m # Nil /\ x \in Keys(m)

LookupOrgRepo(c, parts) ==
    IF Len(parts) > 2 \/ parts[1] \notin Keys(c.orgs) THEN NoRepo
    ELSE IF Len(parts) = 1 THEN [type |-> "OrgConfig", parts |-> parts]
    ELSE IF \/ c.options.implicitRepos
            \/ Has(c.orgs[parts[1]].repos, parts[2])
         THEN [type |-> "Org", parts |-> parts]
    ELSE NoRepo

LookupUserRepo(c, parts) ==
    IF Len(parts) > 2 \/ parts[1] \notin Keys(c.users) THEN NoRepo
    ELSE IF Len(parts) = 1 THEN [type |-> "UserConfig", parts |-> parts]
    ELSE IF \/ c.options.implicitRepos
            \/ Has(c.users[parts[1]].repos, parts[2])
         THEN [type |-> "User", parts |-> parts]
    ELSE NoRepo

\* A sigil that is neither prefix is part of a top-level repo's name, and no
\* repo of the config has such a name.
LookupTopLevelRepo(c, path) ==
    IF /\ Len(path.parts) = 1
       /\ \/ c.options.implicitRepos
          \/ path.sigil = NoSigil /\ Has(c.repos, path.parts[1])
    THEN [type |-> "TopLevel", parts |-> <<path.sigil, path.parts[1]>>]
    ELSE NoRepo

LookupRepo(c, path) ==
    IF path = AdminPath THEN [type |-> "Admin", parts |-> <<"admin", "admin">>]
    ELSE IF path.sigil = c.options.orgPrefix THEN LookupOrgRepo(c, path.parts)
    ELSE IF path.sigil = c.options.userPrefix THEN LookupUserRepo(c, path.parts)
    ELSE LookupTopLevelRepo(c, path)

\* Where a looked up repo is on disk; the paths of config repos are ConfigRepo.
DiskPath(repo) ==
    CASE repo.type = "Admin"      -> AdminRepo
      [] repo.type = "OrgConfig"  -> OrgRepo(repo.parts[1])
      [] repo.type = "UserConfig" -> UserRepo(repo.parts[1])
      [] repo.type = "Org"        -> <<"orgs", repo.parts[1], repo.parts[2]>>
      [] repo.type = "User"       -> <<"users", repo.parts[1], repo.parts[2]>>
      [] OTHER                    -> <<"top-level", repo.parts[1], repo.parts[2]>>

-----------------------------------------------------------------------------
(* Permissions                                                             *)

None == 0
Read == 1
Write == 2
Admin == 3
AccessLevel == None .. Admin

ContainsDirectly(groups, u, g) == u \in groups[g] \* mutant

\* doesGroupContainUser: the groups it finds u in when it comes to them at the
\* end of path. A group met again on its own path is cut off.
DoesGroupContainUser(groups, u, g) ==
    LET Holding[path \in SUBSET Group] ==
            {h \in Group \ path :
               \E m \in groups[h] :
                  IF m \in Group THEN m \in Holding[path \cup {h}] ELSE m = u}
    IN g \in Holding[{}]

EmptyListIsOpen(groups, u, list) == \* mutant
    list = {} \/ \E m \in list : IF m \in Group THEN DoesGroupContainUser(groups, u, m) ELSE m = u

CheckListsForUser(groups, u, list) ==
    \E m \in list : IF m \in Group THEN DoesGroupContainUser(groups, u, m) ELSE m = u

\* The last two steps of every case: write access, else read access, else none.
LevelOf(groups, u, write, read) ==
    IF CheckListsForUser(groups, u, write) THEN Write
    ELSE IF CheckListsForUser(groups, u, read) THEN Read
    ELSE None

NoLists == [public |-> FALSE, write |-> {}, read |-> {}]
ListsOf(repos, name) ==
    IF Has(repos, name) THEN repos[name] ELSE NoLists

OrgAccess(c, u, parts) ==
    LET org == c.orgs[parts[1]]
        repo == ListsOf(org.repos, parts[2])
    IN IF CheckListsForUser(c.groups, u, org.admin) THEN Admin
       ELSE LevelOf(c.groups, u, org.write \cup repo.write, org.read \cup repo.read)

ImplicitIsOpen(c, u, parts) == \* mutant
    LET repo == ListsOf(c.users[parts[1]].repos, parts[2])
    IN IF parts[1] = u \/ (c.options.implicitRepos /\ repo = NoLists) THEN Admin
       ELSE LevelOf(c.groups, u, repo.write, repo.read)

UserAccess(c, u, parts) ==
    LET repo == ListsOf(c.users[parts[1]].repos, parts[2])
    IN IF parts[1] = u THEN Admin ELSE LevelOf(c.groups, u, repo.write, repo.read)

TopLevelAccess(c, u, parts) ==
    LET repo == IF parts[1] = NoSigil THEN ListsOf(c.repos, parts[2]) ELSE NoLists
    IN LevelOf(c.groups, u, repo.write, repo.read)

CheckUserRepoAccess(c, u, isAdmin, repo) ==
    CASE isAdmin -> Admin
      [] ~isAdmin /\ repo.type = "OrgConfig" ->
            IF CheckListsForUser(c.groups, u, c.orgs[repo.parts[1]].admin)
            THEN Admin ELSE None
      [] ~isAdmin /\ repo.type = "UserConfig" -> IF repo.parts[1] = u THEN Admin ELSE None
      [] ~isAdmin /\ repo.type = "Org" -> OrgAccess(c, u, repo.parts)
      [] ~isAdmin /\ repo.type = "User" -> UserAccess(c, u, repo.parts)
      [] ~isAdmin /\ repo.type = "TopLevel" -> TopLevelAccess(c, u, repo.parts)
      [] OTHER -> None

\* LookupRepoAccess, for a user the same config knows.
AccessTo(c, u, path) ==
    LET repo == LookupRepo(c, path) IN
    IF repo = NoRepo THEN None
    ELSE CheckUserRepoAccess(c, u, IsAdmin(c.users[u]), repo)
=============================================================================

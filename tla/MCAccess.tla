------------------------------ MODULE MCAccess ------------------------------
(***************************************************************************)
(* An administrator edits a config, one list entry at a time, and every    *)
(* config on the way is asked who may access what. This checks the pure    *)
(* functions of Config and Access against reference definitions.           *)
(***************************************************************************)
EXTENDS Access, TLC

CONSTANTS u1, u2, g1, g2, g3, o1, r1, MaxEntries

\* The names are names, and neither default prefix is empty.
ASSUME AccessAssumption ==
    u1 \in User /\ u2 \in User /\ o1 \in Org /\ r1 \in Repo /\ NoSigil \notin {OrgSigil, UserSigil}

VARIABLES
    config,  \* the Config being edited
    entries  \* how many entries were added to it

vars == <<config, entries>>

OneRepo == [EmptyMap(Repo) EXCEPT ![r1] = NoLists]

\* u1 is an administrator and owns a repo, u2 starts with no rights.
Owner == [isAdmin |-> "yes", disabled |-> FALSE, keys |-> {}, repos |-> OneRepo]
Start ==
    [NewConfig EXCEPT
       !.users = [u \in User |-> IF u = u1 THEN Owner
                                 ELSE [Owner EXCEPT !.isAdmin = "no", !.repos = Nil]],
       !.orgs[o1] = [admin |-> {}, write |-> {}, read |-> {}, repos |-> OneRepo],
       !.repos[r1] = NoLists]

Init ==
    /\ entries = 0
    /\ \E implicit, public \in BOOLEAN :
          config = [Start EXCEPT !.options.implicitRepos = implicit,
                                 !.repos[r1].public = public]

Edit(next) ==
    /\ entries < MaxEntries /\ entries' = entries + 1
    /\ config' = next

Next ==
    \E m \in Member :
       \/ \E g \in Group : Edit([config EXCEPT !.groups[g] = @ \cup {m}])
       \/ Edit([config EXCEPT !.orgs[o1].admin = @ \cup {m}])
       \/ Edit([config EXCEPT !.orgs[o1].write = @ \cup {m}])
       \/ Edit([config EXCEPT !.orgs[o1].repos[r1].read = @ \cup {m}])
       \/ Edit([config EXCEPT !.users[u1].repos[r1].write = @ \cup {m}])
       \/ Edit([config EXCEPT !.repos[r1].read = @ \cup {m}])

Spec == Init /\ [][Next]_vars

Groups == Permutations(Group)

Paths ==
    {AdminPath, [sigil |-> NoSigil, parts |-> <<r1>>],
     [sigil |-> OrgSigil, parts |-> <<o1>>], [sigil |-> OrgSigil, parts |-> <<o1, r1>>],
     [sigil |-> UserSigil, parts |-> <<u1>>], [sigil |-> UserSigil, parts |-> <<u1, r1>>],
     [sigil |-> UserSigil, parts |-> <<u2, r1>>]}

-----------------------------------------------------------------------------
(* References                                                              *)

\* u is in g unless a set of groups around g is closed and does not list u.
IsMember(groups, u, g) ==
    \A S \in SUBSET Group :
        g \in S /\ (\A h \in S : groups[h] \cap Group \subseteq S)
            => \E h \in S : u \in groups[h]

\* u is on the list, or in a group that is.
Listed(groups, u, list) ==
    u \in list \/ \E g \in list \cap Group : IsMember(groups, u, g)
IsListed(u, list) == Listed(config.groups, u, list)

\* Some set of groups each of which has a member in the set.
IsCyclic(groups) ==
    \E S \in SUBSET Group : S # {} /\ \A g \in S : groups[g] \cap S # {}

-----------------------------------------------------------------------------
(* Properties                                                              *)

\* The depth first search that decides on group membership, cut off where a
\* group comes up twice on one path, finds all members and nobody else, also in
\* a config with group loops (doesGroupContainUser).
GroupSearchIsComplete ==
    \A u \in User, g \in Group :
        DoesGroupContainUser(config.groups, u, g) <=> IsMember(config.groups, u, g)

\* The search of the update hook reports a loop exactly when the groups have
\* one, from whichever group it starts (validateGroupLoop).
LoopSearchIsExact == FindsLoop(config.groups) <=> IsCyclic(config.groups)

\* Who has any access to a repo is an administrator, its owner, or is listed
\* for it, directly or through groups, or reads a repo that is public ("Public
\* allows any user of the service to access this repository for reading",
\* models/repo_config.go): implicit repos, nil maps and lookups that fail let
\* nobody else in, and nobody further (checkUserRepoAccess).
AccessNeedsGrant ==
    \A u \in User, path \in Paths :
        AccessTo(config, u, path) > None =>
            \/ IsAdmin(config.users[u])
            \/ /\ path.sigil = UserSigil
               /\ \/ path.parts[1] = u
                  \/ path.parts = <<u1, r1>> /\ IsListed(u, config.users[u1].repos[r1].write)
            \/ /\ path.sigil = OrgSigil
               /\ \/ IsListed(u, config.orgs[o1].admin)
                  \/ /\ path.parts = <<o1, r1>>
                     /\ IsListed(u, config.orgs[o1].write \cup config.orgs[o1].repos[r1].read)
            \/ /\ path.sigil = NoSigil /\ path # AdminPath
               /\ \/ IsListed(u, config.repos[r1].read)
                  \/ config.repos[r1].public /\ AccessTo(config, u, path) = Read

\* Adding an entry to any list or group never takes access from anybody: no
\* grant hides another one behind it, even when it closes a group loop.
GrantsNeverRevoke ==
    [][\A u \in User, path \in Paths :
          AccessTo(config', u, path) >= AccessTo(config, u, path)]_vars

\* "Public allows any user of the service to access this repository for
\* reading" (models/repo_config.go), where AccessNeedsGrant only permits it.
PublicIsReadable ==
    config.repos[r1].public =>
        \A u \in User : AccessTo(config, u, [sigil |-> NoSigil, parts |-> <<r1>>]) >= Read
=============================================================================

------------------------------- MODULE Server -------------------------------
(***************************************************************************)
(* The gitdir server: sessions that push to the config repos, the hook     *)
(* processes git runs for them, and the reloads that make the server serve *)
(* what was pushed (ssh_server.go, ssh_commands.go, hooks.go, config.go,   *)
(* cmd_serve.go, cmd_hook.go).                                             *)
(*                                                                         *)
(* A session and the git-receive-pack and hook processes working for it    *)
(* are one sequential process here: the session waits for them. Sessions   *)
(* run concurrently, each opens the config repos one at a time, and only   *)
(* reloads are under the server's lock.                                    *)
(***************************************************************************)
EXTENDS Access

CONSTANTS
    Session,             \* SSH connections
    Main,                \* the goroutine of cmdServe
    Free,                \* nobody holds the server's lock
    OnMaster,            \* HEAD is the symbolic ref to master
    NoUser, NoPath,      \* null values
    AdminUser, AdminKey, \* GITDIR_ADMIN_USER, GITDIR_ADMIN_PUBLIC_KEY; NoUser if unset
    InitialDisk,         \* the disks the server may first be started on
    PushPath,            \* the repo names pushes are made to
    Proposal,            \* the trees that may be pushed to each config repo
    MaxVersion,          \* bound: no push starts at a repo with this many commits
    MaxInFlight,         \* bound: pushes in progress at once
    MaxCrashes           \* bound: crashes of the server

ASSUME ServerAssumption ==
    /\ Main \notin Session /\ Free \notin Session \cup {Main}
    /\ NoUser \notin User
    /\ AdminUser \in User \cup {NoUser} /\ AdminKey \in Key
    /\ OnMaster \notin AdminTree
    /\ InitialDisk # {}
    /\ \A d \in InitialDisk :
          DOMAIN d = ConfigRepo /\ \A r \in ConfigRepo : d[r] \in TreeOf(r)
    /\ \A r \in ConfigRepo : Proposal[r] \subseteq TreeOf(r)
    /\ MaxVersion \in Nat /\ MaxInFlight \in Nat /\ MaxCrashes \in Nat

VARIABLES
    master,   \* per config repo, the tree at the tip of its master branch
    version,  \* per config repo, how many times that tip was moved
    index,    \* the index file in the admin repo's directory
    head,     \* the HEAD file there: OnMaster, or the tree of a detached commit
    phase,    \* the server process: "down", "start", "bootstrap" or "up"
    served,   \* serv.config
    servedAt, \* the versions served was read from
    lock,     \* serv.lock: who holds it for writing
    pc,       \* what each process is doing
    ctx,      \* per session, what handlePublicKey put in its context
    push,     \* per session, the push in progress
    job,      \* per process, the load in progress
    crashes

gitVars == <<master, version, index, head>>
servVars == <<phase, served, servedAt, lock>>
sessVars == <<ctx, push>>
vars == <<gitVars, servVars, sessVars, pc, job, crashes>>

-----------------------------------------------------------------------------
(* Types                                                                   *)

Proc == Session \cup {Main}

\* The loads of the pre-receive hook and the two of the update hook.
HookStage == {"pre", "update", "check"}
\* The loads of EnsureConfig, EnsureAdminUser and the final Load of a reload.
ReloadStage == {"ensure", "admin", "load"}
Stage == {"closed", "ready", "accepted", "reload"} \cup HookStage \cup ReloadStage

NoContext == [user |-> NoUser, key |-> AdminKey, config |-> NewConfig]
ContextType == [user : User \cup {NoUser}, key : Key, config : ConfigType]

NoPush == [path |-> NoPath, type |-> "none", repo |-> AdminRepo,
           tree |-> EmptyAdminTree, base |-> 0]

\* config is the Config object being filled, tree the worktree of its admin
\* repo, todo the config repos it has yet to open, seen the versions it read,
\* user the pusher as the update hook looked it up.
Unread == -1
NothingSeen == [r \in ConfigRepo |-> Unread]
NoJob == [opened |-> FALSE, tree |-> EmptyAdminTree, config |-> NewConfig,
          todo |-> {}, outcome |-> "ok", seen |-> NothingSeen, user |-> NoUser]
JobType ==
    [opened : BOOLEAN, tree : AdminTree, config : ConfigType,
     todo : SUBSET ConfigRepo, outcome : {"ok", "error", "panic"},
     seen : [ConfigRepo -> Nat \cup {Unread}], user : User \cup {NoUser}]

\* What a proposal is when it is not for a config repo does not matter here.
ProposedFor(repo) == IF repo \in ConfigRepo THEN Proposal[repo] ELSE {EmptyUserTree}

-----------------------------------------------------------------------------
Init ==
    /\ master \in InitialDisk
    /\ version = [r \in ConfigRepo |-> 0]
    /\ index = master[AdminRepo]
    /\ head = OnMaster
    /\ phase = "down"
    /\ served = NewConfig /\ servedAt = NothingSeen
    /\ lock = Free
    /\ pc = [p \in Proc |-> "closed"]
    /\ ctx = [s \in Session |-> NoContext]
    /\ push = [s \in Session |-> NoPush]
    /\ job = [p \in Proc |-> NoJob]
    /\ crashes = 0

Idle(s) == pc[s] \in {"closed", "ready"}
InFlight == {s \in Session : ~Idle(s)}

\* Process p goes on to stage, with a config object to load into.
Begin(p, stage, config, user) ==
    /\ pc' = [pc EXCEPT ![p] = stage]
    /\ job' = [job EXCEPT ![p] = [NoJob EXCEPT !.config = config, !.user = user]]

-----------------------------------------------------------------------------
(* Sessions                                                                *)

\* handlePublicKey: the config found under the read lock goes into the
\* connection's context together with the user and the key.
Authenticate(s) ==
    /\ phase = "up" /\ lock = Free /\ pc[s] = "closed"
    /\ \E k \in Key : \E u \in UserOfKey(served, k) :
          ctx' = [ctx EXCEPT ![s] = [user |-> u, key |-> k, config |-> served]]
    /\ pc' = [pc EXCEPT ![s] = "ready"]
    /\ UNCHANGED <<gitVars, servVars, push, job, crashes>>

Close(s) ==
    /\ pc[s] = "ready"
    /\ pc' = [pc EXCEPT ![s] = "closed"]
    /\ ctx' = [ctx EXCEPT ![s] = NoContext]
    /\ UNCHANGED <<gitVars, servVars, push, job, crashes>>

\* cmdRepoAction up to runCommand. The access check uses the config of the
\* context, however old; git-receive-pack reports the tip, which the client
\* pushes against, and starts the pre-receive hook.
Push(s) ==
    /\ pc[s] = "ready"
    /\ Cardinality(InFlight) < MaxInFlight
    /\ \E path \in PushPath :
         LET repo == LookupRepo(ctx[s].config, path)
             disk == DiskPath(repo)
         IN /\ AccessTo(ctx[s].config, ctx[s].user, path) >= Write
            /\ disk \in ConfigRepo => version[disk] < MaxVersion
            /\ \E t \in ProposedFor(disk) :
                 push' = [push EXCEPT ![s] =
                            [path |-> path, type |-> repo.type, repo |-> disk, tree |-> t,
                             base |-> IF disk \in ConfigRepo THEN version[disk] ELSE 0]]
    /\ Begin(s, "pre", NewConfig, NoUser)
    /\ UNCHANGED <<gitVars, servVars, ctx, crashes>>

AfterAdminPushOnly(type) == IF type = "Admin" THEN "reload" ELSE "ready" \* mutant
NoReloadAfterAdmin(type) == \* mutant
    IF type \in {"OrgConfig", "UserConfig"} THEN "reload" ELSE "ready"

\* A push to a config repo ends in a reload, whatever became of it.
AfterReceivePack(type) == IF type \in ConfigRepoType THEN "reload" ELSE "ready"

EndReceivePack(s) ==
    /\ Begin(s, AfterReceivePack(push[s].type), NewConfig, NoUser)
    /\ push' = [push EXCEPT ![s] = NoPush]

-----------------------------------------------------------------------------
(* Loading a config, in a hook process or in the server                    *)

\* The worktrees openAdminRepo, and ensureAdminConfig after it, may leave.
HookLoadsMaster(p) == \* mutant
    CASE pc[p] = "ensure" -> EnsureAdminConfig(master[AdminRepo])
      [] pc[p] = "admin" -> {EnsureAdminUser(t, AdminUser, AdminKey) :
                                t \in EnsureAdminConfig(master[AdminRepo])}
      [] OTHER -> {master[AdminRepo]}
Worktrees(p) ==
    CASE pc[p] = "ensure" -> EnsureAdminConfig(master[AdminRepo])
      [] pc[p] = "admin" -> {EnsureAdminUser(t, AdminUser, AdminKey) :
                                t \in EnsureAdminConfig(master[AdminRepo])}
      [] pc[p] = "check" /\ push[p].repo = AdminRepo -> {push[p].tree}
      [] OTHER -> {master[AdminRepo]}

\* loadAdminConfig, and which config repos it has to go on with.
OpenedJob(j, t, v) ==
    LET c == LoadAdminConfig(j.config, t) IN
    IF AdminLoads(t)
    THEN [j EXCEPT !.opened = TRUE, !.tree = t, !.config = c,
                   !.todo = UserSubRepos(c) \cup OrgSubRepos(c),
                   !.seen[AdminRepo] = v]
    ELSE [j EXCEPT !.opened = TRUE, !.tree = t, !.outcome = "error"]

\* Checking out a commit by hash detaches HEAD, checking out master attaches
\* it; either way the index follows.
OpenAdminRepo(p) ==
    /\ pc[p] \in HookStage \cup ReloadStage
    /\ ~job[p].opened
    /\ \E t \in Worktrees(p) :
         /\ job' = [job EXCEPT ![p] = OpenedJob(@, t, version[AdminRepo])]
         /\ index' = t
         /\ head' = IF pc[p] = "check" /\ push[p].repo = AdminRepo THEN t ELSE OnMaster
    /\ UNCHANGED <<master, version, servVars, sessVars, pc, crashes>>

\* What loadUserConfig and loadOrgConfig check out: the pushed commit in the
\* check stage of a push to that repo, else the tip of master.
IgnoresOverride(p, r) == master[r] \* mutant
SubTree(p, r) == IF pc[p] = "check" /\ push[p].repo = r THEN push[p].tree ELSE master[r]

\* Errors are collected, a panic ends the process.
LoadedJob(j, r, t, v) ==
    CASE SubOutcome(j.config, r, t) = "ok" ->
            [j EXCEPT !.config = LoadSubConfig(@, r, t), !.todo = @ \ {r},
                      !.seen[r] = v]
      [] SubOutcome(j.config, r, t) = "error" ->
            [j EXCEPT !.outcome = "error", !.todo = @ \ {r}]
      [] OTHER -> [j EXCEPT !.outcome = "panic", !.todo = {}]

LoadSub(p) ==
    /\ pc[p] \in HookStage \cup ReloadStage
    /\ \E r \in job[p].todo :
         /\ r[1] = "org" => \A q \in job[p].todo : q[1] = "org"
         /\ job' = [job EXCEPT ![p] = LoadedJob(@, r, SubTree(p, r), version[r])]
    /\ UNCHANGED <<gitVars, servVars, sessVars, pc, crashes>>

LoadDone(p) == job[p].opened /\ job[p].todo = {}

-----------------------------------------------------------------------------
(* Hooks                                                                   *)

\* RunHook looks the user up by the key, then the repo by its name; it does
\* not ask for any access level.
SessionUser(c, s) == {ctx[s].user} \* mutant
HookUser(c, s) == UserOfKey(c, ctx[s].key)

HookFindsNoRepo(c, s) == HookUser(c, s) # {} \* mutant
HookKnows(c, s) ==
    /\ HookUser(c, s) # {}
    /\ LookupRepo(c, push[s].path) # NoRepo

\* Setting the hash fails in a repo that does not have the pushed commit.
HookPasses(c, s) ==
    /\ job[s].outcome = "ok"
    /\ pc[s] = "check" => Validate(c, job[s].user, ctx[s].key)
    /\ pc[s] # "check" => HookKnows(c, s)
    /\ pc[s] = "update" =>
         LET repo == LookupRepo(c, push[s].path) IN
         repo.type \in ConfigRepoType => DiskPath(repo) = push[s].repo

\* pre-receive does nothing more; update loads again with the pushed commit in
\* place, into the same Config object, unless this is no config repo.
HookContinues(c, s) ==
    \/ /\ pc[s] = "pre"
       /\ Begin(s, "update", NewConfig, NoUser)
       /\ UNCHANGED <<index, head, push>>
    \/ /\ pc[s] = "update"
       /\ LookupRepo(c, push[s].path).type \in ConfigRepoType
       /\ \E u \in HookUser(c, s) : Begin(s, "check", c, u)
       /\ IF push[s].repo = AdminRepo
          THEN index' = push[s].tree /\ head' = push[s].tree
          ELSE UNCHANGED <<index, head>>
       /\ UNCHANGED push
    \/ /\ \/ pc[s] = "check"
          \/ pc[s] = "update" /\ LookupRepo(c, push[s].path).type \notin ConfigRepoType
       /\ Begin(s, "accepted", NewConfig, NoUser)
       /\ UNCHANGED <<index, head, push>>

HookStep(s) ==
    /\ pc[s] \in HookStage /\ LoadDone(s)
    /\ \E c \in Flatten(job[s].config) :
         \/ HookPasses(c, s) /\ HookContinues(c, s)
         \/ ~HookPasses(c, s) /\ EndReceivePack(s) /\ UNCHANGED <<index, head>>
    /\ UNCHANGED <<master, version, servVars, ctx, crashes>>

\* git moves the branch if it still is where the client saw it, and refuses
\* otherwise. A push of another branch than master, which the hooks treat just
\* the same, leaves master alone.
RefUpdate(s) ==
    /\ pc[s] = "accepted"
    /\ \/ /\ push[s].repo \in ConfigRepo
          /\ version[push[s].repo] = push[s].base
          /\ master' = [master EXCEPT ![push[s].repo] = push[s].tree]
          /\ version' = [version EXCEPT ![push[s].repo] = @ + 1]
       \/ UNCHANGED <<master, version>>
    /\ EndReceivePack(s)
    /\ UNCHANGED <<index, head, servVars, ctx, crashes>>

-----------------------------------------------------------------------------
(* Reloads                                                                 *)

\* cmdServe: NewServer reloads before anything is served.
Boot ==
    /\ phase = "down"
    /\ phase' = "start"
    /\ pc' = [pc EXCEPT ![Main] = "reload"]
    /\ UNCHANGED <<gitVars, served, servedAt, lock, sessVars, job, crashes>>

ReloadUnlocked(p) == \* mutant
    /\ pc[p] = "reload"
    /\ lock' = p
    /\ Begin(p, "ensure", NewConfig, NoUser)
    /\ UNCHANGED <<gitVars, phase, served, servedAt, sessVars, crashes>>

LockReload(p) ==
    /\ pc[p] = "reload" /\ lock = Free
    /\ lock' = p
    /\ Begin(p, "ensure", NewConfig, NoUser)
    /\ UNCHANGED <<gitVars, phase, served, servedAt, sessVars, crashes>>

\* Status compares HEAD, the index and the worktree; Commit writes the index
\* as a commit on HEAD. The HEAD and index files are shared with the other
\* processes, the worktree is not. Whether a commit that changes nothing is made
\* or refused is up to the release of go-git: it may be either here.
HeadTree == IF head = OnMaster THEN master[AdminRepo] ELSE head
IsClean(p) == HeadTree = index /\ index = job[p].tree
CommitIsEmpty(p) == ~IsClean(p) /\ HeadTree = index

CommitAdminRepo ==
    IF head = OnMaster
    THEN /\ master' = [master EXCEPT ![AdminRepo] = index]
         /\ version' = [version EXCEPT ![AdminRepo] = @ + 1]
         /\ UNCHANGED <<index, head>>
    ELSE head' = index /\ UNCHANGED <<master, version, index>>

\* EnsureConfig and EnsureAdminUser commit once everything has been loaded.
\* The Config object is kept for the load that follows.
EnsureDone(p) ==
    /\ pc[p] \in {"ensure", "admin"} /\ LoadDone(p)
    /\ job[p].outcome = "ok"
    /\ IF IsClean(p) THEN UNCHANGED gitVars ELSE CommitAdminRepo
    /\ \E c \in Flatten(job[p].config) :
         Begin(p, IF pc[p] = "ensure" /\ phase = "bootstrap" THEN "admin" ELSE "load",
               c, NoUser)
    /\ UNCHANGED <<servVars, sessVars, crashes>>

\* reloadUnlocked. NewServer is followed by EnsureAdminUser, if it was asked
\* for, and then by ListenAndServe.
Publish(p) ==
    /\ pc[p] = "load" /\ LoadDone(p) /\ job[p].outcome = "ok"
    /\ served' \in Flatten(job[p].config)
    /\ servedAt' = job[p].seen
    /\ lock' = Free
    /\ IF p = Main /\ phase = "start" /\ AdminUser # NoUser
       THEN phase' = "bootstrap" /\ Begin(p, "reload", NewConfig, NoUser)
       ELSE IF p = Main
       THEN phase' = "up" /\ Begin(p, "closed", NewConfig, NoUser)
       ELSE phase' = phase /\ Begin(p, "ready", NewConfig, NoUser)
    /\ UNCHANGED <<gitVars, sessVars, crashes>>

\* The server process ends, and the processes of its container with it.
Die ==
    /\ phase' = "down"
    /\ served' = NewConfig /\ servedAt' = NothingSeen
    /\ lock' = Free
    /\ pc' = [p \in Proc |-> "closed"]
    /\ ctx' = [s \in Session |-> NoContext]
    /\ push' = [s \in Session |-> NoPush]
    /\ job' = [p \in Proc |-> NoJob]
    /\ UNCHANGED gitVars

FailsWithLock(p) == \* mutant
    /\ pc[p] \in ReloadStage /\ LoadDone(p)
    /\ job[p].outcome # "ok" \/ CommitIsEmpty(p)
    /\ p # Main
    /\ Begin(p, "ready", NewConfig, NoUser)
    /\ UNCHANGED <<gitVars, servVars, sessVars, crashes>>

\* A reload that fails is reported to the session; at startup it is fatal. A
\* panic is fatal everywhere: handlePanic does not recover it.
ReloadFails(p) ==
    /\ pc[p] \in ReloadStage /\ LoadDone(p)
    /\ \/ job[p].outcome # "ok"
       \/ pc[p] # "load" /\ CommitIsEmpty(p)
    /\ IF p = Main \/ job[p].outcome = "panic"
       THEN Die
       ELSE /\ lock' = Free
            /\ Begin(p, "ready", NewConfig, NoUser)
            /\ UNCHANGED <<gitVars, phase, served, servedAt, sessVars>>
    /\ UNCHANGED crashes

Crash ==
    /\ phase # "down" /\ crashes < MaxCrashes
    /\ crashes' = crashes + 1
    /\ Die

-----------------------------------------------------------------------------
ProcStep(p) ==
    OpenAdminRepo(p) \/ LoadSub(p) \/ LockReload(p) \/ EnsureDone(p)
    \/ Publish(p) \/ ReloadFails(p)

SessionStep(s) == HookStep(s) \/ RefUpdate(s)

Next ==
    \/ Boot \/ Crash
    \/ \E p \in Proc : ProcStep(p)
    \/ \E s \in Session : Authenticate(s) \/ Close(s) \/ Push(s) \/ SessionStep(s)

Spec == Init /\ [][Next]_vars

\* Running code goes on running and the container is restarted. Waiting for
\* the lock is strongly fair: a sync.RWMutex does not starve its writers.
Fairness ==
    /\ WF_vars(Boot)
    /\ \A p \in Proc :
          /\ WF_vars(OpenAdminRepo(p) \/ LoadSub(p) \/ EnsureDone(p)
                     \/ Publish(p) \/ ReloadFails(p))
          /\ SF_vars(LockReload(p))
    /\ \A s \in Session : WF_vars(SessionStep(s))

FairSpec == Spec /\ Fairness

-----------------------------------------------------------------------------
(* Properties                                                              *)

GitOK ==
    /\ DOMAIN master = ConfigRepo
    /\ \A r \in ConfigRepo : master[r] \in TreeOf(r)
    /\ version \in [ConfigRepo -> Nat]
    /\ index \in AdminTree
    /\ head \in AdminTree \cup {OnMaster}

ServedOK ==
    /\ phase \in {"down", "start", "bootstrap", "up"}
    /\ served \in ConfigType
    /\ servedAt \in [ConfigRepo -> Nat \cup {Unread}]
    /\ lock \in Proc \cup {Free}

SessionOK ==
    /\ ctx \in [Session -> ContextType]
    /\ DOMAIN push = Session
    /\ \A s \in Session :
          push[s].repo \in ConfigRepo => push[s].tree \in TreeOf(push[s].repo)

ProcOK == pc \in [Proc -> Stage] /\ job \in [Proc -> JobType]

\* Every variable keeps its type: what is pushed, ensured, loaded, merged and
\* flattened is always a tree or a config of the right shape.
TypeOK == GitOK /\ ServedOK /\ SessionOK /\ ProcOK /\ crashes \in 0..MaxCrashes

\* While the server runs it never goes back to an older version of any config
\* repo: reloads are serialised by the lock from their first read to the
\* assignment of serv.config (Reload in ssh_server.go).
NeverServesOlder ==
    [][phase = "up" /\ phase' = "up" =>
         \A r \in ConfigRepo : servedAt'[r] >= servedAt[r] \/ servedAt'[r] = Unread]_vars

\* Whenever no push is in progress the server serves exactly what a fresh
\* process would load from the disk, if it could load it: every path out of
\* cmdRepoAction that may have changed a config repo has reloaded it.
SettledServesDisk ==
    phase = "up" /\ InFlight = {} /\ Loadable(master) => served \in Meaning(master)

\* The server can be started again on the disk as it is, whatever was pushed
\* so far and wherever the last run of the server stopped.
DiskStaysStartable ==
    \A t \in EnsureAdminConfig(master[AdminRepo]) :
        Loadable([master EXCEPT ![AdminRepo] = t])

\* s's push has just moved a branch.
Lands(s) == pc[s] = "accepted" /\ pc'[s] # "accepted" /\ version' # version

\* The groups of some set all have a member in that set: they form a cycle.
HasGroupLoop(groups) ==
    \E S \in SUBSET Group : S # {} /\ \A g \in S : groups[g] \cap S # {}

\* A push that lands leaves a config that has an admin, no group loop and still
\* lists the pusher, the three things the update hook's Validate is to ensure
\* besides the key (config_validate.go).
LandedConfigIsValid ==
    [][\A s \in Session : Lands(s) =>
         \E c \in Meaning(master) : \E u \in UserOfKey(c, ctx[s].key) :
             \A d \in Meaning(master)' :
                /\ u \in Keys(d.users)
                /\ \E a \in Keys(d.users) : IsAdmin(d.users[a])
                /\ ~HasGroupLoop(d.groups)]_vars

\* A session that was open before its user was disabled, or before the key was
\* taken away, cannot land a push any more: the hooks look the key up afresh
\* (RunHook), whatever config the session holds on to.
LandingKeyIsKnown ==
    [][\A s \in Session : Lands(s) =>
         \E c \in Meaning(master) : UserOfKey(c, ctx[s].key) # {}]_vars

\* A tree with all that was in another, host keys included.
Completes(t, old) ==
    /\ old.hostKey \in {NoKey, t.hostKey}
    /\ old.yml = "ok" =>
        /\ t.groups = old.groups /\ t.orgs = old.orgs /\ t.repos = old.repos
        /\ t.options = old.options
        /\ \A u \in Keys(old.users) :
              /\ u \in Keys(t.users)
              /\ old.users[u].keys \subseteq t.users[u].keys
              /\ IsAdmin(old.users[u]) => IsAdmin(t.users[u])

\* What the server's own commits do to the admin repo is to complete it: nothing
\* a person wrote into it is lost. A config.yml that does not parse is replaced,
\* but only one that was there at the start: the hooks let no such file land,
\* so what somebody has pushed is never lost that way (EnsureConfig and
\* EnsureAdminUser).
ServerOnlyCompletes ==
    [][\A p \in Proc : lock = p /\ master' # master /\ pc' # pc /\ pc[p] \in {"ensure", "admin"} =>
         /\ Completes(master'[AdminRepo], master[AdminRepo])
         /\ master[AdminRepo].yml = "ok" \/ version[AdminRepo] = 0]_vars

\* What the last key in a config's hand says in its error message: a push does
\* not remove the key it was made with ("cannot remove current private key").
LandedConfigKeepsKey ==
    [][\A s \in Session : Lands(s) =>
         \A d \in Meaning(master)' : ctx[s].key \in Keys(d.publicKeys)]_vars

\* The config is valid after every commit of EnsureConfig ("We only commit at
\* the very end, after everything has been loaded. This ensures we have a valid
\* config.").
CommitLeavesValidConfig ==
    [][\A p \in Proc : pc[p] = "ensure" /\ pc'[p] # "ensure" /\ version' # version =>
         Loadable(master)']_vars

\* A panic in a session's goroutine is caught there ("Caught panic", handlePanic
\* in utils.go, deferred by handleSession): it does not end the server.
PanicsAreCaught ==
    [][\A s \in Session : pc[s] \in ReloadStage /\ job[s].outcome = "panic" => phase' = phase]_vars

\* Host keys that do not load are replaced when the server starts ("if the
\* server restarts and the keys cannot be loaded, they will be re-generated").
BadKeysAreReplaced ==
    phase = "start" /\ master[AdminRepo].hostKey = BadKey ~> phase = "up"

\* Only a push to a repo that is no config repo gets past the update hook
\* without being loaded and validated ("Non-admin repos don't need this hook.").
ConfigPushesAreChecked ==
    [][\A s \in Session : pc[s] = "update" /\ pc'[s] = "accepted"
         => push[s].repo \notin ConfigRepo]_vars

\* From some time on nobody starts a push.
PushesStop == <>[][\A s \in Session : pc[s] = "ready" => pc'[s] # "pre"]_vars

\* Every version of the admin repo, once it is there, is served or superseded:
\* neither a failed reload nor a crash makes the server forget it. This needs
\* the pushes to stop: a hook that checks out the admin repo while a reload is
\* about to commit can make that reload fail, and so can the next one.
VersionsGetServed ==
    PushesStop =>
        \A n \in 1..MaxVersion :
            version[AdminRepo] >= n ~> phase = "up" /\ servedAt[AdminRepo] >= n

\* Then, too, the server comes up again after its last crash and every push
\* comes to an end: nobody waits for the lock forever.
EverythingSettles == PushesStop => <>[](phase = "up" /\ InFlight = {})
=============================================================================

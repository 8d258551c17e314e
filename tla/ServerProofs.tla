---------------------------- MODULE ServerProofs ----------------------------
(***************************************************************************)
(* Theorems about Server and ServerHistory, for any users, repos, trees    *)
(* and bounds:                                                             *)
(*   - types, and that the server never goes back to an older version;     *)
(*   - one push at a time: invariants of loads, hooks and reloads, and     *)
(*     what they give for the pushes that land and for the disk;           *)
(*   - pushes at the same time: what is served when all is quiet, what a   *)
(*     hook knows, and what stays true without conditions on the timing;   *)
(*   - Server implements PublishedConfig.                                  *)
(***************************************************************************)
EXTENDS ServerHistory, ConfigProofs

-----------------------------------------------------------------------------
(* The inductive invariant behind TypeOK                                   *)

\* A load only has to open repos of users and orgs its config has: merging
\* into an entry that is not there would not give a Config.
TodoOK ==
    \A p \in Proc : \A r \in job[p].todo : r \in ConfigRepo /\ Opens(job[p].config, r)

\* The main goroutine runs no hook and holds no session.
MainOK == pc[Main] \in {"closed", "reload"} \cup ReloadStage

\* EnsureAdminUser is only run when there is an admin user to ensure.
BootOK == phase = "bootstrap" \/ (\E p \in Proc : pc[p] = "admin") => AdminUser \in User

TypeInv == TypeOK /\ TodoOK /\ MainOK /\ BootOK

-----------------------------------------------------------------------------
(* Lemmas                                                                  *)

\* The job of a process that loads nothing is well formed.
LEMMA NoJobType == NoJob \in JobType /\ NoJob.todo = {}
BY NewConfigType, EmptyAdminTreeType DEF NoJob, JobType, NothingSeen, Unread

\* So is the context of a closed session.
LEMMA NoContextType == NoContext \in ContextType
BY NewConfigType, ServerAssumption DEF NoContext, ContextType

\* Going on to another stage with a config of the right shape.
LEMMA BeginType ==
    ASSUME ProcOK, TodoOK,
           NEW p \in Proc, NEW stage \in Stage, NEW c \in ConfigType,
           NEW u \in User \cup {NoUser}, Begin(p, stage, c, u)
    PROVE  ProcOK' /\ TodoOK' /\ pc' = [pc EXCEPT ![p] = stage]
<1> DEFINE new == [NoJob EXCEPT !.config = c, !.user = u]
<1>1. new \in JobType /\ new.todo = {}
  BY NoJobType DEF JobType
<1>2. pc' = [pc EXCEPT ![p] = stage] /\ job' = [job EXCEPT ![p] = new]
  BY DEF Begin
<1> HIDE DEF new
<1>3. ProcOK'
  BY <1>1, <1>2 DEF ProcOK
<1>4. TodoOK'
  BY <1>1, <1>2 DEF TodoOK, ProcOK
<1> QED BY <1>2, <1>3, <1>4

\* The worktrees of the admin repo are admin trees.
LEMMA WorktreesType ==
    ASSUME TypeInv, NEW p \in Proc, NEW t \in Worktrees(p)
    PROVE  t \in AdminTree
<1>1. master[AdminRepo] \in AdminTree
  BY AdminRepoTree DEF TypeInv, TypeOK, GitOK
<1>2. CASE pc[p] = "ensure"
  BY <1>1, <1>2, EnsureAdminConfigType DEF Worktrees
<1>3. CASE pc[p] = "admin"
  <2>1. AdminUser \in User /\ AdminKey \in Key
    BY <1>3, ServerAssumption DEF TypeInv, BootOK
  <2>2. PICK e \in EnsureAdminConfig(master[AdminRepo]) :
            t = EnsureAdminUser(e, AdminUser, AdminKey)
    BY <1>3 DEF Worktrees
  <2>3. e \in AdminTree
    BY <1>1, EnsureAdminConfigType
  <2> QED BY <2>1, <2>2, <2>3, EnsureAdminUserType
<1>4. CASE pc[p] = "check" /\ push[p].repo = AdminRepo
  <2>1. p \in Session
    BY <1>4 DEF TypeInv, MainOK, ReloadStage, Proc
  <2> QED BY <1>4, <2>1, AdminRepoTree DEF Worktrees, TypeInv, TypeOK, SessionOK
<1>5. CASE /\ pc[p] # "ensure" /\ pc[p] # "admin"
           /\ ~(pc[p] = "check" /\ push[p].repo = AdminRepo)
  BY <1>1, <1>5 DEF Worktrees
<1> QED BY <1>2, <1>3, <1>4, <1>5

\* Opening an admin tree.
LEMMA OpenedJobType ==
    ASSUME NEW j \in JobType, NEW t \in AdminTree, NEW v \in Nat
    PROVE  /\ OpenedJob(j, t, v) \in JobType
           /\ \/ OpenedJob(j, t, v).todo = j.todo /\ OpenedJob(j, t, v).config = j.config
              \/ \A r \in OpenedJob(j, t, v).todo :
                    r \in ConfigRepo /\ Opens(OpenedJob(j, t, v).config, r)
<1> DEFINE c == LoadAdminConfig(j.config, t)
<1>1. CASE AdminLoads(t)
  <2>1. c \in ConfigType
    BY <1>1, LoadAdminConfigType DEF JobType
  <2>2. \A r \in UserSubRepos(c) \cup OrgSubRepos(c) : r \in ConfigRepo /\ Opens(c, r)
    BY <2>1, SubReposOpen
  <2> HIDE DEF c
  <2>3. OpenedJob(j, t, v) =
           [j EXCEPT !.opened = TRUE, !.tree = t, !.config = c,
                     !.todo = UserSubRepos(c) \cup OrgSubRepos(c),
                     !.seen = [@ EXCEPT ![AdminRepo] = v]]
    BY <1>1 DEF OpenedJob, c, JobType
  <2>4. [j.seen EXCEPT ![AdminRepo] = v] \in [ConfigRepo -> Nat \cup {Unread}]
    BY DEF JobType
  <2> DEFINE todo == UserSubRepos(c) \cup OrgSubRepos(c)
             seen == [j.seen EXCEPT ![AdminRepo] = v]
  <2>5. todo \in SUBSET ConfigRepo
    BY <2>2
  <2> HIDE DEF todo, seen
  <2>6. OpenedJob(j, t, v) =
           [j EXCEPT !.opened = TRUE, !.tree = t, !.config = c, !.todo = todo, !.seen = seen]
    BY <2>3 DEF todo, seen, JobType
  <2>7. OpenedJob(j, t, v).todo = todo /\ OpenedJob(j, t, v).config = c
    BY <2>6 DEF JobType
  <2>8. OpenedJob(j, t, v) \in JobType
    BY <2>1, <2>4, <2>5, <2>6 DEF seen, JobType
  <2> QED BY <2>2, <2>7, <2>8 DEF todo
<1>2. CASE ~AdminLoads(t)
  BY <1>2 DEF OpenedJob, JobType
<1> QED BY <1>1, <1>2

\* Opening a user's or org's config repo.
LEMMA LoadedJobType ==
    ASSUME NEW j \in JobType, NEW r \in j.todo, NEW v \in Nat,
           \A q \in j.todo : q \in ConfigRepo /\ Opens(j.config, q),
           NEW t \in TreeOf(r)
    PROVE  /\ LoadedJob(j, r, t, v) \in JobType
           /\ \A q \in LoadedJob(j, r, t, v).todo :
                 q \in ConfigRepo /\ Opens(LoadedJob(j, r, t, v).config, q)
<1>1. CASE SubOutcome(j.config, r, t) = "ok"
  <2> DEFINE c == LoadSubConfig(j.config, r, t)
  <2>1. c \in ConfigType /\ \A q : q # r /\ Opens(j.config, q) => Opens(c, q)
    BY LoadSubConfigType DEF JobType
  <2> HIDE DEF c
  <2>2. LoadedJob(j, r, t, v) =
           [j EXCEPT !.config = c, !.todo = @ \ {r}, !.seen = [@ EXCEPT ![r] = v]]
    BY <1>1 DEF LoadedJob, c, JobType
  <2>3. [j.seen EXCEPT ![r] = v] \in [ConfigRepo -> Nat \cup {Unread}]
    BY DEF JobType
  <2> DEFINE todo == j.todo \ {r}
             seen == [j.seen EXCEPT ![r] = v]
  <2>4. todo \in SUBSET ConfigRepo /\ \A q \in todo : q \in ConfigRepo /\ Opens(c, q)
    BY <2>1
  <2> HIDE DEF todo, seen
  <2>5. LoadedJob(j, r, t, v) = [j EXCEPT !.config = c, !.todo = todo, !.seen = seen]
    BY <2>2 DEF todo, seen, JobType
  <2>6. LoadedJob(j, r, t, v).todo = todo /\ LoadedJob(j, r, t, v).config = c
    BY <2>5 DEF JobType
  <2>7. LoadedJob(j, r, t, v) \in JobType
    BY <2>1, <2>3, <2>4, <2>5 DEF seen, JobType
  <2> QED BY <2>4, <2>6, <2>7
<1>2. CASE SubOutcome(j.config, r, t) = "error"
  BY <1>2 DEF LoadedJob, JobType
<1>3. CASE SubOutcome(j.config, r, t) \notin {"ok", "error"}
  BY <1>3 DEF LoadedJob, JobType
<1> QED BY <1>1, <1>2, <1>3

-----------------------------------------------------------------------------
(* Type correctness                                                        *)

\* A Server starts with the right types.
LEMMA TypeInit == Init => TypeInv
<1> SUFFICES ASSUME Init PROVE TypeInv
  OBVIOUS
<1>1. GitOK
  BY ServerAssumption, AdminRepoTree DEF Init, GitOK
<1>2. ServedOK
  BY NewConfigType DEF Init, ServedOK, NothingSeen, Unread
<1>3. SessionOK
  BY NoContextType, AdminRepoTree, EmptyAdminTreeType DEF Init, SessionOK, NoPush
<1>4. ProcOK /\ TodoOK
  BY NoJobType DEF Init, ProcOK, TodoOK, Stage, Proc
<1>5. MainOK /\ BootOK /\ crashes \in 0..MaxCrashes
  BY ServerAssumption DEF Init, MainOK, BootOK, Proc
<1> QED BY <1>1, <1>2, <1>3, <1>4, <1>5 DEF TypeInv, TypeOK

\* The end of the server process leaves everything but the disk as it was at
\* the start.
LEMMA DieType == ASSUME TypeInv, Die
                 PROVE  GitOK' /\ ServedOK' /\ SessionOK' /\ ProcOK' /\ TodoOK' /\ MainOK' /\ BootOK'
<1>1. GitOK'
  BY DEF TypeInv, TypeOK, GitOK, Die, gitVars
<1>2. ServedOK'
  BY NewConfigType DEF Die, ServedOK, NothingSeen, Unread
<1>3. SessionOK'
  BY NoContextType, AdminRepoTree, EmptyAdminTreeType DEF Die, SessionOK, NoPush
<1>4. ProcOK' /\ TodoOK'
  BY NoJobType DEF Die, ProcOK, TodoOK, Stage, Proc
<1>5. MainOK' /\ BootOK'
  BY DEF Die, MainOK, BootOK, Proc
<1> QED BY <1>1, <1>2, <1>3, <1>4, <1>5

\* The owner of a key is a user of the config.
LEMMA UserOfKeyType ==
    ASSUME NEW c \in ConfigType, NEW k, NEW u \in UserOfKey(c, k)
    PROVE  u \in User
BY DEF UserOfKey, Keys, ConfigType, MapOf

\* What the steps of the sessions, but not of their hooks, do to TypeInv.
LEMMA SessionStepType ==
    ASSUME TypeInv, NEW s \in Session, Authenticate(s) \/ Close(s) \/ Push(s)
    PROVE  TypeInv'
<1> s \in Proc /\ s # Main
  BY ServerAssumption DEF Proc
<1>1. CASE Authenticate(s) \/ Close(s)
  <2>1. PICK c \in ContextType : ctx' = [ctx EXCEPT ![s] = c]
    BY <1>1, NoContextType, UserOfKeyType
    DEF Authenticate, Close, ContextType, TypeInv, TypeOK, ServedOK
  <2>2. PICK stage \in {"closed", "ready"} : pc' = [pc EXCEPT ![s] = stage]
    BY <1>1 DEF Authenticate, Close
  <2>3. UNCHANGED <<gitVars, servVars, push, job, crashes>>
    BY <1>1 DEF Authenticate, Close
  <2>4. GitOK' /\ ServedOK' /\ TodoOK' /\ crashes' \in 0..MaxCrashes
    BY <2>3 DEF TypeInv, TypeOK, GitOK, ServedOK, TodoOK, gitVars, servVars
  <2>5. SessionOK' /\ ProcOK'
    BY <2>1, <2>2, <2>3 DEF TypeInv, TypeOK, SessionOK, ProcOK, Stage
  <2>6. MainOK' /\ BootOK'
    BY <2>2, <2>3 DEF TypeInv, TypeOK, MainOK, BootOK, ProcOK, servVars
  <2> QED BY <2>4, <2>5, <2>6 DEF TypeInv, TypeOK
<1>2. CASE Push(s)
  <2>1. Begin(s, "pre", NewConfig, NoUser) /\ UNCHANGED <<gitVars, servVars, ctx, crashes>>
    BY <1>2 DEF Push
  <2>2. GitOK' /\ ServedOK' /\ crashes' \in 0..MaxCrashes
    BY <2>1 DEF TypeInv, TypeOK, GitOK, ServedOK, gitVars, servVars
  <2>3. ProcOK' /\ TodoOK' /\ pc' = [pc EXCEPT ![s] = "pre"]
    BY <2>1, BeginType, NewConfigType DEF TypeInv, TypeOK, Stage, HookStage
  <2>4. MainOK' /\ BootOK'
    BY <2>1, <2>3 DEF TypeInv, TypeOK, MainOK, BootOK, ProcOK, servVars
  <2> DEFINE repo(path) == LookupRepo(ctx[s].config, path)
             disk(path) == DiskPath(repo(path))
  <2>5. PICK path \in PushPath :
          \E t \in ProposedFor(disk(path)) :
            push' = [push EXCEPT ![s] =
                       [path |-> path, type |-> repo(path).type, repo |-> disk(path), tree |-> t,
                        base |-> IF disk(path) \in ConfigRepo THEN version[disk(path)] ELSE 0]]
    BY <1>2 DEF Push
  <2> HIDE DEF repo, disk
  <2>6. PICK t \in ProposedFor(disk(path)) :
          /\ push'[s].repo = disk(path) /\ push'[s].tree = t /\ DOMAIN push' = Session
          /\ \A r \in Session : r # s => push'[r] = push[r]
    BY <2>5 DEF TypeInv, TypeOK, SessionOK
  <2>7. SessionOK'
    <3>1. disk(path) \in ConfigRepo => t \in TreeOf(disk(path))
      BY <2>6, ServerAssumption DEF ProposedFor
    <3> QED BY <2>1, <2>6, <3>1 DEF TypeInv, TypeOK, SessionOK
  <2> QED BY <2>2, <2>3, <2>4, <2>7 DEF TypeInv, TypeOK
<1> QED BY <1>1, <1>2

\* A receive-pack that ends takes its push with it.
LEMMA EndReceivePackType ==
    ASSUME TypeInv, NEW s \in Session, EndReceivePack(s), ctx' = ctx, phase' = phase
    PROVE  SessionOK' /\ ProcOK' /\ TodoOK' /\ MainOK' /\ BootOK'
<1> s \in Proc /\ s # Main
  BY ServerAssumption DEF Proc
<1>1. PICK stage \in {"ready", "reload"} : Begin(s, stage, NewConfig, NoUser)
  BY DEF EndReceivePack, AfterReceivePack
<1>2. ProcOK' /\ TodoOK' /\ pc' = [pc EXCEPT ![s] = stage]
  BY <1>1, BeginType, NewConfigType DEF TypeInv, TypeOK, Stage
<1>3. SessionOK'
  BY AdminRepoTree, EmptyAdminTreeType
  DEF EndReceivePack, NoPush, TypeInv, TypeOK, SessionOK
<1>4. MainOK' /\ BootOK'
  BY <1>2 DEF TypeInv, TypeOK, MainOK, BootOK, ProcOK
<1> QED BY <1>2, <1>3, <1>4

\* What a hook and the update of the branch do to TypeInv.
LEMMA HookStepType ==
    ASSUME TypeInv, NEW s \in Session, HookStep(s)
    PROVE  TypeInv'
<1> s \in Proc /\ s # Main
  BY ServerAssumption DEF Proc
<1>1. UNCHANGED <<master, version, servVars, ctx, crashes>>
  BY DEF HookStep
<1>2. ServedOK' /\ crashes' \in 0..MaxCrashes
  BY <1>1 DEF TypeInv, TypeOK, ServedOK, servVars
<1>3. PICK c \in Flatten(job[s].config) :
          \/ HookContinues(c, s)
          \/ EndReceivePack(s) /\ UNCHANGED <<index, head>>
  BY DEF HookStep
<1>4. c \in ConfigType
  BY <1>3, FlattenType DEF TypeInv, TypeOK, ProcOK, JobType
<1>5. CASE EndReceivePack(s) /\ UNCHANGED <<index, head>>
  <2>1. GitOK'
    BY <1>1, <1>5 DEF TypeInv, TypeOK, GitOK
  <2> QED BY <1>1, <1>2, <1>5, <2>1, EndReceivePackType DEF TypeInv, TypeOK, servVars
<1>6. CASE HookContinues(c, s)
  <2>1. PICK stage \in {"update", "check", "accepted"}, d \in ConfigType,
             u \in User \cup {NoUser} :
          Begin(s, stage, d, u)
    BY <1>4, <1>6, NewConfigType, UserOfKeyType DEF HookContinues, HookUser
  <2>2. ProcOK' /\ TodoOK' /\ pc' = [pc EXCEPT ![s] = stage]
    BY <2>1, BeginType DEF TypeInv, TypeOK, Stage, HookStage
  <2>3. MainOK' /\ BootOK'
    BY <1>1, <2>2 DEF TypeInv, TypeOK, MainOK, BootOK, ProcOK, servVars
  <2>4. SessionOK'
    BY <1>1, <1>6 DEF HookContinues, TypeInv, TypeOK, SessionOK
  <2>5. \/ UNCHANGED <<index, head>>
        \/ push[s].repo = AdminRepo /\ index' = push[s].tree /\ head' = push[s].tree
    BY <1>6 DEF HookContinues
  <2>6. GitOK'
    BY <1>1, <2>5, AdminRepoTree DEF TypeInv, TypeOK, GitOK, SessionOK
  <2> QED BY <1>2, <2>2, <2>3, <2>4, <2>6 DEF TypeInv, TypeOK
<1> QED BY <1>3, <1>5, <1>6

\* Moving the branch of a config repo puts a tree of its type there.
LEMMA RefUpdateType ==
    ASSUME TypeInv, NEW s \in Session, RefUpdate(s)
    PROVE  TypeInv'
<1>1. EndReceivePack(s) /\ UNCHANGED <<index, head, servVars, ctx, crashes>>
  BY DEF RefUpdate
<1>2. ServedOK' /\ crashes' \in 0..MaxCrashes
  BY <1>1 DEF TypeInv, TypeOK, ServedOK, servVars
<1>3. SessionOK' /\ ProcOK' /\ TodoOK' /\ MainOK' /\ BootOK'
  BY <1>1, EndReceivePackType DEF servVars
<1>4. GitOK'
  <2>1. CASE UNCHANGED <<master, version>>
    BY <1>1, <2>1 DEF TypeInv, TypeOK, GitOK
  <2>2. CASE /\ push[s].repo \in ConfigRepo
             /\ master' = [master EXCEPT ![push[s].repo] = push[s].tree]
             /\ version' = [version EXCEPT ![push[s].repo] = @ + 1]
    BY <1>1, <2>2 DEF TypeInv, TypeOK, GitOK, SessionOK
  <2> QED BY <2>1, <2>2 DEF RefUpdate
<1> QED BY <1>2, <1>3, <1>4 DEF TypeInv, TypeOK

\* What a process does to TypeInv while it loads a config.
LEMMA LoadStepType ==
    ASSUME TypeInv, NEW p \in Proc, OpenAdminRepo(p) \/ LoadSub(p)
    PROVE  TypeInv'
<1>1. UNCHANGED <<master, version, servVars, sessVars, pc, crashes>>
  BY DEF OpenAdminRepo, LoadSub, gitVars
<1>2. /\ ServedOK' /\ SessionOK' /\ MainOK' /\ BootOK'
      /\ pc' \in [Proc -> Stage] /\ crashes' \in 0..MaxCrashes
  BY <1>1 DEF TypeInv, TypeOK, ServedOK, SessionOK, MainOK, BootOK, ProcOK, servVars, sessVars
<1>3. job[p] \in JobType /\ job \in [Proc -> JobType]
  BY DEF TypeInv, TypeOK, ProcOK
<1>4. CASE OpenAdminRepo(p)
  <2>1. PICK t \in Worktrees(p) :
          /\ job' = [job EXCEPT ![p] = OpenedJob(job[p], t, version[AdminRepo])]
          /\ index' = t
          /\ head' = IF pc[p] = "check" /\ push[p].repo = AdminRepo THEN t ELSE OnMaster
    BY <1>3, <1>4 DEF OpenAdminRepo
  <2>2. t \in AdminTree /\ version[AdminRepo] \in Nat
    BY WorktreesType, AdminRepoTree DEF TypeInv, TypeOK, GitOK
  <2>3. GitOK'
    BY <1>1, <2>1, <2>2 DEF TypeInv, TypeOK, GitOK
  <2> DEFINE new == OpenedJob(job[p], t, version[AdminRepo])
  <2>4. /\ new \in JobType
        /\ \/ new.todo = job[p].todo /\ new.config = job[p].config
           \/ \A r \in new.todo : r \in ConfigRepo /\ Opens(new.config, r)
    BY <1>3, <2>2, OpenedJobType
  <2> HIDE DEF new
  <2>5. job' = [job EXCEPT ![p] = new]
    BY <2>1 DEF new
  <2>6. ProcOK' /\ TodoOK'
    BY <1>2, <1>3, <2>4, <2>5 DEF ProcOK, TypeInv, TodoOK
  <2> QED BY <1>2, <2>3, <2>6 DEF TypeInv, TypeOK
<1>5. CASE LoadSub(p)
  <2>1. PICK r \in job[p].todo :
          job' = [job EXCEPT ![p] = LoadedJob(job[p], r, SubTree(p, r), version[r])]
    BY <1>3, <1>5 DEF LoadSub
  <2>2. \A q \in job[p].todo : q \in ConfigRepo /\ Opens(job[p].config, q)
    BY DEF TypeInv, TodoOK
  <2>3. SubTree(p, r) \in TreeOf(r) /\ version[r] \in Nat
    <3>1. master[r] \in TreeOf(r) /\ version[r] \in Nat
      BY <2>2 DEF TypeInv, TypeOK, GitOK
    <3>2. ASSUME pc[p] = "check", push[p].repo = r
          PROVE  push[p].tree \in TreeOf(r)
      BY <2>2, <3>2 DEF TypeInv, TypeOK, SessionOK, MainOK, ReloadStage, Proc
    <3> QED BY <3>1, <3>2 DEF SubTree
  <2> DEFINE new == LoadedJob(job[p], r, SubTree(p, r), version[r])
  <2>4. new \in JobType /\ \A q \in new.todo : q \in ConfigRepo /\ Opens(new.config, q)
    BY <1>3, <2>2, <2>3, LoadedJobType
  <2> HIDE DEF new
  <2>5. job' = [job EXCEPT ![p] = new]
    BY <2>1 DEF new
  <2>6. ProcOK' /\ TodoOK'
    BY <1>2, <1>3, <2>4, <2>5 DEF ProcOK, TypeInv, TodoOK
  <2>7. GitOK'
    BY <1>5 DEF LoadSub, gitVars, TypeInv, TypeOK, GitOK
  <2> QED BY <1>2, <2>6, <2>7 DEF TypeInv, TypeOK
<1> QED BY <1>4, <1>5

\* What the steps of a reload do to TypeInv: taking the lock, committing,
\* publishing and failing.
LEMMA ReloadStepType ==
    ASSUME TypeInv, NEW p \in Proc,
           LockReload(p) \/ EnsureDone(p) \/ Publish(p) \/ ReloadFails(p)
    PROVE  TypeInv'
<1>0. Main \notin Session /\ pc[p] \in Stage /\ job[p] \in JobType
  BY ServerAssumption DEF TypeInv, TypeOK, ProcOK
<1>1. CASE LockReload(p)
  <2>1. /\ Begin(p, "ensure", NewConfig, NoUser)
        /\ UNCHANGED <<gitVars, phase, served, servedAt, sessVars, crashes>>
    BY <1>1 DEF LockReload
  <2>2. ProcOK' /\ TodoOK' /\ pc' = [pc EXCEPT ![p] = "ensure"]
    BY <2>1, BeginType, NewConfigType DEF TypeInv, TypeOK, Stage, ReloadStage
  <2>3. MainOK' /\ BootOK'
    BY <2>1, <2>2 DEF TypeInv, TypeOK, ProcOK, MainOK, BootOK, ReloadStage
  <2>4. lock' = p
    BY <1>1 DEF LockReload
  <2>5. GitOK' /\ ServedOK' /\ SessionOK' /\ crashes' \in 0..MaxCrashes
    BY <2>1, <2>4
    DEF TypeInv, TypeOK, GitOK, ServedOK, SessionOK, gitVars, sessVars
  <2> QED BY <2>2, <2>3, <2>5 DEF TypeInv, TypeOK
<1>2. CASE EnsureDone(p)
  <2>1. UNCHANGED <<servVars, sessVars, crashes>>
    BY <1>2 DEF EnsureDone
  <2>2. PICK c \in Flatten(job[p].config) :
          Begin(p, IF pc[p] = "ensure" /\ phase = "bootstrap" THEN "admin" ELSE "load",
                c, NoUser)
    BY <1>2 DEF EnsureDone
  <2>3. PICK stage \in {"admin", "load"} :
          Begin(p, stage, c, NoUser) /\ (stage = "admin" => phase = "bootstrap")
    BY <2>2
  <2>4. c \in ConfigType
    BY <1>0, FlattenType DEF JobType
  <2>5. ProcOK' /\ TodoOK' /\ pc' = [pc EXCEPT ![p] = stage]
    BY <2>3, <2>4, BeginType DEF TypeInv, TypeOK, Stage, ReloadStage
  <2>6. MainOK' /\ BootOK'
    BY <2>1, <2>3, <2>5 DEF TypeInv, TypeOK, ProcOK, MainOK, BootOK, ReloadStage, servVars
  <2>7. GitOK'
    <3>1. CASE UNCHANGED gitVars
      BY <3>1 DEF gitVars, TypeInv, TypeOK, GitOK
    <3>2. CASE CommitAdminRepo
      BY <3>2, AdminRepoTree DEF CommitAdminRepo, TypeInv, TypeOK, GitOK
    <3> QED BY <1>2, <3>1, <3>2 DEF EnsureDone
  <2>8. ServedOK' /\ SessionOK' /\ crashes' \in 0..MaxCrashes
    BY <2>1 DEF TypeInv, TypeOK, ServedOK, SessionOK, servVars, sessVars
  <2> QED BY <2>5, <2>6, <2>7, <2>8 DEF TypeInv, TypeOK
<1>3. CASE Publish(p)
  <2>1. /\ UNCHANGED <<gitVars, sessVars, crashes>>
        /\ servedAt' = job[p].seen /\ lock' = Free
    BY <1>3 DEF Publish
  <2>2. served' \in ConfigType
    BY <1>0, <1>3, FlattenType DEF Publish, JobType
  <2>3. PICK stage \in {"reload", "closed", "ready"} :
          /\ Begin(p, stage, NewConfig, NoUser)
          /\ p = Main => stage # "ready"
          /\ \/ phase' \in {phase, "up"}
             \/ phase' = "bootstrap" /\ AdminUser # NoUser
    BY <1>3 DEF Publish
  <2>4. ProcOK' /\ TodoOK' /\ pc' = [pc EXCEPT ![p] = stage]
    BY <2>3, BeginType, NewConfigType DEF TypeInv, TypeOK, Stage
  <2>5. MainOK'
    BY <2>3, <2>4 DEF TypeInv, TypeOK, ProcOK, MainOK
  <2>6. BootOK'
    BY <2>3, <2>4, ServerAssumption DEF TypeInv, TypeOK, ProcOK, BootOK
  <2>7. GitOK' /\ SessionOK' /\ crashes' \in 0..MaxCrashes
    BY <2>1 DEF TypeInv, TypeOK, GitOK, SessionOK, gitVars, sessVars
  <2>8. ServedOK'
    BY <1>0, <2>1, <2>2, <2>3 DEF TypeInv, TypeOK, ServedOK, JobType
  <2> QED BY <2>4, <2>5, <2>6, <2>7, <2>8 DEF TypeInv, TypeOK
<1>4. CASE ReloadFails(p)
  <2>1. crashes' \in 0..MaxCrashes
    BY <1>4 DEF ReloadFails, TypeInv, TypeOK
  <2>2. CASE Die
    BY <2>1, <2>2, DieType DEF TypeInv, TypeOK
  <2>3. CASE /\ p # Main /\ lock' = Free
             /\ Begin(p, "ready", NewConfig, NoUser)
             /\ UNCHANGED <<gitVars, phase, served, servedAt, sessVars>>
    <3>1. ProcOK' /\ TodoOK' /\ pc' = [pc EXCEPT ![p] = "ready"]
      BY <2>3, BeginType, NewConfigType DEF TypeInv, TypeOK, Stage
    <3>2. MainOK' /\ BootOK'
      BY <2>3, <3>1 DEF TypeInv, TypeOK, ProcOK, MainOK, BootOK
    <3>3. GitOK' /\ ServedOK' /\ SessionOK'
      BY <2>3 DEF TypeInv, TypeOK, GitOK, ServedOK, SessionOK, gitVars, sessVars
    <3> QED BY <2>1, <3>1, <3>2, <3>3 DEF TypeInv, TypeOK
  <2> QED BY <1>4, <2>2, <2>3 DEF ReloadFails
<1> QED BY <1>1, <1>2, <1>3, <1>4

\* Starting and ending the server process.
LEMMA ServerStepType == ASSUME TypeInv, Boot \/ Crash PROVE TypeInv'
<1>1. CASE Boot
  <2>1. /\ pc' = [pc EXCEPT ![Main] = "reload"] /\ phase' = "start"
        /\ UNCHANGED <<gitVars, served, servedAt, lock, sessVars, job, crashes>>
    BY <1>1 DEF Boot
  <2>2. ProcOK' /\ TodoOK' /\ MainOK' /\ BootOK'
    BY <2>1 DEF TypeInv, TypeOK, ProcOK, TodoOK, MainOK, BootOK, Stage, Proc
  <2>3. GitOK' /\ ServedOK' /\ SessionOK' /\ crashes' \in 0..MaxCrashes
    BY <2>1 DEF TypeInv, TypeOK, GitOK, ServedOK, SessionOK, gitVars, sessVars
  <2> QED BY <2>2, <2>3 DEF TypeInv, TypeOK
<1>2. CASE Crash
  <2>1. Die /\ crashes' \in 0..MaxCrashes
    BY <1>2, ServerAssumption DEF Crash, TypeInv, TypeOK
  <2> QED BY <2>1, DieType DEF TypeInv, TypeOK
<1> QED BY <1>1, <1>2

\* Every step of the server preserves TypeInv.
LEMMA TypeStep == TypeInv /\ [Next]_vars => TypeInv'
<1> SUFFICES ASSUME TypeInv, [Next]_vars PROVE TypeInv'
  OBVIOUS
<1>1. CASE Boot \/ Crash
  BY <1>1, ServerStepType
<1>2. ASSUME NEW p \in Proc, ProcStep(p) PROVE TypeInv'
  BY <1>2, LoadStepType, ReloadStepType DEF ProcStep
<1>3. ASSUME NEW s \in Session, Authenticate(s) \/ Close(s) \/ Push(s) \/ SessionStep(s)
      PROVE  TypeInv'
  BY <1>3, SessionStepType, HookStepType, RefUpdateType DEF SessionStep
<1>4. CASE UNCHANGED vars
  BY <1>4 DEF vars, gitVars, servVars, sessVars, TypeInv, TypeOK, GitOK, ServedOK,
              SessionOK, ProcOK, TodoOK, MainOK, BootOK
<1> QED BY <1>1, <1>2, <1>3, <1>4 DEF Next

\* Every variable of the server keeps its type, for any number of users,
\* sessions, trees and crashes.
THEOREM TypeCorrect == Spec => []TypeOK
<1>1. Init => TypeInv
  BY TypeInit
<1>2. TypeInv /\ [Next]_vars => TypeInv'
  BY TypeStep
<1>3. TypeInv => TypeOK
  BY DEF TypeInv
<1> QED BY <1>1, <1>2, <1>3, PTL DEF Spec

-----------------------------------------------------------------------------
(* The server never goes back to an older version                          *)

\* Only the holder of the lock is in a reload.
LockOK == \A p \in Proc : pc[p] \in ReloadStage => lock = p

\* Nobody has seen a version that is yet to come.
SeenOK ==
    \A r \in ConfigRepo :
        servedAt[r] <= version[r] /\ \A p \in Proc : job[p].seen[r] <= version[r]

\* What a reload has read so far is no older than what is served. With the
\* lock alone this would not be inductive: it is SeenOK that makes the next
\* read new enough.
FreshOK ==
    \A p \in Proc : \A r \in ConfigRepo :
        pc[p] \in ReloadStage => job[p].seen[r] = Unread \/ servedAt[r] <= job[p].seen[r]

ServeInv == LockOK /\ SeenOK /\ FreshOK

\* A load that has just begun has read nothing.
LEMMA NothingSeenIsUnread ==
    NoJob.seen = NothingSeen /\ \A r \in ConfigRepo : NothingSeen[r] = Unread
BY DEF NoJob, NothingSeen

\* At the start nothing is read, served or locked.
LEMMA ServeInit == Init => ServeInv
BY NothingSeenIsUnread
DEF Init, ServeInv, LockOK, SeenOK, FreshOK, ReloadStage, Unread

\* The tip of a branch only moves on.
LEMMA VersionGrows ==
    ASSUME TypeInv, Next, NEW r \in ConfigRepo
    PROVE  version[r] \in Nat /\ version'[r] \in Nat /\ version[r] <= version'[r]
<1>1. version \in [ConfigRepo -> Nat]
  BY DEF TypeInv, TypeOK, GitOK
<1>2. CASE UNCHANGED version
  BY <1>1, <1>2
<1>3. CASE \E s \in Session : RefUpdate(s)
  BY <1>1, <1>3 DEF RefUpdate
<1>4. CASE \E p \in Proc : EnsureDone(p)
  BY <1>1, <1>4 DEF EnsureDone, CommitAdminRepo, gitVars
<1>5. \/ UNCHANGED version \/ \E s \in Session : RefUpdate(s)
      \/ \E p \in Proc : EnsureDone(p)
  BY DEF Next, ProcStep, SessionStep, Boot, Crash, Die, OpenAdminRepo, LoadSub, LockReload,
         Publish, ReloadFails, HookStep, Authenticate, Close, Push, gitVars
<1> QED BY <1>2, <1>3, <1>4, <1>5

\* Four kinds of step, as far as ServeInv can tell them apart. A load that
\* reads a repo sees its present version.
Reads(p) ==
    /\ UNCHANGED <<version, servedAt, lock, pc>>
    /\ \A q \in Proc : q # p => job'[q] = job[q]
    /\ \A r \in ConfigRepo : job'[p].seen[r] \in {job[p].seen[r], version[r]}

\* Whoever starts a load has seen nothing; a reload starts with the lock.
Starts(p) ==
    /\ UNCHANGED servedAt
    /\ \A q \in Proc : q # p => pc'[q] = pc[q] /\ job'[q] = job[q]
    /\ \/ job'[p].seen = NothingSeen
       \/ job'[p] = job[p] /\ pc'[p] \notin ReloadStage
    /\ \/ pc[p] \in ReloadStage /\ pc'[p] \in ReloadStage /\ UNCHANGED lock
       \/ pc[p] \in ReloadStage /\ pc'[p] \notin ReloadStage
       \/ pc'[p] \notin ReloadStage /\ UNCHANGED lock
       \/ lock = Free /\ lock' = p

\* A reload that publishes gives up the lock.
Publishes(p) ==
    /\ pc[p] \in ReloadStage /\ servedAt' = job[p].seen /\ UNCHANGED version
    /\ \A q \in Proc : q # p => pc'[q] = pc[q] /\ job'[q] = job[q]
    /\ job'[p].seen = NothingSeen /\ pc'[p] \notin ReloadStage

\* The server process ends.
Ends ==
    /\ servedAt' = NothingSeen /\ UNCHANGED version
    /\ \A p \in Proc : job'[p].seen = NothingSeen /\ pc'[p] \notin ReloadStage

\* Going on to another stage touches one process and forgets what it read.
LEMMA BeginStarts ==
    ASSUME ProcOK, NEW p \in Proc, NEW stage, NEW c, NEW u, Begin(p, stage, c, u)
    PROVE  /\ pc'[p] = stage /\ job'[p].seen = NothingSeen
           /\ \A q \in Proc : q # p => pc'[q] = pc[q] /\ job'[q] = job[q]
<1> DEFINE new == [NoJob EXCEPT !.config = c, !.user = u]
<1>1. new.seen = NothingSeen
  BY DEF NoJob
<1>2. pc' = [pc EXCEPT ![p] = stage] /\ job' = [job EXCEPT ![p] = new]
  BY DEF Begin
<1> HIDE DEF new
<1> QED BY <1>1, <1>2 DEF ProcOK

\* The end of the server process is a step of the last kind.
LEMMA DieEnds == Die => Ends
BY NothingSeenIsUnread DEF Die, Ends, gitVars, ReloadStage

\* Every step of the server is of one of these kinds.
LEMMA StepKinds ==
    ASSUME TypeInv, Next
    PROVE  Ends \/ \E p \in Proc : Reads(p) \/ Starts(p) \/ Publishes(p)
<1> USE DEF ReloadStage
<1> ProcOK /\ Main \in Proc /\ Session \subseteq Proc
  BY DEF TypeInv, TypeOK, Proc
<1>1. CASE Boot
  <2>1. Starts(Main)
    BY <1>1 DEF Boot, Starts, ProcOK
  <2> QED BY <2>1
<1>2. CASE Crash
  BY <1>2, DieEnds DEF Crash
<1>3. ASSUME NEW s \in Session, Authenticate(s) \/ Close(s) \/ Push(s) \/ SessionStep(s)
      PROVE  Starts(s)
  <2>1. CASE Authenticate(s) \/ Close(s)
    BY <2>1 DEF Authenticate, Close, Starts, ProcOK, servVars
  <2>2. CASE Push(s)
    <3>1. Begin(s, "pre", NewConfig, NoUser) /\ UNCHANGED servVars
      BY <2>2 DEF Push
    <3> QED BY <3>1, BeginStarts DEF Starts, servVars
  <2>3. CASE SessionStep(s)
    <3>1. UNCHANGED servVars
      BY <2>3 DEF SessionStep, HookStep, RefUpdate
    <3>2. \E stage \in {"update", "check", "accepted", "ready", "reload"} : \E c, u :
            Begin(s, stage, c, u)
      BY <2>3 DEF SessionStep, HookStep, HookContinues, RefUpdate, EndReceivePack,
                  AfterReceivePack
    <3> QED BY <3>1, <3>2, BeginStarts DEF Starts, servVars
  <2> QED BY <1>3, <2>1, <2>2, <2>3
<1>4. ASSUME NEW p \in Proc, ProcStep(p)
      PROVE  Ends \/ Reads(p) \/ Starts(p) \/ Publishes(p)
  <2> job[p] \in JobType
    BY DEF ProcOK
  <2>1. CASE OpenAdminRepo(p)
    <3>1. PICK t \in Worktrees(p) :
            job' = [job EXCEPT ![p] = OpenedJob(job[p], t, version[AdminRepo])]
      BY <2>1 DEF OpenAdminRepo, ProcOK
    <3>2. \A r \in ConfigRepo :
            OpenedJob(job[p], t, version[AdminRepo]).seen[r] \in {job[p].seen[r], version[r]}
      BY DEF OpenedJob, JobType
    <3>3. UNCHANGED <<version, servVars, pc>>
      BY <2>1 DEF OpenAdminRepo
    <3> QED BY <3>1, <3>2, <3>3 DEF Reads, ProcOK, servVars
  <2>2. CASE LoadSub(p)
    <3>1. PICK q \in job[p].todo :
            job' = [job EXCEPT ![p] = LoadedJob(job[p], q, SubTree(p, q), version[q])]
      BY <2>2 DEF LoadSub, ProcOK
    <3>2. \A r \in ConfigRepo :
            LoadedJob(job[p], q, SubTree(p, q), version[q]).seen[r]
              \in {job[p].seen[r], version[r]}
      BY DEF LoadedJob, JobType
    <3>3. UNCHANGED <<version, servVars, pc>>
      BY <2>2 DEF LoadSub, gitVars
    <3> QED BY <3>1, <3>2, <3>3 DEF Reads, ProcOK, servVars
  <2>3. CASE LockReload(p)
    <3>1. Begin(p, "ensure", NewConfig, NoUser) /\ lock = Free /\ lock' = p /\ UNCHANGED servedAt
      BY <2>3 DEF LockReload
    <3> QED BY <3>1, BeginStarts DEF Starts
  <2>4. CASE EnsureDone(p)
    <3>1. PICK c : Begin(p, IF pc[p] = "ensure" /\ phase = "bootstrap" THEN "admin" ELSE "load",
                         c, NoUser)
      BY <2>4 DEF EnsureDone
    <3>2. UNCHANGED servVars /\ pc[p] \in ReloadStage
      BY <2>4 DEF EnsureDone
    <3> QED BY <3>1, <3>2, BeginStarts DEF Starts, servVars
  <2>5. CASE Publish(p)
    <3>1. \E stage \in {"reload", "closed", "ready"} : Begin(p, stage, NewConfig, NoUser)
      BY <2>5 DEF Publish
    <3>2. pc[p] \in ReloadStage /\ servedAt' = job[p].seen /\ UNCHANGED version
      BY <2>5 DEF Publish, gitVars
    <3> QED BY <3>1, <3>2, BeginStarts DEF Publishes
  <2>6. CASE ReloadFails(p)
    <3>1. CASE Die
      BY <3>1, DieEnds
    <3>2. CASE /\ Begin(p, "ready", NewConfig, NoUser)
               /\ UNCHANGED <<gitVars, phase, served, servedAt, sessVars>>
      <4>1. pc[p] \in ReloadStage
        BY <2>6 DEF ReloadFails
      <4> QED BY <3>2, <4>1, BeginStarts DEF Starts
    <3> QED BY <2>6, <3>1, <3>2 DEF ReloadFails
  <2> QED BY <1>4, <2>1, <2>2, <2>3, <2>4, <2>5, <2>6 DEF ProcStep
<1> QED BY <1>1, <1>2, <1>3, <1>4 DEF Next

\* Every step of the server preserves ServeInv.
LEMMA ServeStep == TypeInv /\ ServeInv /\ [Next]_vars => ServeInv'
<1> SUFFICES ASSUME TypeInv, ServeInv, [Next]_vars PROVE ServeInv'
  OBVIOUS
<1>1. CASE UNCHANGED vars
  BY <1>1 DEF vars, gitVars, servVars, ServeInv, LockOK, SeenOK, FreshOK
<1>2. CASE Next
  <2> USE DEF Unread
  <2>1. Free \notin Proc
    BY ServerAssumption DEF Proc
  <2>2. \A r \in ConfigRepo :
          version[r] \in Nat /\ version'[r] \in Nat /\ version[r] <= version'[r]
    BY <1>2, VersionGrows
  <2>3. \A r \in ConfigRepo :
          /\ servedAt[r] \in Nat \cup {Unread}
          /\ \A p \in Proc : job[p].seen[r] \in Nat \cup {Unread}
    BY DEF TypeInv, TypeOK, ServedOK, ProcOK, JobType
  <2>4. CASE Ends
    BY <2>2, <2>4, NothingSeenIsUnread DEF Ends, ServeInv, LockOK, SeenOK, FreshOK
  <2>5. ASSUME NEW p \in Proc, Reads(p) PROVE ServeInv'
    <3>1. LockOK'
      BY <2>5 DEF ServeInv, LockOK, Reads
    <3>2. SeenOK'
      BY <2>2, <2>3, <2>5 DEF ServeInv, SeenOK, Reads
    <3>3. FreshOK'
      BY <2>2, <2>3, <2>5 DEF ServeInv, SeenOK, FreshOK, Reads
    <3> QED BY <3>1, <3>2, <3>3 DEF ServeInv
  <2>6. ASSUME NEW p \in Proc, Starts(p) PROVE ServeInv'
    <3>1. LockOK'
      BY <2>1, <2>6 DEF ServeInv, LockOK, Starts
    <3>2. SeenOK'
      BY <2>2, <2>3, <2>6, NothingSeenIsUnread DEF ServeInv, SeenOK, Starts
    <3>3. FreshOK'
      BY <2>6, NothingSeenIsUnread DEF ServeInv, FreshOK, Starts
    <3> QED BY <3>1, <3>2, <3>3 DEF ServeInv
  <2>7. ASSUME NEW p \in Proc, Publishes(p) PROVE ServeInv'
    <3>1. \A q \in Proc : pc'[q] \notin ReloadStage
      BY <2>7 DEF ServeInv, LockOK, Publishes
    <3>2. SeenOK'
      BY <2>2, <2>3, <2>7, NothingSeenIsUnread DEF ServeInv, SeenOK, Publishes
    <3> QED BY <3>1, <3>2 DEF ServeInv, LockOK, FreshOK
  <2> QED BY <1>2, <2>4, <2>5, <2>6, <2>7, StepKinds
<1> QED BY <1>1, <1>2

\* A server that runs on never goes back to an older version of any config
\* repo, however many sessions push and reload at the same time.
THEOREM ServesNothingOlder == Spec => NeverServesOlder
<1>1. Init => TypeInv /\ ServeInv
  BY TypeInit, ServeInit
<1>2. TypeInv /\ ServeInv /\ [Next]_vars => TypeInv' /\ ServeInv'
  BY TypeStep, ServeStep
<1>3. ASSUME TypeInv, ServeInv, [Next]_vars, NEW r \in ConfigRepo
      PROVE  servedAt'[r] >= servedAt[r] \/ servedAt'[r] = Unread
  <2>1. /\ servedAt[r] \in Nat \cup {Unread}
        /\ \A p \in Proc : job[p].seen[r] \in Nat \cup {Unread}
    BY <1>3 DEF TypeInv, TypeOK, ServedOK, ProcOK, JobType
  <2>2. CASE UNCHANGED servedAt
    BY <2>1, <2>2 DEF Unread
  <2>3. CASE Ends
    BY <2>3, NothingSeenIsUnread DEF Ends
  <2>4. ASSUME NEW p \in Proc, Publishes(p)
        PROVE  servedAt'[r] >= servedAt[r] \/ servedAt'[r] = Unread
    BY <1>3, <2>1, <2>4 DEF Publishes, ServeInv, FreshOK, Unread
  <2> QED BY <1>3, <2>2, <2>3, <2>4, StepKinds DEF Reads, Starts, vars, servVars
<1>4. TypeInv /\ ServeInv /\ [Next]_vars
        => [phase = "up" /\ phase' = "up" =>
              \A r \in ConfigRepo : servedAt'[r] >= servedAt[r] \/ servedAt'[r] = Unread]_vars
  BY <1>3
<1> QED BY <1>1, <1>2, <1>4, PTL DEF Spec, NeverServesOlder

-----------------------------------------------------------------------------
(* Loads, step by step                                                     *)

\* Opening the admin repo.
LEMMA OpenedTree ==
    ASSUME NEW j \in JobType, NEW t, NEW v
    PROVE  /\ OpenedJob(j, t, v).tree = t /\ OpenedJob(j, t, v).opened = TRUE
           /\ OpenedJob(j, t, v).seen[AdminRepo] \in {v, j.seen[AdminRepo]}
<1>1. [j.seen EXCEPT ![AdminRepo] = v][AdminRepo] = v
  BY AdminRepoTree DEF JobType
<1>2. OpenedJob(j, t, v).seen \in {j.seen, [j.seen EXCEPT ![AdminRepo] = v]}
  BY DEF OpenedJob, JobType
<1>3. OpenedJob(j, t, v).tree = t /\ OpenedJob(j, t, v).opened = TRUE
  BY DEF OpenedJob, JobType
<1> QED BY <1>1, <1>2, <1>3

\* It keeps the keys flatten found.
LEMMA OpenedKeys ==
    ASSUME NEW j \in JobType, NEW t, NEW v
    PROVE  OpenedJob(j, t, v).config.publicKeys = j.config.publicKeys
<1>1. LoadAdminConfig(j.config, t).publicKeys = j.config.publicKeys
  BY DEF LoadAdminConfig
<1>2. OpenedJob(j, t, v).config \in {j.config, LoadAdminConfig(j.config, t)}
  BY DEF OpenedJob, JobType
<1> QED BY <1>1, <1>2

\* Opening one of the others.
LEMMA LoadedTree ==
    ASSUME NEW j \in JobType, NEW r, NEW t, NEW v
    PROVE  /\ LoadedJob(j, r, t, v).tree = j.tree /\ LoadedJob(j, r, t, v).opened = j.opened
           /\ r # AdminRepo => LoadedJob(j, r, t, v).seen[AdminRepo] = j.seen[AdminRepo]
           /\ LoadedJob(j, r, t, v).outcome = "ok" => j.outcome = "ok"
<1>1. r # AdminRepo => [j.seen EXCEPT ![r] = v][AdminRepo] = j.seen[AdminRepo]
  BY AdminRepoTree DEF JobType
<1>2. LoadedJob(j, r, t, v).seen \in {j.seen, [j.seen EXCEPT ![r] = v]}
  BY DEF LoadedJob, JobType
<1>3. /\ LoadedJob(j, r, t, v).tree = j.tree /\ LoadedJob(j, r, t, v).opened = j.opened
      /\ LoadedJob(j, r, t, v).outcome = "ok" => j.outcome = "ok"
  BY DEF LoadedJob, JobType
<1> QED BY <1>1, <1>2, <1>3

\* It keeps the keys as well.
LEMMA LoadedKeys ==
    ASSUME NEW j \in JobType, NEW r, NEW t, NEW v
    PROVE  LoadedJob(j, r, t, v).config.publicKeys = j.config.publicKeys
<1>1. LoadSubConfig(j.config, r, t).publicKeys = j.config.publicKeys
  BY DEF LoadSubConfig, JobType, ConfigType
<1>2. LoadedJob(j, r, t, v).config \in {j.config, LoadSubConfig(j.config, r, t)}
  BY DEF LoadedJob, JobType
<1> QED BY <1>1, <1>2

\* Opening the admin repo, when it works.
LEMMA OpenedFields ==
    ASSUME NEW j \in JobType, NEW t \in AdminTree, NEW v,
           NEW o, o = OpenedJob(j, t, v), o.outcome = "ok", j.outcome = "ok"
    PROVE  /\ AdminLoads(t) /\ o.config = LoadAdminConfig(j.config, t)
           /\ o.todo = SubRepos(o.config)
           /\ o.seen = [j.seen EXCEPT ![AdminRepo] = v]
<1> DEFINE c == LoadAdminConfig(j.config, t)
           todo == SubRepos(c)
           seen == [j.seen EXCEPT ![AdminRepo] = v]
<1>1. AdminLoads(t)
  BY DEF OpenedJob, JobType
<1> HIDE DEF c, todo, seen
<1>2. o = [j EXCEPT !.opened = TRUE, !.tree = t, !.config = c, !.todo = todo, !.seen = seen]
  BY <1>1 DEF OpenedJob, c, todo, seen, SubRepos, JobType
<1>3. o.config = c /\ o.todo = todo /\ o.seen = seen
  BY <1>2 DEF JobType
<1> QED BY <1>1, <1>3 DEF c, todo, seen

\* Opening one more config repo, when it works.
LEMMA LoadedFields ==
    ASSUME NEW j \in JobType, NEW r \in j.todo, NEW t, NEW v,
           NEW o, o = LoadedJob(j, r, t, v), o.outcome = "ok"
    PROVE  /\ o.config = LoadSubConfig(j.config, r, t)
           /\ o.todo = j.todo \ {r} /\ o.seen = [j.seen EXCEPT ![r] = v]
<1> DEFINE c == LoadSubConfig(j.config, r, t)
           todo == j.todo \ {r}
           seen == [j.seen EXCEPT ![r] = v]
<1>1. SubOutcome(j.config, r, t) = "ok"
  BY DEF LoadedJob, JobType
<1> HIDE DEF c, todo, seen
<1>2. o = [j EXCEPT !.config = c, !.todo = todo, !.seen = seen]
  BY <1>1 DEF LoadedJob, c, todo, seen, JobType
<1>3. o.config = c /\ o.todo = todo /\ o.seen = seen
  BY <1>2 DEF JobType
<1> QED BY <1>3 DEF c, todo, seen

\* ensureAdminConfig keeps the users and the options, or leaves no users.
LEMMA EnsureKeepsUsers ==
    ASSUME NEW old \in AdminTree, NEW t \in EnsureAdminConfig(old)
    PROVE  (t.users = old.users /\ t.options = old.options) \/ Keys(t.users) = {}
<1> DEFINE y == EnsureConfigYaml(old)
<1>1. \/ y.users = old.users /\ y.options = old.options
      \/ Keys(y.users) = {}
  <2>1. EmptyAdminTree \in AdminTree /\ Keys(EmptyAdminTree.users) = {}
    BY EmptyAdminTreeType DEF EmptyAdminTree, EmptyMap, Keys
  <2>2. CASE old.yml \in {"missing", "syntax"}
    <3>1. y.users = EmptyAdminTree.users
      BY <2>1, <2>2 DEF EnsureConfigYaml, AdminTree
    <3> QED BY <2>1, <3>1
  <2>3. CASE old.yml \notin {"missing", "syntax"}
    BY <2>3 DEF EnsureConfigYaml, AdminTree
  <2> QED BY <2>2, <2>3
<1>2. y \in AdminTree
  BY EmptyAdminTreeType DEF EnsureConfigYaml, AdminTree
<1>3. t.users = y.users /\ t.options = y.options
  <2> HIDE DEF y
  <2>1. t = y \/ \E k \in HostKey : t = [y EXCEPT !.hostKey = k]
    BY DEF EnsureAdminConfig, y
  <2> QED BY <1>2, <2>1 DEF AdminTree
<1> QED BY <1>1, <1>3

-----------------------------------------------------------------------------
(* Who takes which step                                                     *)

\* No session is served before the server is up.
BootAlone == phase # "up" => \A s \in Session : pc[s] = "closed"

\* Whoever is in a reload was there before, or has just taken the lock, or has
\* finished an earlier load of it.
LEMMA WhoMoves ==
    ASSUME TypeInv, Next, NEW p \in Proc, pc'[p] \in ReloadStage
    PROVE  \/ pc'[p] = pc[p] /\ job'[p] = job[p]
           \/ OpenAdminRepo(p) \/ LoadSub(p) \/ LockReload(p) \/ EnsureDone(p)
<1> USE DEF ReloadStage
<1> ProcOK /\ Main \in Proc /\ Session \subseteq Proc
  BY DEF TypeInv, TypeOK, Proc
<1>1. CASE Boot \/ Crash
  BY <1>1 DEF Boot, Crash, Die, ProcOK
<1>2. ASSUME NEW q \in Proc, q # p, ProcStep(q)
      PROVE  pc'[p] = pc[p] /\ job'[p] = job[p]
  <2>1. ~Die
    BY DEF Die
  <2>2. CASE OpenAdminRepo(q) \/ LoadSub(q)
    BY <1>2, <2>2 DEF OpenAdminRepo, LoadSub, ProcOK
  <2>3. CASE ~(OpenAdminRepo(q) \/ LoadSub(q))
    BY <1>2, <2>1, <2>3
    DEF ProcStep, LockReload, EnsureDone, Publish, ReloadFails, Begin, ProcOK
  <2> QED BY <2>2, <2>3
<1>3. ASSUME NEW s \in Session, Authenticate(s) \/ Close(s) \/ Push(s) \/ SessionStep(s)
      PROVE  pc'[p] = pc[p] /\ job'[p] = job[p]
  <2>1. CASE Authenticate(s) \/ Close(s)
    BY <2>1 DEF Authenticate, Close, ProcOK
  <2>2. CASE ~(Authenticate(s) \/ Close(s))
    <3>1. \E stage \in {"pre", "update", "check", "accepted", "ready", "reload"} :
             \E c, u : Begin(s, stage, c, u)
      BY <1>3, <2>2 DEF Push, SessionStep, HookStep, HookContinues, RefUpdate, EndReceivePack,
                  AfterReceivePack
    <3> QED BY <3>1 DEF Begin, ProcOK
  <2> QED BY <2>1, <2>2
<1>4. CASE Publish(p) \/ ReloadFails(p)
  BY <1>4 DEF Publish, ReloadFails, Begin, Die, ProcOK
<1> QED BY <1>1, <1>2, <1>3, <1>4 DEF Next, ProcStep

\* Until the server is up only the main goroutine takes steps.
LEMMA MainMoves ==
    ASSUME TypeInv, BootAlone, phase # "up", Next
    PROVE  Boot \/ Crash \/ ProcStep(Main)
<1>1. ASSUME NEW s \in Session PROVE pc[s] = "closed"
  BY DEF BootAlone
<1>2. ASSUME NEW s \in Session
      PROVE  ~(Authenticate(s) \/ Close(s) \/ Push(s) \/ SessionStep(s))
  BY <1>1 DEF Authenticate, Close, Push, SessionStep, HookStep, RefUpdate, HookStage
<1>3. ASSUME NEW p \in Session PROVE ~ProcStep(p)
  BY <1>1 DEF ProcStep, OpenAdminRepo, LoadSub, LockReload, EnsureDone, Publish, ReloadFails,
              HookStage, ReloadStage
<1> QED BY <1>2, <1>3 DEF Next, Proc

\* Nobody is served before the server is up: the end of its process ends them.
LEMMA BootAloneStep == ASSUME TypeInv, BootAlone, Next PROVE BootAlone'
<1> SUFFICES ASSUME phase' # "up", NEW s \in Session PROVE pc'[s] = "closed"
  BY DEF BootAlone
<1> s \in Proc /\ s # Main /\ Main \in Proc /\ ProcOK
  BY ServerAssumption DEF Proc, TypeInv, TypeOK
<1>1. CASE Die
  BY <1>1 DEF Die
<1>2. CASE phase # "up" /\ ~Die
  <2>1. pc[s] = "closed" /\ (Boot \/ ProcStep(Main))
    BY <1>2, MainMoves DEF BootAlone, Crash
  <2>2. pc'[s] = pc[s]
    BY <1>2, <2>1 DEF Boot, ProcStep, OpenAdminRepo, LoadSub, LockReload, EnsureDone, Publish,
       ReloadFails, Begin, ProcOK
  <2> QED BY <2>1, <2>2
<1>3. CASE phase = "up" /\ ~Die
  <2>1. ~Boot /\ ~Crash
    BY <1>3 DEF Boot, Crash
  <2>2. ASSUME NEW p \in Proc, ProcStep(p) PROVE FALSE
    BY <1>3, <2>2 DEF ProcStep, OpenAdminRepo, LoadSub, LockReload, EnsureDone, Publish,
       ReloadFails, servVars
  <2>3. ASSUME NEW q \in Session, Authenticate(q) \/ Close(q) \/ Push(q) \/ SessionStep(q)
        PROVE FALSE
    BY <1>3, <2>3 DEF Authenticate, Close, Push, SessionStep, HookStep, RefUpdate, servVars
  <2> QED BY <2>1, <2>2, <2>3 DEF Next
<1> QED BY <1>1, <1>2, <1>3

\* Nobody comes between EnsureAdminUser and its commit, the only one by which a
\* key gets into the config that no version of the admin repo had.
AdminAlone ==
    \A p \in Proc : pc[p] = "admin" =>
        /\ p = Main /\ phase = "bootstrap"
        /\ job[p].opened => head = OnMaster /\ index = job[p].tree

\* Nobody else moves while the main goroutine ensures the admin user.
LEMMA AdminAloneStep ==
    ASSUME TypeInv, BootAlone, AdminAlone, Next
    PROVE  AdminAlone'
<1> SUFFICES ASSUME NEW p \in Proc, pc'[p] = "admin"
             PROVE  /\ p = Main /\ phase' = "bootstrap"
                    /\ job'[p].opened => head' = OnMaster /\ index' = job'[p].tree
  BY DEF AdminAlone
<1> ProcOK /\ Main \in Proc /\ job[Main] \in JobType
  BY DEF TypeInv, TypeOK, ProcOK, Proc
<1>0. ~Crash /\ (pc'[p] = pc[p] => ~Boot)
  BY DEF Crash, Die, Boot, AdminAlone
<1>1. CASE pc[p] = "admin"
  <2>1. p = Main /\ phase = "bootstrap"
    BY <1>1 DEF AdminAlone
  <2>2. ProcStep(Main)
    BY <1>0, <1>1, <2>1, MainMoves
  <2>3. CASE OpenAdminRepo(Main)
    <3>1. PICK t \in Worktrees(Main) :
            /\ job' = [job EXCEPT ![Main] = OpenedJob(job[Main], t, version[AdminRepo])]
            /\ index' = t /\ head' = OnMaster /\ phase' = phase
      BY <1>1, <2>1, <2>3 DEF OpenAdminRepo, ProcOK, servVars
    <3>2. OpenedJob(job[Main], t, version[AdminRepo]).tree = t
      BY OpenedTree
    <3> QED BY <2>1, <3>1, <3>2 DEF ProcOK
  <2>4. CASE LoadSub(Main)
    <3>1. PICK r \in job[Main].todo :
            job' = [job EXCEPT ![Main] =
                       LoadedJob(job[Main], r, SubTree(Main, r), version[r])]
      BY <2>4 DEF LoadSub, ProcOK
    <3>2. UNCHANGED <<index, head, phase>>
      BY <2>4 DEF LoadSub, gitVars, servVars
    <3>3. /\ LoadedJob(job[Main], r, SubTree(Main, r), version[r]).opened = job[Main].opened
          /\ LoadedJob(job[Main], r, SubTree(Main, r), version[r]).tree = job[Main].tree
      BY LoadedTree
    <3>4. /\ job'[Main].opened = job[Main].opened
          /\ job'[Main].tree = job[Main].tree
      BY <3>1, <3>3 DEF ProcOK
    <3> QED BY <1>1, <2>1, <3>2, <3>4 DEF AdminAlone
  <2>5. CASE LockReload(Main) \/ EnsureDone(Main) \/ Publish(Main) \/ ReloadFails(Main)
    BY <1>1, <2>1, <2>5
    DEF LockReload, EnsureDone, Publish, ReloadFails, Die, Begin, ProcOK
  <2> QED BY <2>2, <2>3, <2>4, <2>5 DEF ProcStep
<1>2. CASE pc[p] # "admin"
  <2>1. EnsureDone(p)
    BY <1>2, WhoMoves DEF ReloadStage, OpenAdminRepo, LoadSub, LockReload, Begin, ProcOK
  <2>2. PICK stage, c : /\ Begin(p, stage, c, NoUser) /\ phase' = phase
                        /\ stage = "admin" => phase = "bootstrap"
    BY <2>1 DEF EnsureDone, servVars
  <2>3. phase' = "bootstrap" /\ p = Main
    <3>1. phase = "bootstrap"
      BY <2>2 DEF Begin, ProcOK
    <3>2. pc[p] # "closed"
      BY <2>1 DEF EnsureDone
    <3> QED BY <2>2, <3>1, <3>2 DEF BootAlone, Proc
  <2>4. ~job'[p].opened
    <3>1. \A u : ~[NoJob EXCEPT !.config = c, !.user = u].opened
      BY DEF NoJob
    <3> QED BY <2>2, <3>1 DEF Begin, ProcOK
  <2> QED BY <2>3, <2>4
<1> QED BY <1>1, <1>2

-----------------------------------------------------------------------------
(* One push at a time: what a load makes of a disk nobody else changes     *)

\* The load j of disk has merged into the admin repo's config the config repos
\* it has done with, and every one of them loads.
LoadOf(j, disk) ==
    LET c == LoadAdminConfig(j.config, j.tree) IN
    /\ AdminLoads(j.tree) /\ j.todo \subseteq SubRepos(c)
    /\ \A r \in SubRepos(c) \ j.todo : SubOutcome(c, r, disk[r]) = "ok"
    /\ j.config = MergedBut(c, disk, j.todo)

\* A load fails when the disk does.
Loading(j, disk) ==
    /\ ~j.opened => j.todo = {} /\ j.outcome = "ok"
    /\ j.opened /\ j.outcome = "ok" => LoadOf(j, disk)
    /\ j.opened /\ j.outcome # "ok" => ~Loadable(disk)

\* Opening the admin repo.
LEMMA OpenLoads ==
    ASSUME NEW j \in JobType, j.outcome = "ok", j.todo = {}, NEW disk, NEW v,
           NEW t \in AdminTree, disk[AdminRepo] = t, NEW o, o = OpenedJob(j, t, v)
    PROVE  Loading(o, disk)
<1>0. o.tree = t /\ o.opened = TRUE
  <2>1. OpenedJob(j, t, v).tree = t /\ OpenedJob(j, t, v).opened = TRUE
    BY ONLY j \in JobType, OpenedTree
  <2> QED BY <2>1
<1>1. CASE AdminLoads(t)
  <2>1. o.outcome = "ok"
    BY <1>1 DEF OpenedJob, JobType
  <2>2. o.config = LoadAdminConfig(j.config, t) /\ o.todo = SubRepos(o.config)
    <3>1. /\ AdminLoads(t) /\ o.config = LoadAdminConfig(j.config, t)
          /\ o.todo = SubRepos(o.config)
          /\ o.seen = [j.seen EXCEPT ![AdminRepo] = v]
      BY <2>1, OpenedFields
    <3> QED BY <3>1
  <2>3. o.config \in ConfigType
    BY <1>1, <2>2, LoadAdminConfigType DEF JobType
  <2>4. LoadAdminConfig(o.config, o.tree) = o.config
    <3>1. OpenedJob(j, t, v).config.publicKeys = j.config.publicKeys
      BY ONLY j \in JobType, OpenedKeys
    <3> QED BY <1>0, <2>2, <3>1 DEF LoadAdminConfig
  <2>5. MergedBut(o.config, disk, o.todo) = o.config
    BY <2>2, <2>3, MergedButAll
  <2> QED BY <1>0, <1>1, <2>1, <2>2, <2>4, <2>5 DEF Loading, LoadOf
<1>2. CASE ~AdminLoads(t)
  <2>1. o.outcome = "error"
    BY <1>2 DEF OpenedJob, JobType
  <2>2. ~Loadable(disk)
    BY <1>2 DEF Loadable
  <2> QED BY <1>0, <2>1, <2>2 DEF Loading
<1> QED BY <1>1, <1>2

\* Opening one of the others.
LEMMA LoadLoads ==
    ASSUME NEW j \in JobType, j.opened, NEW disk, Loading(j, disk), j.tree = disk[AdminRepo],
           NEW r \in j.todo, NEW v, NEW o, o = LoadedJob(j, r, disk[r], v)
    PROVE  Loading(o, disk)
<1> DEFINE c == LoadAdminConfig(j.config, j.tree)
           t == disk[r]
<1>0. /\ o.tree = j.tree /\ o.opened = j.opened
      /\ o.config.publicKeys = j.config.publicKeys
      /\ o.outcome = "ok" => j.outcome = "ok"
  <2>1. /\ LoadedJob(j, r, t, v).tree = j.tree /\ LoadedJob(j, r, t, v).opened = j.opened
        /\ LoadedJob(j, r, t, v).outcome = "ok" => j.outcome = "ok"
    BY ONLY j \in JobType, LoadedTree
  <2>2. LoadedJob(j, r, t, v).config.publicKeys = j.config.publicKeys
    BY ONLY j \in JobType, LoadedKeys
  <2> QED BY <2>1, <2>2
<1>1. CASE j.outcome # "ok"
  <2>1. o.outcome # "ok"
    BY <1>0, <1>1
  <2> QED BY <1>0, <1>1, <2>1 DEF Loading
<1>2. CASE j.outcome = "ok"
  <2>1. /\ AdminLoads(j.tree) /\ j.todo \subseteq SubRepos(c)
        /\ \A q \in SubRepos(c) \ j.todo : SubOutcome(c, q, disk[q]) = "ok"
        /\ j.config = MergedBut(c, disk, j.todo)
    BY <1>2 DEF Loading, LoadOf
  <2>2. c \in ConfigType /\ j.tree \in AdminTree
    BY <2>1, LoadAdminConfigType DEF JobType
  <2>3. LoadAdminConfig(o.config, o.tree) = c
    BY <1>0 DEF LoadAdminConfig
  <2> HIDE DEF c, t
  <2>4. SubOutcome(j.config, r, t) = SubOutcome(c, r, t)
    BY <2>1, <2>2, UnmergedLoads
  <2>5. CASE SubOutcome(c, r, t) = "ok"
    <3>1. o.outcome = "ok"
      BY <1>2, <2>4, <2>5 DEF LoadedJob, JobType, t
    <3>2. o.config = LoadSubConfig(j.config, r, t) /\ o.todo = j.todo \ {r}
      <4>1. /\ o.config = LoadSubConfig(j.config, r, t)
            /\ o.todo = j.todo \ {r} /\ o.seen = [j.seen EXCEPT ![r] = v]
        BY <3>1, LoadedFields DEF t
      <4> QED BY <4>1
    <3>3. o.config = MergedBut(c, disk, o.todo)
      BY <2>1, <2>2, <3>2, MergedButStep DEF t
    <3>4. \A q \in SubRepos(c) \ o.todo : SubOutcome(c, q, disk[q]) = "ok"
      BY <2>1, <2>5, <3>2 DEF t
    <3> QED BY <1>0, <2>1, <2>3, <3>1, <3>2, <3>3, <3>4 DEF Loading, LoadOf
  <2>6. CASE SubOutcome(c, r, t) # "ok"
    <3>1. o.outcome # "ok"
      BY <2>4, <2>6 DEF LoadedJob, JobType, t
    <3>2. /\ SubRepos(Fresh(disk)) = SubRepos(c)
          /\ \A q, x : SubOutcome(Fresh(disk), q, x) = SubOutcome(c, q, x)
      BY <2>2, FreshLoads DEF c, Fresh
    <3>3. ~Loadable(disk)
      BY <2>1, <2>6, <3>2 DEF Loadable, Fresh, SubRepos, t
    <3> QED BY <1>0, <3>1, <3>3 DEF Loading
  <2> QED BY <2>5, <2>6
<1> QED BY <1>1, <1>2

\* A finished load of a disk that loads has its config, but for public keys.
LEMMA FinishedLoad ==
    ASSUME NEW j \in JobType, j.opened, j.outcome = "ok", j.todo = {},
           NEW disk, IsDisk(disk), j.tree = disk[AdminRepo], Loading(j, disk)
    PROVE  /\ Loadable(disk) /\ AdminLoads(j.tree) /\ j.config \in ConfigType
           /\ Merged(Fresh(disk), disk) = WithKeys(j.config, EmptyMap(Key))
           /\ WithKeys(j.config, EmptyMap(Key)) \in ConfigType
           /\ DiskKeys(disk) = KeysOf(j.config.users)
<1> DEFINE c == LoadAdminConfig(j.config, j.tree)
           none == EmptyMap(Key)
<1>1. /\ AdminLoads(j.tree) /\ j.config = MergedBut(c, disk, {})
      /\ \A r \in SubRepos(c) : SubOutcome(c, r, disk[r]) = "ok"
  BY DEF Loading, LoadOf
<1>2. c \in ConfigType /\ j.config \in ConfigType /\ j.tree \in AdminTree
  BY <1>1, LoadAdminConfigType DEF JobType
<1>3. none \in MapOf(Key, User)
  BY DEF EmptyMap, MapOf
<1>4. WithKeys(c, none) = Fresh(disk)
  <2>1. WithKeys(c, none) = [users |-> c.users, groups |-> c.groups, orgs |-> c.orgs,
            repos |-> c.repos, options |-> c.options, hostKey |-> c.hostKey,
            publicKeys |-> none]
    BY <1>2, WithKeysFields
  <2> QED BY <2>1 DEF LoadAdminConfig, NewConfig, Fresh
<1>5. Loadable(disk)
  <2>1. /\ SubRepos(Fresh(disk)) = SubRepos(c)
        /\ \A q, x : SubOutcome(Fresh(disk), q, x) = SubOutcome(c, q, x)
    BY <1>2, FreshLoads DEF Fresh
  <2> HIDE DEF c
  <2> QED BY <1>1, <2>1 DEF Loadable, Fresh, SubRepos
<1> HIDE DEF c, none
<1>6. Merged(Fresh(disk), disk) = WithKeys(j.config, none)
  BY <1>1, <1>2, <1>3, <1>4, MergedWithKeys
<1>7. WithKeys(j.config, none) \in ConfigType /\ WithKeys(j.config, none).users = j.config.users
  BY <1>2, <1>3, WithKeysFields
<1>8. DiskKeys(disk) = KeysOf(j.config.users)
  BY <1>6, <1>7 DEF DiskKeys
<1> QED BY <1>1, <1>2, <1>5, <1>6, <1>7, <1>8 DEF none

\* So what flatten makes of it is a meaning of the disk, when the public keys
\* it found there are somebody's on that disk.
LEMMA FinishedMeans ==
    ASSUME NEW j \in JobType, j.opened, j.outcome = "ok", j.todo = {},
           NEW disk, IsDisk(disk), j.tree = disk[AdminRepo], Loading(j, disk)
    PROVE  /\ \A e \in Meaning(disk) : e.users = j.config.users /\ e.groups = j.config.groups
           /\ \A d \in Flatten(j.config) :
                 d.users = j.config.users /\ d.groups = j.config.groups
           /\ (\A k \in Key : j.config.publicKeys[k] # Nil => k \in DiskKeys(disk))
                 => \A d \in Flatten(j.config) : d \in Meaning(disk)
<1> DEFINE none == EmptyMap(Key)
           b == WithKeys(j.config, none)
<1>1. /\ j.config \in ConfigType /\ Merged(Fresh(disk), disk) = b /\ b \in ConfigType
      /\ DiskKeys(disk) = KeysOf(j.config.users)
  BY FinishedLoad
<1>2. none \in MapOf(Key, User) /\ \A k \in Key : none[k] = Nil
  BY DEF EmptyMap, MapOf
<1>3. Meaning(disk) = Flatten(b)
  BY <1>1 DEF Meaning, Fresh
<1>4. b.users = j.config.users /\ b.groups = j.config.groups
  BY <1>1, WithKeysFields
<1> HIDE DEF b, none
<1>5. \A e \in Meaning(disk) : e.users = j.config.users /\ e.groups = j.config.groups
  BY <1>1, <1>3, <1>4, FlattenFields
<1>6. \A d \in Flatten(j.config) : d.users = j.config.users /\ d.groups = j.config.groups
  BY <1>1, FlattenFields
<1>7. ASSUME \A k \in Key : j.config.publicKeys[k] # Nil => k \in DiskKeys(disk),
             NEW d \in Flatten(j.config)
      PROVE  d \in Meaning(disk)
  <2>1. \A k \in Key \ KeysOf(j.config.users) : j.config.publicKeys[k] = none[k]
    BY <1>1, <1>2, <1>7
  <2>2. d \in Flatten(WithKeys(j.config, none))
    BY <1>1, <1>2, <1>7, <2>1, FlattenAnew
  <2> QED BY <1>3, <2>2 DEF b
<1> QED BY <1>5, <1>6, <1>7

\* What EnsureConfig and EnsureAdminUser may leave of an admin repo that loads.
Ensured(old) ==
    EnsureAdminConfig(old) \cup
    (IF AdminUser \in User
     THEN {EnsureAdminUser(e, AdminUser, AdminKey) : e \in EnsureAdminConfig(old)} ELSE {})

\* Nobody loses a key by it.
LEMMA EnsuredKeys ==
    ASSUME NEW disk, IsDisk(disk), AdminLoads(disk[AdminRepo]),
           NEW t \in Ensured(disk[AdminRepo]), NEW e, e = [disk EXCEPT ![AdminRepo] = t]
    PROVE  DiskKeys(disk) \subseteq DiskKeys(e)
<1> DEFINE old == disk[AdminRepo]  c == Fresh(disk)  d == Fresh(e)
<1>1. old \in AdminTree
  BY AdminRepoTree DEF IsDisk
<1>2. /\ t \in AdminTree /\ t.options = old.options /\ AdminLoads(t)
      /\ \A v \in Keys(old.users) : v \in Keys(t.users) /\ old.users[v].keys \subseteq t.users[v].keys
  <2>1. ASSUME NEW x \in EnsureAdminConfig(old)
        PROVE  /\ x \in AdminTree /\ AdminLoads(x) /\ x.options = old.options
               /\ x.users = old.users
    <3>1. x = [old EXCEPT !.complete = TRUE] /\ x \in AdminTree /\ AdminLoads(x)
      BY <1>1, <2>1, CompletedTree
    <3> QED BY <1>1, <3>1 DEF AdminTree
  <2>2. CASE t \in EnsureAdminConfig(old)
    BY <2>1, <2>2
  <2>3. CASE t \notin EnsureAdminConfig(old)
    <3>1. PICK x \in EnsureAdminConfig(old) : t = EnsureAdminUser(x, AdminUser, AdminKey)
      BY <2>3 DEF Ensured
    <3>2. AdminUser \in User /\ AdminKey \in Key
      BY <2>3, ServerAssumption DEF Ensured
    <3>3. x \in AdminTree /\ AdminLoads(x) /\ x.options = old.options /\ x.users = old.users
      BY <2>1
    <3>4. /\ t \in AdminTree /\ t.options = x.options /\ t.hostKey = x.hostKey /\ t.yml = x.yml
          /\ \A v \in Keys(x.users) : v \in Keys(t.users) /\ x.users[v].keys \subseteq t.users[v].keys
      BY <3>1, <3>2, <3>3, EnsureUserKeeps
    <3> QED BY <3>3, <3>4 DEF AdminLoads
  <2> QED BY <2>2, <2>3
<1>3. e[AdminRepo] = t /\ \A u \in User : e[UserRepo(u)] = disk[UserRepo(u)]
  BY AdminRepoTree, SubReposApart DEF IsDisk, ConfigRepo
<1>4. c \in ConfigType /\ d \in ConfigType
  BY <1>1, <1>2, <1>3, LoadAdminConfigType, NewConfigType DEF Fresh
<1>5. c.users = old.users /\ d.users = t.users /\ c.options = old.options /\ d.options = t.options
  BY <1>3 DEF Fresh, LoadAdminConfig
<1>6. Merged(c, disk).users = UsersBut(c, disk, {}) /\ Merged(d, e).users = UsersBut(d, e, {})
  <2> HIDE DEF c, d
  <2> QED BY <1>4, MergedUsers
<1> HIDE DEF c, d, old
<1>7. ASSUME NEW u \in User, c.users[u] # Nil
      PROVE  /\ d.users[u] # Nil /\ c.users[u] \in AdminConfigUser /\ d.users[u] \in AdminConfigUser
             /\ c.users[u].keys \subseteq d.users[u].keys
  BY <1>2, <1>4, <1>5, <1>7 DEF ConfigType, MapOf, Keys
<1>8. \A u \in User : UserRepo(u) \in UserSubRepos(c) => UserRepo(u) \in UserSubRepos(d)
  <2>1. \A u \in User : c.users[u] # Nil => d.users[u] # Nil
    BY <1>7
  <2>2. DOMAIN c.users = User /\ DOMAIN d.users = User
    BY <1>4 DEF ConfigType, MapOf
  <2> QED BY <1>2, <1>5, <2>1, <2>2, SubReposApart DEF UserSubRepos, Keys
<1>9. ASSUME NEW u \in User, UsersBut(c, disk, {})[u] # Nil
      PROVE  /\ UsersBut(d, e, {})[u] # Nil
             /\ UsersBut(c, disk, {})[u].keys \subseteq UsersBut(d, e, {})[u].keys
  <2> DEFINE x == disk[UserRepo(u)]
  <2>0. c.users[u] # Nil
    BY <1>9, SubReposApart DEF UsersBut, UserSubRepos, Keys
  <2>1. /\ c.users[u] \in AdminConfigUser /\ d.users[u] \in AdminConfigUser
        /\ c.users[u].keys \subseteq d.users[u].keys
    BY <1>7, <2>0
  <2>2. x \in UserTree
    BY SubReposApart DEF IsDisk, TreeOf, ConfigRepo
  <2>3. MergedUser(d.options, d.users[u], x) \in AdminConfigUser
    BY <2>1, <2>2, MergedUserType
  <2>4. \A o, y : y \in AdminConfigUser =>
           MergedUser(o, y, x).keys =
              y.keys \cup (IF x.yml = "ok" /\ o.userConfigKeys THEN x.keys ELSE {})
    BY MergedUserKeys
  <2>5. MergedUser(c.options, c.users[u], x).keys \subseteq MergedUser(d.options, d.users[u], x).keys
    BY <1>2, <1>5, <2>1, <2>4
  <2>6. UsersBut(d, e, {})[u] = IF UserRepo(u) \in UserSubRepos(d)
                                THEN MergedUser(d.options, d.users[u], x) ELSE d.users[u]
    BY <1>3 DEF UsersBut
  <2>7. UsersBut(c, disk, {})[u] = IF UserRepo(u) \in UserSubRepos(c)
                                   THEN MergedUser(c.options, c.users[u], x) ELSE c.users[u]
    BY DEF UsersBut
  <2> HIDE DEF x
  <2>8. UsersBut(d, e, {})[u] # Nil
    BY <2>1, <2>3, <2>6, NilAssumption
  <2>9. UsersBut(c, disk, {})[u].keys \subseteq UsersBut(d, e, {})[u].keys
    <3>1. c.users[u].keys \subseteq MergedUser(d.options, d.users[u], x).keys
      BY <2>1, <2>4
    <3> QED BY <1>8, <2>1, <2>5, <2>6, <2>7, <3>1
  <2> QED BY <2>8, <2>9
<1>10. DOMAIN UsersBut(c, disk, {}) = User /\ DOMAIN UsersBut(d, e, {}) = User
  BY DEF UsersBut
<1>11. KeysOf(UsersBut(c, disk, {})) \subseteq KeysOf(UsersBut(d, e, {}))
  BY <1>9, <1>10 DEF KeysOf, Keys
<1> QED BY <1>6, <1>11 DEF DiskKeys, c, d

-----------------------------------------------------------------------------
(* One push at a time: what is known of the processes                      *)

\* At most one session has a push, or the reload after it, in progress.
OneInFlight == \A s, t \in Session : ~Idle(s) /\ ~Idle(t) => s = t

\* The main goroutine only starts the server.
MainAlone == phase = "up" => pc[Main] = "closed"

Busy(p) == pc[p] \notin {"closed", "ready"}
Alone == \A p, q \in Proc : Busy(p) /\ Busy(q) => p = q

\* The disk as p's load sees it.
DiskOf(p) == [r \in ConfigRepo |-> IF r = AdminRepo THEN job[p].tree ELSE SubTree(p, r)]

LoadOK(p) ==
    pc[p] \in HookStage \cup ReloadStage =>
        /\ Loading(job[p], DiskOf(p))
        /\ job[p].opened => job[p].tree \in Worktrees(p)

LoadsOK == \A p \in Proc : LoadOK(p)

\* Nobody touches the admin repo's files between a reload's checkout of master
\* and its commit.
FilesOK ==
    \A p \in Proc : pc[p] \in ReloadStage /\ job[p].opened =>
        head = OnMaster /\ index = job[p].tree

\* The public keys a load finds in its config: none at first, then those that
\* are somebody's on the disk.
KeyOK(p) ==
    /\ pc[p] \in {"pre", "update", "ensure"} =>
          \A k \in Key : job[p].config.publicKeys[k] = Nil
    /\ pc[p] \in {"admin", "load"} =>
          /\ AdminLoads(master[AdminRepo])
          /\ \A k \in Key : job[p].config.publicKeys[k] # Nil => k \in DiskKeys(master)

KeysOK == \A p \in Proc : KeyOK(p)

\* The update hook has found the pusher on the disk.
Known(s) ==
    /\ pc[s] = "check" => \E c \in Meaning(master) : job[s].user \in UserOfKey(c, ctx[s].key)
    /\ pc[s] = "accepted" => \E c \in Meaning(master) : UserOfKey(c, ctx[s].key) # {}

KnownOK == \A s \in Session : Known(s)

AloneInv ==
    /\ BootAlone /\ MainAlone /\ AdminAlone
    /\ LoadsOK /\ FilesOK /\ KeysOK
    /\ KnownOK

-----------------------------------------------------------------------------
(* Who moves                                                               *)

\* Only one process is at work.
LEMMA OnlyOne == ASSUME BootAlone, MainAlone, OneInFlight PROVE Alone
BY DEF BootAlone, MainAlone, OneInFlight, Alone, Busy, Idle, Proc

\* The main goroutine has ended when the server is up.
LEMMA MainAloneStep == ASSUME TypeInv, BootAlone, MainAlone, Next PROVE MainAlone'
<1> SUFFICES ASSUME phase' = "up" PROVE pc'[Main] = "closed"
  BY DEF MainAlone
<1> Main \in Proc /\ Main \notin Session /\ ProcOK /\ ~Die /\ ~Boot /\ ~Crash
  BY ServerAssumption DEF Proc, TypeInv, TypeOK, Die, Boot, Crash
<1>1. CASE phase # "up"
  <2>1. ProcStep(Main)
    BY <1>1, MainMoves
  <2>2. Publish(Main)
    BY <1>1, <2>1 DEF ProcStep, OpenAdminRepo, LoadSub, LockReload, EnsureDone, ReloadFails, servVars
  <2>3. Begin(Main, "closed", NewConfig, NoUser)
    BY <2>2 DEF Publish
  <2> QED BY <2>3 DEF Begin, ProcOK
<1>2. CASE phase = "up"
  <2>1. pc[Main] = "closed"
    BY <1>2 DEF MainAlone
  <2>2. ~ProcStep(Main)
    BY <2>1 DEF ProcStep, OpenAdminRepo, LoadSub, LockReload, EnsureDone, Publish, ReloadFails,
                HookStage, ReloadStage
  <2>3. ASSUME NEW p \in Proc, p # Main, ProcStep(p) PROVE pc'[Main] = pc[Main]
    BY <2>3 DEF ProcStep, OpenAdminRepo, LoadSub, LockReload, EnsureDone, Publish, ReloadFails,
                Begin, ProcOK
  <2>4. ASSUME NEW s \in Session, Authenticate(s) \/ Close(s) \/ Push(s) \/ SessionStep(s)
        PROVE  pc'[Main] = pc[Main]
    <3>1. CASE Authenticate(s) \/ Close(s)
      BY <3>1 DEF Authenticate, Close, ProcOK
    <3>2. CASE ~(Authenticate(s) \/ Close(s))
      <4>1. \E stage, c, u : Begin(s, stage, c, u)
        BY <2>4, <3>2 DEF Push, SessionStep, HookStep, HookContinues, RefUpdate, EndReceivePack
      <4> QED BY <4>1 DEF Begin, ProcOK
    <3> QED BY <3>1, <3>2
  <2> QED BY <2>1, <2>2, <2>3, <2>4 DEF Next
<1> QED BY <1>1, <1>2

\* Nothing happens to p and to what p may see.
Quiet(p) ==
    /\ pc'[p] = pc[p] /\ job'[p] = job[p] /\ UNCHANGED <<gitVars, servVars, push>>
    /\ p \in Session => ctx'[p] = ctx[p]

\* A process at work takes the step itself, or nothing happens to it.
LEMMA AloneMoves ==
    ASSUME TypeInv, Alone, Alone', Next, NEW p \in Proc, Busy(p)'
    PROVE  \/ Quiet(p) \/ ProcStep(p)
           \/ Boot /\ p = Main
           \/ p \in Session /\ (Push(p) \/ SessionStep(p))
<1> ProcOK /\ Main \in Proc /\ Session \subseteq Proc /\ SessionOK
  BY DEF TypeInv, TypeOK, Proc
<1>0. pc'[p] \notin {"closed", "ready"} /\ ~Die /\ ~Crash
  BY DEF Busy, Die, Crash
<1>1. CASE Boot
  <2>1. pc' = [pc EXCEPT ![Main] = "reload"]
    BY <1>1 DEF Boot
  <2>2. pc'[Main] = "reload"
    BY <2>1 DEF ProcOK
  <2>3. Busy(Main)'
    BY <2>2 DEF Busy
  <2> QED BY <1>1, <2>3 DEF Alone
<1>2. ASSUME NEW q \in Proc, q # p, ProcStep(q) PROVE FALSE
  <2>1. pc[q] \notin {"closed", "ready"}
    BY <1>2 DEF ProcStep, OpenAdminRepo, LoadSub, LockReload, EnsureDone, Publish, ReloadFails,
                HookStage, ReloadStage
  <2>2. pc'[p] = pc[p]
    BY <1>0, <1>2 DEF ProcStep, OpenAdminRepo, LoadSub, LockReload, EnsureDone, Publish,
                ReloadFails, Begin, ProcOK
  <2> QED BY <1>0, <1>2, <2>1, <2>2 DEF Alone, Busy
<1>3. ASSUME NEW s \in Session, s # p, Authenticate(s) \/ Close(s) PROVE Quiet(p)
  BY <1>3 DEF Authenticate, Close, Quiet, ProcOK, SessionOK
<1>4. ASSUME NEW s \in Session, s = p, Authenticate(s) \/ Close(s) PROVE FALSE
  BY <1>0, <1>4 DEF Authenticate, Close, ProcOK
<1>5. ASSUME NEW s \in Session, s # p, SessionStep(s) PROVE FALSE
  <2>1. pc[s] \notin {"closed", "ready"}
    BY <1>5 DEF SessionStep, HookStep, RefUpdate, HookStage
  <2>2. \E stage, c, u : Begin(s, stage, c, u)
    BY <1>5 DEF SessionStep, HookStep, HookContinues, RefUpdate, EndReceivePack
  <2>3. pc'[p] = pc[p]
    BY <1>5, <2>2 DEF Begin, ProcOK
  <2> QED BY <1>0, <1>5, <2>1, <2>3 DEF Alone, Busy
<1>6. ASSUME NEW s \in Session, s # p, Push(s) PROVE FALSE
  <2>1. Begin(s, "pre", NewConfig, NoUser)
    BY <1>6 DEF Push
  <2>2. pc'[s] = "pre"
    BY <2>1 DEF Begin, ProcOK
  <2> QED BY <1>0, <1>6, <2>2 DEF Alone, Busy
<1>7. ASSUME NEW q \in Proc, ProcStep(q) PROVE ProcStep(p)
  BY <1>2, <1>7
<1>8. ASSUME NEW s \in Session, Authenticate(s) \/ Close(s) \/ Push(s) \/ SessionStep(s)
      PROVE  Quiet(p) \/ (p \in Session /\ (Push(p) \/ SessionStep(p)))
  BY <1>3, <1>4, <1>5, <1>6, <1>8
<1>9. \/ Boot \/ \E q \in Proc : ProcStep(q)
      \/ \E s \in Session : Authenticate(s) \/ Close(s) \/ Push(s) \/ SessionStep(s)
  BY <1>0 DEF Next
<1> QED BY <1>1, <1>7, <1>8, <1>9

-----------------------------------------------------------------------------
(* What a process finds when it begins, opens and loads                    *)

\* A process that goes on to another stage starts from a fresh job.
LEMMA BeginFresh ==
    ASSUME ProcOK, NEW p \in Proc, NEW stage, NEW c, NEW u, Begin(p, stage, c, u)
    PROVE  /\ pc'[p] = stage /\ job'[p].config = c /\ job'[p].user = u
           /\ ~job'[p].opened /\ job'[p].todo = {} /\ job'[p].outcome = "ok"
           /\ \A q \in Proc : q # p => pc'[q] = pc[q]
<1> DEFINE mid == [NoJob EXCEPT !.config = c]
           new == [mid EXCEPT !.user = u]
<1>1. mid.config = c /\ ~mid.opened /\ mid.todo = {} /\ mid.outcome = "ok"
  BY DEF NoJob
<1>2. DOMAIN mid = DOMAIN NoJob /\ "user" \in DOMAIN NoJob
  BY DEF NoJob
<1>3. pc' = [pc EXCEPT ![p] = stage] /\ job' = [job EXCEPT ![p] = new]
  BY DEF Begin
<1> HIDE DEF mid
<1>4. new.config = c /\ new.user = u /\ ~new.opened /\ new.todo = {} /\ new.outcome = "ok"
  BY <1>1, <1>2
<1> HIDE DEF new
<1> QED BY <1>3, <1>4 DEF ProcOK

\* A load keeps the user the hook looked up.
LEMMA LoadKeepsUser ==
    ASSUME NEW j \in JobType, NEW r, NEW t, NEW v
    PROVE  OpenedJob(j, t, v).user = j.user /\ LoadedJob(j, r, t, v).user = j.user
<1>1. OpenedJob(j, t, v).user = j.user
  BY DEF OpenedJob, JobType
<1>2. LoadedJob(j, r, t, v).user = j.user
  BY DEF LoadedJob, JobType
<1> QED BY <1>1, <1>2

\* What a process sees is a disk.
LEMMA DiskOfType == ASSUME TypeInv, NEW p \in Proc PROVE IsDisk(DiskOf(p))
<1>0. pc[Main] # "check"
  BY DEF TypeInv, MainOK, ReloadStage
<1>1. job[p].tree \in AdminTree /\ p \in Session \cup {Main}
  BY DEF TypeInv, TypeOK, ProcOK, JobType, Proc
<1>2. ASSUME NEW r \in ConfigRepo PROVE SubTree(p, r) \in TreeOf(r)
  BY <1>0, <1>1, <1>2 DEF SubTree, TypeInv, TypeOK, GitOK, SessionOK
<1> QED BY <1>1, <1>2, AdminRepoTree DEF DiskOf, IsDisk

\* Except in the update hook's second load it sees the tips of master, but for
\* the admin repo's worktree.
LEMMA SeesMaster == ASSUME NEW p \in Proc, pc[p] # "check"
                    PROVE  \A r \in ConfigRepo \ {AdminRepo} : DiskOf(p)[r] = master[r]
BY DEF DiskOf, SubTree

\* One step of a load.
LEMMA LoadStep ==
    ASSUME TypeInv, NEW p \in Proc, LoadOK(p), OpenAdminRepo(p) \/ LoadSub(p)
    PROVE  /\ UNCHANGED <<pc, master, push, ctx, served, phase>>
           /\ pc[p] \in HookStage \cup ReloadStage
           /\ job'[p].user = job[p].user
           /\ job'[p].config.publicKeys = job[p].config.publicKeys
           /\ Loading(job'[p], DiskOf(p)')
           /\ job'[p].opened => job'[p].tree \in Worktrees(p)'
           /\ \A q \in Proc : q # p => job'[q] = job[q]
<1>1. /\ UNCHANGED <<pc, master, push, ctx, served, phase>>
      /\ pc[p] \in HookStage \cup ReloadStage
  BY DEF OpenAdminRepo, LoadSub, gitVars, servVars, sessVars
<1>2. job \in [Proc -> JobType] /\ job[p] \in JobType
  BY DEF TypeInv, TypeOK, ProcOK
<1>3. Loading(job[p], DiskOf(p)) /\ (job[p].opened => job[p].tree \in Worktrees(p))
  BY <1>1 DEF LoadOK
<1>4. Worktrees(p)' = Worktrees(p) /\ \A r : SubTree(p, r)' = SubTree(p, r)
  BY <1>1 DEF Worktrees, SubTree
<1>5. CASE OpenAdminRepo(p)
  <2>1. PICK t \in Worktrees(p) :
           job' = [job EXCEPT ![p] = OpenedJob(job[p], t, version[AdminRepo])]
    BY <1>2, <1>5 DEF OpenAdminRepo
  <2> DEFINE o == OpenedJob(job[p], t, version[AdminRepo])
  <2>2. job'[p] = o /\ \A q \in Proc : q # p => job'[q] = job[q]
    BY <1>2, <2>1
  <2>3. o.tree = t
    BY <1>2, OpenedTree
  <2>4. o.config.publicKeys = job[p].config.publicKeys /\ o.user = job[p].user
    BY <1>2, OpenedKeys, LoadKeepsUser
  <2>5. t \in AdminTree
    BY WorktreesType
  <2>6. job[p].todo = {} /\ job[p].outcome = "ok"
    BY <1>3, <1>5 DEF Loading, OpenAdminRepo
  <2> HIDE DEF o
  <2>7. DiskOf(p)'[AdminRepo] = t
    BY <2>2, <2>3, AdminRepoTree DEF DiskOf
  <2>8. \A disk : disk[AdminRepo] = t => Loading(o, disk)
    BY <1>2, <2>5, <2>6, OpenLoads DEF o
  <2> QED BY <1>1, <1>4, <2>2, <2>3, <2>4, <2>7, <2>8
<1>6. CASE LoadSub(p)
  <2>1. PICK r \in job[p].todo :
           job' = [job EXCEPT ![p] = LoadedJob(job[p], r, SubTree(p, r), version[r])]
    BY <1>2, <1>6 DEF LoadSub
  <2> DEFINE o == LoadedJob(job[p], r, SubTree(p, r), version[r])
  <2>2. job'[p] = o /\ \A q \in Proc : q # p => job'[q] = job[q]
    BY <1>2, <2>1
  <2>3. o.tree = job[p].tree /\ o.opened = job[p].opened
    BY <1>2, LoadedTree
  <2>4. o.config.publicKeys = job[p].config.publicKeys /\ o.user = job[p].user
    BY <1>2, LoadedKeys, LoadKeepsUser
  <2>5. r \in ConfigRepo /\ r # AdminRepo
    BY SubReposApart DEF TypeInv, TodoOK, Opens
  <2>6. job[p].opened
    BY <1>3 DEF Loading
  <2>7. DiskOf(p)[r] = SubTree(p, r) /\ DiskOf(p)[AdminRepo] = job[p].tree
    BY <2>5, AdminRepoTree DEF DiskOf
  <2>8. Loading(o, DiskOf(p))
    <3>1. \A disk : /\ Loading(job[p], disk) /\ disk[AdminRepo] = job[p].tree
                    /\ disk[r] = SubTree(p, r)
                    => Loading(o, disk)
      BY <1>2, <2>6, LoadLoads
    <3> HIDE DEF o
    <3> QED BY <1>3, <2>7, <3>1
  <2> HIDE DEF o
  <2>9. DiskOf(p)' = DiskOf(p)
    BY <1>4, <2>2, <2>3 DEF DiskOf
  <2> QED BY <1>1, <1>3, <1>4, <2>2, <2>3, <2>4, <2>8, <2>9
<1> QED BY <1>5, <1>6

\* A process whose load is done.
LEMMA DoneLoading ==
    ASSUME TypeInv, NEW p \in Proc, LoadOK(p), pc[p] \in HookStage \cup ReloadStage, LoadDone(p)
    PROVE  /\ job[p] \in JobType /\ job[p].opened /\ job[p].todo = {}
           /\ IsDisk(DiskOf(p)) /\ DiskOf(p)[AdminRepo] = job[p].tree
           /\ Loading(job[p], DiskOf(p)) /\ job[p].tree \in Worktrees(p)
<1>1. job[p] \in JobType /\ job[p].opened /\ job[p].todo = {}
  BY DEF TypeInv, TypeOK, ProcOK, LoadDone
<1>2. IsDisk(DiskOf(p))
  BY DiskOfType
<1>3. DiskOf(p)[AdminRepo] = job[p].tree
  BY AdminRepoTree DEF DiskOf
<1>4. Loading(job[p], DiskOf(p)) /\ job[p].tree \in Worktrees(p)
  BY <1>1 DEF LoadOK
<1> QED BY <1>1, <1>2, <1>3, <1>4

\* What it has is the meaning of what it saw.
LEMMA DoneMeans ==
    ASSUME TypeInv, NEW p \in Proc, LoadOK(p), pc[p] \in HookStage \cup ReloadStage, LoadDone(p),
           job[p].outcome = "ok"
    PROVE  /\ Loadable(DiskOf(p)) /\ AdminLoads(job[p].tree) /\ job[p].config \in ConfigType
           /\ DiskKeys(DiskOf(p)) = KeysOf(job[p].config.users)
           /\ (\A k \in Key : job[p].config.publicKeys[k] # Nil => k \in DiskKeys(DiskOf(p)))
                 => \A d \in Flatten(job[p].config) : d \in Meaning(DiskOf(p))
           /\ \A d \in Flatten(job[p].config), e \in Meaning(DiskOf(p)) :
                 d.users = e.users /\ d.groups = e.groups
<1> DEFINE j == job[p]  disk == DiskOf(p)
<1>1. /\ j \in JobType /\ j.opened /\ j.todo = {} /\ j.outcome = "ok"
      /\ IsDisk(disk) /\ j.tree = disk[AdminRepo] /\ Loading(j, disk)
  BY DoneLoading
<1> HIDE DEF j, disk
<1>2. /\ Loadable(disk) /\ AdminLoads(j.tree) /\ j.config \in ConfigType
      /\ DiskKeys(disk) = KeysOf(j.config.users)
  BY <1>1, FinishedLoad
<1>3. /\ \A e \in Meaning(disk) : e.users = j.config.users /\ e.groups = j.config.groups
      /\ \A d \in Flatten(j.config) : d.users = j.config.users /\ d.groups = j.config.groups
      /\ (\A k \in Key : j.config.publicKeys[k] # Nil => k \in DiskKeys(disk))
            => \A d \in Flatten(j.config) : d \in Meaning(disk)
  BY <1>1, FinishedMeans
<1> QED BY <1>2, <1>3 DEF j, disk

\* The hooks' first loads and a reload's last one see the tips of master.
LEMMA SeesTips ==
    ASSUME TypeInv, NEW p \in Proc, LoadOK(p), pc[p] \in {"pre", "update", "load"}, LoadDone(p)
    PROVE  /\ Loadable(DiskOf(p)) <=> Loadable(master)
           /\ AdminLoads(job[p].tree) => /\ Meaning(DiskOf(p)) = Meaning(master)
                                         /\ DiskKeys(DiskOf(p)) = DiskKeys(master)
<1>1. /\ job[p].tree \in Worktrees(p) /\ IsDisk(DiskOf(p))
      /\ DiskOf(p)[AdminRepo] = job[p].tree
  BY DoneLoading DEF HookStage, ReloadStage
<1>2. job[p].tree = master[AdminRepo]
  BY <1>1 DEF Worktrees
<1>3. \A r \in ConfigRepo : DiskOf(p)[r] = master[r]
  BY <1>1, <1>2, SeesMaster
<1>4. \A d : IsDisk(d) /\ (\A r \in ConfigRepo : d[r] = master[r])
         => /\ Loadable(d) <=> Loadable(master)
            /\ AdminLoads(d[AdminRepo]) => /\ Meaning(d) = Meaning(master)
                                           /\ DiskKeys(d) = DiskKeys(master)
  BY SameDisk
<1> QED BY <1>1, <1>3, <1>4

\* So what they find means what is on the disk.
LEMMA FindsMeaning ==
    ASSUME TypeInv, NEW p \in Proc, LoadOK(p), KeyOK(p), pc[p] \in {"pre", "update", "load"},
           LoadDone(p), job[p].outcome = "ok", NEW c \in Flatten(job[p].config)
    PROVE  c \in Meaning(master) /\ Loadable(master)
<1> pc[p] \in HookStage \cup ReloadStage
  BY DEF HookStage, ReloadStage
<1>1. /\ Loadable(DiskOf(p)) /\ AdminLoads(job[p].tree)
      /\ (\A k \in Key : job[p].config.publicKeys[k] # Nil => k \in DiskKeys(DiskOf(p)))
            => \A d \in Flatten(job[p].config) : d \in Meaning(DiskOf(p))
  BY DoneMeans
<1>2. /\ Loadable(master) /\ Meaning(DiskOf(p)) = Meaning(master)
      /\ DiskKeys(DiskOf(p)) = DiskKeys(master)
  BY <1>1, SeesTips
<1>3. \A k \in Key : job[p].config.publicKeys[k] # Nil => k \in DiskKeys(DiskOf(p))
  BY <1>2 DEF KeyOK
<1> QED BY <1>1, <1>2, <1>3

\* EnsureConfig and EnsureAdminUser leave on the disk what they have loaded.
LEMMA EnsureCommits ==
    ASSUME TypeInv, LoadsOK, FilesOK, NEW p \in Proc, EnsureDone(p)
    PROVE  /\ DOMAIN master' = ConfigRepo /\ \A r \in ConfigRepo : master'[r] = DiskOf(p)[r]
           /\ \A r \in ConfigRepo \ {AdminRepo} : master'[r] = master[r]
           /\ master'[AdminRepo] = job[p].tree
<1>1. /\ pc[p] \in {"ensure", "admin"} /\ LoadDone(p) /\ pc[p] \in HookStage \cup ReloadStage
  BY DEF EnsureDone, ReloadStage
<1>2. job[p].opened /\ DiskOf(p)[AdminRepo] = job[p].tree
  BY <1>1, DoneLoading DEF LoadsOK
<1>3. head = OnMaster /\ index = job[p].tree
  BY <1>1, <1>2 DEF FilesOK, ReloadStage
<1>4. DOMAIN master = ConfigRepo
  BY DEF TypeInv, TypeOK, GitOK
<1>5. master' = [master EXCEPT ![AdminRepo] = index] \/ (master' = master /\ IsClean(p))
  BY <1>3 DEF EnsureDone, CommitAdminRepo, gitVars
<1>6. IsClean(p) => master[AdminRepo] = job[p].tree
  BY <1>3 DEF IsClean, HeadTree
<1>7. /\ master'[AdminRepo] = job[p].tree /\ DOMAIN master' = ConfigRepo
      /\ \A r \in ConfigRepo \ {AdminRepo} : master'[r] = master[r]
  BY <1>3, <1>4, <1>5, <1>6, AdminRepoTree
<1> QED BY <1>1, <1>2, <1>7, SeesMaster

-----------------------------------------------------------------------------
(* The invariant is inductive while one push is made at a time             *)

\* A hook that passes goes on with a config it has found.
GoesOn(s, c) ==
    /\ pc[s] \in HookStage /\ LoadDone(s) /\ c \in Flatten(job[s].config)
    /\ HookPasses(c, s) /\ HookContinues(c, s)
    /\ UNCHANGED <<master, version, servVars, ctx, crashes>>

\* How a process gets to a load, or to the move of a branch.
LEMMA Arrives ==
    ASSUME TypeInv, Alone, Alone', Next, NEW p \in Proc,
           pc'[p] \in HookStage \cup ReloadStage \cup {"accepted"}
    PROVE  \/ Quiet(p) \/ OpenAdminRepo(p) \/ LoadSub(p) \/ LockReload(p) \/ EnsureDone(p)
           \/ p \in Session /\ (Push(p) \/ \E c : GoesOn(p, c))
<1> ProcOK
  BY DEF TypeInv, TypeOK
<1> USE DEF HookStage, ReloadStage
<1>1. Busy(p)'
  BY DEF Busy
<1>2. ~(Boot /\ p = Main)
  BY DEF Boot, ProcOK
<1>3. ~Publish(p) /\ ~ReloadFails(p)
  BY DEF Publish, ReloadFails, Begin, Die, ProcOK
<1>4. ASSUME p \in Session PROVE ~EndReceivePack(p)
  BY DEF EndReceivePack, AfterReceivePack, Begin, ProcOK
<1>5. ASSUME p \in Session, SessionStep(p) PROVE \E c : GoesOn(p, c)
  BY <1>4, <1>5 DEF SessionStep, HookStep, RefUpdate, GoesOn
<1>6. \/ Quiet(p) \/ ProcStep(p)
      \/ Boot /\ p = Main
      \/ p \in Session /\ (Push(p) \/ SessionStep(p))
  BY <1>1, AloneMoves
<1>7. ASSUME ProcStep(p)
      PROVE  OpenAdminRepo(p) \/ LoadSub(p) \/ LockReload(p) \/ EnsureDone(p)
  BY <1>3, <1>7 DEF ProcStep
<1> QED BY <1>2, <1>5, <1>6, <1>7

\* Three of these begin a load.
LEMMA BeginsLoad ==
    ASSUME TypeInv, NEW p \in Proc,
           \/ LockReload(p) \/ EnsureDone(p)
           \/ p \in Session /\ (Push(p) \/ \E c : GoesOn(p, c))
    PROVE  ~job'[p].opened /\ job'[p].todo = {} /\ job'[p].outcome = "ok"
<1>1. ProcOK
  BY DEF TypeInv, TypeOK
<1>2. \E stage, c, u : Begin(p, stage, c, u)
  BY DEF LockReload, EnsureDone, Push, GoesOn, HookContinues
<1> QED BY <1>1, <1>2, BeginFresh

\* What a process sees does not change while nothing happens.
LEMMA QuietKeeps ==
    ASSUME NEW p, Quiet(p)
    PROVE  DiskOf(p)' = DiskOf(p) /\ Worktrees(p)' = Worktrees(p)
<1>1. \A r : SubTree(p, r)' = SubTree(p, r)
  BY DEF Quiet, SubTree, gitVars
<1>2. DiskOf(p)' = DiskOf(p)
  BY <1>1 DEF Quiet, DiskOf
<1>3. Worktrees(p)' = Worktrees(p)
  BY DEF Quiet, Worktrees, gitVars
<1> QED BY <1>2, <1>3

\* Loads are loads of what their processes see.
LEMMA LoadsStep == ASSUME TypeInv, LoadsOK, Alone, Alone', Next PROVE LoadsOK'
<1> SUFFICES ASSUME NEW p \in Proc, pc'[p] \in HookStage \cup ReloadStage
             PROVE  /\ Loading(job'[p], DiskOf(p)')
                    /\ job'[p].opened => job'[p].tree \in Worktrees(p)'
  BY DEF LoadsOK, LoadOK
<1>1. CASE Quiet(p)
  <2>1. pc'[p] = pc[p] /\ job'[p] = job[p]
    BY <1>1 DEF Quiet
  <2> QED BY <1>1, <2>1, QuietKeeps DEF LoadsOK, LoadOK
<1>2. CASE OpenAdminRepo(p) \/ LoadSub(p)
  BY <1>2, LoadStep DEF LoadsOK
<1>3. CASE \/ LockReload(p) \/ EnsureDone(p)
           \/ p \in Session /\ (Push(p) \/ \E c : GoesOn(p, c))
  BY <1>3, BeginsLoad DEF Loading
<1> QED BY <1>1, <1>2, <1>3, Arrives

\* The admin repo's files are a reload's own.
LEMMA FilesStep == ASSUME TypeInv, LoadsOK, FilesOK, Alone, Alone', Next PROVE FilesOK'
<1> SUFFICES ASSUME NEW p \in Proc, pc'[p] \in ReloadStage, job'[p].opened
             PROVE  head' = OnMaster /\ index' = job'[p].tree
  BY DEF FilesOK
<1>0. job \in [Proc -> JobType] /\ job[p] \in JobType
  BY DEF TypeInv, TypeOK, ProcOK
<1>1. CASE Quiet(p)
  <2>1. pc'[p] = pc[p] /\ job'[p] = job[p] /\ head' = head /\ index' = index
    BY <1>1 DEF Quiet, gitVars
  <2> QED BY <2>1 DEF FilesOK
<1>2. CASE OpenAdminRepo(p)
  <2>1. PICK t \in Worktrees(p) :
           /\ job' = [job EXCEPT ![p] = OpenedJob(job[p], t, version[AdminRepo])]
           /\ index' = t
           /\ head' = IF pc[p] = "check" /\ push[p].repo = AdminRepo THEN t ELSE OnMaster
           /\ pc' = pc
    BY <1>0, <1>2 DEF OpenAdminRepo
  <2>2. OpenedJob(job[p], t, version[AdminRepo]).tree = t
    BY <1>0, OpenedTree
  <2> QED BY <1>0, <2>1, <2>2 DEF ReloadStage
<1>3. CASE LoadSub(p)
  <2>1. PICK r \in job[p].todo :
           job' = [job EXCEPT ![p] = LoadedJob(job[p], r, SubTree(p, r), version[r])]
    BY <1>0, <1>3 DEF LoadSub
  <2>2. UNCHANGED <<index, head, pc>>
    BY <1>3 DEF LoadSub, gitVars
  <2>3. /\ LoadedJob(job[p], r, SubTree(p, r), version[r]).opened = job[p].opened
        /\ LoadedJob(job[p], r, SubTree(p, r), version[r]).tree = job[p].tree
    BY <1>0, LoadedTree
  <2>4. job'[p].opened = job[p].opened /\ job'[p].tree = job[p].tree
    BY <1>0, <2>1, <2>3
  <2> QED BY <2>2, <2>4 DEF FilesOK
<1>4. CASE \/ LockReload(p) \/ EnsureDone(p)
           \/ p \in Session /\ (Push(p) \/ \E c : GoesOn(p, c))
  BY <1>4, BeginsLoad
<1> QED BY <1>1, <1>2, <1>3, <1>4, Arrives

\* The keys EnsureConfig and EnsureAdminUser take along are somebody's on the
\* disk they leave.
LEMMA EnsureFindsKeys ==
    ASSUME TypeInv, AdminAlone, LoadsOK, FilesOK, KeysOK, NEW p \in Proc, EnsureDone(p)
    PROVE  /\ AdminLoads(master'[AdminRepo])
           /\ \A d \in Flatten(job[p].config) : \A k \in Key :
                 d.publicKeys[k] # Nil => k \in DiskKeys(master')
<1> DEFINE e == DiskOf(p)
<1>1. /\ pc[p] \in {"ensure", "admin"} /\ LoadDone(p) /\ job[p].outcome = "ok"
      /\ pc[p] \in HookStage \cup ReloadStage
  BY DEF EnsureDone, ReloadStage
<1>2. /\ AdminLoads(job[p].tree) /\ job[p].config \in ConfigType
      /\ DiskKeys(e) = KeysOf(job[p].config.users)
  BY <1>1, DoneMeans DEF LoadsOK
<1>3. IsDisk(e) /\ e[AdminRepo] = job[p].tree /\ job[p].tree \in Worktrees(p)
  BY <1>1, DoneLoading DEF LoadsOK
<1>4. master'[AdminRepo] = job[p].tree /\ \A r \in ConfigRepo : e[r] = master'[r]
  BY EnsureCommits
<1>5. DiskKeys(e) = DiskKeys(master')
  BY <1>2, <1>3, <1>4, SameDisk
<1>6. ASSUME pc[p] = "admin", NEW k \in Key, job[p].config.publicKeys[k] # Nil
      PROVE  k \in DiskKeys(e)
  <2> DEFINE f == [master EXCEPT ![AdminRepo] = job[p].tree]
  <2>1. AdminLoads(master[AdminRepo]) /\ k \in DiskKeys(master)
    BY <1>6 DEF KeysOK, KeyOK
  <2>2. IsDisk(master)
    BY DEF TypeInv, TypeOK, GitOK, IsDisk
  <2>3. job[p].tree \in Ensured(master[AdminRepo])
    BY <1>3, <1>6 DEF Worktrees, Ensured, TypeInv, BootOK
  <2>4. DiskKeys(master) \subseteq DiskKeys(f)
    BY <2>1, <2>2, <2>3, EnsuredKeys
  <2>5. \A r \in ConfigRepo : e[r] = f[r]
    BY <1>1, <1>3, <1>6, <2>2, SeesMaster, AdminRepoTree DEF IsDisk
  <2> HIDE DEF e, f
  <2>6. DiskKeys(e) = DiskKeys(f)
    BY <1>2, <1>3, <2>5, SameDisk
  <2> QED BY <2>1, <2>4, <2>6
<1>7. ASSUME pc[p] = "ensure", NEW k \in Key PROVE job[p].config.publicKeys[k] = Nil
  BY <1>7 DEF KeysOK, KeyOK
<1> HIDE DEF e
<1>8. ASSUME NEW d \in Flatten(job[p].config), NEW k \in Key, d.publicKeys[k] # Nil
      PROVE  k \in DiskKeys(e)
  <2>1. k \in KeysOf(job[p].config.users) \/ job[p].config.publicKeys[k] # Nil
    BY <1>2, <1>8, FlattenLeaves
  <2> QED BY <1>1, <1>2, <1>6, <1>7, <2>1
<1> QED BY <1>2, <1>4, <1>5, <1>8

\* Public keys come from the disk.
LEMMA KeysStep ==
    ASSUME TypeInv, AdminAlone, LoadsOK, FilesOK, KeysOK, Alone, Alone', Next
    PROVE  KeysOK'
<1> DEFINE First == {"pre", "update", "ensure"}  Then == {"admin", "load"}
<1> SUFFICES ASSUME NEW p \in Proc, pc'[p] \in First \cup Then
             PROVE  /\ pc'[p] \in First => \A k \in Key : job'[p].config.publicKeys[k] = Nil
                    /\ pc'[p] \in Then =>
                          /\ AdminLoads(master'[AdminRepo])
                          /\ \A k \in Key : job'[p].config.publicKeys[k] # Nil
                                               => k \in DiskKeys(master')
  BY DEF KeysOK, KeyOK
<1>0. ProcOK /\ pc'[p] \in HookStage \cup ReloadStage \cup {"accepted"}
  BY DEF TypeInv, TypeOK, HookStage, ReloadStage
<1>1. CASE Quiet(p)
  <2>1. pc'[p] = pc[p] /\ job'[p] = job[p] /\ master' = master
    BY <1>1 DEF Quiet, gitVars
  <2> QED BY <2>1 DEF KeysOK, KeyOK
<1>2. CASE OpenAdminRepo(p) \/ LoadSub(p)
  <2>1. /\ pc' = pc /\ master' = master
        /\ job'[p].config.publicKeys = job[p].config.publicKeys
    BY <1>2, LoadStep DEF LoadsOK
  <2> QED BY <2>1 DEF KeysOK, KeyOK
<1>3. CASE \E stage \in First : Begin(p, stage, NewConfig, NoUser)
  <2>1. job'[p].config = NewConfig /\ pc'[p] \in First
    BY <1>0, <1>3, BeginFresh
  <2> QED BY <2>1 DEF NewConfig, EmptyMap
<1>4. CASE LockReload(p) \/ (p \in Session /\ Push(p))
  BY <1>3, <1>4 DEF LockReload, Push
<1>5. CASE EnsureDone(p)
  <2>1. PICK d \in Flatten(job[p].config), stage \in Then : Begin(p, stage, d, NoUser)
    BY <1>5 DEF EnsureDone
  <2>2. job'[p].config = d /\ pc'[p] \in Then
    BY <1>0, <2>1, BeginFresh
  <2>3. /\ AdminLoads(master'[AdminRepo])
        /\ \A k \in Key : d.publicKeys[k] # Nil => k \in DiskKeys(master')
    BY <1>5, EnsureFindsKeys
  <2> QED BY <2>2, <2>3
<1>6. CASE p \in Session /\ \E c : GoesOn(p, c)
  <2>1. PICK c : GoesOn(p, c)
    BY <1>6
  <2>2. \/ Begin(p, "update", NewConfig, NoUser)
        \/ \E u : Begin(p, "check", c, u) \/ Begin(p, "accepted", NewConfig, NoUser)
    BY <2>1 DEF GoesOn, HookContinues
  <2>3. ~\E x, u : Begin(p, "check", x, u) \/ Begin(p, "accepted", x, u)
    BY <1>0, BeginFresh
  <2> QED BY <1>3, <2>2, <2>3
<1> QED BY <1>0, <1>1, <1>2, <1>4, <1>5, <1>6, Arrives

\* The names of config repos are config repos.
LEMMA ConfigRepoTypes ==
    ASSUME NEW c, NEW path, DiskPath(LookupRepo(c, path)) \in ConfigRepo
    PROVE  LookupRepo(c, path).type \in ConfigRepoType
<1> DEFINE repo == LookupRepo(c, path)
<1>1. ASSUME NEW x, NEW y PROVE <<"top-level", x, y>> \notin ConfigRepo
  BY DEF ConfigRepo, AdminRepo, UserRepo, OrgRepo
<1>2. ASSUME NEW x, NEW y
      PROVE  <<"orgs", x, y>> \notin ConfigRepo /\ <<"users", x, y>> \notin ConfigRepo
  BY DEF ConfigRepo, AdminRepo, UserRepo, OrgRepo
<1> HIDE DEF repo
<1>3. repo.type \in ConfigRepoType
  BY <1>1, <1>2 DEF DiskPath, ConfigRepoType, repo
<1> QED BY <1>3 DEF repo

\* A hook that goes on has found the pusher on the disk.
LEMMA GoesOnKnown ==
    ASSUME TypeInv, NEW s \in Session, LoadOK(s), KeyOK(s), Known(s), NEW c, GoesOn(s, c)
    PROVE  Known(s)'
<1>0. ProcOK /\ s \in Proc
  BY DEF TypeInv, TypeOK, Proc
<1>1. master' = master /\ ctx' = ctx /\ LoadDone(s) /\ job[s].outcome = "ok"
  BY DEF GoesOn, HookPasses
<1>2. ASSUME pc[s] = "update"
      PROVE  c \in Meaning(master) /\ HookUser(c, s) # {}
  <2>1. c \in Meaning(master)
    BY <1>0, <1>1, <1>2, FindsMeaning DEF GoesOn
  <2> QED BY <1>2, <2>1 DEF GoesOn, HookPasses, HookKnows
<1>3. ASSUME pc'[s] = "check" PROVE Known(s)'
  <2>1. PICK u \in HookUser(c, s) : Begin(s, "check", c, u) /\ pc[s] = "update"
    <3>1. ASSUME Begin(s, "update", NewConfig, NoUser) \/ Begin(s, "accepted", NewConfig, NoUser)
          PROVE FALSE
      BY <1>0, <1>3, <3>1, BeginFresh
    <3> QED BY <3>1 DEF GoesOn, HookContinues
  <2>2. job'[s].user = u
    BY <1>0, <2>1, BeginFresh
  <2> QED BY <1>1, <1>2, <1>3, <2>1, <2>2 DEF HookUser, Known
<1>4. ASSUME pc'[s] = "accepted" PROVE Known(s)'
  <2>1. pc[s] \in {"update", "check"}
    <3>1. ASSUME Begin(s, "update", NewConfig, NoUser) PROVE FALSE
      BY <1>0, <1>4, <3>1, BeginFresh
    <3> QED BY <3>1 DEF GoesOn, HookContinues
  <2>2. CASE pc[s] = "update"
    BY <1>1, <1>2, <1>4, <2>2 DEF HookUser, Known
  <2>3. CASE pc[s] = "check"
    BY <1>1, <1>4, <2>3 DEF Known
  <2> QED BY <2>1, <2>2, <2>3
<1> QED BY <1>3, <1>4 DEF Known

\* The pusher has been found on the disk.
LEMMA KnownStep ==
    ASSUME TypeInv, LoadsOK, KeysOK, KnownOK, Alone, Alone', Next
    PROVE  KnownOK'
<1> SUFFICES ASSUME NEW s \in Session, pc'[s] \in {"check", "accepted"}
             PROVE  /\ pc'[s] = "check" =>
                          \E c \in Meaning(master') : job'[s].user \in UserOfKey(c, ctx'[s].key)
                    /\ pc'[s] = "accepted" =>
                          \E c \in Meaning(master') : UserOfKey(c, ctx'[s].key) # {}
  BY DEF KnownOK, Known
<1>0. ProcOK /\ s \in Proc /\ pc'[s] \in HookStage \cup ReloadStage \cup {"accepted"}
  BY DEF TypeInv, TypeOK, Proc, HookStage
<1>1. CASE Quiet(s)
  <2>1. pc'[s] = pc[s] /\ job'[s] = job[s] /\ master' = master /\ ctx'[s] = ctx[s]
    BY <1>1 DEF Quiet, gitVars
  <2> QED BY <2>1 DEF KnownOK, Known
<1>2. CASE OpenAdminRepo(s) \/ LoadSub(s)
  <2>1. UNCHANGED <<pc, master, ctx>> /\ job'[s].user = job[s].user
    BY <1>0, <1>2, LoadStep DEF LoadsOK
  <2> QED BY <2>1 DEF KnownOK, Known
<1>3. CASE LockReload(s) \/ EnsureDone(s)
  <2>1. pc'[s] \in {"ensure", "admin", "load"}
    BY <1>0, <1>3 DEF LockReload, EnsureDone, Begin, ProcOK
  <2> QED BY <2>1
<1>4. CASE Push(s)
  <2>1. Begin(s, "pre", NewConfig, NoUser)
    BY <1>4 DEF Push
  <2> QED BY <1>0, <2>1, BeginFresh
<1>5. CASE \E c : GoesOn(s, c)
  <2>1. Known(s)'
    BY <1>0, <1>5, GoesOnKnown DEF LoadsOK, KeysOK, KnownOK
  <2> QED BY <2>1 DEF Known
<1> QED BY <1>0, <1>1, <1>2, <1>3, <1>4, <1>5, Arrives

\* A session's reload does not fail on a disk that loads.
LEMMA ReloadFailsLate ==
    ASSUME TypeInv, AdminAlone, LoadsOK, FilesOK, NEW p \in Proc, p # Main, ReloadFails(p)
    PROVE  ~Loadable(master)
<1> SUFFICES ASSUME Loadable(master) PROVE FALSE
  OBVIOUS
<1>1. pc[p] \in {"ensure", "load"} /\ LoadDone(p) /\ pc[p] \in HookStage \cup ReloadStage
  BY DEF ReloadFails, ReloadStage, AdminAlone
<1>2. /\ job[p].opened /\ IsDisk(DiskOf(p)) /\ DiskOf(p)[AdminRepo] = job[p].tree
      /\ Loading(job[p], DiskOf(p)) /\ job[p].tree \in Worktrees(p)
  BY <1>1, DoneLoading DEF LoadsOK
<1>3. ~CommitIsEmpty(p)
  BY <1>1, <1>2 DEF FilesOK, ReloadStage, CommitIsEmpty, IsClean
<1>4. ~Loadable(DiskOf(p))
  BY <1>2, <1>3 DEF ReloadFails, Loading
<1>5. CASE pc[p] = "ensure"
  <2> DEFINE e == [master EXCEPT ![AdminRepo] = job[p].tree]
  <2>1. IsDisk(master)
    BY DEF TypeInv, TypeOK, GitOK, IsDisk
  <2>2. Loadable(e)
    BY <1>2, <1>5, <2>1, LoadableStarts DEF Worktrees
  <2>3. \A r \in ConfigRepo : DiskOf(p)[r] = e[r]
    BY <1>2, <1>5, <2>1, SeesMaster, AdminRepoTree DEF IsDisk
  <2> HIDE DEF e
  <2> QED BY <1>2, <1>4, <2>2, <2>3, SameDisk
<1>6. CASE pc[p] = "load"
  BY <1>1, <1>4, <1>6, SeesTips DEF LoadsOK
<1> QED BY <1>1, <1>5, <1>6

\* At the start nobody is at work.
LEMMA AloneInit == Init => AloneInv
BY ServerAssumption
DEF Init, AloneInv, BootAlone, MainAlone, AdminAlone, LoadsOK, LoadOK, FilesOK, KeysOK, KeyOK,
    KnownOK, Known, HookStage, ReloadStage, Proc

\* While one push is made at a time the invariant stays.
LEMMA AloneStep ==
    TypeInv /\ AloneInv /\ OneInFlight /\ [Next]_vars /\ TypeInv' /\ OneInFlight' => AloneInv'
<1> SUFFICES ASSUME TypeInv, AloneInv, OneInFlight, [Next]_vars, OneInFlight'
             PROVE  AloneInv'
  OBVIOUS
<1>0. BootAlone /\ MainAlone /\ AdminAlone /\ LoadsOK /\ FilesOK /\ KeysOK /\ KnownOK
  BY DEF AloneInv
<1>1. CASE Next
  <2>1. BootAlone' /\ MainAlone' /\ AdminAlone'
    BY <1>0, <1>1, BootAloneStep, MainAloneStep, AdminAloneStep
  <2>2. Alone
    BY <1>0, OnlyOne
  <2>3. Alone'
    BY <2>1 DEF BootAlone, MainAlone, OneInFlight, Alone, Busy, Idle, Proc
  <2>4. LoadsOK' /\ FilesOK'
    BY <1>0, <1>1, <2>2, <2>3, LoadsStep, FilesStep
  <2>5. KeysOK' /\ KnownOK'
    BY <1>0, <1>1, <2>2, <2>3, KeysStep, KnownStep
  <2> QED BY <2>1, <2>4, <2>5 DEF AloneInv
<1>2. CASE UNCHANGED vars
  <2>1. \A p : DiskOf(p)' = DiskOf(p) /\ Worktrees(p)' = Worktrees(p)
    BY <1>2 DEF vars, gitVars, servVars, sessVars, DiskOf, SubTree, Worktrees
  <2>2. BootAlone' /\ MainAlone' /\ AdminAlone' /\ FilesOK'
    BY <1>0, <1>2 DEF vars, gitVars, servVars, BootAlone, MainAlone, AdminAlone, FilesOK
  <2>3. LoadsOK'
    BY <1>0, <1>2, <2>1 DEF vars, LoadsOK, LoadOK
  <2>4. KeysOK' /\ KnownOK'
    BY <1>0, <1>2 DEF vars, gitVars, servVars, sessVars, KeysOK, KeyOK, KnownOK, Known
  <2> QED BY <2>2, <2>3, <2>4 DEF AloneInv
<1> QED BY <1>1, <1>2

\* What EnsureConfig and EnsureAdminUser write completes what was there.
LEMMA EnsuredCompletes ==
    ASSUME NEW old \in AdminTree, NEW t \in Ensured(old)
    PROVE  Completes(t, old)
<1>1. ASSUME NEW x \in EnsureAdminConfig(old)
      PROVE  /\ x \in AdminTree /\ old.hostKey \in {NoKey, x.hostKey}
             /\ old.yml = "ok" => /\ x.users = old.users /\ x.groups = old.groups
                                  /\ x.orgs = old.orgs /\ x.repos = old.repos
                                  /\ x.options = old.options
  <2> DEFINE y == EnsureConfigYaml(old)
  <2>1. /\ y \in AdminTree /\ y.hostKey = old.hostKey
        /\ old.yml = "ok" => /\ y.users = old.users /\ y.groups = old.groups /\ y.orgs = old.orgs
                             /\ y.repos = old.repos /\ y.options = old.options
    <3>1. CASE old.yml \in {"missing", "syntax"}
      BY <3>1, EmptyAdminTreeType DEF EnsureConfigYaml, AdminTree
    <3>2. CASE old.yml \notin {"missing", "syntax"}
      BY <3>2 DEF EnsureConfigYaml, AdminTree
    <3> QED BY <3>1, <3>2
  <2>2. x = y \/ (old.hostKey = NoKey /\ \E k \in HostKey : x = [y EXCEPT !.hostKey = k])
    BY <1>1 DEF EnsureAdminConfig
  <2> HIDE DEF y
  <2>3. CASE x = y
    BY <2>1, <2>3
  <2>4. CASE x # y
    <3>1. PICK k \in HostKey : x = [y EXCEPT !.hostKey = k]
      BY <2>2, <2>4
    <3> QED BY <2>1, <2>2, <2>4, <3>1 DEF AdminTree
  <2> QED BY <2>3, <2>4
<1>2. CASE t \in EnsureAdminConfig(old)
  BY <1>1, <1>2 DEF Completes, Keys
<1>3. CASE t \notin EnsureAdminConfig(old)
  <2>1. PICK x \in EnsureAdminConfig(old) : t = EnsureAdminUser(x, AdminUser, AdminKey)
    BY <1>3 DEF Ensured
  <2>2. AdminUser \in User /\ AdminKey \in Key
    BY <1>3, ServerAssumption DEF Ensured
  <2>3. /\ x \in AdminTree /\ old.hostKey \in {NoKey, x.hostKey}
        /\ old.yml = "ok" => /\ x.users = old.users /\ x.groups = old.groups /\ x.orgs = old.orgs
                             /\ x.repos = old.repos /\ x.options = old.options
    BY <1>1
  <2>4. /\ t.options = x.options /\ t.groups = x.groups /\ t.orgs = x.orgs /\ t.repos = x.repos
        /\ t.hostKey = x.hostKey
        /\ \A v \in Keys(x.users) :
              /\ v \in Keys(t.users) /\ x.users[v].keys \subseteq t.users[v].keys
              /\ IsAdmin(x.users[v]) => IsAdmin(t.users[v])
    BY <2>1, <2>2, <2>3, EnsureUserKeeps
  <2> QED BY <2>3, <2>4 DEF Completes
<1> QED BY <1>2, <1>3

-----------------------------------------------------------------------------
(* What holds while one push is made at a time                             *)

\* The invariant holds on every behaviour with one push at a time.
LEMMA AloneAlways == Spec /\ []OneInFlight => [](TypeInv /\ AloneInv)
<1>1. Init => TypeInv /\ AloneInv
  BY TypeInit, AloneInit
<1>2. TypeInv /\ [Next]_vars => TypeInv'
  BY TypeStep
<1>3. TypeInv /\ AloneInv /\ OneInFlight /\ [Next]_vars /\ TypeInv' /\ OneInFlight' => AloneInv'
  BY AloneStep
<1> QED BY <1>1, <1>2, <1>3, PTL DEF Spec

\* With room for one push and finitely many connections one is made at a time:
\* what the bound MaxInFlight = 1 of the sequential run means.
THEOREM OnePushAtATime ==
    ASSUME IsFiniteSet(Session), MaxInFlight = 1 PROVE Spec => []OneInFlight
<1>1. Init => OneInFlight
  BY DEF Init, OneInFlight, Idle, Proc
<1>2. ASSUME TypeInv, OneInFlight, [Next]_vars PROVE OneInFlight'
  <2> SUFFICES ASSUME Next PROVE OneInFlight'
    BY <1>2 DEF vars, OneInFlight, Idle
  <2>0. ProcOK /\ Session \subseteq Proc /\ Main \notin Session
    BY <1>2, ServerAssumption DEF TypeInv, TypeOK, Proc
  <2>1. ASSUME \A s \in Session : Idle(s)' \/ ~Idle(s) PROVE OneInFlight'
    BY <1>2, <2>1 DEF OneInFlight
  <2>2. CASE Boot \/ Crash
    BY <2>0, <2>1, <2>2 DEF Boot, Crash, Die, Idle, ProcOK
  <2>3. ASSUME NEW p \in Proc, ProcStep(p) PROVE OneInFlight'
    <3>1. pc[p] \notin {"closed", "ready"}
      BY <2>3 DEF ProcStep, OpenAdminRepo, LoadSub, LockReload, EnsureDone, Publish, ReloadFails,
                  HookStage, ReloadStage
    <3>2. \A q \in Proc : q # p => pc'[q] \in {pc[q], "closed"}
      BY <2>0, <2>3 DEF ProcStep, OpenAdminRepo, LoadSub, LockReload, EnsureDone, Publish,
                        ReloadFails, Begin, Die, ProcOK
    <3> QED BY <2>0, <2>1, <3>1, <3>2 DEF Idle
  <2>4. ASSUME NEW s \in Session, Authenticate(s) \/ Close(s) PROVE OneInFlight'
    BY <2>0, <2>1, <2>4 DEF Authenticate, Close, Idle, ProcOK
  <2>5. ASSUME NEW s \in Session, SessionStep(s) PROVE OneInFlight'
    <3>1. pc[s] \notin {"closed", "ready"}
      BY <2>5 DEF SessionStep, HookStep, RefUpdate, HookStage
    <3>2. \A q \in Proc : q # s => pc'[q] = pc[q]
      BY <2>0, <2>5 DEF SessionStep, HookStep, HookContinues, RefUpdate, EndReceivePack, Begin,
                        ProcOK
    <3> QED BY <2>0, <2>1, <3>1, <3>2 DEF Idle
  <2>6. ASSUME NEW s \in Session, Push(s) PROVE OneInFlight'
    <3>1. IsFiniteSet(InFlight) /\ Cardinality(InFlight) < 1
      BY <2>6, FS_Subset DEF InFlight, Push
    <3>2. InFlight = {}
      BY <3>1, FS_CardinalityType, FS_EmptySet
    <3>3. \A q \in Proc : q # s => pc'[q] = pc[q]
      BY <2>0, <2>6 DEF Push, Begin, ProcOK
    <3> QED BY <2>0, <3>2, <3>3 DEF InFlight, OneInFlight, Idle
  <2> QED BY <2>2, <2>3, <2>4, <2>5, <2>6 DEF Next
<1>3. TypeInv /\ OneInFlight /\ [Next]_vars => OneInFlight'
  BY <1>2
<1>4. Init => TypeInv
  BY TypeInit
<1>5. TypeInv /\ [Next]_vars => TypeInv'
  BY TypeStep
<1> QED BY <1>1, <1>3, <1>4, <1>5, PTL DEF Spec

\* A push that lands was made with a key that is somebody's on the disk it
\* lands on, whatever config its session was opened with (RunHook).
THEOREM LandsKnown == Spec /\ []OneInFlight => LandingKeyIsKnown
<1>1. ASSUME AloneInv, NEW s \in Session, Lands(s)
      PROVE  \E c \in Meaning(master) : UserOfKey(c, ctx[s].key) # {}
  BY <1>1 DEF AloneInv, KnownOK, Known, Lands
<1>2. AloneInv => [\A s \in Session : Lands(s) =>
                      \E c \in Meaning(master) : UserOfKey(c, ctx[s].key) # {}]_vars
  BY <1>1
<1> QED BY <1>2, AloneAlways, PTL DEF LandingKeyIsKnown

-----------------------------------------------------------------------------
(* Pushes at the same time: what is served when all is quiet               *)

\* A push to a config repo is under way, or the reload after it: one will come.
Owes(s) ==
    \/ pc[s] \in {"reload"} \cup ReloadStage
    \/ pc[s] \in HookStage \cup {"accepted"} /\ push[s].type \in ConfigRepoType

\* Whoever is at work while a reload is will reload after it.
OthersReload ==
    \A p \in Proc, s \in Session :
        pc[p] \in ReloadStage /\ pc[s] \in HookStage \cup {"accepted"} => Owes(s)

\* A reload with nobody else at work is like one of a server with one session.
\* Those others that were at work when it began are still there.
ReloadsAlone ==
    Alone /\ (\E p \in Proc : pc[p] \in ReloadStage) => LoadsOK /\ FilesOK /\ KeysOK

\* What is served is what the disk means, but for when somebody will reload.
QuietOK ==
    phase = "up" /\ Loadable(master) /\ (\A s \in Session : ~Owes(s)) => served \in Meaning(master)

\* Whoever pushes to a config repo will reload.
PushOK ==
    \A s \in Session : pc[s] \in HookStage \cup {"accepted"} /\ push[s].repo \in ConfigRepo =>
        push[s].type \in ConfigRepoType

QuietInv ==
    /\ BootAlone /\ MainAlone /\ AdminAlone
    /\ PushOK /\ ReloadsAlone /\ QuietOK

\* A push goes through the hooks as it was made.
LEMMA PushGoesOn ==
    ASSUME TypeInv, Next, NEW s \in Session, pc'[s] \in HookStage \cup {"accepted"}
    PROVE  Push(s) \/ (pc[s] \in HookStage \cup {"accepted"} /\ push'[s] = push[s])
<1> USE DEF HookStage
<1>0. ProcOK /\ s \in Proc /\ s # Main /\ Session \subseteq Proc /\ DOMAIN push = Session
  BY ServerAssumption DEF TypeInv, TypeOK, SessionOK, Proc
<1>1. ~Die
  BY <1>0 DEF Die
<1>2. CASE Boot \/ Crash
  BY <1>0, <1>1, <1>2 DEF Boot, Crash, sessVars, ProcOK
<1>3. ASSUME NEW p \in Proc, ProcStep(p) PROVE push' = push /\ pc'[s] = pc[s]
  <2>1. push' = push
    BY <1>1, <1>3 DEF ProcStep, OpenAdminRepo, LoadSub, LockReload, EnsureDone, Publish,
                      ReloadFails, sessVars
  <2>2. pc'[s] = pc[s]
    <3>1. CASE OpenAdminRepo(p) \/ LoadSub(p)
      BY <3>1 DEF OpenAdminRepo, LoadSub
    <3>2. CASE ~(OpenAdminRepo(p) \/ LoadSub(p))
      <4>1. PICK stage, c, u : Begin(p, stage, c, u)
                /\ stage \notin HookStage \cup {"accepted"}
        BY <1>1, <1>3, <3>2 DEF ProcStep, LockReload, EnsureDone, Publish, ReloadFails
      <4> QED BY <1>0, <4>1 DEF Begin, ProcOK
    <3> QED BY <3>1, <3>2
  <2> QED BY <2>1, <2>2
<1>4. ASSUME NEW q \in Session, Authenticate(q) \/ Close(q)
      PROVE  push' = push /\ pc'[s] = pc[s]
  BY <1>0, <1>4 DEF Authenticate, Close, ProcOK
<1>5. ASSUME NEW q \in Session, Push(q) \/ SessionStep(q), q # s
      PROVE  push'[s] = push[s] /\ pc'[s] = pc[s]
  <2>1. pc'[s] = pc[s]
    BY <1>0, <1>5 DEF Push, SessionStep, HookStep, HookContinues, RefUpdate, EndReceivePack,
                      Begin, ProcOK
  <2>2. push' = push \/ \E x : push' = [push EXCEPT ![q] = x]
    BY <1>5 DEF Push, SessionStep, HookStep, HookContinues, RefUpdate, EndReceivePack
  <2> QED BY <1>0, <1>5, <2>1, <2>2
<1>6. CASE SessionStep(s)
  <2>1. ~EndReceivePack(s)
    BY <1>0 DEF EndReceivePack, AfterReceivePack, Begin, ProcOK
  <2> QED BY <1>6, <2>1 DEF SessionStep, HookStep, HookContinues, RefUpdate
<1> QED BY <1>2, <1>3, <1>4, <1>5, <1>6 DEF Next

\* Who pushes to a config repo knows it for one, however many push.
LEMMA PushesStep == ASSUME TypeInv, PushOK, Next PROVE PushOK'
<1> SUFFICES ASSUME NEW s \in Session, pc'[s] \in HookStage \cup {"accepted"},
                    push'[s].repo \in ConfigRepo
             PROVE  push'[s].type \in ConfigRepoType
  BY DEF PushOK
<1>1. CASE Push(s)
  <2>1. PICK path, t, base :
           push' = [push EXCEPT ![s] =
                      [path |-> path, type |-> LookupRepo(ctx[s].config, path).type,
                       repo |-> DiskPath(LookupRepo(ctx[s].config, path)), tree |-> t,
                       base |-> base]]
    BY <1>1 DEF Push
  <2>2. /\ push'[s].type = LookupRepo(ctx[s].config, path).type
        /\ push'[s].repo = DiskPath(LookupRepo(ctx[s].config, path))
    BY <2>1 DEF TypeInv, TypeOK, SessionOK
  <2> QED BY <2>2, ConfigRepoTypes
<1>2. CASE pc[s] \in HookStage \cup {"accepted"} /\ push'[s] = push[s]
  BY <1>2 DEF PushOK
<1> QED BY <1>1, <1>2, PushGoesOn

\* How a process at work comes to rest.
LEMMA Rests ==
    ASSUME TypeInv, Next, ~Die, NEW q \in Proc, Busy(q), ~Busy(q)'
    PROVE  /\ \A p \in Proc : p # q => pc'[p] = pc[p]
           /\ \/ Publish(q) \/ ReloadFails(q)
              \/ q \in Session /\ pc[q] \in HookStage \cup {"accepted"} /\ ~Owes(q)
<1>0. ProcOK /\ Session \subseteq Proc /\ Main \in Proc
  BY DEF TypeInv, TypeOK, Proc
<1>1. pc'[q] # pc[q] /\ pc[q] \notin {"closed", "ready"} /\ pc'[q] \in {"closed", "ready"}
  BY DEF Busy
<1>2. ~Boot /\ ~Crash
  BY <1>0, <1>1 DEF Boot, Crash, ProcOK
<1>3. ASSUME NEW p \in Proc, ProcStep(p)
      PROVE  /\ p = q /\ (Publish(q) \/ ReloadFails(q))
             /\ \A r \in Proc : r # q => pc'[r] = pc[r]
  <2>1. \E stage, c, u : Begin(p, stage, c, u)
    <3>1. ~(OpenAdminRepo(p) \/ LoadSub(p))
      BY <1>1 DEF OpenAdminRepo, LoadSub
    <3> QED BY <1>3, <3>1 DEF ProcStep, LockReload, EnsureDone, Publish, ReloadFails
  <2>2. p = q /\ \A r \in Proc : r # q => pc'[r] = pc[r]
    BY <1>0, <1>1, <2>1 DEF Begin, ProcOK
  <2>3. ~(OpenAdminRepo(p) \/ LoadSub(p) \/ LockReload(p) \/ EnsureDone(p))
    BY <1>0, <1>1, <2>2 DEF OpenAdminRepo, LoadSub, LockReload, EnsureDone, Begin, ProcOK
  <2> QED BY <1>3, <2>2, <2>3 DEF ProcStep
<1>4. ASSUME NEW s \in Session, Authenticate(s) \/ Close(s) \/ Push(s) PROVE FALSE
  BY <1>0, <1>1, <1>4 DEF Authenticate, Close, Push, Begin, ProcOK
<1>5. ASSUME NEW s \in Session, SessionStep(s)
      PROVE  /\ s = q /\ pc[q] \in HookStage \cup {"accepted"} /\ ~Owes(q)
             /\ \A r \in Proc : r # q => pc'[r] = pc[r]
  <2>1. \E stage, c, u : Begin(s, stage, c, u)
    BY <1>5 DEF SessionStep, HookStep, HookContinues, RefUpdate, EndReceivePack
  <2>2. s = q /\ \A r \in Proc : r # q => pc'[r] = pc[r]
    BY <1>0, <1>1, <2>1 DEF Begin, ProcOK
  <2>3. pc[q] \in HookStage \cup {"accepted"}
    BY <1>5, <2>2 DEF SessionStep, HookStep, RefUpdate
  <2>4. EndReceivePack(q)
    BY <1>0, <1>1, <1>5, <2>2
    DEF SessionStep, HookStep, HookContinues, RefUpdate, Begin, ProcOK
  <2>5. push[q].type \notin ConfigRepoType
    BY <1>0, <1>1, <2>4 DEF EndReceivePack, AfterReceivePack, Begin, ProcOK
  <2> QED BY <2>2, <2>3, <2>5 DEF Owes, HookStage, ReloadStage
<1> QED BY <1>2, <1>3, <1>4, <1>5 DEF Next

\* Nobody who was at work with a reload comes to rest before it, so one that has
\* nobody beside it never had.
LEMMA ReloadsAloneStep ==
    ASSUME TypeInv, LockOK, AdminAlone, ReloadsAlone, OthersReload, Next
    PROVE  ReloadsAlone'
<1> SUFFICES ASSUME Alone', NEW p \in Proc, pc'[p] \in ReloadStage
             PROVE  LoadsOK' /\ FilesOK' /\ KeysOK'
  BY DEF ReloadsAlone
<1>0. ~Die /\ Busy(p)'
  BY DEF Die, Busy, ReloadStage
<1>1. pc[p] \in {"reload"} \cup ReloadStage
  BY WhoMoves DEF OpenAdminRepo, LoadSub, LockReload, EnsureDone, ReloadStage, HookStage, Begin,
                  TypeInv, TypeOK, ProcOK
<1>2. Busy(p)
  BY <1>1 DEF Busy, ReloadStage
<1>3. ASSUME NEW q \in Proc, q # p, Busy(q) PROVE FALSE
  <2>1. ~Busy(q)'
    BY <1>0, <1>3 DEF Alone
  <2>2. pc'[p] = pc[p]
    BY <1>0, <1>3, <2>1, Rests
  <2>3. CASE Publish(q) \/ ReloadFails(q)
    BY <1>3, <2>2, <2>3 DEF Publish, ReloadFails, LockOK, ReloadStage
  <2>4. CASE q \in Session /\ pc[q] \in HookStage \cup {"accepted"} /\ ~Owes(q)
    BY <2>2, <2>4 DEF OthersReload
  <2> QED BY <1>0, <1>3, <2>1, <2>3, <2>4, Rests
<1>4. Alone
  BY <1>3 DEF Alone
<1>5. LoadsOK /\ FilesOK /\ KeysOK
  <2>1. CASE pc[p] \in ReloadStage
    BY <1>4, <2>1 DEF ReloadsAlone
  <2>2. CASE pc[p] = "reload"
    <3>1. \A q \in Proc : pc[q] \in {"closed", "ready", "reload"}
      BY <1>3, <2>2 DEF Busy
    <3> QED BY <3>1 DEF LoadsOK, LoadOK, FilesOK, KeysOK, KeyOK, HookStage, ReloadStage
  <2> QED BY <1>1, <2>1, <2>2
<1> QED BY <1>4, <1>5, LoadsStep, FilesStep, KeysStep

\* A reload that leaves nobody to reload after it is alone at its end.
LEMMA LastIsAlone ==
    ASSUME TypeInv, LockOK, BootAlone, MainAlone, OthersReload, NEW p \in Proc, pc[p] \in ReloadStage,
           \A s \in Session : s # p => ~Owes(s)
    PROVE  Alone
<1>1. ASSUME NEW s \in Session, s # p PROVE ~Busy(s)
  <2>1. pc[s] \notin HookStage \cup {"accepted"} \cup {"reload"} \cup ReloadStage
    BY <1>1 DEF OthersReload, Owes
  <2>2. pc[s] \in Stage /\ s \in Proc
    BY DEF TypeInv, TypeOK, ProcOK, Proc
  <2> QED BY <2>1, <2>2 DEF Stage, Busy
<1>2. p # Main => pc[Main] = "closed"
  BY DEF BootAlone, MainAlone, ReloadStage, Proc
<1> QED BY <1>1, <1>2 DEF Alone, Busy, Proc

\* What is served changes with a reload only, and the last one of several is
\* alone.
LEMMA QuietStep ==
    ASSUME TypeInv, LockOK, BootAlone, MainAlone, AdminAlone, PushOK, ReloadsAlone, QuietOK,
           OthersReload, Next
    PROVE  QuietOK'
<1> SUFFICES ASSUME phase' = "up", Loadable(master'), \A s \in Session : ~Owes(s)'
             PROVE  served' \in Meaning(master')
  BY DEF QuietOK
<1>0. ProcOK /\ ~Die /\ ~Boot /\ ~Crash /\ Session \subseteq Proc /\ DOMAIN push = Session
  BY DEF TypeInv, TypeOK, SessionOK, Die, Boot, Crash, Proc
<1>1. ASSUME phase' = phase, master' = master, served' = served,
             \A s \in Session : ~Owes(s)
      PROVE  served' \in Meaning(master')
  BY <1>1 DEF QuietOK
<1>2. ASSUME NEW p \in Proc, OpenAdminRepo(p) \/ LoadSub(p) PROVE served' \in Meaning(master')
  <2>1. UNCHANGED <<pc, master, served, phase, push>>
    BY <1>2 DEF OpenAdminRepo, LoadSub, gitVars, servVars, sessVars
  <2> QED BY <1>1, <2>1 DEF Owes
<1>3. ASSUME NEW p \in Proc, LockReload(p) \/ EnsureDone(p) PROVE FALSE
  <2>1. pc'[p] \in ReloadStage /\ pc[p] # "closed" /\ phase = "up"
    BY <1>0, <1>3 DEF LockReload, EnsureDone, Begin, ProcOK, ReloadStage, servVars
  <2>2. p # Main
    BY <2>1 DEF MainAlone
  <2> QED BY <2>1, <2>2 DEF Proc, Owes
<1>4. ASSUME NEW p \in Proc, Publish(p) \/ ReloadFails(p)
      PROVE  LoadsOK /\ FilesOK /\ KeysOK
  <2>1. pc[p] \in ReloadStage
    BY <1>4 DEF Publish, ReloadFails, ReloadStage
  <2>2. \A s \in Session : s # p => pc'[s] = pc[s] /\ push'[s] = push[s]
    BY <1>0, <1>4 DEF Publish, ReloadFails, sessVars, Begin, ProcOK
  <2>3. \A s \in Session : s # p => ~Owes(s)
    BY <2>2 DEF Owes
  <2> QED BY <2>1, <2>3, LastIsAlone DEF ReloadsAlone
<1>5. ASSUME NEW p \in Proc, Publish(p) PROVE served' \in Meaning(master')
  <2>1. /\ pc[p] = "load" /\ LoadDone(p) /\ job[p].outcome = "ok"
        /\ served' \in Flatten(job[p].config) /\ master' = master
    BY <1>5 DEF Publish, gitVars
  <2> QED BY <1>4, <1>5, <2>1, FindsMeaning DEF LoadsOK, KeysOK
<1>6. ASSUME NEW p \in Proc, ReloadFails(p) PROVE FALSE
  <2>1. p # Main /\ master' = master
    BY <1>0, <1>6 DEF ReloadFails, gitVars
  <2> QED BY <1>4, <1>6, <2>1, ReloadFailsLate
<1>7. ASSUME NEW s \in Session, Authenticate(s) \/ Close(s) PROVE served' \in Meaning(master')
  <2>1. phase' = phase /\ master' = master /\ served' = served /\ push' = push
    BY <1>7 DEF Authenticate, Close, gitVars, servVars
  <2>2. \A t \in Session : pc'[t] = pc[t] \/ pc[t] \in {"closed", "ready"}
    BY <1>0, <1>7 DEF Authenticate, Close, ProcOK
  <2>3. \A t \in Session : ~Owes(t)
    BY <2>1, <2>2 DEF Owes, HookStage, ReloadStage
  <2> QED BY <1>1, <2>1, <2>3
<1>8. ASSUME NEW s \in Session, Push(s) \/ SessionStep(s)
      PROVE  /\ phase' = phase /\ served' = served
             /\ \A t \in Session : t # s => ~Owes(t)
  <2>1. phase' = phase /\ served' = served
    BY <1>8 DEF Push, SessionStep, HookStep, RefUpdate, servVars
  <2>2. \A t \in Session : t # s => pc'[t] = pc[t]
    BY <1>0, <1>8 DEF Push, SessionStep, HookStep, HookContinues, RefUpdate, EndReceivePack,
                      Begin, ProcOK
  <2>3. push' = push \/ \E x : push' = [push EXCEPT ![s] = x]
    BY <1>8 DEF Push, SessionStep, HookStep, HookContinues, RefUpdate, EndReceivePack
  <2>4. \A t \in Session : t # s => push'[t] = push[t]
    BY <1>0, <2>3
  <2> QED BY <2>1, <2>2, <2>4 DEF Owes
<1>9. ASSUME NEW s \in Session, Push(s) PROVE served' \in Meaning(master')
  <2>1. master' = master /\ pc[s] = "ready"
    BY <1>9 DEF Push, gitVars
  <2>2. ~Owes(s)
    BY <2>1 DEF Owes, HookStage, ReloadStage
  <2> QED BY <1>1, <1>8, <1>9, <2>1, <2>2
<1>10. ASSUME NEW s \in Session, SessionStep(s) PROVE ~Owes(s)
  <2>1. pc[s] \in HookStage \cup {"accepted"}
    BY <1>10 DEF SessionStep, HookStep, RefUpdate
  <2>2. CASE EndReceivePack(s)
    <3>1. pc'[s] = AfterReceivePack(push[s].type)
      BY <1>0, <2>2 DEF EndReceivePack, Begin, ProcOK
    <3> QED BY <2>1, <3>1 DEF AfterReceivePack, Owes, HookStage, ReloadStage
  <2>3. CASE ~EndReceivePack(s)
    <3>1. pc'[s] \in HookStage \cup {"accepted"} /\ push' = push
      BY <1>0, <1>10, <2>3 DEF SessionStep, HookStep, HookContinues, RefUpdate, Begin, ProcOK,
                                HookStage
    <3> QED BY <2>1, <3>1 DEF Owes, HookStage, ReloadStage
  <2> QED BY <2>2, <2>3
<1>11. ASSUME NEW s \in Session, SessionStep(s) PROVE served' \in Meaning(master')
  <2>1. master' = master
    <3>1. CASE HookStep(s)
      BY <3>1 DEF HookStep
    <3>2. CASE RefUpdate(s)
      <4>1. pc[s] = "accepted" /\ push[s].type \notin ConfigRepoType
        BY <1>10, <1>11, <3>2 DEF RefUpdate, Owes
      <4>2. push[s].repo \notin ConfigRepo
        BY <4>1 DEF PushOK
      <4> QED BY <3>2, <4>2 DEF RefUpdate
    <3> QED BY <1>11, <3>1, <3>2 DEF SessionStep
  <2> QED BY <1>1, <1>8, <1>10, <1>11, <2>1
<1>12. ASSUME NEW p \in Proc, ProcStep(p) PROVE served' \in Meaning(master')
  BY <1>2, <1>3, <1>5, <1>6, <1>12 DEF ProcStep
<1> QED BY <1>0, <1>7, <1>9, <1>11, <1>12 DEF Next

\* At the start nobody is at work.
LEMMA QuietInit == Init => QuietInv
BY ServerAssumption
DEF Init, QuietInv, BootAlone, MainAlone, AdminAlone, PushOK, ReloadsAlone, QuietOK, HookStage,
    ReloadStage, Proc

\* While whoever pushes beside a reload reloads after it, the invariant stays.
LEMMA QuietInvStep ==
    TypeInv /\ LockOK /\ QuietInv /\ OthersReload /\ [Next]_vars => QuietInv'
<1> SUFFICES ASSUME TypeInv, LockOK, QuietInv, OthersReload, [Next]_vars PROVE QuietInv'
  OBVIOUS
<1>0. BootAlone /\ MainAlone /\ AdminAlone /\ PushOK /\ ReloadsAlone /\ QuietOK
  BY DEF QuietInv
<1>1. CASE Next
  <2>1. BootAlone' /\ MainAlone' /\ AdminAlone'
    BY <1>0, <1>1, BootAloneStep, MainAloneStep, AdminAloneStep
  <2>2. PushOK' /\ ReloadsAlone' /\ QuietOK'
    BY <1>0, <1>1, PushesStep, ReloadsAloneStep, QuietStep
  <2> QED BY <2>1, <2>2 DEF QuietInv
<1>2. CASE UNCHANGED vars
  <2>1. \A p : DiskOf(p)' = DiskOf(p) /\ Worktrees(p)' = Worktrees(p)
    BY <1>2 DEF vars, gitVars, servVars, sessVars, DiskOf, SubTree, Worktrees
  <2>2. (LoadsOK => LoadsOK') /\ (FilesOK => FilesOK') /\ (KeysOK => KeysOK')
    BY <1>2, <2>1 DEF vars, gitVars, LoadsOK, LoadOK, FilesOK, KeysOK, KeyOK
  <2>3. ReloadsAlone'
    BY <1>0, <1>2, <2>2 DEF vars, ReloadsAlone, Alone, Busy
  <2>4. /\ BootAlone' /\ MainAlone' /\ AdminAlone' /\ PushOK'
    BY <1>0, <1>2 DEF vars, gitVars, servVars, sessVars, BootAlone, MainAlone, AdminAlone, PushOK
  <2>5. QuietOK'
    BY <1>0, <1>2 DEF vars, gitVars, servVars, sessVars, QuietOK, Owes
  <2> QED BY <2>3, <2>4, <2>5 DEF QuietInv
<1> QED BY <1>1, <1>2

\* The invariant holds on every such behaviour.
LEMMA QuietAlways == Spec /\ []OthersReload => [](TypeInv /\ ServeInv /\ QuietInv)
<1>1. Init => TypeInv /\ ServeInv /\ QuietInv
  BY TypeInit, ServeInit, QuietInit
<1>2. TypeInv /\ [Next]_vars => TypeInv'
  BY TypeStep
<1>3. TypeInv /\ ServeInv /\ [Next]_vars => ServeInv'
  BY ServeStep
<1>4. TypeInv /\ ServeInv /\ QuietInv /\ OthersReload /\ [Next]_vars => QuietInv'
  BY QuietInvStep DEF ServeInv
<1> QED BY <1>1, <1>2, <1>3, <1>4, PTL DEF Spec

\* Where everyone who pushes while a reload is at work will reload after it,
\* the server serves what the disk means whenever no push is in progress and
\* the disk can be loaded, however many push at once: every way out of
\* cmdRepoAction that may have moved a config repo's branch has reloaded, and
\* the last of the reloads finds nobody else at work. The checkouts of those that
\* push at once are taken not to overlap (OpenAdminRepo is one step).
THEOREM SettledServes == Spec /\ []OthersReload => []SettledServesDisk
<1>1. QuietInv => SettledServesDisk
  BY DEF QuietInv, QuietOK, Owes, SettledServesDisk, InFlight, Idle, HookStage, ReloadStage
<1> QED BY <1>1, QuietAlways, PTL

\* One push at a time is a case of this.
THEOREM OneReloads == Spec /\ []OneInFlight => []OthersReload
<1>1. ASSUME AloneInv, OneInFlight PROVE OthersReload
  BY <1>1, OnlyOne DEF AloneInv, Alone, OthersReload, Busy, Proc, HookStage, ReloadStage
<1>2. AloneInv /\ OneInFlight => OthersReload
  BY <1>1
<1> QED BY <1>2, AloneAlways, PTL

-----------------------------------------------------------------------------
(* What the update hook approves is what lands                             *)

\* The disk as s's push would leave it.
PushedDisk(s) == [master EXCEPT ![push[s].repo] = push[s].tree]

\* What Validate ensures, put as LandedConfigIsValid has it.
ValidFor(disk, new, k) ==
    \E c \in Meaning(disk) : \E u \in UserOfKey(c, k) :
        \A d \in Meaning(new) :
            /\ u \in Keys(d.users)
            /\ \E a \in Keys(d.users) : IsAdmin(d.users[a])
            /\ ~HasGroupLoop(d.groups)

\* A push to a config repo that the hooks have let through leaves a disk that
\* loads, and a valid config.
Approved(s) ==
    pc[s] = "accepted" /\ push[s].repo \in ConfigRepo =>
        /\ Loadable(PushedDisk(s))
        /\ ValidFor(master, PushedDisk(s), ctx[s].key)

ApprovedOK == \A s \in Session : Approved(s)

\* The update hook has loaded and validated this disk.
LEMMA CheckApproves ==
    ASSUME TypeInv, NEW s \in Session, LoadOK(s), Known(s), pc[s] = "check",
           push[s].repo \in ConfigRepo, NEW c, GoesOn(s, c)
    PROVE  /\ Loadable(PushedDisk(s))
           /\ ValidFor(master, PushedDisk(s), ctx[s].key)
<1> DEFINE e == DiskOf(s)  new == PushedDisk(s)
<1>1. /\ LoadDone(s) /\ job[s].outcome = "ok" /\ c \in Flatten(job[s].config)
      /\ Validate(c, job[s].user, ctx[s].key)
      /\ s \in Proc /\ pc[s] \in HookStage \cup ReloadStage
  BY DEF GoesOn, HookPasses, HookStage, Proc
<1>2. /\ Loadable(e) /\ AdminLoads(job[s].tree)
      /\ \A d \in Flatten(job[s].config), x \in Meaning(e) :
            d.users = x.users /\ d.groups = x.groups
  BY <1>1, DoneMeans
<1>3. IsDisk(e) /\ e[AdminRepo] = job[s].tree /\ job[s].tree \in Worktrees(s)
  BY <1>1, DoneLoading
<1>4. \A r \in ConfigRepo : e[r] = new[r]
  <2>1. DOMAIN master = ConfigRepo
    BY DEF TypeInv, TypeOK, GitOK
  <2>2. \A r \in ConfigRepo : new[r] = IF r = push[s].repo THEN push[s].tree ELSE master[r]
    BY <2>1 DEF PushedDisk
  <2>3. \A r \in ConfigRepo \ {AdminRepo} : e[r] = SubTree(s, r)
    BY DEF DiskOf
  <2>4. e[AdminRepo] = IF AdminRepo = push[s].repo THEN push[s].tree ELSE master[AdminRepo]
    BY <1>3 DEF Worktrees
  <2> HIDE DEF e, new
  <2> QED BY <2>2, <2>3, <2>4, AdminRepoTree DEF SubTree
<1> HIDE DEF e, new
<1>5. Loadable(new) /\ Meaning(new) = Meaning(e)
  BY <1>2, <1>3, <1>4, SameDisk
<1>6. PICK m \in Meaning(master) : job[s].user \in UserOfKey(m, ctx[s].key)
  BY DEF Known
<1>7. ASSUME NEW d \in Meaning(new)
      PROVE  /\ job[s].user \in Keys(d.users)
             /\ \E a \in Keys(d.users) : IsAdmin(d.users[a])
             /\ ~HasGroupLoop(d.groups)
  <2>1. d.users = c.users /\ d.groups = c.groups
    BY <1>1, <1>2, <1>5, <1>7
  <2>2. ~HasGroupLoop(c.groups)
    BY <1>1, FindsLoopIsExact DEF Validate, ValidateGroupLoop, HasGroupLoop
  <2> QED BY <1>1, <2>1, <2>2 DEF Validate, ValidateUser, ValidateAdmins
<1>8. ValidFor(master, new, ctx[s].key)
  BY <1>6, <1>7 DEF ValidFor
<1> QED BY <1>5, <1>8 DEF new

\* Every push to a config repo that gets past the update hook is checked by it.
CheckedStep ==
    \A s \in Session : pc[s] = "update" /\ pc'[s] = "accepted" => push[s].repo \notin ConfigRepo

\* What has been approved stays so until it lands: nobody else moves.
LEMMA ApprovedStep ==
    ASSUME TypeInv, LoadsOK, KnownOK, ApprovedOK, Alone, Alone', Next, CheckedStep
    PROVE  ApprovedOK'
<1> SUFFICES ASSUME NEW s \in Session, pc'[s] = "accepted", push'[s].repo \in ConfigRepo
             PROVE  /\ Loadable(PushedDisk(s)')
                    /\ ValidFor(master', PushedDisk(s)', ctx'[s].key)
  BY DEF ApprovedOK, Approved
<1>0. ProcOK /\ s \in Proc /\ pc'[s] \in HookStage \cup ReloadStage \cup {"accepted"}
  BY DEF TypeInv, TypeOK, Proc
<1>1. CASE Quiet(s)
  <2>1. pc'[s] = pc[s] /\ UNCHANGED <<master, push>> /\ ctx'[s] = ctx[s]
    BY <1>1 DEF Quiet, gitVars
  <2>2. PushedDisk(s)' = PushedDisk(s)
    BY <2>1 DEF PushedDisk
  <2> QED BY <2>1, <2>2 DEF ApprovedOK, Approved
<1>2. CASE OpenAdminRepo(s) \/ LoadSub(s)
  <2>1. pc' = pc /\ pc[s] \in HookStage \cup ReloadStage
    BY <1>0, <1>2, LoadStep DEF LoadsOK
  <2> QED BY <2>1 DEF HookStage, ReloadStage
<1>3. CASE LockReload(s) \/ EnsureDone(s) \/ Push(s)
  <2>1. pc'[s] \in {"ensure", "admin", "load", "pre"}
    BY <1>0, <1>3 DEF LockReload, EnsureDone, Push, Begin, ProcOK
  <2> QED BY <2>1
<1>4. CASE \E c : GoesOn(s, c)
  <2>1. PICK c : GoesOn(s, c)
    BY <1>4
  <2>2. UNCHANGED <<master, ctx, push>>
    BY <2>1 DEF GoesOn, HookContinues
  <2>3. PushedDisk(s)' = PushedDisk(s)
    BY <2>2 DEF PushedDisk
  <2>4. pc[s] \in {"update", "check"}
    <3>1. ASSUME Begin(s, "update", NewConfig, NoUser) PROVE FALSE
      BY <1>0, <3>1, BeginFresh
    <3> QED BY <2>1, <3>1 DEF GoesOn, HookContinues
  <2>5. pc[s] = "check"
    BY <2>2, <2>4 DEF CheckedStep
  <2> QED BY <1>0, <2>1, <2>2, <2>3, <2>5, CheckApproves DEF LoadsOK, KnownOK
<1> QED BY <1>0, <1>1, <1>2, <1>3, <1>4, Arrives

\* The disk the server can be started on.
Startable(disk) ==
    \A t \in EnsureAdminConfig(disk[AdminRepo]) : Loadable([disk EXCEPT ![AdminRepo] = t])

\* It may be any disk that loads,
LEMMA LoadableIsStartable ==
    ASSUME TypeInv', Loadable(master') PROVE Startable(master')
<1>1. IsDisk(master')
  BY DEF TypeInv, TypeOK, GitOK, IsDisk
<1> QED BY <1>1, LoadableStarts DEF Startable

\* or the one a commit of what has been loaded leaves.
LEMMA CommitIsStartable ==
    ASSUME TypeInv, LoadsOK, FilesOK, TypeInv', NEW p \in Proc, EnsureDone(p)
    PROVE  Startable(master')
<1>1. /\ pc[p] \in HookStage \cup ReloadStage /\ LoadDone(p) /\ job[p].outcome = "ok"
  BY DEF EnsureDone, ReloadStage
<1>2. Loadable(DiskOf(p)) /\ IsDisk(DiskOf(p))
  BY <1>1, DoneMeans, DoneLoading DEF LoadsOK
<1>3. \A r \in ConfigRepo : DiskOf(p)[r] = master'[r]
  BY EnsureCommits
<1> QED BY <1>2, <1>3, SameDisk, LoadableIsStartable

\* It is changed by commits of what has been loaded and by approved pushes.
LEMMA StartableStep ==
    ASSUME TypeInv, AloneInv, ApprovedOK, Alone, Next, TypeInv', Startable(master)
    PROVE  Startable(master')
<1>0. LoadsOK /\ FilesOK
  BY DEF AloneInv
<1>2. ASSUME Loadable(master') PROVE Startable(master')
  BY <1>2, LoadableIsStartable
<1>3. ASSUME NEW p \in Proc, EnsureDone(p) PROVE Startable(master')
  BY <1>0, <1>3, CommitIsStartable
<1>4. ASSUME NEW s \in Session, RefUpdate(s) PROVE Startable(master')
  <2>1. CASE master' = master
    BY <2>1
  <2>2. CASE master' # master
    <3>1. /\ pc[s] = "accepted" /\ push[s].repo \in ConfigRepo /\ master' = PushedDisk(s)
      BY <1>4, <2>2 DEF RefUpdate, PushedDisk
    <3> QED BY <1>2, <3>1 DEF ApprovedOK, Approved
  <2> QED BY <2>1, <2>2
<1>5. ASSUME ~\E p \in Proc : EnsureDone(p), ~\E s \in Session : RefUpdate(s)
      PROVE  master' = master
  BY <1>5 DEF Next, Boot, Crash, Die, ProcStep, OpenAdminRepo, LoadSub, LockReload, Publish,
              ReloadFails, Authenticate, Close, Push, SessionStep, HookStep, gitVars
<1> QED BY <1>3, <1>4, <1>5

\* Under the update hook's check the invariant holds with what it approves.
LEMMA ApprovedAlways ==
    Spec /\ []OneInFlight /\ ConfigPushesAreChecked => [](TypeInv /\ AloneInv /\ ApprovedOK)
<1>1. Init => ApprovedOK
  BY DEF Init, ApprovedOK, Approved, Proc
<1>2. ASSUME TypeInv, AloneInv, ApprovedOK, OneInFlight, [Next]_vars, [CheckedStep]_vars,
             AloneInv', OneInFlight'
      PROVE  ApprovedOK'
  <2>1. CASE Next /\ CheckedStep
    <3>1. Alone /\ Alone' /\ LoadsOK /\ KnownOK
      <4>1. Alone
        BY <1>2, OnlyOne DEF AloneInv
      <4>2. Alone'
        BY <1>2 DEF AloneInv, BootAlone, MainAlone, OneInFlight, Alone, Busy, Idle, Proc
      <4> QED BY <1>2, <4>1, <4>2 DEF AloneInv
    <3> QED BY <1>2, <2>1, <3>1, ApprovedStep
  <2>2. CASE UNCHANGED vars
    <3>1. \A s : PushedDisk(s)' = PushedDisk(s)
      BY <2>2 DEF vars, gitVars, sessVars, PushedDisk
    <3> QED BY <1>2, <2>2, <3>1 DEF vars, gitVars, sessVars, ApprovedOK, Approved
  <2> QED BY <1>2, <2>1, <2>2
<1>3. TypeInv /\ AloneInv /\ ApprovedOK /\ OneInFlight /\ [Next]_vars /\ [CheckedStep]_vars
        /\ AloneInv' /\ OneInFlight' => ApprovedOK'
  BY <1>2
<1> QED BY <1>1, <1>3, AloneAlways, PTL DEF Spec, ConfigPushesAreChecked, CheckedStep

\* A push that lands leaves a config that has an admin, no group loop and still
\* lists the pusher, where the update hook checks every push to a config repo.
THEOREM LandsValid == Spec /\ []OneInFlight /\ ConfigPushesAreChecked => LandedConfigIsValid
<1> DEFINE Valid == \A s \in Session : Lands(s) =>
                       \E c \in Meaning(master) : \E u \in UserOfKey(c, ctx[s].key) :
                           \A d \in Meaning(master)' :
                              /\ u \in Keys(d.users)
                              /\ \E a \in Keys(d.users) : IsAdmin(d.users[a])
                              /\ ~HasGroupLoop(d.groups)
<1>1. ASSUME TypeInv, AloneInv, ApprovedOK, OneInFlight, [Next]_vars PROVE [Valid]_vars
  <2> SUFFICES ASSUME Next, NEW s \in Session, Lands(s)
               PROVE  ValidFor(master, master', ctx[s].key)
    BY <1>1 DEF ValidFor
  <2>0. ProcOK /\ s \in Proc /\ Session \subseteq Proc /\ Alone
    BY <1>1, OnlyOne DEF TypeInv, TypeOK, AloneInv, Proc
  <2>1. pc[s] = "accepted" /\ version' # version
    BY DEF Lands
  <2>2. ASSUME NEW p \in Proc, EnsureDone(p) PROVE FALSE
    BY <2>0, <2>1, <2>2 DEF EnsureDone, Alone, Busy
  <2>3. ASSUME NEW t \in Session, RefUpdate(t) PROVE t = s
    BY <2>0, <2>1, <2>3 DEF RefUpdate, Alone, Busy
  <2>4. \E t \in Session : RefUpdate(t)
    BY <2>1, <2>2 DEF Next, Boot, Crash, Die, ProcStep, OpenAdminRepo, LoadSub, LockReload, Publish,
              ReloadFails, Authenticate, Close, Push, SessionStep, HookStep, gitVars
  <2>5. push[s].repo \in ConfigRepo /\ master' = PushedDisk(s)
    BY <2>1, <2>3, <2>4 DEF RefUpdate, PushedDisk
  <2> QED BY <1>1, <2>1, <2>5 DEF ApprovedOK, Approved
<1>2. TypeInv /\ AloneInv /\ ApprovedOK /\ OneInFlight /\ [Next]_vars => [Valid]_vars
  BY <1>1
<1> QED BY <1>2, ApprovedAlways, PTL DEF Spec, LandedConfigIsValid

\* So the server can always be started again, if it could be started first,
\* whatever was pushed and wherever its last run stopped.
THEOREM StaysStartable ==
    ASSUME \A d \in InitialDisk : Startable(d)
    PROVE  Spec /\ []OneInFlight /\ ConfigPushesAreChecked => []DiskStaysStartable
<1>1. Init => DiskStaysStartable
  BY DEF Init, DiskStaysStartable, Startable
<1>2. ASSUME TypeInv, AloneInv, ApprovedOK, OneInFlight, [Next]_vars, TypeInv', DiskStaysStartable
      PROVE  DiskStaysStartable'
  <2>1. Startable(master)
    BY <1>2 DEF DiskStaysStartable, Startable
  <2>2. CASE Next
    <3>1. Alone
      BY <1>2, OnlyOne DEF AloneInv
    <3>2. Startable(master')
      BY <1>2, <2>1, <2>2, <3>1, StartableStep
    <3> QED BY <3>2 DEF DiskStaysStartable, Startable
  <2>3. CASE UNCHANGED vars
    BY <1>2, <2>3 DEF vars, gitVars, DiskStaysStartable
  <2> QED BY <1>2, <2>2, <2>3
<1>3. TypeInv /\ AloneInv /\ ApprovedOK /\ OneInFlight /\ [Next]_vars /\ TypeInv'
        /\ DiskStaysStartable => DiskStaysStartable'
  BY <1>2
<1> QED BY <1>1, <1>3, ApprovedAlways, PTL DEF Spec

\* A config.yml that does not parse was there from the start.
ParsesOK == version[AdminRepo] = 0 \/ master[AdminRepo].yml = "ok"

\* What lands has been loaded, and so has what the server commits.
LEMMA ParsesStep ==
    ASSUME TypeInv, AloneInv, ApprovedOK, ParsesOK, Next
    PROVE  ParsesOK'
<1>0. LoadsOK /\ FilesOK
  BY DEF AloneInv
<1>1. ASSUME NEW p \in Proc, EnsureDone(p) PROVE ParsesOK'
  <2>1. /\ pc[p] \in HookStage \cup ReloadStage /\ LoadDone(p) /\ job[p].outcome = "ok"
    BY <1>1 DEF EnsureDone, ReloadStage
  <2>2. AdminLoads(job[p].tree)
    BY <1>0, <2>1, DoneMeans DEF LoadsOK
  <2>3. master'[AdminRepo] = job[p].tree
    BY <1>0, <1>1, EnsureCommits
  <2> QED BY <2>2, <2>3 DEF ParsesOK, AdminLoads
<1>2. ASSUME NEW s \in Session, RefUpdate(s) PROVE ParsesOK'
  <2>1. CASE master' = master /\ version' = version
    BY <2>1 DEF ParsesOK
  <2>2. CASE ~(master' = master /\ version' = version)
    <3>1. /\ pc[s] = "accepted" /\ push[s].repo \in ConfigRepo /\ master' = PushedDisk(s)
      BY <1>2, <2>2 DEF RefUpdate, PushedDisk
    <3>2. Loadable(master')
      BY <3>1 DEF ApprovedOK, Approved
    <3> QED BY <3>2 DEF ParsesOK, Loadable, AdminLoads
  <2> QED BY <2>1, <2>2
<1>3. ASSUME ~\E p \in Proc : EnsureDone(p), ~\E s \in Session : RefUpdate(s)
      PROVE  master' = master /\ version' = version
  BY <1>3 DEF Next, Boot, Crash, Die, ProcStep, OpenAdminRepo, LoadSub, LockReload, Publish,
              ReloadFails, Authenticate, Close, Push, SessionStep, HookStep, gitVars
<1> QED BY <1>1, <1>2, <1>3 DEF ParsesOK

\* EnsureConfig and EnsureAdminUser only complete the admin repo: nothing a
\* person wrote into it is lost, and the only config.yml they replace is one
\* that was there at the start and does not parse.
THEOREM CommitsComplete == Spec /\ []OneInFlight /\ ConfigPushesAreChecked => ServerOnlyCompletes
<1> DEFINE Only == \A p \in Proc :
                     lock = p /\ master' # master /\ pc' # pc /\ pc[p] \in {"ensure", "admin"} =>
                       /\ Completes(master'[AdminRepo], master[AdminRepo])
                       /\ master[AdminRepo].yml = "ok" \/ version[AdminRepo] = 0
<1>1. ASSUME TypeInv, AloneInv, OneInFlight, [Next]_vars, NEW p \in Proc, master' # master,
             pc[p] \in {"ensure", "admin"}
      PROVE  Completes(master'[AdminRepo], master[AdminRepo])
  <2>0. LoadsOK /\ FilesOK /\ AdminAlone /\ Alone /\ Next /\ Session \subseteq Proc
    BY <1>1, OnlyOne DEF AloneInv, vars, gitVars, Proc
  <2>1. \/ \E q \in Proc : EnsureDone(q)
        \/ \E s \in Session : RefUpdate(s)
    BY <1>1, <2>0 DEF Next, Boot, Crash, Die, ProcStep, OpenAdminRepo, LoadSub, LockReload, Publish,
                ReloadFails, Authenticate, Close, Push, SessionStep, HookStep, gitVars
  <2>2. ASSUME NEW s \in Session, RefUpdate(s) PROVE FALSE
    BY <1>1, <2>0, <2>2 DEF RefUpdate, Alone, Busy
  <2>3. PICK q \in Proc : EnsureDone(q)
    BY <2>1, <2>2
  <2>4. q = p
    BY <1>1, <2>0, <2>3 DEF EnsureDone, Alone, Busy
  <2>5. EnsureDone(p) /\ LoadDone(p) /\ pc[p] \in HookStage \cup ReloadStage
    BY <2>3, <2>4 DEF EnsureDone, ReloadStage
  <2>6. master'[AdminRepo] = job[p].tree /\ job[p].tree \in Worktrees(p)
    BY <1>1, <2>0, <2>5, EnsureCommits, DoneLoading DEF LoadsOK
  <2>7. job[p].tree \in Ensured(master[AdminRepo])
    BY <1>1, <2>6 DEF Worktrees, Ensured, TypeInv, BootOK
  <2>8. master[AdminRepo] \in AdminTree
    BY <1>1, AdminRepoTree DEF TypeInv, TypeOK, GitOK
  <2> QED BY <2>6, <2>7, <2>8, EnsuredCompletes
<1>2. TypeInv /\ AloneInv /\ ParsesOK /\ OneInFlight /\ [Next]_vars => [Only]_vars
  BY <1>1 DEF ParsesOK
<1>3. Init => ParsesOK
  BY AdminRepoTree DEF Init, ParsesOK
<1>4. TypeInv /\ AloneInv /\ ApprovedOK /\ ParsesOK /\ [Next]_vars => ParsesOK'
  BY ParsesStep DEF vars, gitVars, ParsesOK
<1> HIDE DEF Only
<1>5. Spec /\ []OneInFlight /\ ConfigPushesAreChecked => [][Only]_vars
  BY <1>2, <1>3, <1>4, ApprovedAlways, PTL DEF Spec
<1> QED BY <1>5 DEF Only, ServerOnlyCompletes

-----------------------------------------------------------------------------
(* Where nobody changes the prefixes, every push to a config repo is       *)
(* checked                                                                 *)

\* The prefixes of a fresh config.
PlainOptions(o) == o.orgPrefix = OrgSigil /\ o.userPrefix = UserSigil
PlainTree(t) == t.yml = "ok" => PlainOptions(t.options)
\* The names config repos have under them.
PlainPath(path) == path = AdminPath \/ (path.sigil \in {OrgSigil, UserSigil} /\ Len(path.parts) = 1)

\* No config the server is started on, and none that is pushed, has others.
PrefixesStay ==
    /\ \A d \in InitialDisk : PlainTree(d[AdminRepo])
    /\ \A t \in Proposal[AdminRepo] : PlainTree(t)

TreesPlain ==
    /\ PlainTree(master[AdminRepo]) /\ PlainTree(index)
    /\ \A s \in Session : push[s].repo = AdminRepo => PlainTree(push[s].tree)

ConfigsPlain ==
    /\ PlainOptions(served.options)
    /\ \A s \in Session : PlainOptions(ctx[s].config.options)
    /\ \A p \in Proc : PlainOptions(job[p].config.options)

\* What is pushed to is a config repo by its name.
PathsPlain ==
    \A s \in Session : pc[s] \in HookStage /\ push[s].repo \in ConfigRepo => PlainPath(push[s].path)

PlainInv == TreesPlain /\ ConfigsPlain /\ PathsPlain

\* Under these prefixes a config repo is found by its name,
LEMMA PlainNames ==
    ASSUME NEW c, NEW path, PlainOptions(c.options), DiskPath(LookupRepo(c, path)) \in ConfigRepo
    PROVE  PlainPath(path)
<1>1. LookupRepo(c, path).type \in ConfigRepoType
  BY ConfigRepoTypes
<1> SUFFICES ASSUME path # AdminPath PROVE PlainPath(path)
  BY DEF PlainPath
<1>2. CASE path.sigil = OrgSigil
  <2>1. LookupOrgRepo(c, path.parts).type \in ConfigRepoType
    BY <1>1, <1>2 DEF LookupRepo, PlainOptions
  <2>2. Len(path.parts) = 1
    BY <2>1 DEF LookupOrgRepo, ConfigRepoType, NoRepo
  <2> QED BY <1>2, <2>2 DEF PlainPath
<1>3. CASE path.sigil # OrgSigil /\ path.sigil = UserSigil
  <2>1. LookupUserRepo(c, path.parts).type \in ConfigRepoType
    BY <1>1, <1>3 DEF LookupRepo, PlainOptions
  <2>2. Len(path.parts) = 1
    BY <2>1 DEF LookupUserRepo, ConfigRepoType, NoRepo
  <2> QED BY <1>3, <2>2 DEF PlainPath
<1>4. CASE path.sigil # OrgSigil /\ path.sigil # UserSigil
  <2>1. LookupTopLevelRepo(c, path).type \in ConfigRepoType
    BY <1>1, <1>4 DEF LookupRepo, PlainOptions
  <2> QED BY <2>1 DEF LookupTopLevelRepo, ConfigRepoType, NoRepo
<1> QED BY <1>2, <1>3, <1>4

\* and by that name nothing else is.
LEMMA NamesStay ==
    ASSUME NEW c, NEW path, PlainOptions(c.options), PlainPath(path), LookupRepo(c, path) # NoRepo
    PROVE  LookupRepo(c, path).type \in ConfigRepoType
<1>1. CASE path = AdminPath
  BY <1>1 DEF LookupRepo, ConfigRepoType
<1>2. CASE path # AdminPath
  <2>1. path.sigil \in {OrgSigil, UserSigil} /\ Len(path.parts) = 1
    BY <1>2 DEF PlainPath
  <2>2. CASE path.sigil = OrgSigil
    <3>1. LookupRepo(c, path) = LookupOrgRepo(c, path.parts)
      BY <1>2, <2>2 DEF LookupRepo, PlainOptions
    <3> QED BY <2>1, <3>1 DEF LookupOrgRepo, ConfigRepoType
  <2>3. CASE path.sigil # OrgSigil
    <3>1. LookupRepo(c, path) = LookupUserRepo(c, path.parts)
      BY <1>2, <2>1, <2>3 DEF LookupRepo, PlainOptions
    <3> QED BY <2>1, <3>1 DEF LookupUserRepo, ConfigRepoType
  <2> QED BY <2>2, <2>3
<1> QED BY <1>1, <1>2

\* Opening the admin repo changes the options to those it has.
LEMMA OpenedOptions ==
    ASSUME NEW j \in JobType, NEW t, NEW v
    PROVE  \/ OpenedJob(j, t, v).config.options = j.config.options
           \/ t.yml = "ok" /\ OpenedJob(j, t, v).config.options = t.options
<1>1. LoadAdminConfig(j.config, t).options = t.options
  BY DEF LoadAdminConfig
<1>2. \/ OpenedJob(j, t, v).config = j.config
      \/ t.yml = "ok" /\ OpenedJob(j, t, v).config = LoadAdminConfig(j.config, t)
  BY DEF OpenedJob, JobType, AdminLoads
<1> QED BY <1>1, <1>2

\* Opening one of the others keeps them.
LEMMA LoadedOptions ==
    ASSUME NEW j \in JobType, NEW r, NEW t, NEW v
    PROVE  LoadedJob(j, r, t, v).config.options = j.config.options
<1>1. LoadSubConfig(j.config, r, t).options = j.config.options
  BY DEF LoadSubConfig, JobType, ConfigType
<1>2. LoadedJob(j, r, t, v).config \in {j.config, LoadSubConfig(j.config, r, t)}
  BY DEF LoadedJob, JobType
<1> QED BY <1>1, <1>2

\* Ensuring adds the prefixes of a fresh config at most.
LEMMA WorktreesPlain ==
    ASSUME TypeInv, TreesPlain, NEW p \in Proc, NEW t \in Worktrees(p)
    PROVE  PlainTree(t)
<1> DEFINE old == master[AdminRepo]
<1>1. old \in AdminTree /\ PlainTree(old)
  BY AdminRepoTree DEF TypeInv, TypeOK, GitOK, TreesPlain
<1> HIDE DEF old
<1>2. ASSUME NEW x \in EnsureAdminConfig(old) PROVE PlainTree(x) /\ x \in AdminTree
  <2>1. EnsureConfigYaml(old) \in AdminTree /\ PlainTree(EnsureConfigYaml(old))
    <3>1. CASE old.yml \in {"missing", "syntax"}
      <4>1. EnsureConfigYaml(old).options = DefaultOptions
        BY <3>1 DEF EnsureConfigYaml, EmptyAdminTree
      <4>2. EnsureConfigYaml(old) \in AdminTree
        BY <1>1, <3>1, EmptyAdminTreeType DEF EnsureConfigYaml, AdminTree
      <4> QED BY <4>1, <4>2 DEF PlainTree, PlainOptions, DefaultOptions
    <3>2. CASE old.yml \notin {"missing", "syntax"}
      BY <1>1, <3>2 DEF EnsureConfigYaml, AdminTree, PlainTree
    <3> QED BY <3>1, <3>2
  <2> DEFINE y == EnsureConfigYaml(old)
  <2> HIDE DEF y
  <2>2. \A k \in HostKey : LET z == [y EXCEPT !.hostKey = k] IN z \in AdminTree /\ PlainTree(z)
    BY <2>1 DEF y, AdminTree, PlainTree
  <2> QED BY <1>2, <2>1, <2>2 DEF EnsureAdminConfig, y
<1>3. ASSUME NEW x \in EnsureAdminConfig(old), AdminUser \in User
      PROVE  PlainTree(EnsureAdminUser(x, AdminUser, AdminKey))
  <2>1. /\ EnsureAdminUser(x, AdminUser, AdminKey).options = x.options
        /\ EnsureAdminUser(x, AdminUser, AdminKey).yml = x.yml
    BY <1>2, <1>3, ServerAssumption, EnsureUserKeeps
  <2> QED BY <1>2, <2>1 DEF PlainTree
<1>4. pc[p] = "admin" => AdminUser \in User
  BY DEF TypeInv, BootOK
<1>5. ASSUME pc[p] = "check" /\ push[p].repo = AdminRepo PROVE PlainTree(push[p].tree)
  <2>1. pc[Main] # "check"
    BY DEF TypeInv, MainOK, ReloadStage
  <2> QED BY <1>5, <2>1 DEF TreesPlain, Proc
<1> QED BY <1>1, <1>2, <1>3, <1>4, <1>5 DEF Worktrees, old

\* A fresh tree and a fresh config have them.
LEMMA FreshIsPlain ==
    /\ PlainOptions(NewConfig.options) /\ PlainTree(NoPush.tree)
    /\ PlainOptions(NoContext.config.options) /\ PlainOptions(NoJob.config.options)
<1>1. PlainOptions(NewConfig.options)
  BY DEF NewConfig, DefaultOptions, PlainOptions
<1>2. PlainTree(NoPush.tree)
  BY DEF NoPush, EmptyAdminTree, PlainTree
<1> QED BY <1>1, <1>2 DEF NoContext, NoJob

\* The trees of the admin repo stay plain.
LEMMA TreesStep == ASSUME PrefixesStay, TypeInv, TreesPlain, Next PROVE TreesPlain'
<1>0. DOMAIN master = ConfigRepo /\ DOMAIN push = Session /\ AdminRepo \in ConfigRepo
  BY AdminRepoTree DEF TypeInv, TypeOK, GitOK, SessionOK
<1>1. ASSUME UNCHANGED <<master, index, push>> PROVE TreesPlain'
  BY <1>1 DEF TreesPlain
<1>2. CASE Boot
  BY <1>1, <1>2 DEF Boot, gitVars, sessVars
<1>3. ASSUME Die PROVE TreesPlain'
  BY <1>3, FreshIsPlain DEF Die, gitVars, TreesPlain
<1>4. ASSUME NEW p \in Proc, OpenAdminRepo(p) PROVE TreesPlain'
  <2>1. PICK t \in Worktrees(p) : index' = t
    BY <1>4 DEF OpenAdminRepo
  <2>2. UNCHANGED <<master, push>>
    BY <1>4 DEF OpenAdminRepo, sessVars
  <2>3. PlainTree(t)
    BY WorktreesPlain
  <2> QED BY <2>1, <2>2, <2>3 DEF TreesPlain
<1>5. ASSUME NEW p \in Proc, LoadSub(p) \/ LockReload(p) \/ Publish(p) PROVE TreesPlain'
  BY <1>1, <1>5 DEF LoadSub, LockReload, Publish, gitVars, sessVars
<1>6. ASSUME NEW p \in Proc, EnsureDone(p) PROVE TreesPlain'
  <2>1. index' = index /\ push' = push /\ master' \in {master, [master EXCEPT ![AdminRepo] = index]}
    BY <1>6 DEF EnsureDone, CommitAdminRepo, gitVars, sessVars
  <2>2. master'[AdminRepo] \in {master[AdminRepo], index}
    BY <1>0, <2>1
  <2> QED BY <2>1, <2>2 DEF TreesPlain
<1>7. ASSUME NEW p \in Proc, ReloadFails(p) PROVE TreesPlain'
  BY <1>1, <1>3, <1>7 DEF ReloadFails, gitVars, sessVars
<1>8. ASSUME NEW s \in Session, Authenticate(s) \/ Close(s) PROVE TreesPlain'
  BY <1>1, <1>8 DEF Authenticate, Close, gitVars
<1>9. ASSUME NEW s \in Session, Push(s) PROVE TreesPlain'
  <2>1. PICK path, t, base :
           /\ path \in PushPath
           /\ t \in ProposedFor(DiskPath(LookupRepo(ctx[s].config, path)))
           /\ push' = [push EXCEPT ![s] =
                        [path |-> path, type |-> LookupRepo(ctx[s].config, path).type,
                         repo |-> DiskPath(LookupRepo(ctx[s].config, path)), tree |-> t,
                         base |-> base]]
    BY <1>9 DEF Push
  <2>2. UNCHANGED <<master, index>>
    BY <1>9 DEF Push, gitVars
  <2>3. push'[s].repo = AdminRepo => PlainTree(push'[s].tree)
    BY <1>0, <2>1 DEF ProposedFor, PrefixesStay
  <2>4. \A q \in Session : q # s => push'[q] = push[q]
    BY <1>0, <2>1
  <2> QED BY <2>2, <2>3, <2>4 DEF TreesPlain
<1>10. ASSUME NEW s \in Session, push' \in {push, [push EXCEPT ![s] = NoPush]}
       PROVE  \A q \in Session : push'[q].repo = AdminRepo => PlainTree(push'[q].tree)
  BY <1>0, <1>10, FreshIsPlain DEF TreesPlain
<1>11. ASSUME NEW s \in Session, HookStep(s) PROVE TreesPlain'
  <2>1. master' = master /\ push' \in {push, [push EXCEPT ![s] = NoPush]}
    BY <1>11 DEF HookStep, HookContinues, EndReceivePack
  <2>2. index' = index \/ (push[s].repo = AdminRepo /\ index' = push[s].tree)
    BY <1>11 DEF HookStep, HookContinues
  <2> QED BY <1>10, <2>1, <2>2 DEF TreesPlain
<1>12. ASSUME NEW s \in Session, RefUpdate(s) PROVE TreesPlain'
  <2>1. index' = index /\ push' \in {push, [push EXCEPT ![s] = NoPush]}
    BY <1>12 DEF RefUpdate, EndReceivePack
  <2>2. master' \in {master, [master EXCEPT ![push[s].repo] = push[s].tree]}
    BY <1>12 DEF RefUpdate
  <2>3. master'[AdminRepo] = master[AdminRepo]
        \/ (push[s].repo = AdminRepo /\ master'[AdminRepo] = push[s].tree)
    BY <1>0, <2>2
  <2> QED BY <1>10, <2>1, <2>3 DEF TreesPlain
<1> QED BY <1>2, <1>3, <1>4, <1>5, <1>6, <1>7, <1>8, <1>9, <1>11, <1>12
        DEF Next, Crash, ProcStep, SessionStep

\* So do the configs loaded from them.
LEMMA ConfigsStep == ASSUME TypeInv, TreesPlain, ConfigsPlain, Next PROVE ConfigsPlain'
<1>0. /\ job \in [Proc -> JobType] /\ ctx \in [Session -> ContextType] /\ ProcOK
      /\ Session \subseteq Proc
  BY DEF TypeInv, TypeOK, ProcOK, SessionOK, Proc
<1>1. ASSUME NEW p \in Proc, NEW c, PlainOptions(c.options), NEW stage, NEW u,
             Begin(p, stage, c, u)
      PROVE  \A q \in Proc : PlainOptions(job'[q].config.options)
  <2>1. job'[p].config = c
    BY <1>0, <1>1, BeginFresh
  <2>2. \A q \in Proc : q # p => job'[q] = job[q]
    BY <1>0, <1>1 DEF Begin
  <2> QED BY <1>1, <2>1, <2>2 DEF ConfigsPlain
<1>2. ASSUME NEW p \in Proc, NEW d \in Flatten(job[p].config) PROVE PlainOptions(d.options)
  <2>1. job[p].config \in ConfigType
    BY <1>0 DEF JobType
  <2>2. d.options = job[p].config.options
    BY <1>2, <2>1, FlattenFields
  <2> QED BY <2>2 DEF ConfigsPlain
<1>3. ASSUME Die PROVE ConfigsPlain'
  BY <1>3, FreshIsPlain DEF Die, ConfigsPlain
<1>4. CASE Boot
  BY <1>4 DEF Boot, sessVars, ConfigsPlain
<1>5. ASSUME NEW p \in Proc, OpenAdminRepo(p) \/ LoadSub(p) PROVE ConfigsPlain'
  <2>1. UNCHANGED <<served, ctx>>
    BY <1>5 DEF OpenAdminRepo, LoadSub, servVars, sessVars
  <2>2. /\ \A q \in Proc : q # p => job'[q] = job[q]
        /\ \/ \E t \in Worktrees(p) : \E v : job'[p] = OpenedJob(job[p], t, v)
           \/ \E r, t, v : job'[p] = LoadedJob(job[p], r, t, v)
    BY <1>0, <1>5 DEF OpenAdminRepo, LoadSub
  <2>3. \A t \in Worktrees(p) : PlainTree(t)
    BY WorktreesPlain
  <2>4. PlainOptions(job'[p].config.options)
    <3>1. ASSUME NEW t \in Worktrees(p), NEW v
          PROVE  PlainOptions(OpenedJob(job[p], t, v).config.options)
      <4>1. \/ OpenedJob(job[p], t, v).config.options = job[p].config.options
            \/ t.yml = "ok" /\ OpenedJob(job[p], t, v).config.options = t.options
        BY <1>0, OpenedOptions
      <4> QED BY <2>3, <4>1 DEF PlainTree, ConfigsPlain
    <3>2. ASSUME NEW r, NEW t, NEW v PROVE PlainOptions(LoadedJob(job[p], r, t, v).config.options)
      BY <1>0, LoadedOptions DEF ConfigsPlain
    <3> QED BY <2>2, <3>1, <3>2
  <2> QED BY <2>1, <2>2, <2>4 DEF ConfigsPlain
<1>6. ASSUME NEW p \in Proc, LockReload(p) PROVE ConfigsPlain'
  <2>1. UNCHANGED <<served, ctx>> /\ Begin(p, "ensure", NewConfig, NoUser)
    BY <1>6 DEF LockReload, sessVars
  <2> QED BY <1>1, <2>1, FreshIsPlain DEF ConfigsPlain
<1>7. ASSUME NEW p \in Proc, EnsureDone(p) PROVE ConfigsPlain'
  <2>1. PICK c, stage : c \in Flatten(job[p].config) /\ Begin(p, stage, c, NoUser)
    BY <1>7 DEF EnsureDone
  <2>2. UNCHANGED <<served, ctx>>
    BY <1>7 DEF EnsureDone, servVars, sessVars
  <2> QED BY <1>1, <1>2, <2>1, <2>2 DEF ConfigsPlain
<1>8. ASSUME NEW p \in Proc, Publish(p) PROVE ConfigsPlain'
  <2>1. \E stage : Begin(p, stage, NewConfig, NoUser)
    BY <1>8 DEF Publish
  <2>2. ctx' = ctx /\ served' \in Flatten(job[p].config)
    BY <1>8 DEF Publish, sessVars
  <2> QED BY <1>1, <1>2, <2>1, <2>2, FreshIsPlain DEF ConfigsPlain
<1>9. ASSUME NEW p \in Proc, ReloadFails(p) PROVE ConfigsPlain'
  <2>1. CASE Die
    BY <1>3, <2>1
  <2>2. CASE ~Die
    <3>1. UNCHANGED <<served, ctx>> /\ Begin(p, "ready", NewConfig, NoUser)
      BY <1>9, <2>2 DEF ReloadFails, sessVars
    <3> QED BY <1>1, <3>1, FreshIsPlain DEF ConfigsPlain
  <2> QED BY <2>1, <2>2
<1>10. ASSUME NEW s \in Session, Authenticate(s) \/ Close(s) PROVE ConfigsPlain'
  <2>1. \E x : ctx' = [ctx EXCEPT ![s] = x] /\ (x.config = served \/ x = NoContext)
    BY <1>10 DEF Authenticate, Close
  <2>2. job' = job /\ served' = served
    BY <1>10 DEF Authenticate, Close, servVars
  <2> QED BY <1>0, <2>1, <2>2, FreshIsPlain DEF ConfigsPlain
<1>11. ASSUME NEW s \in Session, Push(s) \/ HookStep(s) \/ RefUpdate(s) PROVE ConfigsPlain'
  <2>1. UNCHANGED <<served, ctx>>
    BY <1>11 DEF Push, HookStep, RefUpdate, servVars
  <2>2. \E stage, u : \E c \in Flatten(job[s].config) \cup {NewConfig} : Begin(s, stage, c, u)
    BY <1>11 DEF Push, HookStep, HookContinues, RefUpdate, EndReceivePack
  <2> QED BY <1>0, <1>1, <1>2, <2>1, <2>2, FreshIsPlain DEF ConfigsPlain
<1> QED BY <1>3, <1>4, <1>5, <1>6, <1>7, <1>8, <1>9, <1>10, <1>11
        DEF Next, Crash, ProcStep, SessionStep

\* And the names pushed to.
LEMMA PathsStep == ASSUME TypeInv, ConfigsPlain, PathsPlain, Next PROVE PathsPlain'
<1> SUFFICES ASSUME NEW s \in Session, pc'[s] \in HookStage, push'[s].repo \in ConfigRepo
             PROVE  PlainPath(push'[s].path)
  BY DEF PathsPlain
<1> USE DEF HookStage
<1>0. ProcOK /\ s \in Proc /\ s # Main /\ Session \subseteq Proc /\ DOMAIN push = Session
  BY ServerAssumption DEF TypeInv, TypeOK, SessionOK, Proc
<1>1. ASSUME pc'[s] = pc[s], push'[s] = push[s] PROVE PlainPath(push'[s].path)
  BY <1>1 DEF PathsPlain
<1>2. ~Die
  BY <1>0 DEF Die
<1>3. CASE Boot \/ Crash
  BY <1>0, <1>1, <1>2, <1>3 DEF Boot, Crash, sessVars, ProcOK
<1>4. ASSUME NEW p \in Proc, ProcStep(p) PROVE PlainPath(push'[s].path)
  <2>1. push' = push
    BY <1>2, <1>4 DEF ProcStep, OpenAdminRepo, LoadSub, LockReload, EnsureDone, Publish,
                      ReloadFails, sessVars
  <2>2. pc'[s] = pc[s]
    BY <1>0, <1>2, <1>4 DEF ProcStep, OpenAdminRepo, LoadSub, LockReload, EnsureDone, Publish,
                      ReloadFails, Begin, ProcOK
  <2> QED BY <1>1, <2>1, <2>2
<1>5. ASSUME NEW q \in Session, Authenticate(q) \/ Close(q) PROVE PlainPath(push'[s].path)
  BY <1>0, <1>1, <1>5 DEF Authenticate, Close, ProcOK
<1>6. ASSUME NEW q \in Session, Push(q) \/ SessionStep(q), q # s PROVE PlainPath(push'[s].path)
  <2>1. pc'[s] = pc[s]
    BY <1>0, <1>6 DEF Push, SessionStep, HookStep, HookContinues, RefUpdate, EndReceivePack,
                      Begin, ProcOK
  <2>2. push' = push \/ \E x : push' = [push EXCEPT ![q] = x]
    BY <1>6 DEF Push, SessionStep, HookStep, HookContinues, RefUpdate, EndReceivePack
  <2> QED BY <1>0, <1>1, <1>6, <2>1, <2>2
<1>7. CASE Push(s)
  <2>1. PICK path, t, base :
           push' = [push EXCEPT ![s] =
                      [path |-> path, type |-> LookupRepo(ctx[s].config, path).type,
                       repo |-> DiskPath(LookupRepo(ctx[s].config, path)), tree |-> t,
                       base |-> base]]
    BY <1>7 DEF Push
  <2>2. push'[s].path = path /\ push'[s].repo = DiskPath(LookupRepo(ctx[s].config, path))
    BY <1>0, <2>1
  <2>3. PlainOptions(ctx[s].config.options)
    BY DEF ConfigsPlain
  <2> QED BY <2>2, <2>3, PlainNames
<1>8. CASE SessionStep(s)
  <2>1. ~EndReceivePack(s)
    BY <1>0 DEF EndReceivePack, AfterReceivePack, Begin, ProcOK
  <2>2. pc[s] \in HookStage /\ push' = push
    BY <1>8, <2>1 DEF SessionStep, HookStep, HookContinues, RefUpdate
  <2> QED BY <2>2 DEF PathsPlain
<1> QED BY <1>3, <1>4, <1>5, <1>6, <1>7, <1>8 DEF Next

\* So all this stays.
LEMMA PlainAlways == ASSUME PrefixesStay PROVE Spec => [](TypeInv /\ PlainInv)
<1>1. Init => TypeInv /\ PlainInv
  <2> SUFFICES ASSUME Init PROVE PlainInv
    BY TypeInit
  <2>1. PlainTree(master[AdminRepo]) /\ index = master[AdminRepo]
    BY DEF Init, PrefixesStay
  <2>2. TreesPlain
    BY <2>1, FreshIsPlain DEF Init, TreesPlain
  <2>3. ConfigsPlain
    BY FreshIsPlain DEF Init, ConfigsPlain
  <2>4. PathsPlain
    BY DEF Init, PathsPlain, HookStage, Proc
  <2> QED BY <2>2, <2>3, <2>4 DEF PlainInv
<1>2. TypeInv /\ [Next]_vars => TypeInv'
  BY TypeStep
<1>3. TypeInv /\ PlainInv /\ [Next]_vars => PlainInv'
  <2> SUFFICES ASSUME TypeInv, PlainInv, [Next]_vars PROVE PlainInv'
    OBVIOUS
  <2>1. CASE Next
    BY <2>1, TreesStep, ConfigsStep, PathsStep DEF PlainInv
  <2>2. CASE UNCHANGED vars
    BY <2>2 DEF vars, gitVars, servVars, sessVars, PlainInv, TreesPlain, ConfigsPlain, PathsPlain
  <2> QED BY <2>1, <2>2
<1> QED BY <1>1, <1>2, <1>3, PTL DEF Spec

\* Where nobody changes the prefixes, only a push to a repo that is no config
\* repo gets past the update hook without being loaded and validated, however
\* many are pushing: the hook finds under its name what the session found.
THEOREM ChecksConfigPushes == ASSUME PrefixesStay PROVE Spec => ConfigPushesAreChecked
<1>1. ASSUME TypeInv, PlainInv, Next PROVE CheckedStep
  <2> SUFFICES ASSUME NEW s \in Session, pc[s] = "update", pc'[s] = "accepted",
                      push[s].repo \in ConfigRepo
               PROVE  FALSE
    BY DEF CheckedStep
  <2>0. ProcOK /\ s \in Proc /\ s # Main /\ Session \subseteq Proc
    BY <1>1, ServerAssumption DEF TypeInv, TypeOK, Proc
  <2>1. PICK c : GoesOn(s, c)
    <3>1. \A p \in Proc : ~ProcStep(p)
      BY <2>0 DEF ProcStep, OpenAdminRepo, LoadSub, LockReload, EnsureDone, Publish,
                  ReloadFails, Begin, Die, ProcOK, ReloadStage
    <3>2. ~Boot /\ ~Crash
      BY <2>0 DEF Boot, Crash, Die, ProcOK
    <3>3. \A q \in Session : q # s => ~(Authenticate(q) \/ Close(q) \/ Push(q) \/ SessionStep(q))
      BY <2>0 DEF Authenticate, Close, Push, SessionStep, HookStep, HookContinues, RefUpdate,
                  EndReceivePack, Begin, ProcOK
    <3>4. ~(Authenticate(s) \/ Close(s) \/ Push(s) \/ RefUpdate(s) \/ EndReceivePack(s))
      BY <2>0 DEF Authenticate, Close, Push, RefUpdate, EndReceivePack, AfterReceivePack, Begin,
                  ProcOK
    <3>5. HookStep(s)
      BY <1>1, <3>1, <3>2, <3>3, <3>4 DEF Next, SessionStep
    <3> QED BY <3>4, <3>5 DEF HookStep, GoesOn
  <2>2. PlainPath(push[s].path) /\ PlainOptions(c.options)
    <3>1. job[s].config \in ConfigType /\ c \in Flatten(job[s].config)
      BY <1>1, <2>0, <2>1 DEF TypeInv, TypeOK, ProcOK, JobType, GoesOn
    <3>2. c.options = job[s].config.options
      BY <3>1, FlattenFields
    <3> QED BY <1>1, <2>0, <3>2 DEF PlainInv, PathsPlain, ConfigsPlain, HookStage
  <2>3. LookupRepo(c, push[s].path) # NoRepo
    BY <2>1 DEF GoesOn, HookPasses, HookKnows
  <2>4. LookupRepo(c, push[s].path).type \in ConfigRepoType
    BY <2>2, <2>3, NamesStay
  <2>5. \E u : Begin(s, "check", c, u)
    BY <2>1, <2>4 DEF GoesOn, HookContinues
  <2> QED BY <2>0, <2>5, BeginFresh
<1>2. TypeInv /\ PlainInv /\ [Next]_vars => [CheckedStep]_vars
  BY <1>1
<1> QED BY <1>2, PlainAlways, PTL DEF Spec, ConfigPushesAreChecked, CheckedStep

-----------------------------------------------------------------------------
(* Pushes to the admin repo at the same time: what lands                   *)

\* Nobody pushes to a user's or an org's config repo.
OnlyAdminRepo ==
    \A s \in Session : pc[s] \in HookStage \cup {"accepted"} /\ push[s].repo \in ConfigRepo =>
        push[s].repo = AdminRepo

\* A push is based on a version that was there.
BaseOK ==
    \A s \in Session : pc[s] \in HookStage \cup {"accepted"} /\ push[s].repo = AdminRepo =>
        push[s].base \in Nat /\ push[s].base <= version[AdminRepo]

\* The admin repo's branch still is where s's push found it.
Timely(s) ==
    /\ pc[s] \in HookStage \cup {"accepted"}
    /\ push[s].repo = AdminRepo /\ push[s].base = version[AdminRepo]

\* Then the hooks have seen the disk as it still is.
TimelyOK ==
    \A s \in Session : Timely(s) => LoadOK(s) /\ KeyOK(s) /\ Known(s) /\ Approved(s)

\* What a push is, when it begins.
LEMMA PushIs ==
    ASSUME TypeInv, NEW s \in Session, Push(s)
    PROVE  /\ \E path \in PushPath :
                 /\ push'[s].path = path
                 /\ push'[s].type = LookupRepo(ctx[s].config, path).type
                 /\ push'[s].repo = DiskPath(LookupRepo(ctx[s].config, path))
           /\ push'[s].base = IF push'[s].repo \in ConfigRepo THEN version[push'[s].repo] ELSE 0
<1>1. PICK path \in PushPath : \E t :
         push' = [push EXCEPT ![s] =
                    [path |-> path, type |-> LookupRepo(ctx[s].config, path).type,
                     repo |-> DiskPath(LookupRepo(ctx[s].config, path)), tree |-> t,
                     base |-> IF DiskPath(LookupRepo(ctx[s].config, path)) \in ConfigRepo
                              THEN version[DiskPath(LookupRepo(ctx[s].config, path))] ELSE 0]]
  BY DEF Push
<1> DOMAIN push = Session
  BY DEF TypeInv, TypeOK, SessionOK
<1> QED BY <1>1

\* Bases stay as they were while branches move on.
LEMMA BaseStep == ASSUME TypeInv, BaseOK, Next PROVE BaseOK'
<1> SUFFICES ASSUME NEW s \in Session, pc'[s] \in HookStage \cup {"accepted"},
                    push'[s].repo = AdminRepo
             PROVE  push'[s].base \in Nat /\ push'[s].base <= version'[AdminRepo]
  BY DEF BaseOK
<1>0. /\ version[AdminRepo] \in Nat /\ version'[AdminRepo] \in Nat
      /\ version[AdminRepo] <= version'[AdminRepo]
  BY AdminRepoTree, VersionGrows
<1>1. CASE Push(s)
  <2>1. push'[s].base = IF push'[s].repo \in ConfigRepo THEN version[push'[s].repo] ELSE 0
    BY <1>1, PushIs
  <2> QED BY <1>0, <2>1, AdminRepoTree
<1>2. CASE pc[s] \in HookStage \cup {"accepted"} /\ push'[s] = push[s]
  BY <1>0, <1>2 DEF BaseOK
<1> QED BY <1>1, <1>2, PushGoesOn

\* The disk changes with the version of the admin repo only.
LEMMA MasterMoves ==
    ASSUME TypeInv, OnlyAdminRepo, Next, version'[AdminRepo] = version[AdminRepo]
    PROVE  master' = master
<1>0. version \in [ConfigRepo -> Nat] /\ AdminRepo \in ConfigRepo
  BY AdminRepoTree DEF TypeInv, TypeOK, GitOK
<1>1. ASSUME NEW s \in Session, RefUpdate(s) PROVE master' = master
  BY <1>0, <1>1 DEF RefUpdate, OnlyAdminRepo
<1>2. ASSUME NEW p \in Proc, EnsureDone(p) PROVE master' = master
  BY <1>0, <1>2 DEF EnsureDone, CommitAdminRepo, gitVars
<1> QED BY <1>1, <1>2 DEF Next, Boot, Crash, Die, ProcStep, OpenAdminRepo, LoadSub, LockReload,
          Publish, ReloadFails, Authenticate, Close, Push, SessionStep, HookStep, gitVars

\* A session whose push stays in the hooks takes the step itself, or nothing
\* happens to it.
LEMMA HookMoves ==
    ASSUME TypeInv, Next, NEW s \in Session, pc[s] \in HookStage \cup {"accepted"},
           pc'[s] \in HookStage \cup {"accepted"}
    PROVE  \/ pc'[s] = pc[s] /\ job'[s] = job[s] /\ ctx'[s] = ctx[s] /\ push'[s] = push[s]
           \/ OpenAdminRepo(s) \/ LoadSub(s) \/ \E c : GoesOn(s, c)
<1> USE DEF HookStage
<1>0. ProcOK /\ SessionOK /\ s \in Proc /\ s # Main /\ Session \subseteq Proc
  BY ServerAssumption DEF TypeInv, TypeOK, Proc
<1> DEFINE Still == pc'[s] = pc[s] /\ job'[s] = job[s] /\ ctx'[s] = ctx[s] /\ push'[s] = push[s]
<1>1. ~Die /\ ~Crash
  BY <1>0 DEF Die, Crash
<1>2. CASE Boot
  BY <1>0, <1>2 DEF Boot, sessVars, ProcOK
<1>3. ASSUME NEW p \in Proc, p # s, ProcStep(p) PROVE Still
  <2>1. CASE OpenAdminRepo(p) \/ LoadSub(p)
    BY <1>0, <1>3, <2>1 DEF OpenAdminRepo, LoadSub, sessVars, ProcOK
  <2>2. CASE ~(OpenAdminRepo(p) \/ LoadSub(p))
    <3>1. /\ \E stage, c, u : Begin(p, stage, c, u)
          /\ UNCHANGED sessVars
      BY <1>1, <1>3, <2>2 DEF ProcStep, LockReload, EnsureDone, Publish, ReloadFails
    <3>2. pc'[s] = pc[s] /\ job'[s] = job[s]
      BY <1>0, <1>3, <3>1, BeginStarts
    <3> QED BY <3>1, <3>2 DEF sessVars
  <2> QED BY <2>1, <2>2
<1>4. ASSUME NEW q \in Session, q # s, Authenticate(q) \/ Close(q) PROVE Still
  BY <1>0, <1>4 DEF Authenticate, Close, ProcOK, SessionOK
<1>5. ASSUME NEW q \in Session, q # s, Push(q) \/ SessionStep(q) PROVE Still
  <2>1. \E stage, c, u : Begin(q, stage, c, u)
    BY <1>5 DEF Push, SessionStep, HookStep, HookContinues, RefUpdate, EndReceivePack
  <2>2. pc'[s] = pc[s] /\ job'[s] = job[s]
    BY <1>0, <1>5, <2>1, BeginStarts
  <2>3. push' = push \/ \E x : push' = [push EXCEPT ![q] = x]
    BY <1>5 DEF Push, SessionStep, HookStep, HookContinues, RefUpdate, EndReceivePack
  <2>4. ctx' = ctx
    BY <1>5 DEF Push, SessionStep, HookStep, RefUpdate
  <2> QED BY <1>0, <1>5, <2>2, <2>3, <2>4 DEF SessionOK
<1>6. ASSUME ProcStep(s) PROVE OpenAdminRepo(s) \/ LoadSub(s)
  BY <1>0, <1>6 DEF ProcStep, LockReload, EnsureDone, Publish, ReloadFails, ReloadStage
<1>7. ~(Authenticate(s) \/ Close(s) \/ Push(s))
  BY DEF Authenticate, Close, Push
<1>8. ASSUME SessionStep(s) PROVE \E c : GoesOn(s, c)
  <2>1. ~EndReceivePack(s)
    BY <1>0 DEF EndReceivePack, AfterReceivePack, Begin, ProcOK
  <2> QED BY <1>8, <2>1 DEF SessionStep, HookStep, RefUpdate, GoesOn
<1> QED BY <1>1, <1>2, <1>3, <1>4, <1>5, <1>6, <1>7, <1>8 DEF Next

\* A push that has just begun has seen nothing yet.
LEMMA PushIsFresh ==
    ASSUME TypeInv, NEW s \in Session, Push(s)
    PROVE  LoadOK(s)' /\ KeyOK(s)' /\ Known(s)' /\ Approved(s)'
<1>1. Begin(s, "pre", NewConfig, NoUser) /\ ProcOK /\ s \in Proc
  BY DEF Push, TypeInv, TypeOK, Proc
<1>2. /\ pc'[s] = "pre" /\ job'[s].config = NewConfig /\ ~job'[s].opened /\ job'[s].todo = {}
      /\ job'[s].outcome = "ok"
  BY <1>1, BeginFresh
<1>3. \A k \in Key : NewConfig.publicKeys[k] = Nil
  BY DEF NewConfig, EmptyMap
<1> QED BY <1>2, <1>3 DEF LoadOK, Loading, KeyOK, Known, Approved

\* What the hooks of a timely push have seen stays true: as long as the branch
\* is where the push found it, the disk is.
LEMMA TimelyStep ==
    ASSUME TypeInv, BaseOK, TimelyOK, OnlyAdminRepo, Next, CheckedStep
    PROVE  TimelyOK'
<1> SUFFICES ASSUME NEW s \in Session, Timely(s)'
             PROVE  LoadOK(s)' /\ KeyOK(s)' /\ Known(s)' /\ Approved(s)'
  BY DEF TimelyOK
<1>0. ProcOK /\ s \in Proc /\ pc'[s] \in HookStage \cup {"accepted"}
  BY DEF TypeInv, TypeOK, Proc, Timely
<1>1. CASE Push(s)
  BY <1>1, PushIsFresh
<1>2. CASE pc[s] \in HookStage \cup {"accepted"} /\ push'[s] = push[s]
  <2>1. version'[AdminRepo] = version[AdminRepo] /\ Timely(s)
    <3>1. /\ version[AdminRepo] \in Nat /\ version'[AdminRepo] \in Nat
          /\ version[AdminRepo] <= version'[AdminRepo]
      BY AdminRepoTree, VersionGrows
    <3>2. /\ push[s].repo = AdminRepo /\ push[s].base = version'[AdminRepo]
          /\ push[s].base <= version[AdminRepo]
      BY <1>2 DEF Timely, BaseOK
    <3> QED BY <1>2, <3>1, <3>2 DEF Timely
  <2>2. master' = master
    BY <2>1, MasterMoves
  <2>3. LoadOK(s) /\ KeyOK(s) /\ Known(s) /\ Approved(s)
    BY <2>1 DEF TimelyOK
  <2>4. PushedDisk(s)' = PushedDisk(s)
    BY <1>2, <2>2 DEF PushedDisk
  <2>5. ASSUME pc'[s] = pc[s], job'[s] = job[s], ctx'[s] = ctx[s]
        PROVE  LoadOK(s)' /\ KeyOK(s)' /\ Known(s)' /\ Approved(s)'
    <3>1. \A r : SubTree(s, r)' = SubTree(s, r)
      BY <1>2, <2>2, <2>5 DEF SubTree
    <3>2. DiskOf(s)' = DiskOf(s)
      BY <2>5, <3>1 DEF DiskOf
    <3>3. Worktrees(s)' = Worktrees(s)
      BY <1>2, <2>2, <2>5 DEF Worktrees
    <3>4. LoadOK(s)'
      BY <2>3, <2>5, <3>2, <3>3 DEF LoadOK
    <3> QED BY <1>2, <2>2, <2>3, <2>4, <2>5, <3>4 DEF KeyOK, Known, Approved
  <2>6. CASE OpenAdminRepo(s) \/ LoadSub(s)
    <3>1. /\ UNCHANGED <<pc, ctx>> /\ pc[s] \in HookStage \cup ReloadStage
          /\ job'[s].user = job[s].user
          /\ job'[s].config.publicKeys = job[s].config.publicKeys
          /\ Loading(job'[s], DiskOf(s)')
          /\ job'[s].opened => job'[s].tree \in Worktrees(s)'
      BY <1>0, <2>3, <2>6, LoadStep
    <3>2. pc'[s] # "accepted"
      BY <3>1 DEF HookStage, ReloadStage
    <3> QED BY <2>2, <2>3, <3>1, <3>2 DEF LoadOK, KeyOK, Known, Approved
  <2>7. CASE \E c : GoesOn(s, c)
    <3>1. PICK c : GoesOn(s, c)
      BY <2>7
    <3>2. LoadOK(s)'
      BY <1>0, <2>7, BeginsLoad DEF LoadOK, Loading
    <3>3. Known(s)'
      BY <2>3, <3>1, GoesOnKnown
    <3>4. \/ Begin(s, "update", NewConfig, NoUser) /\ pc[s] = "pre"
          \/ \E u : Begin(s, "check", c, u)
          \/ Begin(s, "accepted", NewConfig, NoUser) /\ pc[s] \in {"update", "check"}
      BY <3>1 DEF GoesOn, HookContinues
    <3>5. KeyOK(s)'
      <4>1. \A stage, x, u : Begin(s, stage, x, u) => pc'[s] = stage /\ job'[s].config = x
        BY <1>0, BeginFresh
      <4> QED BY <3>4, <4>1 DEF KeyOK, NewConfig, EmptyMap
    <3>6. ASSUME pc'[s] = "accepted" PROVE Approved(s)'
      <4>1. pc[s] \in {"update", "check"}
        BY <1>0, <3>4, <3>6, BeginFresh
      <4>2. push[s].repo \in ConfigRepo
        BY <2>1, AdminRepoTree DEF Timely
      <4>3. pc[s] = "check"
        BY <3>6, <4>1, <4>2 DEF CheckedStep
      <4>4. ctx' = ctx
        BY <3>1 DEF GoesOn
      <4> QED BY <2>2, <2>3, <2>4, <3>1, <4>2, <4>3, <4>4, CheckApproves DEF Approved
    <3> QED BY <3>2, <3>3, <3>5, <3>6 DEF Approved
  <2> QED BY <1>0, <1>2, <2>5, <2>6, <2>7, HookMoves
<1> QED BY <1>0, <1>1, <1>2, PushGoesOn

\* A timely push that lands leaves the disk the hook has approved.
LEMMA LandsTimely ==
    ASSUME TypeInv, OnlyAdminRepo, Next, NEW s \in Session, Lands(s)
    PROVE  Timely(s) /\ push[s].repo \in ConfigRepo /\ master' = PushedDisk(s)
<1>0. ProcOK /\ s \in Proc /\ s # Main /\ Session \subseteq Proc
  BY ServerAssumption DEF TypeInv, TypeOK, Proc
<1>1. pc[s] = "accepted" /\ pc'[s] # "accepted" /\ version' # version
  BY DEF Lands
<1>2. ~Die
  BY <1>1 DEF Die, gitVars
<1>3. ~Boot /\ ~Crash
  BY <1>1, <1>2 DEF Boot, Crash, gitVars
<1>4. ASSUME NEW p \in Proc, ProcStep(p) PROVE FALSE
  <2>1. p # s
    BY <1>0, <1>1, <1>4 DEF ProcStep, OpenAdminRepo, LoadSub, LockReload, EnsureDone, Publish,
                            ReloadFails, HookStage, ReloadStage
  <2>2. ~(OpenAdminRepo(p) \/ LoadSub(p))
    BY <1>1 DEF OpenAdminRepo, LoadSub, gitVars
  <2>3. \E stage, c, u : Begin(p, stage, c, u)
    BY <1>2, <1>4, <2>2 DEF ProcStep, LockReload, EnsureDone, Publish, ReloadFails
  <2> QED BY <1>0, <1>1, <2>1, <2>3, BeginStarts
<1>5. ASSUME NEW q \in Session, Authenticate(q) \/ Close(q) \/ Push(q) \/ HookStep(q) PROVE FALSE
  BY <1>1, <1>5 DEF Authenticate, Close, Push, HookStep, gitVars
<1>6. PICK q \in Session : RefUpdate(q)
  BY <1>3, <1>4, <1>5 DEF Next, SessionStep
<1>7. q = s
  <2>1. \E stage, c, u : Begin(q, stage, c, u)
    BY <1>6 DEF RefUpdate, EndReceivePack
  <2> QED BY <1>0, <1>1, <2>1, BeginStarts
<1>8. /\ push[s].repo \in ConfigRepo /\ version[push[s].repo] = push[s].base
      /\ master' = PushedDisk(s)
  BY <1>1, <1>6, <1>7 DEF RefUpdate, PushedDisk
<1> QED BY <1>1, <1>8 DEF Timely, OnlyAdminRepo

\* The invariant holds where pushes to config repos are checked and are all to
\* the admin repo.
LEMMA TimelyAlways ==
    Spec /\ []OnlyAdminRepo /\ ConfigPushesAreChecked => [](TypeInv /\ BaseOK /\ TimelyOK)
<1>1. Init => BaseOK /\ TimelyOK
  BY DEF Init, BaseOK, TimelyOK, Timely, HookStage, Proc
<1>2. Init => TypeInv
  BY TypeInit
<1>3. TypeInv /\ [Next]_vars => TypeInv'
  BY TypeStep
<1>4. TypeInv /\ BaseOK /\ [Next]_vars => BaseOK'
  <2>1. CASE Next
    BY <2>1, BaseStep
  <2>2. CASE UNCHANGED vars
    BY <2>2 DEF vars, gitVars, sessVars, BaseOK
  <2> QED BY <2>1, <2>2
<1>5. ASSUME TypeInv, BaseOK, TimelyOK, OnlyAdminRepo, [Next]_vars, [CheckedStep]_vars
      PROVE  TimelyOK'
  <2>1. CASE Next /\ CheckedStep
    BY <1>5, <2>1, TimelyStep
  <2>2. CASE UNCHANGED vars
    <3>1. \A s : /\ PushedDisk(s)' = PushedDisk(s) /\ DiskOf(s)' = DiskOf(s)
                 /\ Worktrees(s)' = Worktrees(s)
      BY <2>2 DEF vars, gitVars, servVars, sessVars, PushedDisk, DiskOf, SubTree, Worktrees
    <3>2. \A s : (LoadOK(s) => LoadOK(s)') /\ (Approved(s) => Approved(s)')
      BY <2>2, <3>1 DEF vars, gitVars, sessVars, LoadOK, Approved
    <3>3. \A s : (KeyOK(s) => KeyOK(s)') /\ (Known(s) => Known(s)')
      BY <2>2 DEF vars, gitVars, sessVars, KeyOK, Known
    <3> QED BY <1>5, <2>2, <3>2, <3>3 DEF TimelyOK, Timely, vars, gitVars, sessVars
  <2>3. [Next /\ CheckedStep]_vars
    BY <1>5
  <2> QED BY <2>1, <2>2, <2>3
<1>6. TypeInv /\ BaseOK /\ TimelyOK /\ OnlyAdminRepo /\ [Next]_vars /\ [CheckedStep]_vars
        => TimelyOK'
  BY <1>5
<1> QED BY <1>1, <1>2, <1>3, <1>4, <1>6, PTL DEF Spec, ConfigPushesAreChecked, CheckedStep

\* However many push to the admin repo at once, beside whatever reloads and
\* whatever pushes to other repos, what lands is a config that has an admin, no
\* group loop and still lists the pusher, and its pusher's key is somebody's on
\* the disk it lands on: git moves the branch only if it still is where the
\* push found it, and then the hooks saw the disk as it still is. As in all of
\* Server, no checkout moves a branch: Checkouts has where one does.
THEOREM LandsInTime ==
    Spec /\ []OnlyAdminRepo /\ ConfigPushesAreChecked => LandedConfigIsValid /\ LandingKeyIsKnown
<1> DEFINE Valid == \A s \in Session : Lands(s) =>
                       \E c \in Meaning(master) : \E u \in UserOfKey(c, ctx[s].key) :
                           \A d \in Meaning(master)' :
                              /\ u \in Keys(d.users)
                              /\ \E a \in Keys(d.users) : IsAdmin(d.users[a])
                              /\ ~HasGroupLoop(d.groups)
           Knows == \A s \in Session : Lands(s) =>
                       \E c \in Meaning(master) : UserOfKey(c, ctx[s].key) # {}
<1>1. ASSUME TypeInv, TimelyOK, OnlyAdminRepo, [Next]_vars PROVE [Valid /\ Knows]_vars
  <2> SUFFICES ASSUME Next, NEW s \in Session, Lands(s)
               PROVE  /\ ValidFor(master, master', ctx[s].key)
                      /\ \E c \in Meaning(master) : UserOfKey(c, ctx[s].key) # {}
    BY <1>1 DEF ValidFor
  <2>1. Timely(s) /\ push[s].repo \in ConfigRepo /\ master' = PushedDisk(s)
    BY <1>1, LandsTimely
  <2>2. Approved(s) /\ Known(s) /\ pc[s] = "accepted"
    BY <1>1, <2>1 DEF TimelyOK, Lands
  <2> QED BY <2>1, <2>2 DEF Approved, Known
<1>2. TypeInv /\ TimelyOK /\ OnlyAdminRepo /\ [Next]_vars => [Valid]_vars /\ [Knows]_vars
  BY <1>1
<1> QED BY <1>2, TimelyAlways, PTL DEF Spec, LandedConfigIsValid, LandingKeyIsKnown

-----------------------------------------------------------------------------
(* Where all pushes are to the admin repo                                  *)

\* Whoever is in the hooks pushes to the admin repo, and knows it.
AdminPushes ==
    \A s \in Session : pc[s] \in HookStage \cup {"accepted"} =>
        push[s].path = AdminPath /\ push[s].type = "Admin" /\ push[s].repo = AdminRepo

\* The name "admin" always is the admin repo's.
LEMMA AdminIsAdmin ==
    ASSUME NEW c
    PROVE  /\ LookupRepo(c, AdminPath).type = "Admin"
           /\ DiskPath(LookupRepo(c, AdminPath)) = AdminRepo
BY DEF LookupRepo, DiskPath

\* So every push is checked, is to the admin repo and will reload.
LEMMA AdminPushesAlways ==
    ASSUME PushPath \subseteq {AdminPath}
    PROVE  Spec => /\ []OthersReload /\ []OnlyAdminRepo /\ ConfigPushesAreChecked
<1>1. Init => AdminPushes
  BY DEF Init, AdminPushes, HookStage, Proc
<1>2. ASSUME TypeInv, AdminPushes, [Next]_vars PROVE AdminPushes'
  <2>1. CASE Next
    <3> SUFFICES ASSUME NEW s \in Session, pc'[s] \in HookStage \cup {"accepted"}
                 PROVE  /\ push'[s].path = AdminPath /\ push'[s].type = "Admin"
                        /\ push'[s].repo = AdminRepo
      BY DEF AdminPushes
    <3>1. CASE Push(s)
      BY <1>2, <3>1, PushIs, AdminIsAdmin
    <3>2. CASE pc[s] \in HookStage \cup {"accepted"} /\ push'[s] = push[s]
      BY <1>2, <3>2 DEF AdminPushes
    <3> QED BY <1>2, <2>1, <3>1, <3>2, PushGoesOn
  <2>2. CASE UNCHANGED vars
    BY <1>2, <2>2 DEF vars, sessVars, AdminPushes
  <2> QED BY <1>2, <2>1, <2>2
<1>3. ASSUME TypeInv, AdminPushes, Next PROVE CheckedStep
  <2> SUFFICES ASSUME NEW s \in Session, pc[s] = "update", pc'[s] = "accepted" PROVE FALSE
    BY DEF CheckedStep
  <2>0. ProcOK /\ s \in Proc /\ pc[s] \in HookStage
    BY <1>3 DEF TypeInv, TypeOK, Proc, HookStage
  <2>1. ~(OpenAdminRepo(s) \/ LoadSub(s))
    BY DEF OpenAdminRepo, LoadSub
  <2>2. PICK c : GoesOn(s, c)
    BY <1>3, <2>0, <2>1, HookMoves
  <2>3. LookupRepo(c, push[s].path).type \in ConfigRepoType
    BY <1>3, <2>0, AdminIsAdmin DEF AdminPushes, ConfigRepoType
  <2>4. \E u : Begin(s, "check", c, u)
    BY <2>2, <2>3 DEF GoesOn, HookContinues
  <2> QED BY <2>0, <2>4, BeginFresh
<1>4. AdminPushes => OthersReload /\ OnlyAdminRepo
  BY DEF AdminPushes, OthersReload, Owes, ConfigRepoType, OnlyAdminRepo
<1>5. Init => TypeInv
  BY TypeInit
<1>6. TypeInv /\ [Next]_vars => TypeInv'
  BY TypeStep
<1>7. TypeInv /\ AdminPushes /\ [Next]_vars => AdminPushes' /\ [CheckedStep]_vars
  BY <1>2, <1>3
<1> QED BY <1>1, <1>4, <1>5, <1>6, <1>7, PTL DEF Spec, ConfigPushesAreChecked, CheckedStep

\* Where nobody pushes to any other repo, config repo or not, any number of
\* pushes to the admin repo may be made at once: every one is checked, what
\* lands is valid and was pushed with a key the disk knows, and when all is
\* quiet the server serves what is on the disk. A checkout is one step here, as
\* everywhere in Server: Checkouts has what two do that overlap.
THEOREM AdminPushesAreSafe ==
    ASSUME PushPath \subseteq {AdminPath}
    PROVE  Spec => /\ ConfigPushesAreChecked /\ LandedConfigIsValid /\ LandingKeyIsKnown
                   /\ []SettledServesDisk
BY AdminPushesAlways, LandsInTime, SettledServes, PTL

-----------------------------------------------------------------------------
(* What the constants have to be for all this                              *)

\* Where all pushes are to config repos, by the names these have while nobody
\* changes the prefixes, when all is quiet the server serves what is on the
\* disk, however many push at once.
THEOREM ConfigPushesSettle ==
    ASSUME PrefixesStay, \A path \in PushPath : PlainPath(path)
    PROVE  Spec => []SettledServesDisk
<1> DEFINE I == \A s \in Session :
                   pc[s] \in HookStage \cup {"accepted"} => push[s].type \in ConfigRepoType
<1>1. Init => I
  BY DEF Init, HookStage, Proc
<1>2. ASSUME TypeInv, PlainInv, I, Next PROVE I'
  <2> SUFFICES ASSUME NEW s \in Session, pc'[s] \in HookStage \cup {"accepted"}
               PROVE  push'[s].type \in ConfigRepoType
    OBVIOUS
  <2>1. CASE Push(s)
    <3>1. PICK path \in PushPath : \E t, base :
             /\ AccessTo(ctx[s].config, ctx[s].user, path) >= Write
             /\ push' = [push EXCEPT ![s] =
                           [path |-> path, type |-> LookupRepo(ctx[s].config, path).type,
                            repo |-> DiskPath(LookupRepo(ctx[s].config, path)), tree |-> t,
                            base |-> base]]
      BY <2>1 DEF Push
    <3>2. push'[s].type = LookupRepo(ctx[s].config, path).type
      BY <1>2, <3>1 DEF TypeInv, TypeOK, SessionOK
    <3>3. LookupRepo(ctx[s].config, path) # NoRepo
      BY <3>1 DEF AccessTo, None, Write
    <3>4. PlainOptions(ctx[s].config.options)
      BY <1>2 DEF PlainInv, ConfigsPlain
    <3> QED BY <3>2, <3>3, <3>4, NamesStay
  <2>2. CASE pc[s] \in HookStage \cup {"accepted"} /\ push'[s] = push[s]
    BY <1>2, <2>2
  <2> QED BY <1>2, <2>1, <2>2, PushGoesOn
<1>3. TypeInv /\ PlainInv /\ I /\ [Next]_vars => I'
  <2>1. CASE UNCHANGED vars
    BY <2>1 DEF vars, sessVars
  <2> QED BY <1>2, <2>1
<1>4. I => OthersReload
  BY DEF OthersReload, Owes
<1> HIDE DEF I
<1>5. Spec => []OthersReload
  BY <1>1, <1>3, <1>4, PlainAlways, PTL DEF Spec
<1> QED BY <1>5, SettledServes, PTL

\* And where there is room for one push at a time, to whatever repo, all that is
\* said of a server with one session holds.
THEOREM SequentialServerIsSafe ==
    ASSUME PrefixesStay, IsFiniteSet(Session), MaxInFlight = 1, \A d \in InitialDisk : Startable(d)
    PROVE  Spec => /\ ConfigPushesAreChecked /\ LandedConfigIsValid /\ LandingKeyIsKnown
                   /\ ServerOnlyCompletes /\ []SettledServesDisk /\ []DiskStaysStartable
BY OnePushAtATime, ChecksConfigPushes, LandsValid, LandsKnown, CommitsComplete, OneReloads,
   SettledServes, StaysStartable, PTL

-----------------------------------------------------------------------------
(* Server implements PublishedConfig: what is served is always the meaning *)
(* of versions that are on the config repos' master branches, whatever the *)
(* hooks of other pushes do to the files of the admin repo.                *)

\* Version n of config repo r in the log l, and the disk a load has seen.
TreeIn(l, r, n) == IF n = Unread THEN EmptyTree(r) ELSE l[r][n + 1]
DiskIn(l, seen) == [r \in ConfigRepo |-> TreeIn(l, r, seen[r])]

\* The log has every version of every config repo, the last one at the tip.
LogOK ==
    /\ log = [r \in ConfigRepo |-> log[r]]
    /\ \A r \in ConfigRepo :
          /\ log[r] \in Seq(TreeOf(r)) /\ Len(log[r]) = version[r] + 1
          /\ log[r][version[r] + 1] = master[r]

\* An opened load has merged into the admin repo's config what it read of the
\* config repos it has done with.
MadeOf(l, j) ==
    LET c == LoadAdminConfig(j.config, j.tree) IN
    /\ AdminLoads(j.tree) /\ j.seen[AdminRepo] # Unread
    /\ j.todo \subseteq SubRepos(c)
    /\ \A r \in ConfigRepo \ {AdminRepo} : j.seen[r] # Unread <=> r \in SubRepos(c) \ j.todo
    /\ j.config = MergedBut(c, DiskIn(l, j.seen), j.todo)

\* The last load of a reload has the admin repo as it is in the log, the first
\* one what ensureAdminConfig made of it.
JobReads(l, stage, j) ==
    /\ ~j.opened => j.seen = NothingSeen /\ j.todo = {} /\ j.outcome = "ok"
    /\ j.opened /\ j.outcome = "ok" =>
          /\ MadeOf(l, j)
          /\ stage = "load" => j.tree = TreeIn(l, AdminRepo, j.seen[AdminRepo])
          /\ stage = "ensure" =>
                j.tree \in EnsureAdminConfig(TreeIn(l, AdminRepo, j.seen[AdminRepo]))

\* In version n of the admin repo, with version m of the user's own, the key
\* is the user's.
Owned(l, k, u, n, m) ==
    LET admin == LoadAdminConfig(NewConfig, TreeIn(l, AdminRepo, n))
        own == MergedUser(admin.options, admin.users[u], TreeIn(l, UserRepo(u), m))
    IN u \in Keys(admin.users) /\ k \in own.keys

\* Keys in a config being loaded that flatten found there earlier. The versions
\* v of the repos are the newest there are.
LastAdmin(v, j) == IF j.seen[AdminRepo] = Unread THEN v[AdminRepo] ELSE j.seen[AdminRepo]

JobKeys(l, v, j) ==
    \A k \in Key : LET u == j.config.publicKeys[k] IN
        u # Nil =>
            \E n \in 0..LastAdmin(v, j), m \in 0..v[UserRepo(u)] \cup {Unread} :
                Owned(l, k, u, n, m)

ReloadsOK ==
    \A p \in Proc : pc[p] \in ReloadStage =>
        JobReads(log, pc[p], job[p]) /\ JobKeys(log, version, job[p])

HistoryInv == LogOK /\ BootAlone /\ AdminAlone /\ ReloadsOK

IInv == TypeInv /\ ServeInv /\ HistoryInv

-----------------------------------------------------------------------------
(* The log                                                                 *)

\* Later versions are added and earlier ones stay.
Grows(l, v, l2, v2) ==
    \A r \in ConfigRepo :
        /\ v[r] \in Nat /\ v2[r] \in Nat /\ v[r] <= v2[r]
        /\ \A n \in 0..v[r] : l2[r][n + 1] = l[r][n + 1]

\* The tip of a branch moves when its version does.
LEMMA TipMoves ==
    ASSUME TypeInv, Next, NEW r \in ConfigRepo
    PROVE  \/ version'[r] = version[r] /\ master'[r] = master[r]
           \/ version'[r] = version[r] + 1
<1>1. version \in [ConfigRepo -> Nat] /\ DOMAIN master = ConfigRepo
  BY DEF TypeInv, TypeOK, GitOK
<1>2. CASE UNCHANGED <<master, version>>
  BY <1>1, <1>2
<1>3. CASE \E s \in Session : RefUpdate(s)
  BY <1>1, <1>3 DEF RefUpdate
<1>4. CASE \E p \in Proc : EnsureDone(p)
  BY <1>1, <1>4 DEF EnsureDone, CommitAdminRepo, gitVars
<1>5. \/ UNCHANGED <<master, version>> \/ \E s \in Session : RefUpdate(s)
      \/ \E p \in Proc : EnsureDone(p)
  BY DEF Next, ProcStep, SessionStep, Boot, Crash, Die, OpenAdminRepo, LoadSub, LockReload,
         Publish, ReloadFails, HookStep, Authenticate, Close, Push, gitVars
<1> QED BY <1>2, <1>3, <1>4, <1>5

\* A step of the server keeps the log and what is in it.
LEMMA LogStep ==
    ASSUME TypeInv, TypeInv', LogOK, HistoryNext
    PROVE  LogOK' /\ Grows(log, version, log', version')
<1>1. log' = [r \in ConfigRepo |-> Logged(r)]
  BY DEF HistoryNext
<1>2. ASSUME NEW r \in ConfigRepo
      PROVE  /\ log'[r] \in Seq(TreeOf(r)) /\ Len(log'[r]) = version'[r] + 1
             /\ log'[r][version'[r] + 1] = master'[r]
             /\ version[r] \in Nat /\ version'[r] \in Nat /\ version[r] <= version'[r]
             /\ \A n \in 0..version[r] : log'[r][n + 1] = log[r][n + 1]
  <2>1. /\ log[r] \in Seq(TreeOf(r)) /\ Len(log[r]) = version[r] + 1
        /\ log[r][version[r] + 1] = master[r]
    BY DEF LogOK
  <2>2. version[r] \in Nat /\ version'[r] \in Nat /\ master'[r] \in TreeOf(r)
    BY DEF TypeInv, TypeOK, GitOK
  <2>3. log'[r] = IF version'[r] # version[r] THEN Append(log[r], master'[r]) ELSE log[r]
    BY <1>1 DEF Logged
  <2>4. CASE version'[r] = version[r] /\ master'[r] = master[r]
    BY <2>1, <2>2, <2>3, <2>4
  <2>5. CASE version'[r] = version[r] + 1
    <3>1. log'[r] = Append(log[r], master'[r])
      BY <2>2, <2>3, <2>5
    <3> QED BY <2>1, <2>2, <2>5, <3>1
  <2> QED BY <2>4, <2>5, TipMoves DEF HistoryNext
<1> QED BY <1>1, <1>2 DEF LogOK, Grows

-----------------------------------------------------------------------------
(* Loads                                                                   *)

\* What a load has seen of the disk is in a log that only grows.
LEMMA DiskKeeps ==
    ASSUME NEW l, NEW v, NEW l2, NEW v2, Grows(l, v, l2, v2),
           NEW seen \in [ConfigRepo -> Nat \cup {Unread}],
           \A r \in ConfigRepo : seen[r] <= v[r]
    PROVE  /\ DiskIn(l2, seen) = DiskIn(l, seen)
           /\ \A r \in ConfigRepo : TreeIn(l2, r, seen[r]) = TreeIn(l, r, seen[r])
<1>1. ASSUME NEW r \in ConfigRepo PROVE TreeIn(l2, r, seen[r]) = TreeIn(l, r, seen[r])
  BY DEF Grows, TreeIn, Unread
<1> QED BY <1>1 DEF DiskIn

\* So what is known of a load stays true while others move branches.
LEMMA JobKeeps ==
    ASSUME NEW l, NEW v, NEW l2, NEW v2, Grows(l, v, l2, v2), NEW stage,
           NEW j \in JobType, \A r \in ConfigRepo : j.seen[r] <= v[r],
           JobReads(l, stage, j), JobKeys(l, v, j)
    PROVE  JobReads(l2, stage, j) /\ JobKeys(l2, v2, j)
<1>0. j.seen \in [ConfigRepo -> Nat \cup {Unread}] /\ AdminRepo \in ConfigRepo
  BY AdminRepoTree DEF JobType
<1>1. JobReads(l2, stage, j)
  <2>1. /\ DiskIn(l2, j.seen) = DiskIn(l, j.seen)
        /\ TreeIn(l2, AdminRepo, j.seen[AdminRepo]) = TreeIn(l, AdminRepo, j.seen[AdminRepo])
    BY <1>0, DiskKeeps
  <2> QED BY <2>1 DEF JobReads, MadeOf
<1>2. ASSUME NEW k \in Key, NEW u, u = j.config.publicKeys[k], u # Nil
      PROVE  \E n \in 0..LastAdmin(v2, j), m \in 0..v2[UserRepo(u)] \cup {Unread} :
                Owned(l2, k, u, n, m)
  <2>1. PICK n \in 0..LastAdmin(v, j), m \in 0..v[UserRepo(u)] \cup {Unread} :
           Owned(l, k, u, n, m)
    BY <1>2 DEF JobKeys
  <2>2. u \in User
    BY <1>2 DEF JobType, ConfigType, MapOf
  <2>3. UserRepo(u) \in ConfigRepo
    BY <2>2 DEF ConfigRepo
  <2>4. /\ v[AdminRepo] \in Nat /\ v2[AdminRepo] \in Nat /\ v[AdminRepo] <= v2[AdminRepo]
        /\ v[UserRepo(u)] \in Nat /\ v2[UserRepo(u)] \in Nat /\ v[UserRepo(u)] <= v2[UserRepo(u)]
        /\ \A i \in 0..v[AdminRepo] : l2[AdminRepo][i + 1] = l[AdminRepo][i + 1]
        /\ \A i \in 0..v[UserRepo(u)] : l2[UserRepo(u)][i + 1] = l[UserRepo(u)][i + 1]
    BY <1>0, <2>3 DEF Grows
  <2>5. j.seen[AdminRepo] \in Nat \cup {Unread} /\ j.seen[AdminRepo] <= v[AdminRepo]
    BY <1>0
  <2>6. /\ n \in 0..v[AdminRepo] /\ n \in 0..LastAdmin(v2, j)
        /\ m \in 0..v2[UserRepo(u)] \cup {Unread}
    BY <2>1, <2>4, <2>5 DEF LastAdmin, Unread
  <2>7. TreeIn(l2, AdminRepo, n) = TreeIn(l, AdminRepo, n)
    BY <2>4, <2>6 DEF TreeIn
  <2>8. TreeIn(l2, UserRepo(u), m) = TreeIn(l, UserRepo(u), m)
    BY <2>1, <2>4 DEF TreeIn
  <2>9. Owned(l2, k, u, n, m)
    BY <2>1, <2>7, <2>8 DEF Owned
  <2> QED BY <2>6, <2>9
<1>3. JobKeys(l2, v2, j)
  BY <1>2 DEF JobKeys
<1> QED BY <1>1, <1>3

\* A load that has opened the admin repo has merged nothing yet.
LEMMA OpenedMade ==
    ASSUME NEW l, NEW j \in JobType, j.seen = NothingSeen, j.outcome = "ok",
           NEW t \in AdminTree, NEW v, v # Unread,
           NEW o, o = OpenedJob(j, t, v), o.outcome = "ok"
    PROVE  MadeOf(l, o) /\ o.seen[AdminRepo] = v
<1>1. /\ o.tree = t /\ o.config.publicKeys = j.config.publicKeys
      /\ AdminLoads(t) /\ o.config = LoadAdminConfig(j.config, t)
      /\ o.todo = SubRepos(o.config) /\ o.seen = [j.seen EXCEPT ![AdminRepo] = v]
  <2>1. o.tree = t
    BY OpenedTree
  <2>2. o.config.publicKeys = j.config.publicKeys
    BY OpenedKeys
  <2> QED BY <2>1, <2>2, OpenedFields
<1>2. LoadAdminConfig(o.config, o.tree) = o.config
  BY <1>1 DEF LoadAdminConfig
<1>3. o.config \in ConfigType
  BY <1>1, LoadAdminConfigType DEF JobType
<1>4. o.seen[AdminRepo] = v /\ \A r \in ConfigRepo \ {AdminRepo} : o.seen[r] = Unread
  BY <1>1, AdminRepoTree DEF NothingSeen
<1>5. MergedBut(o.config, DiskIn(l, o.seen), o.todo) = o.config
  BY <1>1, <1>3, MergedButAll
<1> QED BY <1>1, <1>2, <1>4, <1>5 DEF MadeOf, Unread

\* It has merged one more.
LEMMA LoadedMade ==
    ASSUME NEW l, NEW j \in JobType, MadeOf(l, j), j.tree \in AdminTree,
           NEW r \in j.todo, r \in ConfigRepo, NEW v, v # Unread,
           NEW o, o = LoadedJob(j, r, TreeIn(l, r, v), v), o.outcome = "ok"
    PROVE  MadeOf(l, o) /\ o.seen[AdminRepo] = j.seen[AdminRepo]
<1> DEFINE t == TreeIn(l, r, v)
           c == LoadAdminConfig(j.config, j.tree)
<1>1. /\ o.tree = j.tree /\ o.config.publicKeys = j.config.publicKeys
      /\ o.config = LoadSubConfig(j.config, r, t)
      /\ o.todo = j.todo \ {r} /\ o.seen = [j.seen EXCEPT ![r] = v]
  <2>1. o.tree = j.tree /\ o.config.publicKeys = j.config.publicKeys
    BY LoadedTree, LoadedKeys
  <2> QED BY <2>1, LoadedFields
<1>2. /\ AdminLoads(j.tree) /\ j.seen[AdminRepo] # Unread /\ j.todo \subseteq SubRepos(c)
      /\ \A q \in ConfigRepo \ {AdminRepo} : j.seen[q] # Unread <=> q \in SubRepos(c) \ j.todo
      /\ j.config = MergedBut(c, DiskIn(l, j.seen), j.todo)
  BY DEF MadeOf
<1>3. c \in ConfigType
  BY <1>2, LoadAdminConfigType DEF JobType
<1>4. LoadAdminConfig(o.config, o.tree) = c
  BY <1>1 DEF LoadAdminConfig
<1>5. r # AdminRepo /\ \A q \in SubRepos(c) : q \in ConfigRepo
  BY <1>2, <1>3, SubReposOpen, SubReposApart DEF SubRepos, Opens
<1> HIDE DEF c
<1>6. j.seen \in [ConfigRepo -> Nat \cup {Unread}] /\ AdminRepo \in ConfigRepo
  BY AdminRepoTree DEF JobType
<1>7. /\ o.seen[AdminRepo] = j.seen[AdminRepo]
      /\ \A q \in ConfigRepo \ {AdminRepo} : o.seen[q] # Unread <=> q \in SubRepos(c) \ o.todo
  BY <1>1, <1>2, <1>5, <1>6 DEF Unread
<1>8. o.config = MergedBut(c, DiskIn(l, o.seen), o.todo)
  <2> DEFINE d == DiskIn(l, j.seen)  e == DiskIn(l, o.seen)
  <2>1. \A q \in SubRepos(c) \ j.todo : d[q] = e[q]
    BY <1>1, <1>5, <1>6 DEF DiskIn
  <2>2. e[r] = t
    BY <1>1, <1>6 DEF DiskIn
  <2> HIDE DEF d, e, t
  <2>3. MergedBut(c, d, j.todo) = MergedBut(c, e, j.todo)
    BY <1>3, <2>1, MergedButDepends
  <2>4. LoadSubConfig(MergedBut(c, e, j.todo), r, e[r]) = MergedBut(c, e, j.todo \ {r})
    BY <1>2, <1>3, MergedButStep
  <2> QED BY <1>1, <1>2, <2>2, <2>3, <2>4 DEF d, e
<1> QED BY <1>1, <1>2, <1>4, <1>7, <1>8 DEF MadeOf

\* Whose keys a finished load finds: those of the versions it has read.
LEMMA KeysAreOwned ==
    ASSUME NEW l, NEW j \in JobType, MadeOf(l, j), j.todo = {}, NEW n,
           TreeIn(l, AdminRepo, n) \in AdminTree,
           \/ j.tree = TreeIn(l, AdminRepo, n)
           \/ j.tree \in EnsureAdminConfig(TreeIn(l, AdminRepo, n)),
           NEW u \in Keys(j.config.users), NEW k \in j.config.users[u].keys,
           \A r \in ConfigRepo : DiskIn(l, j.seen)[r] \in TreeOf(r) \/ j.seen[r] = Unread
    PROVE  Owned(l, k, u, n, j.seen[UserRepo(u)])
<1> DEFINE t == j.tree
           c == LoadAdminConfig(j.config, t)
           d == DiskIn(l, j.seen)
           own == TreeIn(l, UserRepo(u), j.seen[UserRepo(u)])
<1>1. /\ AdminLoads(t) /\ j.config = MergedBut(c, d, {})
      /\ \A r \in ConfigRepo \ {AdminRepo} : j.seen[r] # Unread <=> r \in SubRepos(c)
  BY DEF MadeOf
<1>2. c \in ConfigType
  BY <1>1, LoadAdminConfigType DEF JobType
<1>3. \A r \in SubRepos(c) : d[r] \in TreeOf(r)
  <2>1. \A r \in SubRepos(c) : r \in ConfigRepo /\ r # AdminRepo
    BY <1>2, SubReposOpen, SubReposApart DEF SubRepos, Opens
  <2> QED BY <1>1, <2>1
<1>4. u \in User /\ u \in Keys(c.users)
  <2>1. Keys(j.config.users) = Keys(c.users)
    <3> HIDE DEF c, d
    <3>1. \A r \in SubRepos(c) \ {} : d[r] \in TreeOf(r)
      BY <1>3
    <3> QED BY <1>1, <1>2, <3>1, MergedButKeeps
  <2> QED BY <2>1, <1>2 DEF Keys, ConfigType, MapOf
<1>5. UserRepo(u) \in ConfigRepo /\ UserRepo(u) # AdminRepo
  BY <1>4, SubReposApart DEF ConfigRepo
<1>6. c.users = t.users /\ c.options = t.options
  BY DEF LoadAdminConfig
<1>7. j.config.users[u] = MergedUser(t.options, t.users[u], own)
  <2>1. j.config.users = UsersBut(c, d, {})
    BY <1>1, <1>2, MergedButFields
  <2>2. CASE UserRepo(u) \in UserSubRepos(c)
    BY <1>4, <1>5, <1>6, <2>1, <2>2 DEF UsersBut, DiskIn
  <2>3. CASE UserRepo(u) \notin UserSubRepos(c)
    <3>1. UserRepo(u) \notin SubRepos(c)
      BY <2>3, SubReposApart DEF SubRepos, OrgSubRepos
    <3>2. own = EmptyUserTree
      BY <1>1, <1>5, <3>1, SubReposApart DEF TreeIn, EmptyTree
    <3>3. MergedUser(t.options, t.users[u], own) = t.users[u]
      BY <3>2 DEF MergedUser, EmptyUserTree
    <3> QED BY <1>4, <1>6, <2>1, <2>3, <3>3 DEF UsersBut
  <2> QED BY <2>2, <2>3
<1>8. t.users = TreeIn(l, AdminRepo, n).users /\ t.options = TreeIn(l, AdminRepo, n).options
  <2>1. Keys(t.users) # {}
    BY <1>4, <1>6
  <2> QED BY <2>1, EnsureKeepsUsers
<1> QED BY <1>4, <1>6, <1>7, <1>8 DEF Owned, LoadAdminConfig

-----------------------------------------------------------------------------
(* The invariant is inductive                                              *)

\* A load that has yet to begin.
LEMMA FreshJob ==
    ASSUME NEW c, NEW u, NEW l, NEW stage
    PROVE  /\ JobReads(l, stage, [NoJob EXCEPT !.config = c, !.user = u])
           /\ [NoJob EXCEPT !.config = c, !.user = u].config = c
           /\ [NoJob EXCEPT !.config = c, !.user = u].seen[AdminRepo] = Unread
<1> DEFINE j == [NoJob EXCEPT !.config = c, !.user = u]
<1>1. /\ j.opened = FALSE /\ j.seen = NothingSeen /\ j.todo = {} /\ j.outcome = "ok"
      /\ j.config = c
  BY DEF NoJob
<1> HIDE DEF j
<1>2. j.seen[AdminRepo] = Unread
  BY <1>1, AdminRepoTree DEF NothingSeen
<1>3. JobReads(l, stage, j)
  BY <1>1 DEF JobReads
<1> QED BY <1>1, <1>2, <1>3 DEF j

\* A version in the log is a tree of its repo.
LEMMA TreesInLog ==
    ASSUME LogOK, NEW r \in ConfigRepo, version[r] \in Nat, NEW n \in 0..version[r]
    PROVE  TreeIn(log, r, n) \in TreeOf(r) /\ TreeIn(log, r, version[r]) = master[r]
<1>1. /\ log[r] \in Seq(TreeOf(r)) /\ Len(log[r]) = version[r] + 1
      /\ log[r][version[r] + 1] = master[r]
  BY DEF LogOK
<1>2. n + 1 \in 1..Len(log[r]) /\ n # Unread /\ version[r] # Unread
  BY <1>1 DEF Unread
<1> QED BY <1>1, <1>2 DEF TreeIn

\* A step that moves no branch adds nothing to the log.
LEMMA LogStays ==
    ASSUME LogOK, HistoryNext, version' = version
    PROVE  log' = log
BY DEF LogOK, HistoryNext, Logged

\* What a reload has when it opens the admin repo.
LEMMA OpenReads ==
    ASSUME IInv, HistoryNext, NEW p \in Proc, OpenAdminRepo(p), pc[p] \in ReloadStage
    PROVE  JobReads(log', pc'[p], job'[p]) /\ JobKeys(log', version', job'[p])
<1> DEFINE j == job[p]
           v == version[AdminRepo]
<1>1. /\ j \in JobType /\ job \in [Proc -> JobType]
      /\ version \in [ConfigRepo -> Nat] /\ v \in Nat /\ AdminRepo \in ConfigRepo
  BY AdminRepoTree DEF IInv, TypeInv, TypeOK, GitOK, ProcOK
<1>2. PICK t \in Worktrees(p) : job' = [job EXCEPT ![p] = OpenedJob(job[p], t, v)]
  BY <1>1 DEF OpenAdminRepo
<1>3. t \in AdminTree
  BY WorktreesType DEF IInv
<1>4. pc' = pc /\ version' = version /\ log' = log /\ ~j.opened
  BY LogStays DEF OpenAdminRepo, IInv, HistoryInv
<1>5. JobReads(log, pc[p], j) /\ JobKeys(log, version, j)
  BY DEF IInv, HistoryInv, ReloadsOK
<1>6. j.seen = NothingSeen /\ j.seen[AdminRepo] = Unread /\ j.outcome = "ok"
  BY <1>1, <1>4, <1>5 DEF JobReads, NothingSeen
<1> DEFINE o == OpenedJob(j, t, v)
<1>7. /\ o = OpenedJob(j, t, v) /\ job'[p] = o /\ o.opened = TRUE /\ o.tree = t
      /\ v # Unread
      /\ o.config.publicKeys = j.config.publicKeys
      /\ o.seen[AdminRepo] \in {v, Unread}
  <2>1. o = OpenedJob(j, t, v) /\ job'[p] = o /\ v # Unread
    BY <1>1, <1>2 DEF Unread
  <2> HIDE DEF j, v
  <2>2. /\ o.opened = TRUE /\ o.tree = t
        /\ o.seen[AdminRepo] \in {v, j.seen[AdminRepo]}
    BY <1>1, OpenedTree
  <2>3. o.config.publicKeys = j.config.publicKeys
    BY <1>1, OpenedKeys
  <2> QED BY <1>6, <2>1, <2>2, <2>3
<1> HIDE DEF o, j, v
<1>8. JobKeys(log, version, o)
  <2>1. LastAdmin(version, o) = v /\ LastAdmin(version, j) = v
    BY <1>6, <1>7 DEF LastAdmin, v
  <2> QED BY <1>5, <1>7, <2>1 DEF JobKeys
<1>9. ASSUME o.outcome = "ok"
      PROVE  /\ MadeOf(log, o)
             /\ pc[p] = "load" => o.tree = TreeIn(log, AdminRepo, o.seen[AdminRepo])
             /\ pc[p] = "ensure" =>
                   o.tree \in EnsureAdminConfig(TreeIn(log, AdminRepo, o.seen[AdminRepo]))
  <2>1. MadeOf(log, o) /\ o.seen[AdminRepo] = v
    BY <1>1, <1>3, <1>6, <1>7, <1>9, OpenedMade
  <2>2. TreeIn(log, AdminRepo, v) = master[AdminRepo]
    <3>1. v \in 0..version[AdminRepo] /\ LogOK
      BY <1>1 DEF v, IInv, HistoryInv
    <3> QED BY <1>1, <3>1, TreesInLog DEF v
  <2>3. pc[p] = "load" => t = master[AdminRepo]
    BY DEF Worktrees
  <2>4. pc[p] = "ensure" => t \in EnsureAdminConfig(master[AdminRepo])
    BY DEF Worktrees
  <2> QED BY <1>7, <2>1, <2>2, <2>3, <2>4
<1> QED BY <1>4, <1>7, <1>8, <1>9 DEF JobReads

\* What it has when it has opened one more config repo.
LEMMA LoadReads ==
    ASSUME IInv, HistoryNext, NEW p \in Proc, LoadSub(p), pc[p] \in ReloadStage
    PROVE  JobReads(log', pc'[p], job'[p]) /\ JobKeys(log', version', job'[p])
<1> DEFINE j == job[p]
<1>1. j \in JobType /\ job \in [Proc -> JobType] /\ version \in [ConfigRepo -> Nat]
  BY DEF IInv, TypeInv, TypeOK, GitOK, ProcOK
<1>2. PICK r \in j.todo :
        job' = [job EXCEPT ![p] = LoadedJob(job[p], r, SubTree(p, r), version[r])]
  BY <1>1 DEF LoadSub
<1>3. r \in ConfigRepo /\ r # AdminRepo /\ version[r] \in Nat
  BY <1>1, SubReposApart DEF IInv, TypeInv, TodoOK, Opens
<1>4. pc' = pc /\ version' = version /\ log' = log
  BY LogStays DEF LoadSub, gitVars, IInv, HistoryInv
<1>5. JobReads(log, pc[p], j) /\ JobKeys(log, version, j)
  BY DEF IInv, HistoryInv, ReloadsOK
<1>6. j.opened
  BY <1>5 DEF JobReads
<1>7. SubTree(p, r) = TreeIn(log, r, version[r])
  <2>1. SubTree(p, r) = master[r]
    BY DEF SubTree, ReloadStage
  <2>2. version[r] \in 0..version[r] /\ LogOK
    BY <1>3 DEF IInv, HistoryInv
  <2> QED BY <1>3, <2>1, <2>2, TreesInLog
<1> DEFINE v == version[r]
           t == TreeIn(log, r, v)
           o == LoadedJob(j, r, t, v)
<1>8. /\ o = LoadedJob(j, r, TreeIn(log, r, v), v)
      /\ job'[p] = o /\ o.opened = j.opened /\ o.tree = j.tree /\ v # Unread
      /\ o.config.publicKeys = j.config.publicKeys
      /\ o.seen[AdminRepo] = j.seen[AdminRepo]
      /\ o.outcome = "ok" => j.outcome = "ok"
  BY <1>1, <1>2, <1>3, <1>7, LoadedTree, LoadedKeys DEF Unread
<1> HIDE DEF o, j, t, v
<1>9. JobKeys(log, version, o)
  <2>1. LastAdmin(version, o) = LastAdmin(version, j)
    BY <1>8 DEF LastAdmin
  <2> QED BY <1>5, <1>8, <2>1 DEF JobKeys
<1>10. ASSUME o.outcome = "ok" PROVE MadeOf(log, o)
  <2>1. MadeOf(log, j) /\ j.tree \in AdminTree
    BY <1>1, <1>5, <1>6, <1>8, <1>10 DEF JobReads, JobType
  <2> QED BY <1>1, <1>2, <1>3, <1>8, <1>10, <2>1, LoadedMade
<1> QED BY <1>4, <1>5, <1>6, <1>8, <1>9, <1>10 DEF JobReads

\* What it has when it goes on to the next load: the keys flatten found are in
\* the version read or, after EnsureAdminUser, in the one just committed.
LEMMA EnsureReads ==
    ASSUME IInv, LogOK', TypeInv', HistoryNext, Grows(log, version, log', version'),
           NEW p \in Proc, EnsureDone(p)
    PROVE  JobReads(log', pc'[p], job'[p]) /\ JobKeys(log', version', job'[p])
<1> DEFINE j == job[p]
<1>1. /\ j \in JobType /\ job \in [Proc -> JobType] /\ AdminRepo \in ConfigRepo
      /\ version' \in [ConfigRepo -> Nat] /\ version'[AdminRepo] \in Nat
  BY AdminRepoTree DEF IInv, TypeInv, TypeOK, GitOK, ProcOK
<1>2. PICK c \in Flatten(j.config) :
        job' = [job EXCEPT ![p] = [NoJob EXCEPT !.config = c, !.user = NoUser]]
  BY DEF EnsureDone, Begin
<1>3. /\ pc[p] \in {"ensure", "admin"} /\ j.opened /\ j.todo = {} /\ j.outcome = "ok"
      /\ pc[p] \in ReloadStage
  BY DEF EnsureDone, LoadDone, ReloadStage
<1>4. JobReads(log', pc[p], j) /\ JobKeys(log', version', j)
  <2>1. JobReads(log, pc[p], j) /\ JobKeys(log, version, j)
    BY <1>3 DEF IInv, HistoryInv, ReloadsOK
  <2>2. \A r \in ConfigRepo : j.seen[r] <= version[r]
    BY DEF IInv, ServeInv, SeenOK
  <2> QED BY <1>1, <2>1, <2>2, JobKeeps
<1>5. MadeOf(log', j)
  BY <1>3, <1>4 DEF JobReads
<1>6. \A r \in ConfigRepo : j.seen[r] \in 0..version'[r] \cup {Unread}
  <2>1. ASSUME NEW r \in ConfigRepo PROVE j.seen[r] \in 0..version'[r] \cup {Unread}
    <3>1. j.seen[r] \in Nat \cup {Unread} /\ j.seen[r] <= version[r]
      BY <1>1 DEF JobType, IInv, ServeInv, SeenOK
    <3>2. version[r] \in Nat /\ version'[r] \in Nat /\ version[r] <= version'[r]
      BY DEF Grows
    <3> QED BY <3>1, <3>2
  <2> QED BY <2>1
<1>7. PICK n \in 0..version'[AdminRepo] :
        \/ j.tree = TreeIn(log', AdminRepo, n)
        \/ j.tree \in EnsureAdminConfig(TreeIn(log', AdminRepo, n))
  <2>1. CASE pc[p] = "ensure"
    <3>1. j.seen[AdminRepo] \in 0..version'[AdminRepo]
      BY <1>1, <1>5, <1>6 DEF MadeOf
    <3> QED BY <1>3, <1>4, <2>1, <3>1 DEF JobReads
  <2>2. CASE pc[p] = "admin"
    <3>1. head = OnMaster /\ index = j.tree
      BY <1>3, <2>2 DEF IInv, HistoryInv, AdminAlone
    <3>2. master'[AdminRepo] = j.tree
      BY <1>1, <3>1 DEF EnsureDone, IsClean, HeadTree, CommitAdminRepo, gitVars, IInv, TypeInv,
                        TypeOK, GitOK
    <3>3. TreeIn(log', AdminRepo, version'[AdminRepo]) = master'[AdminRepo]
      BY <1>1 DEF LogOK, TreeIn, Unread
    <3>4. version'[AdminRepo] \in 0..version'[AdminRepo]
      BY <1>1
    <3> QED BY <3>2, <3>3, <3>4
  <2> QED BY <1>3, <2>1, <2>2
<1>8. \A r \in ConfigRepo : \A m \in 0..version'[r] : TreeIn(log', r, m) \in TreeOf(r)
  <2>1. ASSUME NEW r \in ConfigRepo, NEW m \in 0..version'[r]
        PROVE  TreeIn(log', r, m) \in TreeOf(r)
    <3>1. /\ log'[r] \in Seq(TreeOf(r)) /\ Len(log'[r]) = version'[r] + 1
          /\ version'[r] \in Nat
      BY <1>1 DEF LogOK
    <3>2. m + 1 \in 1..Len(log'[r]) /\ m # Unread
      BY <3>1 DEF Unread
    <3> QED BY <3>1, <3>2 DEF TreeIn
  <2> QED BY <2>1
<1>9. ASSUME NEW k \in Key, c.publicKeys[k] # Nil
      PROVE  \E i \in 0..version'[AdminRepo],
                m \in 0..version'[UserRepo(c.publicKeys[k])] \cup {Unread} :
                   Owned(log', k, c.publicKeys[k], i, m)
  <2> DEFINE u == c.publicKeys[k]
  <2>0. j.config \in ConfigType
    BY <1>1 DEF JobType
  <2>1. CASE k \in KeysOf(j.config.users)
    <3>1. u \in Keys(j.config.users) /\ k \in j.config.users[u].keys
      BY <2>0, <2>1, FlattenKeys
    <3>2. u \in User
      BY <2>0, <3>1 DEF ConfigType, MapOf, Keys
    <3> HIDE DEF u
    <3>3. \A r \in ConfigRepo : DiskIn(log', j.seen)[r] \in TreeOf(r) \/ j.seen[r] = Unread
      BY <1>6, <1>8 DEF DiskIn
    <3>4. TreeIn(log', AdminRepo, n) \in AdminTree
      BY <1>1, <1>7, <1>8, AdminRepoTree
    <3>5. Owned(log', k, u, n, j.seen[UserRepo(u)])
      BY <1>1, <1>3, <1>5, <1>7, <3>1, <3>3, <3>4, KeysAreOwned
    <3>6. UserRepo(u) \in ConfigRepo
      BY <3>2 DEF ConfigRepo
    <3> QED BY <1>6, <3>5, <3>6 DEF u
  <2>2. CASE k \notin KeysOf(j.config.users)
    <3>1. u = j.config.publicKeys[k]
      BY <2>0, <2>2, FlattenKeys
    <3>2. PICK i \in 0..LastAdmin(version', j), m \in 0..version'[UserRepo(u)] \cup {Unread} :
             Owned(log', k, u, i, m)
      BY <1>4, <1>9, <3>1 DEF JobKeys
    <3>3. i \in 0..version'[AdminRepo]
      BY <1>1, <1>6, <3>2 DEF LastAdmin, Unread
    <3> QED BY <3>2, <3>3
  <2> QED BY <2>1, <2>2
<1> DEFINE o == [NoJob EXCEPT !.config = c, !.user = NoUser]
<1>10. job'[p] = o /\ JobReads(log', pc'[p], o) /\ o.config = c /\ o.seen[AdminRepo] = Unread
  BY <1>1, <1>2, FreshJob
<1> HIDE DEF o
<1>11. LastAdmin(version', o) = version'[AdminRepo]
  BY <1>10 DEF LastAdmin
<1>12. JobKeys(log', version', o)
  BY <1>9, <1>10, <1>11 DEF JobKeys
<1> QED BY <1>10, <1>12

\* Every reload that goes on knows what it has.
LEMMA ReloadsStep ==
    ASSUME IInv, LogOK', TypeInv', HistoryNext, Grows(log, version, log', version')
    PROVE  ReloadsOK'
<1> SUFFICES ASSUME NEW p \in Proc, pc'[p] \in ReloadStage
             PROVE  JobReads(log', pc'[p], job'[p]) /\ JobKeys(log', version', job'[p])
  BY DEF ReloadsOK
<1>0. Next /\ TypeInv /\ ProcOK
  BY DEF HistoryNext, IInv, TypeInv, TypeOK
<1>1. CASE pc'[p] = pc[p] /\ job'[p] = job[p]
  <2>1. JobReads(log, pc[p], job[p]) /\ JobKeys(log, version, job[p])
    BY <1>1 DEF IInv, HistoryInv, ReloadsOK
  <2>2. job[p] \in JobType /\ \A r \in ConfigRepo : job[p].seen[r] <= version[r]
    BY <1>0 DEF ProcOK, IInv, ServeInv, SeenOK
  <2>3. JobReads(log', pc[p], job[p]) /\ JobKeys(log', version', job[p])
    BY <2>1, <2>2, JobKeeps
  <2> QED BY <1>1, <2>3
<1>2. CASE OpenAdminRepo(p) \/ LoadSub(p)
  <2>1. pc[p] \in ReloadStage
    BY <1>2 DEF OpenAdminRepo, LoadSub
  <2> QED BY <1>2, <2>1, OpenReads, LoadReads
<1>3. CASE LockReload(p)
  <2> DEFINE o == [NoJob EXCEPT !.config = NewConfig, !.user = NoUser]
  <2>1. job'[p] = o
    BY <1>0, <1>3 DEF LockReload, Begin, ProcOK
  <2>2. JobReads(log', pc'[p], o) /\ o.config = NewConfig
    BY FreshJob
  <2> HIDE DEF o
  <2>3. JobKeys(log', version', o)
    BY <2>2 DEF JobKeys, NewConfig, EmptyMap
  <2> QED BY <2>1, <2>2, <2>3
<1>4. CASE EnsureDone(p)
  BY <1>4, EnsureReads
<1> QED BY <1>0, <1>1, <1>2, <1>3, <1>4, WhoMoves

\* Every step of the server preserves the invariant.
LEMMA HistoryStep == IInv /\ [HistoryNext]_<<vars, log>> => IInv' /\ Grows(log, version, log', version')
<1> SUFFICES ASSUME IInv, [HistoryNext]_<<vars, log>>
             PROVE  IInv' /\ Grows(log, version, log', version')
  OBVIOUS
<1>0. TypeInv /\ ServeInv /\ LogOK /\ BootAlone /\ AdminAlone /\ ReloadsOK
  BY DEF IInv, HistoryInv
<1>1. CASE HistoryNext
  <2>1. Next
    BY <1>1 DEF HistoryNext
  <2>2. TypeInv' /\ ServeInv'
    BY <1>0, <2>1, TypeStep, ServeStep
  <2>3. LogOK' /\ Grows(log, version, log', version')
    BY <1>0, <1>1, <2>2, LogStep
  <2>4. BootAlone' /\ AdminAlone'
    BY <1>0, <2>1, BootAloneStep, AdminAloneStep
  <2>5. ReloadsOK'
    BY <1>1, <2>2, <2>3, ReloadsStep
  <2> QED BY <2>2, <2>3, <2>4, <2>5 DEF IInv, HistoryInv
<1>2. CASE UNCHANGED <<vars, log>>
  <2>1. TypeInv' /\ ServeInv'
    BY <1>0, <1>2, TypeStep, ServeStep
  <2>2. /\ UNCHANGED <<master, version, index, head, phase, pc, job, log>>
    BY <1>2 DEF vars, gitVars, servVars, sessVars
  <2>3. LogOK' /\ BootAlone' /\ AdminAlone' /\ ReloadsOK'
    BY <1>0, <2>2 DEF LogOK, BootAlone, AdminAlone, ReloadsOK
  <2>4. Grows(log, version, log', version')
    BY <1>0, <2>2 DEF Grows, TypeInv, TypeOK, GitOK
  <2> QED BY <2>1, <2>3, <2>4 DEF IInv, HistoryInv
<1> QED BY <1>1, <1>2

\* It holds at the start, when the log has one version of every repo.
LEMMA HistoryStart == HistoryInit => IInv
<1> SUFFICES ASSUME HistoryInit PROVE IInv
  OBVIOUS
<1>1. Init /\ log = [r \in ConfigRepo |-> <<master[r]>>]
  BY DEF HistoryInit
<1>2. TypeInv /\ ServeInv
  BY <1>1, TypeInit, ServeInit
<1>3. LogOK
  <2>1. ASSUME NEW r \in ConfigRepo
        PROVE  /\ log[r] \in Seq(TreeOf(r)) /\ Len(log[r]) = version[r] + 1
               /\ log[r][version[r] + 1] = master[r]
    <3>1. log[r] = <<master[r]>> /\ version[r] = 0 /\ master[r] \in TreeOf(r)
      BY <1>1, <1>2 DEF Init, TypeInv, TypeOK, GitOK
    <3> QED BY <3>1
  <2> QED BY <1>1, <2>1 DEF LogOK
<1>4. BootAlone /\ AdminAlone /\ ReloadsOK
  BY <1>1 DEF Init, BootAlone, AdminAlone, ReloadsOK, ReloadStage, Proc
<1> QED BY <1>2, <1>3, <1>4 DEF IInv, HistoryInv

-----------------------------------------------------------------------------
(* What is published                                                       *)

\* A finished load of versions that are in the log is what they mean, but for
\* keys flatten found in the config earlier.
LEMMA LoadMeans ==
    ASSUME NEW l, NEW j \in JobType, MadeOf(l, j), j.todo = {},
           j.tree = TreeIn(l, AdminRepo, j.seen[AdminRepo]),
           \A r \in ConfigRepo : DiskIn(l, j.seen)[r] \in TreeOf(r) \/ j.seen[r] = Unread,
           NEW d \in Flatten(j.config)
    PROVE  /\ \E e \in Meaning(DiskIn(l, j.seen)) :
                 d = WithKeys(e, d.publicKeys) /\ e.users = j.config.users
           /\ {r \in ConfigRepo : j.seen[r] # Unread} = {AdminRepo} \cup SubRepos(d)
<1> DEFINE t == j.tree
           c == LoadAdminConfig(j.config, t)
           disk == DiskIn(l, j.seen)
           none == EmptyMap(Key)
<1>1. /\ AdminLoads(t) /\ j.seen[AdminRepo] # Unread /\ j.config = MergedBut(c, disk, {})
      /\ \A r \in ConfigRepo \ {AdminRepo} : j.seen[r] # Unread <=> r \in SubRepos(c)
  BY DEF MadeOf
<1>2. c \in ConfigType /\ j.config \in ConfigType
  BY <1>1, LoadAdminConfigType DEF JobType
<1>3. none \in MapOf(Key, User)
  BY DEF EmptyMap, MapOf
<1>4. disk[AdminRepo] = t
  BY AdminRepoTree DEF DiskIn
<1>5. WithKeys(c, none) = LoadAdminConfig(NewConfig, t)
  <2>1. WithKeys(c, none) = [users |-> c.users, groups |-> c.groups, orgs |-> c.orgs,
            repos |-> c.repos, options |-> c.options, hostKey |-> c.hostKey,
            publicKeys |-> none]
    BY <1>2, WithKeysFields
  <2> QED BY <2>1 DEF LoadAdminConfig, NewConfig
<1>6. \A r \in SubRepos(c) : r \in ConfigRepo /\ r # AdminRepo
  BY <1>2, SubReposOpen, SubReposApart DEF SubRepos, Opens
<1>7. \A r \in SubRepos(c) \ {} : disk[r] \in TreeOf(r)
  BY <1>1, <1>6
<1> HIDE DEF c, disk, none
<1>8. Meaning(disk) = Flatten(WithKeys(j.config, none))
  BY <1>1, <1>2, <1>3, <1>4, <1>5, MergedWithKeys DEF Meaning
<1>9. PICK e \in Flatten(WithKeys(j.config, none)) : d = WithKeys(e, d.publicKeys)
  BY <1>2, <1>3, FlattenAnew
<1>10. e.users = j.config.users
  <2> DEFINE b == WithKeys(j.config, none)
  <2>1. b \in ConfigType /\ b.users = j.config.users
    BY <1>2, <1>3, WithKeysFields
  <2> HIDE DEF b
  <2>2. e = WithKeys(b, e.publicKeys)
    BY <1>9, <2>1, FlattenKeys DEF b
  <2>3. WithKeys(b, e.publicKeys).users = b.users
    BY <2>1, WithKeysFields
  <2> QED BY <2>1, <2>2, <2>3
<1>11. SubRepos(d) = SubRepos(c)
  <2>1. d = WithKeys(j.config, d.publicKeys)
    BY <1>2, FlattenKeys
  <2>2. /\ WithKeys(j.config, d.publicKeys).users = j.config.users
        /\ WithKeys(j.config, d.publicKeys).orgs = j.config.orgs
        /\ WithKeys(j.config, d.publicKeys).options = j.config.options
    BY <1>2, WithKeysFields
  <2>3. UserSubRepos(d) = UserSubRepos(j.config) /\ OrgSubRepos(d) = OrgSubRepos(j.config)
    BY <2>1, <2>2 DEF UserSubRepos, OrgSubRepos
  <2>4. UserSubRepos(j.config) = UserSubRepos(c) /\ OrgSubRepos(j.config) = OrgSubRepos(c)
    BY <1>1, <1>2, <1>7, MergedButKeeps
  <2> QED BY <2>3, <2>4 DEF SubRepos
<1>12. {r \in ConfigRepo : j.seen[r] # Unread} = {AdminRepo} \cup SubRepos(c)
  BY <1>1, <1>6, AdminRepoTree
<1> QED BY <1>8, <1>9, <1>10, <1>11, <1>12 DEF disk

-----------------------------------------------------------------------------
(* PublishedConfig speaks of the same configs and disks as Server          *)

\* The config repos.
LEMMA SameRepos ==
    /\ Published!AdminRepo = AdminRepo /\ Published!ConfigRepo = ConfigRepo
    /\ \A u : Published!UserRepo(u) = UserRepo(u)
    /\ \A o : Published!OrgRepo(o) = OrgRepo(o)
BY DEF Published!AdminRepo, AdminRepo, Published!ConfigRepo, ConfigRepo,
       Published!UserRepo, UserRepo, Published!OrgRepo, OrgRepo

\* The config repos a config refers to.
LEMMA SameSubRepos ==
    \A c : Published!UserSubRepos(c) = UserSubRepos(c) /\ Published!OrgSubRepos(c) = OrgSubRepos(c)
BY SameRepos DEF Published!UserSubRepos, UserSubRepos, Published!OrgSubRepos, OrgSubRepos,
                 Published!Keys, Keys

\* The trees in them.
LEMMA SameTrees == \A r : Published!TreeOf(r) = TreeOf(r)
<1>1. /\ Published!AdminTree = AdminTree /\ Published!UserTree = UserTree
      /\ Published!OrgTree = OrgTree
  BY DEF Published!AdminTree, AdminTree, Published!UserTree, UserTree, Published!OrgTree, OrgTree,
         Published!MapOf, MapOf, Published!RepoMap, RepoMap, Published!RepoConfig, RepoConfig,
         Published!Member, Member, Published!AdminConfigUser, AdminConfigUser,
         Published!OrgConfig, OrgConfig, Published!Options, Options
<1> QED BY <1>1 DEF Published!TreeOf, TreeOf

\* The tree of a repo that is not there.
LEMMA SameEmptyTree == \A r : Published!EmptyTree(r) = EmptyTree(r)
BY DEF Published!EmptyTree, EmptyTree, Published!EmptyAdminTree, EmptyAdminTree,
       Published!EmptyUserTree, EmptyUserTree, Published!EmptyOrgTree, EmptyOrgTree,
       Published!EmptyMap, EmptyMap, Published!DefaultOptions, DefaultOptions

\* The config loadAdminConfig fills.
LEMMA SameLoad ==
    /\ Published!NewConfig = NewConfig
    /\ \A c, t : Published!LoadAdminConfig(c, t) = LoadAdminConfig(c, t)
<1>1. Published!NewConfig = NewConfig
  BY DEF Published!NewConfig, NewConfig, Published!EmptyMap, EmptyMap,
         Published!DefaultOptions, DefaultOptions
<1>2. \A c, t : Published!LoadAdminConfig(c, t) = LoadAdminConfig(c, t)
  BY DEF Published!LoadAdminConfig, LoadAdminConfig
<1> QED BY <1>1, <1>2

\* What is merged into a user's entry.
LEMMA SameUser ==
    ASSUME NEW o, NEW u, NEW t
    PROVE  Published!MergedUser(o, u, t) = MergedUser(o, u, t)
BY Zenon DEF Published!MergedUser, MergedUser, Published!Fill, Fill, Published!Over, Over

\* What is merged into an org's entry.
LEMMA SameOrg ==
    ASSUME NEW o, NEW u, NEW t
    PROVE  Published!MergedOrg(o, u, t) = MergedOrg(o, u, t)
BY Zenon DEF Published!MergedOrg, MergedOrg, Published!Fill, Fill, Published!Over, Over

\* Keys and their owners.
LEMMA SameKeys ==
    /\ \A m : Published!Keys(m) = Keys(m) /\ Published!KeysOf(m) = KeysOf(m)
    /\ \A c : Published!Flatten(c) = Flatten(c)
<1>1. \A m : Published!Keys(m) = Keys(m) /\ Published!KeysOf(m) = KeysOf(m)
             /\ Published!KeyOwners(m) = KeyOwners(m)
  BY DEF Published!Keys, Keys, Published!KeysOf, KeysOf, Published!KeyOwners, KeyOwners
<1> QED BY <1>1 DEF Published!Flatten, Flatten

\* What a disk means.
LEMMA SameMeaning == \A disk : Published!Meaning(disk) = Meaning(disk)
<1>1. \A c, disk : Published!Merged(c, disk) = Merged(c, disk)
  BY SameRepos, SameSubRepos, SameUser, SameOrg DEF Published!Merged, Merged
<1> QED BY <1>1, SameRepos, SameLoad, SameKeys DEF Published!Meaning, Meaning

\* The versions of the config repos.
LEMMA SameVersions ==
    /\ \A r, n : Published!TreeAt(r, n) = TreeIn(log, r, n)
    /\ \A v : Published!DiskAt(v) = DiskIn(log, v)
<1>1. \A r, n : Published!TreeAt(r, n) = TreeIn(log, r, n)
  BY SameEmptyTree DEF Published!TreeAt, TreeIn
<1> QED BY <1>1, SameRepos DEF Published!DiskAt, DiskIn

\* Whose a key was.
LEMMA SameOwner ==
    ASSUME NEW k, NEW u, NEW v, NEW n \in 0..v[AdminRepo],
           NEW m \in 0..(Len(log[UserRepo(u)]) - 1) \cup {Unread}, Owned(log, k, u, n, m)
    PROVE  Published!OnceOwned(k, u, v)
<1>1. n \in 0..v[Published!AdminRepo]
  BY SameRepos
<1>2. m \in 0..Published!Tip(Published!UserRepo(u)) \cup {Unread}
  BY SameRepos DEF Published!Tip
<1> DEFINE admin == LoadAdminConfig(NewConfig, TreeIn(log, AdminRepo, n))
           own == MergedUser(admin.options, admin.users[u], TreeIn(log, UserRepo(u), m))
<1>3. u \in Keys(admin.users) /\ k \in own.keys
  BY DEF Owned
<1>4. /\ admin = Published!LoadAdminConfig(Published!NewConfig,
                                          Published!TreeAt(Published!AdminRepo, n))
      /\ Published!TreeAt(Published!UserRepo(u), m) = TreeIn(log, UserRepo(u), m)
  BY SameRepos, SameLoad, SameVersions
<1>5. own = Published!MergedUser(admin.options, admin.users[u],
                                 Published!TreeAt(Published!UserRepo(u), m))
  BY <1>4, SameUser
<1> HIDE DEF admin, own
<1>6. /\ u \in Published!Keys(admin.users)
      /\ k \in Published!MergedUser(admin.options, admin.users[u],
                                    Published!TreeAt(Published!UserRepo(u), m)).keys
  BY <1>3, <1>5, SameKeys
<1> QED BY <1>1, <1>2, <1>4, <1>6 DEF Published!OnceOwned

-----------------------------------------------------------------------------
(* Every step of the server is one of PublishedConfig, or none             *)

\* What sessions are given, and from which versions.
Given == IF phase = "up" THEN served ELSE Nil
GivenAt == IF phase = "up" THEN servedAt ELSE NothingSeen

\* The server process ends.
LEMMA DieStops ==
    ASSUME LogOK, HistoryNext, Die
    PROVE  Published!Stop
<1>1. phase' = "down" /\ version' = version
  BY DEF Die, gitVars
<1>2. log' = log
  BY <1>1, LogStays
<1> QED BY <1>1, <1>2, SameRepos DEF Published!Stop, NothingSeen

\* A step that serves the same and moves no branch.
LEMMA NothingHappens ==
    ASSUME LogOK, HistoryNext, version' = version, Given' = Given, GivenAt' = GivenAt
    PROVE  UNCHANGED Published!vars
<1>1. log' = log
  BY LogStays
<1> QED BY <1>1 DEF Published!vars, Given, GivenAt

\* A step that moves the branch of one config repo, and serves the same.
LEMMA BranchLands ==
    ASSUME LogOK, LogOK', HistoryNext, Given' = Given, GivenAt' = GivenAt,
           version \in [ConfigRepo -> Nat],
           NEW r \in ConfigRepo, version' = [version EXCEPT ![r] = version[r] + 1]
    PROVE  Published!Land
<1>1. log' = [q \in ConfigRepo |-> Logged(q)] /\ log = [q \in ConfigRepo |-> log[q]]
  BY DEF HistoryNext, LogOK
<1>2. log'[r] = Append(log[r], master'[r])
  BY <1>1 DEF Logged
<1>3. \A q \in ConfigRepo : q # r => log'[q] = log[q]
  BY <1>1 DEF Logged
<1>4. log[r] \in Seq(TreeOf(r)) /\ log'[r] \in Seq(TreeOf(r))
      /\ Len(log'[r]) = Len(log[r]) + 1
  BY DEF LogOK
<1>5. Published!Last(log'[r]) = master'[r] /\ Published!Last(log'[r]) \in TreeOf(r)
  BY <1>2, <1>4 DEF Published!Last
<1>6. log' = [log EXCEPT ![r] = log'[r]]
  BY <1>1, <1>3
<1>7. UNCHANGED <<Given, GivenAt>>
  OBVIOUS
<1> QED BY <1>2, <1>5, <1>6, <1>7, SameRepos, SameTrees DEF Published!Land, Given, GivenAt

\* A reload that publishes serves what the versions it has read mean.
LEMMA PublishServes ==
    ASSUME IInv, TypeInv', HistoryNext, NEW p \in Proc, Publish(p), phase' = "up"
    PROVE  Published!Serve
<1> DEFINE j == job[p]
           v == j.seen
           d == served'
<1>1. /\ TypeInv /\ LogOK /\ ServeInv
      /\ j \in JobType /\ v \in [ConfigRepo -> Nat \cup {Unread}]
      /\ version \in [ConfigRepo -> Nat] /\ AdminRepo \in ConfigRepo
  BY AdminRepoTree DEF IInv, HistoryInv, TypeInv, TypeOK, GitOK, ProcOK, JobType
<1>2. /\ pc[p] = "load" /\ pc[p] \in ReloadStage /\ j.opened /\ j.todo = {} /\ j.outcome = "ok"
      /\ d \in Flatten(j.config) /\ servedAt' = v /\ version' = version
  BY DEF Publish, LoadDone, ReloadStage, gitVars
<1>3. log' = log
  BY <1>1, <1>2, LogStays
<1>4. MadeOf(log, j) /\ j.tree = TreeIn(log, AdminRepo, v[AdminRepo]) /\ JobKeys(log, version, j)
  BY <1>2 DEF IInv, HistoryInv, ReloadsOK, JobReads
<1>5. \A r \in ConfigRepo : v[r] \in 0..version[r] \cup {Unread}
  BY <1>1 DEF ServeInv, SeenOK
<1>6. \A r \in ConfigRepo : Published!Tip(r) = version[r]
  BY <1>1 DEF LogOK, Published!Tip
<1>7. d \in ConfigType /\ j.config \in ConfigType
  BY <1>1 DEF TypeInv, TypeOK, ServedOK, JobType
<1>8. \A r \in ConfigRepo : DiskIn(log, v)[r] \in TreeOf(r) \/ v[r] = Unread
  BY <1>1, <1>5, TreesInLog DEF DiskIn
<1>9. /\ \E e \in Meaning(DiskIn(log, v)) : d = WithKeys(e, d.publicKeys) /\ e.users = j.config.users
      /\ {r \in ConfigRepo : v[r] # Unread} = {AdminRepo} \cup SubRepos(d)
  BY <1>1, <1>2, <1>4, <1>8, LoadMeans
<1>10. served' # Nil /\ v \in Published!VersionVector
  <2>1. served' # Nil
    BY <1>7, NilAssumption
  <2>2. v \in [ConfigRepo -> Int]
    BY <1>1 DEF Unread
  <2> QED BY <1>5, <1>6, <2>1, <2>2, SameRepos DEF Published!VersionVector
<1>11. Published!Means(d, v)
  <2>1. PICK e \in Meaning(DiskIn(log, v)) :
           d = WithKeys(e, d.publicKeys) /\ e.users = j.config.users
    BY <1>9
  <2>2. ASSUME NEW k \in Key
        PROVE  IF k \in KeysOf(e.users)
               THEN d.publicKeys[k] \in Keys(e.users) /\ k \in e.users[d.publicKeys[k]].keys
               ELSE d.publicKeys[k] = Nil \/ Published!OnceOwned(k, d.publicKeys[k], v)
    <3> DEFINE u == d.publicKeys[k]
    <3>1. IF k \in KeysOf(e.users) THEN u \in Keys(e.users) /\ k \in e.users[u].keys
                                   ELSE u = j.config.publicKeys[k]
      BY <1>2, <1>7, <2>1, FlattenKeys
    <3>2. ASSUME u = j.config.publicKeys[k], u # Nil PROVE Published!OnceOwned(k, u, v)
      <4> HIDE DEF u
      <4>1. PICK n \in 0..LastAdmin(version, j), m \in 0..version[UserRepo(u)] \cup {Unread} :
               Owned(log, k, u, n, m)
        BY <1>4, <3>2 DEF JobKeys
      <4>2. u \in User
        BY <1>7, <3>2 DEF ConfigType, MapOf
      <4>3. UserRepo(u) \in ConfigRepo
        BY <4>2 DEF ConfigRepo
      <4>4. Len(log[UserRepo(u)]) - 1 = version[UserRepo(u)]
        BY <1>1, <4>3 DEF LogOK
      <4>5. n \in 0..v[AdminRepo]
        BY <1>4, <4>1 DEF LastAdmin, MadeOf
      <4>6. m \in 0..(Len(log[UserRepo(u)]) - 1) \cup {Unread}
        BY <4>1, <4>4
      <4> QED BY <4>1, <4>5, <4>6, SameOwner
    <3> QED BY <3>1, <3>2
  <2>3. d = [e EXCEPT !.publicKeys = d.publicKeys]
    BY <2>1 DEF WithKeys
  <2>4. e \in Published!Meaning(Published!DiskAt(v))
    BY <2>1, SameMeaning, SameVersions
  <2> HIDE DEF d, v
  <2> QED BY <2>2, <2>3, <2>4, SameKeys DEF Published!Means
<1>12. {r \in Published!ConfigRepo : v[r] # Unread} = Published!DependsOn(d)
  BY <1>9, SameRepos, SameSubRepos DEF Published!DependsOn, SubRepos
<1>13. \A r \in ConfigRepo : v[r] = Unread \/ v[r] >= servedAt[r]
  <2>1. \A r \in ConfigRepo : servedAt[r] \in Nat \cup {Unread}
    BY <1>1 DEF TypeInv, TypeOK, ServedOK
  <2> QED BY <1>1, <1>2, <1>5, <2>1 DEF ServeInv, FreshOK, Unread
<1>14. Given' = served' /\ GivenAt' = v /\ (Given # Nil => GivenAt = servedAt)
  BY <1>2 DEF Given, GivenAt
<1> HIDE DEF d, v, j
<1> QED BY <1>2, <1>3, <1>10, <1>11, <1>12, <1>13, <1>14, SameRepos
        DEF Published!Serve, Given, GivenAt, d

\* Every step of the server.
LEMMA PublishedStep ==
    ASSUME IInv, IInv', [HistoryNext]_<<vars, log>>
    PROVE  [Published!Next]_(Published!vars)
<1>0. /\ LogOK /\ LogOK' /\ TypeInv' /\ BootAlone
      /\ version \in [ConfigRepo -> Nat] /\ AdminRepo \in ConfigRepo
  BY AdminRepoTree DEF IInv, HistoryInv, TypeInv, TypeOK, GitOK
<1>1. CASE UNCHANGED <<vars, log>>
  BY <1>1 DEF vars, servVars, Published!vars
<1>2. CASE HistoryNext
  <2>1. CASE Crash \/ Die
    BY <1>0, <1>2, <2>1, DieStops DEF Crash, Published!Next
  <2>2. ASSUME version' = version,
               \/ UNCHANGED <<phase, served, servedAt>>
               \/ phase # "up" /\ phase' # "up"
        PROVE  UNCHANGED Published!vars
    <3>1. Given' = Given /\ GivenAt' = GivenAt
      BY <2>2 DEF Given, GivenAt
    <3> QED BY <1>0, <1>2, <2>2, <3>1, NothingHappens
  <2>3. ASSUME NEW r \in ConfigRepo, version' = [version EXCEPT ![r] = version[r] + 1],
               UNCHANGED <<phase, served, servedAt>>
        PROVE  Published!Next
    <3>1. Given' = Given /\ GivenAt' = GivenAt
      BY <2>3 DEF Given, GivenAt
    <3> QED BY <1>0, <1>2, <2>3, <3>1, BranchLands DEF Published!Next
  <2>4. CASE Boot
    BY <2>2, <2>4 DEF Boot, gitVars
  <2>5. ASSUME NEW p \in Proc, ProcStep(p)
        PROVE  [Published!Next]_(Published!vars)
    <3>1. CASE OpenAdminRepo(p) \/ LoadSub(p) \/ LockReload(p)
      BY <2>2, <3>1 DEF OpenAdminRepo, LoadSub, LockReload, gitVars, servVars
    <3>2. CASE EnsureDone(p)
      <4>1. UNCHANGED <<phase, served, servedAt>>
        BY <3>2 DEF EnsureDone, servVars
      <4>2. \/ version' = version
            \/ version' = [version EXCEPT ![AdminRepo] = version[AdminRepo] + 1]
        BY <1>0, <3>2 DEF EnsureDone, CommitAdminRepo, gitVars
      <4> QED BY <1>0, <2>2, <2>3, <4>1, <4>2
    <3>3. CASE Publish(p)
      <4>1. CASE phase' = "up"
        BY <1>0, <1>2, <3>3, <4>1, PublishServes DEF Published!Next
      <4>2. CASE phase' # "up"
        <5>1. version' = version /\ phase # "up"
          BY <1>0, <3>3, <4>2 DEF Publish, BootAlone, Proc, gitVars
        <5> QED BY <2>2, <4>2, <5>1
      <4> QED BY <4>1, <4>2
    <3>4. CASE ReloadFails(p)
      BY <2>1, <2>2, <3>4 DEF ReloadFails, gitVars
    <3> QED BY <2>5, <3>1, <3>2, <3>3, <3>4 DEF ProcStep
  <2>6. ASSUME NEW s \in Session, Authenticate(s) \/ Close(s) \/ Push(s) \/ SessionStep(s)
        PROVE  [Published!Next]_(Published!vars)
    <3>1. CASE Authenticate(s) \/ Close(s) \/ Push(s) \/ HookStep(s)
      BY <2>2, <3>1 DEF Authenticate, Close, Push, HookStep, gitVars, servVars
    <3>2. CASE RefUpdate(s)
      <4>1. UNCHANGED <<phase, served, servedAt>>
        BY <3>2 DEF RefUpdate, servVars
      <4>2. \/ version' = version
            \/ \E r \in ConfigRepo : version' = [version EXCEPT ![r] = version[r] + 1]
        BY <1>0, <3>2 DEF RefUpdate
      <4> QED BY <2>2, <2>3, <4>1, <4>2
    <3> QED BY <2>6, <3>1, <3>2 DEF SessionStep
  <2> QED BY <1>2, <2>1, <2>4, <2>5, <2>6 DEF HistoryNext, Next
<1> QED BY <1>1, <1>2

\* Nothing is served at the start.
LEMMA PublishedStart == HistoryInit => Published!Init
<1> SUFFICES ASSUME HistoryInit PROVE Published!Init
  OBVIOUS
<1>1. Init /\ log = [r \in ConfigRepo |-> <<master[r]>>]
  BY DEF HistoryInit
<1>2. phase = "down" /\ \A r \in ConfigRepo : Len(log[r]) = 1
  BY <1>1 DEF Init
<1> QED BY <1>1, <1>2, SameRepos DEF Published!Init, NothingSeen

\* The server implements PublishedConfig: whatever sessions, hooks, reloads and
\* crashes do in whatever order, what it serves is the meaning of versions that
\* were pushed or committed, none older than those it served before (Reload and
\* flatten). With the log beside it, the server behaves as ever.
THEOREM ServerImplementsPublished == HistorySpec => ServesPublished
<1>1. HistoryInit => IInv /\ Published!Init
  BY HistoryStart, PublishedStart
<1>2. IInv /\ [HistoryNext]_<<vars, log>> => IInv'
  BY HistoryStep
<1>3. IInv /\ IInv' /\ [HistoryNext]_<<vars, log>> => [Published!Next]_(Published!vars)
  BY PublishedStep
<1> QED BY <1>1, <1>2, <1>3, PTL DEF HistorySpec, ServesPublished, Published!Spec
=============================================================================

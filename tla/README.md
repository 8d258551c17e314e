# gitdir in TLA+

gitdir is a git server that keeps its own configuration in git repositories it
serves. Pushing to one of them changes who may push next; a hook decides
whether the push may land; the server then loads what landed and serves it. This
directory models that cycle: the configuration and what a load makes of it, the
permission check, the concurrent sessions, hooks and reloads of the server, and
below them the repositories on disk, the hook scripts, the files the server
edits and the processes it runs.

## 1. Inventory

| Component | Source | State | Operations |
|---|---|---|---|
| Config data | `models/*_config.go` | none (values) | parse, defaults |
| Config loading | `config.go`, `config_admin.go`, `config_user.go`, `config_org.go` | the `Config` object: users, groups, orgs, repos, options, host keys, `publicKeys`, hash overrides | `Load`, `EnsureConfig`, `EnsureAdminUser`, `SetHash`, `SetUserHash`, `SetOrgHash`, `flatten` |
| Config completion | `config_ensure.go`, `internal/yaml` | none | sample config, missing sections, admin user |
| Config validation | `config_validate.go` | none | user, key, admins, group loop |
| Users | `user.go` | none | look up by name, key, invite |
| Lookup and permissions | `repo.go`, `repo_perms.go` | none | path to repo, access level of a user |
| SSH server | `ssh_server.go`, `ssh_commands.go`, `cmd_serve.go` | `serv.config`, `serv.lock`, per connection context | start, authenticate, receive-pack, upload-pack, `Reload`, `EnsureAdminUser` |
| Hooks | `hooks.go`, `cmd_hook.go` | a `Config` per process | pre-receive, update, post-receive |
| YAML editing | `internal/yaml` | none (nodes of a file) | `EnsureKey`, `RemoveKey`, `AppendUniqueScalar`, `EnsureDocument`, `Encode` |
| Repository store | `internal/git` | the repositories on disk with their `HEAD`, index, branches and hook scripts; an in-memory worktree per open | `EnsureRepo`, `Checkout`, `Commit`, file access |
| Command runner | `utils.go` | pipes, goroutines | `runCommand` |
| Process environment | `cmd/gitdir` | environment variables, `.env`, the working directory | `NewEnvConfig`, in the server and in each hook process |
| Keys, context, invites | `models/*_key.go`, `context.go`, `config_operations.go` | none, or context values | parsing, accessors; accepting an invite is commented out |

**How they interact.** A connection is authenticated against `serv.config`, read
under the read lock; user, key and that very `Config` stay in the connection's
context. `git-receive-pack` is started for a push if the context's config gives
write access. git runs `gitdir hook pre-receive` and `gitdir hook update`, new
processes that load the config from disk, look the key and the repo name up
again, and, for a push to a config repo, check the pushed commit out, load once
more into the same object and validate. git then moves the branch. Back in the
session, a push to a config repo ends in `Reload`: under the write lock the
admin repo is completed (and committed if that changed anything), everything is
loaded again from the tips of the branches, and `serv.config` is assigned.

All of them share the repositories on disk. Each open has its own in-memory
worktree, but `HEAD` and the index file are in the repository's directory and
are shared by the reloading server and every hook.

**What is hard.** Nothing but the reload is under a lock; hooks are other
processes. What was checked may have changed when it is used (connection
context, sub-configs of a load, index and `HEAD`). A reload may fail after the
branch has moved. The server may end at any point and only the disk remains.
A panic ends it. A server that refuses or accepts the wrong push may lock
everybody out, and the admin repo can only be repaired through hooks that load
it first. PROJECT.json lists these hazards line by line.

**What makes each part correct.**
- Loading: the served config is what a fresh process would read from the disk;
  it never goes back in time; a load that fails leaves the old one in place.
- Completion: what people wrote stays; what is committed can be loaded.
- Validation and hooks: what lands can be loaded, has an admin, has no group
  loop, and does not lock the pusher out; who has lost the key cannot land.
- Permissions: nobody has access without a grant, except to read a public repo; a
  grant reaches everybody it names, through any nesting of groups; another grant
  never takes it away.
- Server: every push and reload ends, every version is served or superseded,
  also through failures and restarts.
- Repository store: a repository of an old release is never lost; a call that
  succeeds leaves the hooks in place; a checkout moves no branch.
- Hook scripts and environment: no push over the server passes without a gitdir
  process that looks at the same repositories.
- Command runner: output is complete, sessions end, no goroutine stays behind.

## 2. Modules

| Module | Models | Kind |
|---|---|---|
| `Config` | config data, loading, completion, validation, key lookup | functions, no variables |
| `Access` | path lookup and permissions; EXTENDS Config | functions |
| `Server` | disk, server, sessions, hooks, reloads; EXTENDS Access | state machine |
| `PublishedConfig` | what the server promises: versions land, what is served follows them | abstract specification |
| `ServerHistory` | Server with the git log beside it, and the refinement of PublishedConfig | composition |
| `Checkouts` | `Checkout` and `Commit` in the steps go-git takes | state machine |
| `RepoStore` | `EnsureRepo`: init, migration, hook files | state machine |
| `HookScript` | the hook runner and gitdir's entry beside other hooks | state machine |
| `Environment` | settings of the server and of its hook processes | state machine |
| `HookProcess` | a push through both: EXTENDS HookScript and Environment | composition |
| `YamlEnsure` | edits of `config.yml` as YAML nodes | state machine |
| `RunCommand` | goroutines, pipes, child and client of one command | state machine |
| `MCServer`, `MCServerHistory`, `MCAccess`, `MCYamlEnsure`, `MCHookProcess` | small instances; MCAccess an administrator who edits a config entry by entry, MCYamlEnsure also the link to Config | for checking |
| `ConfigProofs` | types of Config's functions; loads and disks; the search for loops | lemmas |
| `AccessProofs` | theorems of MCAccess and Access, on ConfigProofs | theorems |
| `ServerProofs` | theorems of Server, and the refinement of PublishedConfig (ServerHistory), on ConfigProofs | theorems |
| `CheckoutsProofs`, `RepoStoreProofs`, `RunCommandProofs`, `YamlEnsureProofs` | each its module | theorems |
| `HookProcessProofs` | HookScript, Environment and HookProcess | theorems |

**Config.** A *tree* is what a checkout puts in the worktree. `AdminTree` keeps
whether `config.yml` is absent, no YAML, YAML of the wrong shape or good,
whether its sections are complete, the host keys and the data. Maps are total
functions with `Nil` for what is absent. `LoadAdminConfig`, `MergedUser`,
`MergedOrg` and `Flatten` are `loadAdminConfig`, `loadUserConfig`,
`loadOrgConfig` and `flatten`; `Flatten` is a set, since Go's map order decides
which of two users gets a key they share, and it keeps the old `publicKeys`, as
the code does. Writing into a nil repos map is the outcome `"panic"`.
`EnsureConfigYaml`, `EnsureAdminConfig` and `EnsureAdminUser` are the
completion. `Loadable` and `Meaning` say what a disk means, all at once; the
server gets there step by step. The depth first searches are recursive
functions, not RECURSIVE operators, so that the modules can be proved about.

**Server.** A session, with the git and hook processes it waits for, is one
sequential process; `cmdServe` is another. `pc` says where it is:

| `pc` | in the code |
|---|---|
| `closed`, `ready` | no connection, an authenticated connection |
| `pre`, `update`, `check` | the load of the pre-receive hook, the first load of the update hook, its second load with the pushed commit |
| `accepted` | the hooks have passed, git is about to move the branch |
| `reload` | waiting for the write lock |
| `ensure`, `admin`, `load` | the loads of `EnsureConfig`, `EnsureAdminUser` and the final `Load` |

One step opens one config repo (`OpenAdminRepo`, `LoadSub`), so that loads of
several processes interleave with each other and with branches being moved.
`master` and `version` are the tips and how often each was moved, `index` and
`head` the shared files of the admin repo, `served` is `serv.config` and
`servedAt` the versions it was read from, `job` the load in progress.
`EnsureDone` is the check for changes, the commit and the flattening at the end
of `EnsureConfig` and `EnsureAdminUser`; `Publish` is the end of `Load` and
`reloadUnlocked` with the release of the lock; `ReloadFails` is every error
return on the way, fatal at startup and on a panic; `Crash` ends the process at
any point.

**PublishedConfig and ServerHistory.** The abstract state is a log of trees per
config repo, the config that is served and the versions it is made of. `Land`
adds a tree to a log, `Serve` moves to the meaning of some versions, none older
than before, `Stop` ends serving. Locks, loads, sessions and hooks do not occur.
`ServerHistory` keeps the log (what `git log` shows; no action reads it) beside
Server, and maps `serving` to `served` while `phase = "up"` and to `Nil`
otherwise, `at` to `servedAt`. The one concession is `OnceOwned`: `flatten` does
not clear `publicKeys`, so a served config may hold a key somebody had earlier.

**Checkouts.** Server takes a checkout as one step; here a session goes through
`Resolve`, `SetHead`, `ReadHead`, `WriteRef` and `WriteIndex` for every load of
its hooks (`pre`, `update`, `set`, `check`) and its reload (`ensure`, `load`), on
files all processes share. `CommitAdminRepo` commits what was completed, and a
commit is the sequence of the trees that led to it, so that an overwritten branch
shows.

**RepoStore.** `store` is the directory `<path>.git`, `old` the one without the
suffix. `StatPath`, `StatOld`, `Rename`, the three steps of `git.Init`, `Open`, and
`Compare`, `Truncate`, `Write` for each hook file follow `EnsureRepo`,
`ensureHooks` and `writeIfDifferent`; any process may be killed between two steps.

**HookScript, Environment, HookProcess.** `Begin`, `SkipEntry`, `RunEntry` and
`Finish` are the runner's lines; `Errexit` is its `set -e`. `SetVariable` is the
operator, `Serve` and `RunHook` are `NewEnvConfig` in the two processes, which
differ in environment, `.env` file and working directory. In `HookProcess`, the
entry of gitdir in the hook directory is what starts `RunHook`, and the server
and its settings change between pushes only.

**YamlEnsure.** A node has a kind, a value and the list of its children, keys and
values in turn, as in yaml.v3. The code edits nodes it has pointers to; here
`EnsuredNode` is the node `EnsureKey` returns, and `PutKey` what its parent is once
that node was edited. The five levels the edits go through (`File`, `Section`,
`Entry`, `Field`, `Item`) are sets of nodes over the level below, and what is below
an item is the parameter `Below`. `Encode` says what is left of an edited node when
it is written: a scalar, which a null section is, keeps no children. A file with a
list where a mapping belongs is edited, too, at the wrong places, but cannot be
loaded and is never committed; `Fits` is the guard that leaves it out.
`EnsureConfigYaml` and `EnsureAdminUser` of Config say what
these edits mean for a tree; `EditsAreConfigs` (MCYamlEnsure) parses the file
before and after each edit and compares, so that what Server takes for granted
about the completion is checked.

**RunCommand.** `pc` is the session's goroutine, `copier` the three it starts,
`pipe` and `writable` the pipes of the operating system, `child` and `plan` the
command, `client` the other end. Data is counted.

### Assumptions and abstractions

- In Server a go-git call (checkout, status and add, commit) is one step;
  Checkouts opens the checkout and the commit. The index and
  `HEAD` are shared between processes, the worktree is not. A checkout in Server
  thus leaves `HEAD` and the index at one tree and moves no branch. With one push at
  a time that is what the code does (`CheckoutKeepsMaster`, `ReloadSettles`); with
  two, a checkout may move `master`, or leave `HEAD` on `master` beside the index of a
  tree that was refused (`CheckoutsRace.cfg`), and Server reaches neither. What it
  shows of pushes at the same time is about sessions, hooks, the lock, git's
  comparison, and commits over an index that is out of date, as long as checkouts do
  not overlap. No claim that every disk can be started from is made for them.
- `Commit` writes the index as a commit on `HEAD` without comparing. Whether it refuses
  a commit that would change nothing depends on the release of go-git, which is not
  part of the repository: it may do either here. git's own update of a branch
  compares with what the client saw.
- Only the admin repo's index and `HEAD` are kept: sub-config repos are never
  committed to by the server, and a checkout of them is overwritten by the next.
- The end of the server ends the git and hook processes with it: they run in one
  container.
- The two host key files are one field, since the code treats them alike.
- Prefixes are one character; a path is its sigil and its parts. Names are lower
  case.
- Lists are sets. The order of a list is never used.
- A config.yml whose maps have null for a value occurs in YamlEnsure only.
  Invites are left out.
- The hooks do not look at the branch: a push of another branch than `master`
  takes every step of a push and leaves `master` alone (the second alternative
  of `RefUpdate`). Several branches in one push, and deletions, are left out.
- Fetches and `whoami` change none of this state. A push to a repo that is no config
  repo moves none of the branches kept here, but its hooks load the config like any
  others, and so check the admin repo out: its `HEAD` and index are rewritten, and no
  reload follows. Server has such pushes for every name in `PushPath`.
- Server takes the creation of a repository on first use as done (RepoStore has it),
  a repository without commits being the empty tree.
- Somebody with access to the machine may set the disk up (`InitialDisk`), but
  nobody edits it behind the running server.
- RepoStore: every process runs the same executable, so they agree on what a hook
  file should hold; HEAD is written in one step; the executable bit is left out.
  A directory that is there at the start is a repository.
- HookScript: names in the hook directory have no spaces; standard input and
  arguments are passed on and not looked at.
- HookProcess: one push; settings change while no hook runs. gitdir's verdict is
  any exit status here, Server has what it depends on.
- RunCommand: a unit of data is what one read of `io.Copy` returns; writing to the
  session does not block while the client is there. Closing the channel counts as the
  end of the client's input (`InputEnded`): strictly, x/crypto/ssh returns from the
  read when the other side answers the close, which a client that is there is assumed
  to do, and the connection of one that is gone ends.

## 3. What is checked

| Run | Bounds | Shows |
|---|---|---|
| `server_concurrent` | 2 sessions, both pushing; 2 commits to the admin repo; 1 crash; 3 initial disks with a user's own keys; 3 edits | `TypeOK`, `SettledServesDisk`, `NeverServesOlder`, `LandingKeyIsKnown`, and the refinement `ServesPublished` |
| `server_sequential` | 2 sessions, one pushing at a time, to a config repo of each kind or an ordinary one; 2 commits per repo; 8 edits of the admin repo, 2 of a user's and 2 of an org's; an admin user to ensure; 4 initial disks | `DiskStaysStartable`, `SettledServesDisk`, `LandedConfigIsValid`, `LandingKeyIsKnown`, `ServerOnlyCompletes`, `ConfigPushesAreChecked` |
| `server_live` | 2 sessions, both pushing; 2 commits; 1 crash | `VersionsGetServed`, `EverythingSettles` |
| `checkouts` | 2 sessions, one at work at a time; 4 commits; 2 crashes | `TypeOK`, `RefusedNeverLands`, `CheckoutKeepsMaster`, `MasterOnlyGrows`, `ReloadSettles` |
| `access` | 2 users, 3 groups, 1 org, 1 repo of each kind; 4 entries | `GroupSearchIsComplete`, `LoopSearchIsExact`, `AccessNeedsGrant`, `GrantsNeverRevoke` |
| `yaml_ensure` | files of up to 2 sections, users with up to 2 fields, files of the wrong shape; 1 admin user, 2 keys | `AdminUserIsThere`, `KeepsWhatIsWritten`, `EnsuringSettles`, `EditsAreConfigs` |
| `repo_store` | 3 callers, 2 hook files, 1 crash | `TypeOK`, `HooksInstalled`, `LegacyIsKept`, `HooksRepaired`, `UndisturbedRepoComesToBe` |
| `hook_process` | up to 2 hooks, exit statuses to 2; 2 settings, 3 directories | `TypeOK`, `PassedByAll`, `RefusedByOne`, `HookFindsServersRepos`, `ServerIsAsked` |
| `run_command` | pipes of 1 unit, 2 units of input, 3 of each output | `TypeOK`, `OutputIsComplete`, `SessionEnds`, `NoGoroutineStays` |
| `server_lockout` | 1 push | violation of `LandedConfigKeepsKey` |
| `server_skew` | 2 pushes at once | violation of `CommitLeavesValidConfig` |
| `server_prefix` | 2 sessions, one push at a time | violation of `ConfigPushesAreChecked` |

`MaxVersion`, `MaxInFlight` and `MaxCrashes` bound new pushes and crashes only;
no step that is under way is ever cut off by a bound. `MaxCommits` and
`MaxAtOnce` of Checkouts do the same.

**Why the bounds are enough for the interesting cases.** Two concurrent sessions
are needed for an overtaken reload, a push refused by git because another one
landed first, a commit of the server between a hook's check and the update of
the branch, and an index changed under a reload. Two commits leave room for the
server's own commit after a push (no push starts once a repo has two, but those
in flight, and the server, still commit). The three edits of `server_concurrent` take
both users' keys from them, swap keys in an incomplete file, and hold a key the server
cannot load: what the `publicKeys` of a served config are made of then differs
from version to version. The edits of the sequential run are chosen to be good,
to be refused by each clause of the hook, to be good only for one of the two
users, to need completion by the server, and to set up a refusal later
(delegation switched on, a nil repos map). In two of its four disks the admin user the
server is told of is as it should be; in one that user is disabled and has another
key, and one has a file that does not parse, so that the commits of
`EnsureConfig` and of `EnsureAdminUser` both occur. Two commits per repo let every
edit follow every other. In `access` four entries build every group loop of up to
three groups with a member behind it, with a grant on top. In `repo_store`, three
callers let one look, another migrate or initialise, and a third open at the same
time. Pipes of one unit and three units of output make the child block while its
reader is anywhere in its loop. Two settings are enough for a base directory in
both the environment and the `.env` file, or for one beside a setting that is
refused.

**What holds only sequentially.** With one push at a time and edits that keep the
prefixes, all of Server's properties hold, for pushes to any repo
(`server_sequential`). With several at once it depends on where they go.
`ServerOnlyCompletes` is lost at once: a reload may commit an index that is older
than the branch, over a push that has landed meanwhile, since go-git commits
without comparing. `LandedConfigIsValid` is lost when
two config repos are pushed to (`server_skew`): each hook sees the other repo as it
was. Pushes to the admin repo alone keep it, as they keep `LandingKeyIsKnown`
(section 5), because git compares the branch with what the client saw and lets one
of two land. `DiskStaysStartable` is claimed for one push at a time only: two config
repos break it like `LandedConfigIsValid`, and with pushes to the admin repo alone a
checkout that overlaps another may put a tree the hook refused on `master`, or into the
index the server commits. `SettledServesDisk` needs every push to a config repo or
none beside it: after a push to an ordinary repo, whose hooks may have disturbed
a reload, nobody reloads again. `ConfigPushesAreChecked` does not depend on the number of pushes but
on the prefixes, and is violated in `server_prefix`, where they change. `checkouts`
has one push at a time, with crashes that leave HEAD detached anywhere;
`CheckoutsRace.cfg` shows what two do.

**Liveness and fairness.** `Fairness` of Server asks that a process that can go on
eventually does (goroutines are scheduled, child processes run), that `Boot` happens
after a crash (`restart: unless-stopped` in docker-compose.yml), and strong
fairness for `LockReload`: waiting writers of a `sync.RWMutex` block new readers
and are served, so a writer is not starved although the lock is taken and
released again and again. No fairness is asked of users: nobody has to
connect, push or disconnect, and nothing has to crash. Both liveness properties
are conditional on `PushesStop`: hooks of an endless stream of pushes could
each disturb the index before a reload commits, and every reload would fail.
The runs start from good disks and from one that does not parse, which the server
replaces; from a disk it cannot complete it would never come up.
RepoStore's asks that a call that runs goes on and that somebody asks for the
repository again: it says what calls lead to, not that there are any.
RunCommand's asks that goroutines are scheduled, that the child works unless it is
blocked, and that a client that is connected reads. Nobody has to send, leave or
fail; `SessionEnds` is about a client that ends its input and stays.

**Deadlock** is checked in all runs but one, and RunCommand and Checkouts say by
an explicit step that everything is done (`Finished`, `Done`). `MCAccess` stops
when its entries are used up.

**Mutants.** Each property of a passing run has a mutant of the code next to the
definition it replaces, marked `\* mutant`: a reload without the lock, a reload
only after pushes to the admin repo, a failed reload that keeps the lock, a hook
that trusts the session's user or ignores the pushed commit, a validation without
one clause, a checkout that stays on master, an
init that does not look at HEAD, a runner without `set -e`, a base directory passed
on as written, a wait for one output only, and shortcuts in the searches, the
permission checks and the edits of the file.

## 4. Findings

1. **A push may remove the key it was made with** (`server_lockout`). The
   update hook loads the pushed commit into the `Config` that holds the old keys;
   `flatten` only adds, so `validatePublicKey` ("cannot remove current private
   key") cannot fail. `loadAdminConfig`'s comment that it "will reset all values"
   leaves `publicKeys` out.
2. **A reload may commit to a config that cannot be loaded** (`server_skew`).
   `EnsureConfig` commits "at the very end, after everything has been loaded", but a
   sub-config may have been pushed in between, checked by its own hook against
   the admin repo as it still was. Afterwards no hook can load the disk, so no push can
   repair it.
3. **A config push may pass the update hook unchecked** (`server_prefix`). The
   session and the hook resolve the repo's name with different configs. When
   `org_prefix` has changed and `implicit_repos` is on, an org's config repo is a
   top-level repo to the hook, and "Non-admin repos don't need this hook".

**Further known disagreements.** Each of these has a configuration of its own,
kept beside the runs, whose one property TLC finds violated
(`tlc -config <cfg> <module>`; the module is the name without the last word).
They are defects of one place each, where the three above take several actors.

| Configuration | Property | The code | What the repository says |
|---|---|---|---|
| `MCServerPanic.cfg` | `PanicsAreCaught` | `handlePanic` is called by a deferred closure and recovers nothing: a panic in a session ends the server (`ssh_server.go:196`) | "Caught panic" (`utils.go:61`) |
| `MCServerBadKey.cfg` | `BadKeysAreReplaced` | a host key is generated only where there is no file; one that does not parse fails every start (`config_admin.go:30`) | "if the server restarts and the keys cannot be loaded, they will be re-generated" (`README.md:98`) |
| `CheckoutsRace.cfg` | `CheckoutKeepsMaster` | a checkout by hash sets HEAD, reads it again and moves what it stands for: with another process checking out master in between, that is the branch (`internal/git/repository.go:121`) | "Checkout will checkout the given hash to the worktreeFS" (`repository.go:110`) |
| `RepoStoreRace.cfg` | `NoCallFails` | a call that finds another's directories before its HEAD fails in `Open` (`repository.go:72`) | "will open a repository if it exists and try to create it if it doesn't" (`repository.go:66`) |
| `RepoStoreCrash.cfg` | `RepoComesToBe` | killed between directories and HEAD, a repository that no later call opens or creates (`repository.go:90`) | the same |
| `MCHookProcessAll.cfg` | `AllAreRun` | `set -e` ends the runner at the first hook that fails (`repository.go:188`) | "all of them will always be run" (`repository.go:184`) |
| `RunCommandGone.cfg` | `CommandEnds` | a client that leaves stops the copying, nobody reads the pipe, and child and session wait for each other (`utils.go:156`) | "Wait for the command to exit and log any errors we get" (`utils.go:158`) |
| `MCYamlEnsureOptions.cfg` | `OptionsAreWritten` | added options are not written unless a section was added too (`config_ensure.go:37`) | "If we had to make any of the modifications" (`config_ensure.go:35`) |
| `MCYamlEnsureAdmin.cfg` | `AdminUserIsAdmin` | an `is_admin: false` stays (`config_ensure.go:245`) | "Ensure this user is an admin" (`config_ensure.go:244`) |
| `MCYamlEnsureNull.cfg` | `AdminUserIsThere` | what is appended to a section without a value is not encoded (`config_ensure.go:239`) | "will ensure exists on startup" (`README.md:68`) |
| `MCHookProcessAdmin.cfg` | `NamedAdminIsEnsured` | the server reads `GITDIR_ADMIN_PUBLIC_KEY` (`cmd/gitdir/config.go:101`) | `GITHUB_ADMIN_PUBLIC_KEY` (`README.md:101`) |
| `MCHookProcessConsole.cfg` | `ConsoleIsHonoured` | the log format is checked and not kept (`cmd/gitdir/config.go:58`) | "anything other than console defaults to json" (`config.go:64`) |
| `MCAccessPublic.cfg` | `PublicIsReadable` | no permission check reads `public`, so nobody gets what `AccessNeedsGrant` leaves open for it (`repo_perms.go:166`) | "allows any user of the service to access this repository for reading" (`models/repo_config.go:6`) |

## 5. What is proved

The theorems hold for all values of the constants under the assumptions each
module names: any users, groups, repos, trees, sessions, proposals, callers, hooks,
directories, pipe sizes and bounds. Every inductive invariant below was also
checked with TLC, on the run it belongs to.

**Assumptions on constants.** `ConfigAssumption` and `ServerAssumption`: the
constants that stand for "nothing" (`Nil`, `NoKey`, `BadKey`, `NoUser`, `Free`,
`OnMaster`) are none of the things they are used beside, the two prefixes are
distinct, and what is on disk or pushed at first are trees. `GroupAssumption`: a
config has finitely many groups, and no name is both a user's and a group's (the
code writes a group with a `$`). `NilAssumption`: `Nil` is no record or function.
`AccessAssumption` says the names in MCAccess are names. `CheckoutsAssumption` is
of the same kind. `EditorAssumption` says what files YamlEnsure starts from: no
YAML at all, or what yaml.v3 finds in a file, where a mapping has a value for every
key and no key twice (it decodes no struct from another). TLC evaluates all of them.

### The server

- **`TypeCorrect`: `Spec => []TypeOK`.** `TypeOK` is not inductive. `TypeInv`
  adds three facts: a load has only repos left to open whose user or org its
  config has (`TodoOK`; merging into an absent entry would not give a config),
  the main goroutine runs no hook (`MainOK`), and the admin user is only ensured
  when there is one (`BootOK`). Each function of Config has a lemma that gives
  its type; then there is one lemma per group of actions.
- **`ServesNothingOlder`: `Spec => NeverServesOlder`.** `ServeInv` says that
  only the lock's holder is in a reload (`LockOK`), that nobody has seen a
  version that is yet to come (`SeenOK`), and that what a reload has read is no
  older than what is served (`FreshOK`). The lock alone is not enough: it is
  because a tip only moves on (`VersionGrows`) that the next read is new enough.
  `StepKinds` reduces the actions to four kinds as far as these facts go: reading
  a repo, starting a load, publishing, and the end of the process.
- **`ServerImplementsPublished`: `HistorySpec => ServesPublished`** (ServerHistory),
  with any number of pushes at once and any crashes. To `TypeInv` and `ServeInv`,
  `HistoryInv` adds that the log has every version (`LogOK`) and, for every
  reload under way (`ReloadsOK`), that its config is the merge of the versions in the
  log it has read so far (`JobReads`, by way of `MadeOf`) and that each key
  `flatten` left in it from an earlier load belonged to its user in some version
  (`JobKeys`): the loads of one reload fill the same `Config`, and other versions may
  have landed between them. `Publish` is then a `Serve`,
  a branch that moves is a `Land`, the end of the process a `Stop`; everything else
  stutters. `AdminAlone`, that nobody comes between `EnsureAdminUser` and its
  commit, is needed since that is the one stage that can put a key into a
  config before any version of the admin repo has it.
- **`ChecksConfigPushes`: `Spec => ConfigPushesAreChecked` when `PrefixesStay`**, with
  any number of pushes at once. `PrefixesStay`: no disk to start from and no
  pushed tree changes the prefixes. `PlainInv` carries that to every tree and config
  the processes hold; then a config repo's name means the same in all of them
  (`PlainNames`), though the users and orgs in them differ. Without the hypothesis
  it is false (`server_prefix`).

**One push at a time.** `AloneInv` is the inductive invariant of runs in which
one push is in progress at a time, `Spec /\ []OneInFlight`; sessions stay open beside
it, with whatever config they hold, and crashes may come at any point.
`OnePushAtATime` derives the hypothesis from `MaxInFlight = 1` for finitely many
sessions. `LoadsOK`: a load, however many steps it
took, stands for a prefix of one atomic load of the disk as it is now
(`Loading`), since nobody else moves a branch meanwhile. `FilesOK`:
`HEAD` and the index are what the reload checked out. `KeysOK`: a key found
in a `Config` that is loaded again is still somebody's on the disk. `PushOK`:
what is pushed to a config repo will be reloaded. `KnownOK`: the user the update
hook found is on the disk until the push lands. The lemmas at the end of
ConfigProofs say when a disk loads, what it means, and that ensuring a disk that
loads changes neither.

- **`LandsKnown`**: `LandingKeyIsKnown`.
- **`LandsValid`, `StaysStartable`**: `LandedConfigIsValid`, and
  `[]DiskStaysStartable` when every initial disk is one the server can start
  from. `ApprovedOK` ties them to the hook: once it has passed, the disk with the
  push on it loads and is valid, seen from the disk it loaded. Both
  assume `ConfigPushesAreChecked`, since a push the hook waves through breaks either.
- **`CommitsComplete`**: `ServerOnlyCompletes`, under the same assumption. That
  `EnsureAdminConfig` and `EnsureAdminUser` complete is one lemma (`EnsuredCompletes`);
  `ParsesOK` is the rest: once the admin branch has moved, its file parses, since the
  hook loaded what was pushed and the server commits nothing else.
- **`SequentialServerIsSafe`** puts them together for what an operator can see to:
  room for one push at a time, prefixes that stay, disks to start from. Then all
  the safety properties of `server_sequential` hold of `Spec`.

The theorems about several pushes at once are about Server, where a checkout is one
step (section 2): they show that sessions, hooks, lock and git's comparison are enough
as long as checkouts of the admin repo do not overlap.

**Pushes at the same time: what is served.** **`SettledServes`:
`Spec /\ []OthersReload => []SettledServesDisk`**, with any number of pushes.
`OthersReload` says that whoever is in the hooks while a reload is under way
will reload too. The argument is about the last one: while somebody will still
reload (`Owes`), nothing is claimed of what is served; a reload with nobody beside
it finds the disk at rest and is one of a server with a single session, so
`LoadsOK`, `FilesOK` and `KeysOK` are known of it (`ReloadsAlone`), and
what it publishes is what the disk means (`QuietOK`). When it fails instead, its
disk cannot be loaded, and the property asks nothing. The hypothesis is needed:
the hook of a push to any repo may check out the admin repo between a reload's
checkout and its commit, the commit then fails, is empty or is of another tree, and after a
push to a repo that is no config repo nobody reloads. It holds with one push at a
time (`OneReloads`), with pushes to the admin repo and no other
(`AdminPushesAreSafe`) and, where the prefixes stay, with pushes to any config repos
and no other repo (**`ConfigPushesSettle`**: by their names they are config repos to
every session, `NamesStay`).

**Pushes at the same time: what lands.** **`LandsInTime`:
`Spec /\ []OnlyAdminRepo /\ ConfigPushesAreChecked => LandedConfigIsValid /\
LandingKeyIsKnown`.** A push is `Timely` as long as the branch is where its client
saw it. `TimelyOK` says of timely pushes what `AloneInv` says of the only one: their
hooks' loads stand for the disk as it is. Every move of the branch makes all others late,
whatever they had been told (`version` only grows past their `base`), and
git refuses a late push, so only a timely one lands. With two config repos this
fails (`server_skew`), since the other repo's branch is not compared.

- **`AdminPushesAreSafe`**: where all pushes are to the admin repo, and none to an
  ordinary repo either, its name is the same
  under all prefixes, every push is checked, and `SettledServes` and `LandsInTime`
  apply: four properties of `Spec` from a hypothesis about `PushPath` alone.

### The other components

- **`GroupsAreSearched`, `LoopsAreFound`** (MCAccess, `GroupSearchIsComplete`,
  `LoopSearchIsExact`). The searches are functions defined by an equation over
  sets of groups seen so far. `HoldEqUnique` (`LoopEqUnique`) shows the equation
  has one solution: of the paths where two differ, one of greatest size would
  differ on a longer one. This takes the place of the induction the provers do
  not have. `HoldingBelow` is a solution without recursion, so cutting a
  search off at a group that is on its path loses nothing, loops or not.
- **`AccessIsGranted`, `AccessIsListed`; `GrantsOnlyAdd`, `GrantsStay`** (Access,
  MCAccess). The first of each pair is about every config: access needs a grant, to
  read a public repo, too, as the code stands, though the property
  `AccessNeedsGrant` leaves that reading open, as the repository's own words do;
  and a config with more entries gives no less access (`LookupStays`: entries do
  not change what a path means; `ListSearch` puts `checkListsForUser` in terms
  of membership). The second is the property of the state machine; `EditInv` says
  what its edits leave alone.
- **Checkouts**: `TypesHold` for any number of sessions at work; for one at a time
  (`[]OneAtWork`, which `RoomForOne` derives from `MaxAtOnce = 1`),
  `RefusedStaysOff`, `CheckoutsKeepMaster`, `MasterGrows` and `ReloadsSettle`, with
  crashes anywhere. `PushesOnMaster`: a push is one tree on top of a master that
  stays until it lands, and an accepted one was not refused. `OwnHead`: after
  `SetHead`, HEAD is what this checkout made of it. `ReloadsMaster`: what is about to
  be committed is master, and what is loaded is complete. `OwnHead` is what two
  sessions break (`CheckoutsRace.cfg`).
- **`LegacyIsNeverLost`, `HooksAreThere`** (RepoStore). `OldIsSettled`: once a process
  found neither directory, the old one is gone for good, so `InitHead` writes over
  nothing. `TornIsBeingWritten`: a torn hook file has a writer or had one that was
  killed. `DoneSoFar`: the files before the one a process is at are current, or
  torn by another since.
- **`PassIsUnanimous`, `RefusalIsAHooks`** (HookScript). `RanSoFar`: while the script
  runs, it ran exactly the executable files before the one it is at and all let it
  pass; `Counted` bounds the codes, which are all 0 since `set -e` ends the script
  before it stores another.
- **`HooksFindTheServer`, `NoPushPassesUnasked`** (HookProcess). `ServerFound` and
  `HooksAgree`: a running server has an absolute base directory that is there, and
  resolving it elsewhere gives it again (`AbsIsResolved`). `ProcessRunsScript`
  shows that HookProcess implements HookScript, so that `PassIsUnanimous` holds of
  it; with `Asked` (gitdir's entry leaves a process behind) that gives the theorem.
- **`OutputReachesClient`** (RunCommand). `Conserved`: what was written is in the
  pipe, in the copier's hand or delivered, as long as the client is there.
  `EndsAtEndOfFile` and `ClosedByChild`: a copier of a client that stays ends only
  with an empty pipe whose writer has exited; `WaitedFor`: `runCommand` is past
  `wg.Wait` only when both are done; `NothingBefore` is about the time before the start.
- **`WhatIsWrittenIsKept`, `EditsSettle`, `AdminUserGetsThere`** (YamlEnsure), for any
  files, with anything below what the server edits. `FileAlways`: a file stays a file,
  level by level: where the content is a list of keys and values with no key twice,
  `PutKey` and `RemoveKey` leave such a list (`PutKeyInMapping`,
  `RemoveKeyInMapping`), and so does `Encode` (`NodesAreWritten`).
  `KeyIndexIsThere` finds the first place of a key by well-foundedness, as `Min` is a
  CHOOSE. Then each edit has a lemma that says what is at every place afterwards
  (`Edited`, `Extended`) and what it does the second time. A mapping with a
  key twice would break `RemoveKey`, a mapping that ends in a key would lose it when
  it is written; yaml.v3 gives neither. `AdminUserGetsThere` assumes that no file
  names the users, the user or the keys and leaves them empty (`NoneEmpty`): what
  is put into such a null is lost, which `MCYamlEnsureNull.cfg` shows. The theorem
  shows that nothing else loses it, and that no edit brings such a null about
  (`FileNotEmpty`).
- `TypesHold` of RepoStore, HookScript and RunCommand.

### Only model-checked

- Liveness, which is beyond the prover: `VersionsGetServed`, `EverythingSettles`,
  `HooksRepaired`, `UndisturbedRepoComesToBe`, `SessionEnds`, `NoGoroutineStays`.
- `EditsAreConfigs` (MCYamlEnsure): that the edits of nodes are those of Config's trees
  on the instance, whose `Parsed` knows two users and two keys.

Every other property of a passing run is stated by a theorem of section 5.

## 6. Not modelled

Key parsing and generation are cryptography and encoding without state; a key
parses or does not. Invites are commented out in the code. Logging, the address to
listen at, the comments the completion writes into a new file, `EnsureKey`'s
`Force` option and the lookups without a caller (`LookupUserFromUsername`,
`LookupUserFromInvite`) carry no control that a property could see. Fetches
and `whoami` change no state that is kept here; pushes to ordinary repos are in Server,
as far as they rewrite the admin repo's `HEAD` and index, but not what they put into
the repo they go to.

## 7. Plan

Done, in this order: `Config`, `Access`, `Server`; `PublishedConfig` and the
refinement; `RepoStore`, `Checkouts`; `HookScript`, `Environment` and their
composition; `YamlEnsure` with its link to `Config`; `RunCommand`; the theorems of
section 5. Left:

1. `MasterOnlyGrows` for two sessions of which only one pushes, then Checkouts with
   two pushes and what of it is left.
2. The privilege level that is not asked for again in the hook, and
   `org_config` as a condition of `org_config_repos`, in Server.
3. Several branches in one push, and deletions.

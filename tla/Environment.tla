---------------------------- MODULE Environment -----------------------------
(***************************************************************************)
(* How the processes of gitdir learn their settings (cmd/gitdir): the      *)
(* server from its environment and a .env file, and the hook processes     *)
(* from what cmdRepoAction passes to git, in another directory.            *)
(***************************************************************************)
EXTENDS Naturals, Sequences, FiniteSets

CONSTANTS
    Unset,     \* the variable is not there
    Directory, \* the directories there are, as absolute paths
    Start,     \* the one the server is started in
    Value,     \* per variable, what an operator may set it to
    MaxSet     \* bound: how many settings the operator makes

\* A path is relative to the working directory or absolute.
Path == [absolute : BOOLEAN, names : Seq(STRING)]
Absolute(names) == [absolute |-> TRUE, names |-> names]

ASSUME EnvironmentAssumption ==
    /\ Start \in Directory /\ Directory \subseteq Path
    /\ \A d \in Directory : d.absolute
    /\ Unset \notin Directory /\ Unset \notin {"path", "key"}

\* ADMIN_PUBLIC_KEY with the prefix the server looks for, and as the README has
\* it.
Variable ==
    {"GITDIR_DEBUG", "GITDIR_LOG_FORMAT", "GITDIR_BASE_DIR",
     "GITDIR_ADMIN_USER", "GITDIR_ADMIN_PUBLIC_KEY", "GITHUB_ADMIN_PUBLIC_KEY",
     "GITDIR_HOOK_REPO_PATH", "GITDIR_HOOK_PUBLIC_KEY"}
NoEnv == [x \in Variable |-> Unset]
Settings(e) == {x \in Variable : e[x] # Unset}

VARIABLES
    env,    \* the environment the server is started with
    dotenv, \* the .env file in its directory
    server, \* the Config of its process, NoConfig while it does not run
    hooks   \* the hook processes it started: their Config and the server's
envVars == <<env, dotenv, server, hooks>>

-----------------------------------------------------------------------------
NoConfig == [base |-> Unset, debug |-> FALSE, console |-> FALSE, user |-> Unset, key |-> Unset]

\* godotenv.Load sets what is not set.
Loaded(e, file) == [x \in Variable |-> IF e[x] = Unset THEN file[x] ELSE e[x]]

\* The directory a path names in a process that runs in cwd.
Resolved(path, cwd) == IF path.absolute THEN path ELSE Absolute(cwd.names \o path.names)

AsIs(path, cwd) == path \* mutant
Abs(path, cwd) == IF path.absolute THEN path ELSE Absolute(cwd.names \o path.names)

IsTrue(e) == e["GITDIR_DEBUG"] = "true"

\* What NewEnvConfig refuses. The base directory has to be there.
Refuses(e, cwd) ==
    \/ e["GITDIR_DEBUG"] \notin {Unset, "true", "false"}
    \/ e["GITDIR_LOG_FORMAT"] \notin {Unset, "console", "json"}
    \/ e["GITDIR_BASE_DIR"] = Unset
    \/ Resolved(Abs(e["GITDIR_BASE_DIR"], cwd), cwd) \notin Directory
    \/ e["GITDIR_ADMIN_PUBLIC_KEY"] \notin {Unset, "key"}

\* The log format is checked and not kept: DefaultConfig's json stays.
NewEnvConfig(e, cwd) ==
    IF Refuses(e, cwd) THEN NoConfig
    ELSE [base |-> Abs(e["GITDIR_BASE_DIR"], cwd), debug |-> IsTrue(e), console |-> FALSE,
          user |-> e["GITDIR_ADMIN_USER"], key |-> e["GITDIR_ADMIN_PUBLIC_KEY"]]

\* cmdServe ensures an admin user when it has both a name and a key.
EnsuresAdmin(c) == c.user \notin {Unset, ""} /\ c.key # Unset

EnvInit ==
    /\ env = NoEnv /\ dotenv = NoEnv
    /\ server = NoConfig /\ hooks = {}

\* The operator edits the variables or the file of a server that is not running.
SetVariable ==
    /\ server = NoConfig
    /\ Cardinality(Settings(env)) + Cardinality(Settings(dotenv)) < MaxSet
    /\ \E x \in DOMAIN Value : \E v \in Value[x] :
          \/ env[x] = Unset /\ env' = [env EXCEPT ![x] = v] /\ UNCHANGED dotenv
          \/ dotenv[x] = Unset /\ dotenv' = [dotenv EXCEPT ![x] = v] /\ UNCHANGED env
    /\ UNCHANGED <<server, hooks>>

Serve ==
    /\ server = NoConfig
    /\ server' = NewEnvConfig(Loaded(env, dotenv), Start)
    /\ UNCHANGED <<env, dotenv, hooks>>

\* What cmdRepoAction gives to git for its hooks; nothing else is passed on.
HookEnv ==
    [NoEnv EXCEPT !["GITDIR_BASE_DIR"] = server.base,
                  !["GITDIR_HOOK_REPO_PATH"] = "path",
                  !["GITDIR_HOOK_PUBLIC_KEY"] = "key",
                  !["GITDIR_LOG_FORMAT"] = "console"]

RepoDirectory == Absolute(server.base.names \o <<"admin", "admin">>)

\* git runs hooks in the repository, where there is no .env file. cmdHook wants
\* the path and the key.
HookConfig ==
    IF Unset \in {HookEnv["GITDIR_HOOK_REPO_PATH"], HookEnv["GITDIR_HOOK_PUBLIC_KEY"]}
    THEN NoConfig ELSE NewEnvConfig(HookEnv, RepoDirectory)

RunHook ==
    /\ server # NoConfig
    /\ hooks' = hooks \cup {[server |-> server, hook |-> HookConfig]}
    /\ UNCHANGED <<env, dotenv, server>>

Stop ==
    /\ server # NoConfig
    /\ server' = NoConfig
    /\ UNCHANGED <<env, dotenv, hooks>>

-----------------------------------------------------------------------------
(* Properties                                                              *)

\* However the operator wrote the base directory, each hook process finds the
\* repositories of the server that runs it, from the directory git runs it in.
HookFindsServersRepos == \A p \in hooks : p.hook.base = p.server.base

\* An admin user is ensured when the two variables the README names are set
\* ("If you set `GITDIR_ADMIN_USER` and `GITHUB_ADMIN_PUBLIC_KEY` an admin user
\* will automatically be added to the config.").
NamedAdminIsEnsured ==
    /\ server # NoConfig
    /\ Loaded(env, dotenv)["GITDIR_ADMIN_USER"] \notin {Unset, ""}
    /\ Loaded(env, dotenv)["GITHUB_ADMIN_PUBLIC_KEY"] = "key"
    => EnsuresAdmin(server)

\* GITDIR_LOG_FORMAT=console makes a process log for the console ("Set up the
\* logger - anything other than console defaults to json.").
ConsoleIsHonoured ==
    server # NoConfig /\ Loaded(env, dotenv)["GITDIR_LOG_FORMAT"] = "console" => server.console
=============================================================================

---------------------------- MODULE HookProcess -----------------------------
(***************************************************************************)
(* A hook of a config repo from end to end: the server with the settings   *)
(* an operator gave it, git and the hook scripts it runs for a push, and   *)
(* the gitdir process one of them starts with what the server passed on.   *)
(***************************************************************************)
EXTENDS Environment, HookScript

processVars == <<vars, envVars>>

\* No push is under way.
Idle == next = 0 \/ Ended

ProcessInit == Init /\ EnvInit

\* The server and its settings, while no hook runs.
Administer ==
    /\ Idle
    /\ SetVariable \/ Serve \/ Stop
    /\ UNCHANGED vars

\* git runs the script for a server, with its variables, or for somebody who
\* pushes on the machine, without them.
BeginPush ==
    /\ baseDir => server # NoConfig
    /\ Begin
    /\ UNCHANGED envVars

IsGitdir == next \in DOMAIN dir /\ dir[next].gitdir /\ Executable(dir[next])

\* gitdir's entry starts a process when the base directory is set: "gitdir hook".
\* One that gets no config from its environment would refuse whatever it is asked;
\* HookFindsServersRepos says that there is none.
RunGitdir ==
    /\ IsGitdir /\ RunEntry
    /\ IF baseDir THEN RunHook ELSE UNCHANGED envVars

\* Everything else in the script concerns no other process.
Script ==
    /\ SkipEntry \/ Finish \/ (~IsGitdir /\ RunEntry)
    /\ UNCHANGED envVars

ProcessNext == Administer \/ BeginPush \/ RunGitdir \/ Script

ProcessSpec == ProcessInit /\ [][ProcessNext]_processVars

-----------------------------------------------------------------------------
(* Properties                                                              *)

\* A push over the server passes only with the consent of a gitdir process that
\* looked at the repositories of that server, if gitdir's entry can be executed
\* at all: neither the other hooks nor the environment keep it from being asked.
ServerIsAsked ==
    status = 0 /\ baseDir /\ (\E i \in Runs : dir[i].gitdir)
        => \E p \in hooks : p.hook # NoConfig
=============================================================================

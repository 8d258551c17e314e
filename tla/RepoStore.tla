----------------------------- MODULE RepoStore ------------------------------
(***************************************************************************)
(* EnsureRepo (internal/git/repository.go): how a bare repository and the  *)
(* hook scripts in it come to be at <path>.git, when the server and hook   *)
(* processes call it for the same path at the same time and may be killed  *)
(* between any two of its steps.                                           *)
(*                                                                         *)
(* One path is modelled. What go-git and the file system do in one call    *)
(* that another process can see in parts is split into those parts.        *)
(***************************************************************************)
EXTENDS Naturals

CONSTANTS
    Caller,     \* the processes that call EnsureRepo
    HookFiles,  \* how many hook files there are, two for each entry of hooks
    MaxCrashes  \* bound: how often a process is killed or a step of it fails

ASSUME RepoStoreAssumption == HookFiles \in Nat \ {0} /\ MaxCrashes \in Nat

HookFile == 1..HookFiles

VARIABLES
    old,      \* the directory of a release before the .git suffix: "absent" or "legacy"
    store,    \* <path>.git: "absent", "dirs" (no HEAD yet), "fresh", or "legacy" once renamed
    file,     \* each hook file: "missing", "torn" (truncated), "stale" or "current"
    pc,       \* the step each process is at
    at,       \* the hook file it is at
    crashes   \* how often a process was killed

diskVars == <<old, store, file>>
vars == <<diskVars, pc, at, crashes>>

DirExists(place) == place # "absent"
HasHead == store \in {"fresh", "legacy"}

Goto(p, step) == pc' = [pc EXCEPT ![p] = step]

-----------------------------------------------------------------------------
\* A repository that is there has the hooks of some release, or none; a new
\* one has none.
Init ==
    /\ old \in {"absent", "legacy"}
    /\ store \in {"absent", "fresh"}
    /\ file \in [HookFile -> {"missing", "stale", "current"}]
    /\ store = "absent" /\ old = "absent" => \A f \in HookFile : file[f] = "missing"
    /\ pc = [p \in Caller |-> "idle"]
    /\ at = [p \in Caller |-> 1]
    /\ crashes = 0

Call(p) ==
    /\ pc[p] \in {"idle", "done", "failed"}
    /\ Goto(p, "statPath")
    /\ UNCHANGED <<diskVars, at, crashes>>

StatPath(p) ==
    /\ pc[p] = "statPath"
    /\ Goto(p, IF DirExists(store) THEN "open" ELSE "statOld")
    /\ UNCHANGED <<diskVars, at, crashes>>

StatOld(p) ==
    /\ pc[p] = "statOld"
    /\ Goto(p, IF DirExists(old) THEN "rename" ELSE "mkdirs")
    /\ UNCHANGED <<diskVars, at, crashes>>

\* os.Rename fails when the source has gone or the target is a directory.
Rename(p) ==
    /\ pc[p] = "rename"
    /\ IF DirExists(old) /\ ~DirExists(store)
       THEN old' = "absent" /\ store' = old /\ Goto(p, "open")
       ELSE Goto(p, "failed") /\ UNCHANGED <<old, store>>
    /\ UNCHANGED <<file, at, crashes>>

(* git.Init: directories, a look at HEAD, then HEAD                        *)

InitDirs(p) ==
    /\ pc[p] = "mkdirs"
    /\ store' = IF DirExists(store) THEN store ELSE "dirs"
    /\ Goto(p, "checkHead")
    /\ UNCHANGED <<old, file, at, crashes>>

HeadUnchecked == FALSE \* mutant
HeadAssumed == DirExists(store) \* mutant
HeadPresent == HasHead

\* ErrRepositoryAlreadyExists when it finds HEAD.
InitCheck(p) ==
    /\ pc[p] = "checkHead"
    /\ Goto(p, IF HeadPresent THEN "failed" ELSE "setHead")
    /\ UNCHANGED <<diskVars, at, crashes>>

InitHead(p) ==
    /\ pc[p] = "setHead"
    /\ store' = "fresh"
    /\ Goto(p, "open")
    /\ UNCHANGED <<old, file, at, crashes>>

\* Open: ErrRepositoryNotExists when there is no HEAD.
Open(p) ==
    /\ pc[p] = "open"
    /\ Goto(p, IF HasHead THEN "compare" ELSE "failed")
    /\ at' = [at EXCEPT ![p] = 1]
    /\ UNCHANGED <<diskVars, crashes>>

-----------------------------------------------------------------------------
(* ensureHooks: one writeIfDifferent after the other                       *)

AlsoPastLast(p) == at[p] <= HookFiles \* mutant
BeforeLast(p) == at[p] < HookFiles

NextFile(p) ==
    IF BeforeLast(p)
    THEN at' = [at EXCEPT ![p] = @ + 1] /\ Goto(p, "compare")
    ELSE Goto(p, "done") /\ UNCHANGED at

Missing(f) == file[f] = "missing" \* mutant
Different(f) == file[f] # "current"

Compare(p) ==
    /\ pc[p] = "compare"
    /\ IF Different(at[p]) THEN Goto(p, "truncate") /\ UNCHANGED at ELSE NextFile(p)
    /\ UNCHANGED <<diskVars, crashes>>

\* util.WriteFile opens the file with O_TRUNC and then writes it.
Truncate(p) ==
    /\ pc[p] = "truncate"
    /\ file' = [file EXCEPT ![at[p]] = "torn"]
    /\ Goto(p, "write")
    /\ UNCHANGED <<old, store, at, crashes>>

Write(p) ==
    /\ pc[p] = "write"
    /\ file' = [file EXCEPT ![at[p]] = "current"]
    /\ NextFile(p)
    /\ UNCHANGED <<old, store, crashes>>

\* The process is killed, or a step fails and EnsureRepo returns the error.
Crash(p) ==
    /\ pc[p] \notin {"idle", "done", "failed"} /\ crashes < MaxCrashes
    /\ crashes' = crashes + 1
    /\ Goto(p, "idle")
    /\ UNCHANGED <<diskVars, at>>

Step(p) ==
    \/ StatPath(p) \/ StatOld(p) \/ Rename(p)
    \/ InitDirs(p) \/ InitCheck(p) \/ InitHead(p)
    \/ Open(p) \/ Compare(p) \/ Truncate(p) \/ Write(p)

Next == \E p \in Caller : Call(p) \/ Step(p) \/ Crash(p)

Spec == Init /\ [][Next]_vars

\* A call that runs gets on, and somebody asks for the repository again.
Fairness == \A p \in Caller : WF_vars(Call(p)) /\ WF_vars(Step(p))

FairSpec == Spec /\ Fairness

-----------------------------------------------------------------------------
(* Properties                                                              *)

TypeOK ==
    /\ old \in {"absent", "legacy"}
    /\ store \in {"absent", "dirs", "fresh", "legacy"}
    /\ file \in [HookFile -> {"missing", "torn", "stale", "current"}]
    /\ pc \in [Caller -> {"idle", "statPath", "statOld", "rename", "mkdirs", "checkHead",
                          "setHead", "open", "compare", "truncate", "write", "done", "failed"}]
    /\ at \in [Caller -> HookFile]
    /\ crashes \in 0..MaxCrashes

\* The repository of an old release stays where it is or is moved as it is, and
\* is never initialised over by a process that looked before it was moved.
LegacyIsKept ==
    [][old = "legacy" \/ store = "legacy" => old' = "legacy" \/ store' = "legacy"]_vars

\* Once a call has succeeded every hook is there, whole, as this release writes
\* it, but for one that another process is rewriting or was killed rewriting.
HooksInstalled ==
    \A p \in Caller, f \in HookFile :
        pc[p] = "done" =>
            \/ file[f] = "current"
            \/ file[f] = "torn" /\ (crashes > 0 \/ \E q \in Caller : pc[q] = "write" /\ at[q] = f)

\* A hook file a process was killed in the middle of is repaired by a later
\* call: as long as calls go on, it is whole again and again. (Neither does it
\* have to stay whole, nor are all whole at once: processes can go on rewriting
\* what another is in the middle of writing.)
HooksRepaired == \A f \in HookFile : []<>(HasHead => file[f] = "current")

\* Calls for a path end up with a repository there ("EnsureRepo will open a
\* repository if it exists and try to create it if it doesn't").
RepoComesToBe == \A p \in Caller : pc[p] = "statPath" ~> HasHead

\* They do when nobody is killed, whoever fails on the way because another was
\* faster.
UndisturbedRepoComesToBe == [](crashes = 0) => RepoComesToBe

\* With nobody killed no call fails.
NoCallFails == \A p \in Caller : pc[p] # "failed"
=============================================================================

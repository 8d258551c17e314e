----------------------------- MODULE HookScript -----------------------------
(***************************************************************************)
(* The shell scripts ensureHooks puts into a repository                    *)
(* (internal/git/repository.go): the runner git calls as hooks/<name>,     *)
(* which runs every executable of hooks/<name>.d, and gitdir's own entry   *)
(* in that directory, which calls back into this program.                  *)
(***************************************************************************)
EXTENDS Integers, Sequences

CONSTANTS
    MaxEntries, \* bound: how many files hooks/<name>.d holds
    MaxStatus   \* bound: the largest exit status of a hook

ASSUME HookScriptAssumption == MaxEntries \in Nat \ {0} /\ MaxStatus \in Nat \ {0}

VARIABLES
    gitDir,  \* whether GIT_DIR is set
    baseDir, \* whether GITDIR_BASE_DIR is set
    dir,     \* the files of hooks/<name>.d in the order of their names
    next,    \* the one the loop is at
    ran,     \* those it has run
    codes,   \* $exitcodes
    status   \* the exit status of the runner, Running until it ends

Running == -1

input == <<gitDir, baseDir, dir>>
vars == <<input, next, ran, codes, status>>

\* One file is gitdir's; "verdict" is the status the command in it ends with.
Entry == [gitdir : BOOLEAN, executable : BOOLEAN, verdict : 0..MaxStatus]

\* gitdir's entry lets everything pass outside of a session of the server.
Outcome(entry) == IF entry.gitdir /\ ~baseDir THEN 0 ELSE entry.verdict

\* test -x "${hook}"
AnyFile(entry) == TRUE \* mutant
Executable(entry) == entry.executable

Init ==
    /\ gitDir \in BOOLEAN /\ baseDir \in BOOLEAN
    /\ dir \in UNION {[1..n -> Entry] : n \in 1..MaxEntries}
    /\ \E i \in DOMAIN dir : \A j \in DOMAIN dir : dir[j].gitdir <=> j = i
    /\ next = 0 /\ ran = {} /\ codes = <<>> /\ status = Running

Exit(code) == status' = code /\ UNCHANGED <<next, ran, codes>>

\* test -n "${GIT_DIR}" || exit 1
Begin ==
    /\ status = Running /\ next = 0
    /\ IF gitDir THEN next' = 1 /\ UNCHANGED <<ran, codes, status>> ELSE Exit(1)
    /\ UNCHANGED input

Break == next' = Len(dir) + 1 \* mutant
Continue == next' = next + 1

\* Files that are not executable are passed over.
SkipEntry ==
    /\ status = Running /\ next \in DOMAIN dir
    /\ ~Executable(dir[next])
    /\ Continue
    /\ UNCHANGED <<input, ran, codes, status>>

NoErrexit(code) == FALSE \* mutant
Errexit(code) == code # 0

\* The pipeline ends with the status of the hook, and set -e ends the script
\* with it before it is stored.
RunEntry ==
    /\ status = Running /\ next \in DOMAIN dir
    /\ Executable(dir[next])
    /\ LET code == Outcome(dir[next]) IN
          IF Errexit(code)
          THEN status' = code /\ UNCHANGED <<next, codes>>
          ELSE next' = next + 1 /\ codes' = Append(codes, code) /\ UNCHANGED status
    /\ ran' = ran \cup {next}
    /\ UNCHANGED input

\* The last loop exits with ${i}, which is not set: with the status of its test.
Finish ==
    /\ status = Running /\ next = Len(dir) + 1
    /\ Exit(IF \E i \in DOMAIN codes : codes[i] # 0 THEN 1 ELSE 0)
    /\ UNCHANGED input

Next == Begin \/ SkipEntry \/ RunEntry \/ Finish

Spec == Init /\ [][Next]_vars

-----------------------------------------------------------------------------
(* Properties                                                              *)

Ended == status # Running
Runs == {i \in DOMAIN dir : dir[i].executable}

TypeOK ==
    /\ gitDir \in BOOLEAN /\ baseDir \in BOOLEAN
    /\ next \in 0..Len(dir) + 1 /\ ran \subseteq Runs
    /\ Len(codes) <= Len(dir)
    /\ Ended => status \in 0..MaxStatus

\* git goes on only when every executable hook ran and let it pass, gitdir's
\* and those beside it, wherever the ones that are not executable stand.
PassedByAll == status = 0 => ran = Runs /\ \A i \in Runs : Outcome(dir[i]) = 0

\* A refusal is some hook's, and git gets the status of the hook that refused
\* ("and only fail if at least one of them failed").
RefusedByOne ==
    Ended /\ gitDir /\ status # 0 => \E i \in ran : Outcome(dir[i]) = status

\* All the hooks run, also when one fails ("allows us to run multiple hooks
\* from a directory (all of them will always be run)").
AllAreRun == Ended /\ gitDir => ran = Runs
=============================================================================

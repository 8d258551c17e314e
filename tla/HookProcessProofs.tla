------------------------- MODULE HookProcessProofs --------------------------
(***************************************************************************)
(* For any directories, settings, exit statuses and number of hooks: the   *)
(* runner passes exactly what its hooks pass, the hook processes of a      *)
(* server find its repositories, and no push over it passes without asking *)
(* one.                                                                    *)
(***************************************************************************)
EXTENDS HookProcess, TLAPS

-----------------------------------------------------------------------------
(* The script by itself                                                    *)

\* What the script is given.
InputType == gitDir \in BOOLEAN /\ baseDir \in BOOLEAN /\ dir \in Seq(Entry)

\* The loop has stored no more statuses than it has passed files.
Counted ==
    /\ next \in 0..Len(dir) + 1
    /\ codes \in Seq({0})
    /\ Len(codes) <= next /\ (next > 0 => Len(codes) <= next - 1)

\* While it runs it has run what it can of the files before the one it is at,
\* and all of them let it go on.
RanSoFar ==
    /\ next > 0 => gitDir
    /\ ran \subseteq Runs
    /\ ~Ended => ran = {i \in Runs : i < next} /\ \A i \in ran : Outcome(dir[i]) = 0

\* How it ends.
Verdict ==
    /\ Ended => status \in 0..MaxStatus
    /\ PassedByAll /\ RefusedByOne

IInv == InputType /\ Counted /\ RanSoFar /\ Verdict

-----------------------------------------------------------------------------
\* What a hook ends with is an exit status.
LEMMA OutcomeType ==
    ASSUME InputType, NEW i \in DOMAIN dir PROVE Outcome(dir[i]) \in 0..MaxStatus
<1>1. dir[i] \in Entry
  BY DEF InputType
<1> QED BY <1>1, HookScriptAssumption DEF Outcome, Entry

\* The invariant holds when the script starts.
LEMMA InvInit == Init => IInv
<1> SUFFICES ASSUME Init PROVE IInv
  OBVIOUS
<1>1. InputType
  <2>1. PICK n \in 1..MaxEntries : dir \in [1..n -> Entry]
    BY DEF Init
  <2> QED BY <2>1, HookScriptAssumption DEF Init, InputType
<1>2. Len(dir) \in Nat
  BY <1>1 DEF InputType
<1> QED BY <1>1, <1>2, HookScriptAssumption
        DEF Init, IInv, Counted, RanSoFar, Verdict, PassedByAll, RefusedByOne,
            Ended, Running, Runs

\* It is inductive.
LEMMA InvStep == ASSUME IInv, [Next]_vars PROVE IInv'
<1> USE HookScriptAssumption DEF input, Ended, Running, Runs
<1>1. Len(dir) \in Nat /\ DOMAIN dir = 1..Len(dir)
  BY DEF IInv, InputType
<1>2. CASE Begin
  BY <1>1, <1>2
  DEF Begin, Exit, IInv, InputType, Counted, RanSoFar,
      Verdict, PassedByAll, RefusedByOne, Outcome
<1>3. CASE SkipEntry
  BY <1>1, <1>3
  DEF SkipEntry, Continue, Executable, IInv, InputType, Counted, RanSoFar,
      Verdict, PassedByAll, RefusedByOne, Outcome
<1>4. CASE RunEntry
  <2>1. Outcome(dir[next]) \in 0..MaxStatus
    BY <1>4, OutcomeType DEF RunEntry, IInv
  <2>2. InputType' /\ UNCHANGED input /\ ~Ended
    BY <1>4 DEF RunEntry, IInv, InputType
  <2>3. ran' \subseteq Runs'
    BY <1>4, <2>2 DEF RunEntry, Executable, IInv, RanSoFar
  <2>4. CASE Outcome(dir[next]) = 0
    <3>1. /\ next' = next + 1 /\ codes' = Append(codes, 0) /\ status' = status
          /\ ran' = ran \cup {next}
      BY <1>4, <2>4 DEF RunEntry, Errexit
    <3>2. Counted'
      BY <1>1, <1>4, <2>2, <3>1 DEF RunEntry, IInv, Counted
    <3>3. RanSoFar'
      BY <1>1, <1>4, <2>2, <2>3, <2>4, <3>1
      DEF RunEntry, Executable, IInv, Counted, RanSoFar, Outcome
    <3> QED BY <2>2, <3>1, <3>2, <3>3 DEF IInv, Verdict, PassedByAll, RefusedByOne
  <2>5. CASE Outcome(dir[next]) # 0
    <3>1. /\ status' = Outcome(dir[next]) /\ UNCHANGED <<next, codes>>
          /\ ran' = ran \cup {next}
      BY <1>4, <2>5 DEF RunEntry, Errexit
    <3>2. Counted' /\ RanSoFar'
      BY <2>1, <2>2, <2>3, <3>1 DEF IInv, Counted, RanSoFar
    <3>3. Outcome(dir[next])' = Outcome(dir[next])
      BY <2>2, <3>1 DEF Outcome
    <3>4. PassedByAll'
      BY <2>5, <3>1 DEF PassedByAll
    <3>5. RefusedByOne'
      <4>1. next \in ran' /\ Outcome(dir[next])' = status'
        BY <3>1, <3>3
      <4> QED BY <2>2, <3>1, <4>1 DEF RefusedByOne, Outcome
    <3> QED BY <2>1, <2>2, <3>1, <3>2, <3>4, <3>5 DEF IInv, Verdict
  <2> QED BY <2>4, <2>5
<1>5. CASE Finish
  BY <1>1, <1>5
  DEF Finish, Exit, IInv, InputType, Counted, RanSoFar,
      Verdict, PassedByAll, RefusedByOne, Outcome
<1>6. CASE UNCHANGED vars
  BY <1>6
  DEF vars, IInv, InputType, Counted, RanSoFar,
      Verdict, PassedByAll, RefusedByOne, Outcome
<1> QED BY <1>2, <1>3, <1>4, <1>5, <1>6 DEF Next

\* So it always holds.
LEMMA Invariance == Spec => []IInv
<1>1. IInv /\ UNCHANGED vars => IInv'
  BY InvStep
<1> QED BY InvInit, InvStep, <1>1, PTL DEF Spec

-----------------------------------------------------------------------------
\* The variables of HookScript have their types.
THEOREM TypesHold == Spec => []TypeOK
<1>1. IInv => TypeOK
  BY DEF IInv, InputType, Counted, RanSoFar, Verdict, TypeOK
<1> QED BY Invariance, <1>1, PTL

\* git goes on only when every executable hook ran and let it pass.
THEOREM PassIsUnanimous == Spec => []PassedByAll
<1>1. IInv => PassedByAll
  BY DEF IInv, Verdict
<1> QED BY Invariance, <1>1, PTL

\* What git is refused with is the status of a hook that ran.
THEOREM RefusalIsAHooks == Spec => []RefusedByOne
<1>1. IInv => RefusedByOne
  BY DEF IInv, Verdict
<1> QED BY Invariance, <1>1, PTL

-----------------------------------------------------------------------------
(* The processes around it                                                 *)

\* A server that runs has found its base directory.
ServerFound == server = NoConfig \/ server.base \in Directory

\* Each hook process it started has the same one.
HooksAgree ==
    \A p \in hooks : p.hook.base = p.server.base /\ p.hook # NoConfig

\* Once gitdir's entry was run in a session, there is a hook process.
Asked == baseDir /\ (\E i \in ran : dir[i].gitdir) => hooks # {}

AskInv == ServerFound /\ HooksAgree /\ Asked

-----------------------------------------------------------------------------
\* A path made absolute is the directory it names, wherever it is used.
LEMMA AbsIsResolved ==
    ASSUME NEW path, NEW cwd, NEW other
    PROVE Resolved(Abs(path, cwd), other) = Abs(path, cwd)
BY DEF Resolved, Abs, Absolute

\* A config has a base directory that is there.
LEMMA ConfigHasBase ==
    ASSUME NEW e, NEW cwd
    PROVE LET c == NewEnvConfig(e, cwd) IN c = NoConfig \/ c.base \in Directory
BY AbsIsResolved DEF NewEnvConfig, Refuses

\* A hook process finds the base directory of the server that runs it.
LEMMA HookFinds ==
    ASSUME ServerFound, server # NoConfig
    PROVE HookConfig.base = server.base /\ HookConfig # NoConfig
<1>1. server.base \in Directory /\ server.base # Unset /\ server.base.absolute
  BY EnvironmentAssumption DEF ServerFound
<1>2. /\ HookEnv["GITDIR_BASE_DIR"] = server.base
      /\ HookEnv["GITDIR_HOOK_REPO_PATH"] = "path"
      /\ HookEnv["GITDIR_HOOK_PUBLIC_KEY"] = "key"
      /\ HookEnv["GITDIR_LOG_FORMAT"] = "console"
      /\ HookEnv["GITDIR_DEBUG"] = Unset
      /\ HookEnv["GITDIR_ADMIN_PUBLIC_KEY"] = Unset
  BY DEF HookEnv, NoEnv, Variable
<1>3. Abs(server.base, RepoDirectory) = server.base
  BY <1>1 DEF Abs
<1>4. ~Refuses(HookEnv, RepoDirectory)
  BY <1>1, <1>2, <1>3, AbsIsResolved DEF Refuses
<1>5. HookConfig = NewEnvConfig(HookEnv, RepoDirectory)
  BY <1>2, EnvironmentAssumption DEF HookConfig
<1>6. HookConfig.base = server.base
  BY <1>2, <1>3, <1>4, <1>5 DEF NewEnvConfig
<1> QED BY <1>1, <1>6 DEF NoConfig

\* The steps of a process are steps of the script, or leave it alone.
LEMMA ScriptSteps == [ProcessNext]_processVars => [Next]_vars
BY DEF ProcessNext, processVars, vars, Administer, BeginPush, RunGitdir, Script, Next

\* The script in a process is the script by itself.
LEMMA ProcessRunsScript == ProcessSpec => Spec
BY ScriptSteps, PTL DEF ProcessSpec, ProcessInit, Spec

-----------------------------------------------------------------------------
\* The invariant holds before anything runs.
LEMMA AskInit == ProcessInit => AskInv
BY DEF ProcessInit, EnvInit, Init, AskInv, ServerFound, HooksAgree, Asked

\* It is inductive.
LEMMA AskStep == ASSUME AskInv, [ProcessNext]_processVars PROVE AskInv'
<1>1. CASE Administer
  <2>1. hooks' = hooks /\ UNCHANGED vars
    BY <1>1 DEF Administer, SetVariable, Serve, Stop
  <2>2. ServerFound'
    BY <1>1, ConfigHasBase DEF Administer, SetVariable, Serve, Stop, AskInv, ServerFound
  <2> QED BY <2>1, <2>2 DEF AskInv, HooksAgree, Asked, vars, input
<1>2. CASE BeginPush
  BY <1>2 DEF BeginPush, Begin, Exit, input, envVars, AskInv, ServerFound, HooksAgree, Asked
<1>3. CASE RunGitdir
  <2>1. ran' = ran \cup {next} /\ UNCHANGED input
    BY <1>3 DEF RunGitdir, RunEntry
  <2>2. CASE baseDir
    <3>1. server # NoConfig /\ server' = server
          /\ hooks' = hooks \cup {[server |-> server, hook |-> HookConfig]}
      BY <1>3, <2>2 DEF RunGitdir, RunHook
    <3>2. HooksAgree'
      BY <3>1, HookFinds DEF AskInv, HooksAgree
    <3> QED BY <3>1, <3>2 DEF AskInv, ServerFound, Asked
  <2>3. CASE ~baseDir
    BY <1>3, <2>1, <2>3
    DEF RunGitdir, input, envVars, AskInv, ServerFound, HooksAgree, Asked
  <2> QED BY <2>2, <2>3
<1>4. CASE Script
  <2>1. UNCHANGED <<envVars, input>>
    BY <1>4 DEF Script, SkipEntry, Finish, RunEntry
  <2>2. \A i \in ran' : i \in ran \/ ~dir[i].gitdir
    BY <1>4 DEF Script, SkipEntry, Finish, Exit, RunEntry, IsGitdir
  <2> QED BY <2>1, <2>2 DEF envVars, input, AskInv, ServerFound, HooksAgree, Asked
<1>5. CASE UNCHANGED processVars
  BY <1>5 DEF processVars, vars, input, envVars, AskInv, ServerFound, HooksAgree, Asked
<1> QED BY <1>1, <1>2, <1>3, <1>4, <1>5 DEF ProcessNext

\* So it always holds.
LEMMA AskInvariance == ProcessSpec => []AskInv
<1>1. AskInv /\ [ProcessNext]_processVars => AskInv'
  BY AskStep
<1> QED BY AskInit, <1>1, PTL DEF ProcessSpec

-----------------------------------------------------------------------------
\* Whatever the base directory and however it is written, hook processes find the
\* repositories of the server that runs them.
THEOREM HooksFindTheServer == ProcessSpec => []HookFindsServersRepos
<1>1. AskInv => HookFindsServersRepos
  BY DEF AskInv, HooksAgree, HookFindsServersRepos
<1> QED BY AskInvariance, <1>1, PTL

\* With any hooks beside gitdir's, a push over the server passes only when a
\* gitdir process that has a config was asked.
THEOREM NoPushPassesUnasked == ProcessSpec => []ServerIsAsked
<1>1. ASSUME AskInv, PassedByAll PROVE ServerIsAsked
  <2> SUFFICES ASSUME status = 0, baseDir, NEW i \in Runs, dir[i].gitdir
               PROVE \E p \in hooks : p.hook # NoConfig
    BY DEF ServerIsAsked
  <2>1. i \in ran
    BY <1>1 DEF PassedByAll
  <2>2. PICK p \in hooks : TRUE
    BY <1>1, <2>1 DEF AskInv, Asked
  <2> QED BY <1>1, <2>2 DEF AskInv, HooksAgree
<1> QED BY AskInvariance, ProcessRunsScript, PassIsUnanimous, <1>1, PTL
=============================================================================

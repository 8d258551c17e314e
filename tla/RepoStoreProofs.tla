-------------------------- MODULE RepoStoreProofs ---------------------------
(***************************************************************************)
(* For any number of callers, hook files and crashes: the types of         *)
(* RepoStore, that an old repository is never initialised over, and that   *)
(* a call that succeeds leaves the hooks in place.                         *)
(***************************************************************************)
EXTENDS RepoStore, TLAPS

Initialising == {"mkdirs", "checkHead", "setHead"}
InHooks == {"compare", "truncate", "write", "done"}

\* An old repository is there at one of the two places at most, and for good
\* once some process has found it at neither of them.
OldIsSettled ==
    /\ old = "legacy" => store # "legacy"
    /\ \A p \in Caller :
          /\ pc[p] \in Initialising => old = "absent"
          /\ pc[p] \in {"checkHead", "setHead"} => store # "absent"
          /\ pc[p] = "setHead" => store # "legacy"

\* A hook file that is torn is being written, or its writer was killed.
TornIsBeingWritten ==
    \A f \in HookFile :
        file[f] = "torn" => crashes > 0 \/ \E q \in Caller : pc[q] = "write" /\ at[q] = f

\* A process in ensureHooks has left each file before the one it is at current,
\* or another process has torn it since.
DoneSoFar ==
    \A p \in Caller, f \in HookFile :
        pc[p] \in InHooks /\ (f < at[p] \/ pc[p] = "done") => file[f] \in {"current", "torn"}

IInv == TypeOK /\ OldIsSettled /\ TornIsBeingWritten /\ DoneSoFar

-----------------------------------------------------------------------------
\* The variables keep their types.
LEMMA TypeStep == ASSUME TypeOK, [Next]_vars PROVE TypeOK'
<1> USE RepoStoreAssumption DEF TypeOK, HookFile, Goto, diskVars
<1>1. ASSUME NEW p \in Caller, Call(p) PROVE TypeOK'
  BY <1>1 DEF Call
<1>2. ASSUME NEW p \in Caller, StatPath(p) PROVE TypeOK'
  BY <1>2 DEF StatPath, DirExists
<1>3. ASSUME NEW p \in Caller, StatOld(p) PROVE TypeOK'
  BY <1>3 DEF StatOld, DirExists
<1>4. ASSUME NEW p \in Caller, Rename(p) PROVE TypeOK'
  BY <1>4 DEF Rename, DirExists
<1>5. ASSUME NEW p \in Caller, InitDirs(p) PROVE TypeOK'
  BY <1>5 DEF InitDirs, DirExists
<1>6. ASSUME NEW p \in Caller, InitCheck(p) PROVE TypeOK'
  BY <1>6 DEF InitCheck, HeadPresent, HasHead
<1>7. ASSUME NEW p \in Caller, InitHead(p) PROVE TypeOK'
  BY <1>7 DEF InitHead
<1>8. ASSUME NEW p \in Caller, Open(p) PROVE TypeOK'
  BY <1>8 DEF Open, HasHead
<1>9. ASSUME NEW p \in Caller, Compare(p) PROVE TypeOK'
  BY <1>9 DEF Compare, NextFile, BeforeLast, Different
<1>10. ASSUME NEW p \in Caller, Truncate(p) PROVE TypeOK'
  BY <1>10 DEF Truncate
<1>11. ASSUME NEW p \in Caller, Write(p) PROVE TypeOK'
  BY <1>11 DEF Write, NextFile, BeforeLast
<1>12. ASSUME NEW p \in Caller, Crash(p) PROVE TypeOK'
  BY <1>12 DEF Crash
<1>13. CASE UNCHANGED vars
  BY <1>13 DEF vars
<1> QED
  BY <1>1, <1>2, <1>3, <1>4, <1>5, <1>6, <1>7, <1>8, <1>9, <1>10, <1>11, <1>12, <1>13
  DEF Next, Step

\* The invariant is inductive.
LEMMA InvStep == ASSUME IInv, [Next]_vars PROVE IInv'
<1> DEFINE Goal == OldIsSettled /\ TornIsBeingWritten /\ DoneSoFar
<1> SUFFICES Goal'
  BY TypeStep DEF IInv
<1> USE RepoStoreAssumption
    DEF IInv, TypeOK, HookFile, Goto, diskVars, Initialising, InHooks,
        OldIsSettled, TornIsBeingWritten, DoneSoFar
<1>1. ASSUME NEW p \in Caller, Call(p) PROVE Goal'
  BY <1>1 DEF Call
<1>2. ASSUME NEW p \in Caller, StatPath(p) PROVE Goal'
  BY <1>2 DEF StatPath, DirExists
<1>3. ASSUME NEW p \in Caller, StatOld(p) PROVE Goal'
  BY <1>3 DEF StatOld, DirExists
<1>4. ASSUME NEW p \in Caller, Rename(p) PROVE Goal'
  BY <1>4 DEF Rename, DirExists
<1>5. ASSUME NEW p \in Caller, InitDirs(p) PROVE Goal'
  BY <1>5 DEF InitDirs, DirExists
<1>6. ASSUME NEW p \in Caller, InitCheck(p) PROVE Goal'
  BY <1>6 DEF InitCheck, HeadPresent, HasHead
<1>7. ASSUME NEW p \in Caller, InitHead(p) PROVE Goal'
  BY <1>7 DEF InitHead
<1>8. ASSUME NEW p \in Caller, Open(p) PROVE Goal'
  BY <1>8 DEF Open, HasHead
<1>9. ASSUME NEW p \in Caller, Compare(p) PROVE Goal'
  BY <1>9 DEF Compare, NextFile, BeforeLast, Different
<1>10. ASSUME NEW p \in Caller, Truncate(p) PROVE Goal'
  BY <1>10 DEF Truncate
<1>11. ASSUME NEW p \in Caller, Write(p) PROVE Goal'
  BY <1>11 DEF Write, NextFile, BeforeLast
<1>12. ASSUME NEW p \in Caller, Crash(p) PROVE Goal'
  BY <1>12 DEF Crash
<1>13. CASE UNCHANGED vars
  BY <1>13 DEF vars
<1> QED
  BY <1>1, <1>2, <1>3, <1>4, <1>5, <1>6, <1>7, <1>8, <1>9, <1>10, <1>11, <1>12, <1>13
  DEF Next, Step

\* It holds before any call.
LEMMA InvInit == Init => IInv
BY RepoStoreAssumption
   DEF Init, IInv, TypeOK, OldIsSettled, TornIsBeingWritten, DoneSoFar, HookFile,
       Initialising, InHooks

\* So it always holds.
LEMMA Invariance == Spec => []IInv
<1>1. IInv /\ UNCHANGED vars => IInv'
  BY InvStep
<1> QED BY InvInit, InvStep, <1>1, PTL DEF Spec

-----------------------------------------------------------------------------
\* The variables of RepoStore have their types.
THEOREM TypesHold == Spec => []TypeOK
<1>1. IInv => TypeOK
  BY DEF IInv
<1> QED BY Invariance, <1>1, PTL

\* When EnsureRepo returns, every hook file is as it wrote it, but for one that
\* somebody is rewriting or was killed rewriting.
THEOREM HooksAreThere == Spec => []HooksInstalled
<1>1. IInv => HooksInstalled
  BY DEF IInv, DoneSoFar, TornIsBeingWritten, HooksInstalled, InHooks
<1> QED BY Invariance, <1>1, PTL

\* A process writes a HEAD only where it has found neither an old repository
\* nor, after its own look at HEAD, a renamed one; and from then on nobody can
\* rename one to there.
THEOREM LegacyIsNeverLost == Spec => LegacyIsKept
<1> DEFINE There == old = "legacy" \/ store = "legacy"
<1>1. IInv /\ [Next]_vars => (There => There')
  <2> SUFFICES ASSUME IInv, [Next]_vars, There PROVE There'
    OBVIOUS
  <2> USE DEF diskVars, Goto
  <2>1. ASSUME NEW p \in Caller, Rename(p) PROVE There'
    BY <2>1 DEF Rename, DirExists
  <2>2. ASSUME NEW p \in Caller, InitDirs(p) PROVE There'
    BY <2>2 DEF InitDirs, DirExists
  <2>3. ASSUME NEW p \in Caller, InitHead(p) PROVE There'
    BY <2>3 DEF IInv, OldIsSettled, Initialising, InitHead
  <2>4. ASSUME NEW p \in Caller,
               \/ Call(p) \/ Crash(p) \/ StatPath(p) \/ StatOld(p) \/ InitCheck(p)
               \/ Open(p) \/ Compare(p) \/ Truncate(p) \/ Write(p)
        PROVE  There'
    BY <2>4 DEF Call, Crash, StatPath, StatOld, InitCheck, Open, Compare, Truncate, Write
  <2>5. CASE UNCHANGED vars
    BY <2>5 DEF vars
  <2> QED BY <2>1, <2>2, <2>3, <2>4, <2>5 DEF Next, Step
<1>2. IInv /\ [Next]_vars =>
        [old = "legacy" \/ store = "legacy" => old' = "legacy" \/ store' = "legacy"]_vars
  BY <1>1
<1> QED BY Invariance, <1>2, PTL DEF Spec, LegacyIsKept
=============================================================================

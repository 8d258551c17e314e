-------------------------- MODULE CheckoutsProofs ---------------------------
(***************************************************************************)
(* The types of Checkouts for any number of sessions at work, and, in any  *)
(* run in which no two are at work at once, that what the hooks check out  *)
(* never ends up on master. With two that is false (CheckoutsRace.cfg):    *)
(* what one of them writes to HEAD, the other takes for its own.           *)
(***************************************************************************)
EXTENDS Checkouts, FiniteSetTheorems, TLAPS

Stage == HookStage \cup ReloadStage \cup {"idle", "accepted", "reload", "commit"}
Step == {"resolve", "setHead", "readHead", "writeRef", "writeIndex"}
Commits == {c \in Commit : Len(c) > 0}

\* TypeOK, and what it leaves out: the types of the sessions' own records.
Types ==
    /\ TypeOK
    /\ master \in Commits /\ head \in Commits \cup {OnMaster}
    /\ pc \in [Session -> Stage] /\ step \in [Session -> Step]
    /\ direct \in [Session -> BOOLEAN]
    /\ tip \in [Session -> Commits]
    /\ base \in [Session -> Commits] /\ push \in [Session -> Commits]

OneAtWork == \A s, t \in Session : pc[s] # "idle" /\ pc[t] # "idle" => s = t

\* A session pushes one tree on top of a master that nobody else moves before
\* it does, and only if the hook did not refuse it.
PushesOnMaster ==
    \A s \in Session :
       /\ pc[s] \in HookStage \cup {"accepted"} =>
             \E t \in Tree : base[s] = master /\ push[s] = Append(master, t)
       /\ pc[s] = "accepted" => Last(push[s]).name \notin Refused

\* Within a checkout: it still has the commit it resolved, and HEAD is what it
\* made of it.
OwnHead ==
    \A s \in Session : pc[s] \in HookStage \cup ReloadStage =>
       /\ step[s] # "resolve" => tip[s] = TheCommit(s)
       /\ step[s] \in {"readHead", "writeRef", "writeIndex"} => head = NewHead(s)
       /\ step[s] = "writeRef" => (direct[s] <=> ByHash(s))

\* A reload completes what it checked out of master, then loads that.
ReloadsMaster ==
    \A s \in Session :
       /\ pc[s] = "commit" => tip[s] = master /\ head = OnMaster
       /\ pc[s] = "load" => Last(master).complete

IInv ==
    /\ Types /\ OneAtWork /\ RefusedNeverLands
    /\ PushesOnMaster /\ OwnHead /\ ReloadsMaster

-----------------------------------------------------------------------------
(* Commits: sequences of trees with a last one                             *)

\* A commit on top of another.
LEMMA AppendCommit ==
    ASSUME NEW c \in Commits, NEW t \in Tree
    PROVE  /\ Append(c, t) \in Commits
           /\ Last(Append(c, t)) = t
           /\ IsPrefix(c, Append(c, t))
           /\ \A i \in DOMAIN Append(c, t) :
                 Append(c, t)[i] = t \/ (i \in DOMAIN c /\ Append(c, t)[i] = c[i])
<1>1. c \in Seq(Tree) /\ Len(c) \in Nat /\ Len(c) > 0
  BY DEF Commits, Commit
<1>2. /\ Append(c, t) \in Seq(Tree) /\ Len(Append(c, t)) = Len(c) + 1
      /\ \A i \in 1..Len(c) : Append(c, t)[i] = c[i]
      /\ Append(c, t)[Len(c) + 1] = t
  BY <1>1
<1>3. SubSeq(c, 1, Len(c)) = SubSeq(Append(c, t), 1, Len(c))
  BY <1>1, <1>2
<1>4. Append(c, t) \in Commits /\ Last(Append(c, t)) = t
  BY <1>1, <1>2 DEF Commits, Commit, Last
<1>5. IsPrefix(c, Append(c, t))
  BY <1>1, <1>2, <1>3 DEF IsPrefix
<1>6. DOMAIN Append(c, t) = 1..(Len(c) + 1) /\ DOMAIN c = 1..Len(c)
  BY <1>1, <1>2
<1> QED BY <1>1, <1>2, <1>4, <1>5, <1>6

\* The last tree of a commit is a tree, and so is the completed one.
LEMMA LastTree ==
    ASSUME NEW c \in Commits
    PROVE  /\ CommitType(c) /\ Last(c) \in Tree /\ IsPrefix(c, c)
           /\ Completed(Last(c)) \in Tree /\ Completed(Last(c)).complete
           /\ Completed(Last(c)).name = Last(c).name
<1>1. c \in Seq(Tree) /\ Len(c) \in Nat /\ Len(c) > 0
  BY DEF Commits, Commit
<1>2. \A i \in DOMAIN c : c[i] \in Tree
  BY <1>1
<1>3. Last(c) \in Tree
  BY <1>1, <1>2 DEF Last
<1>4. /\ Completed(Last(c)) \in Tree /\ Completed(Last(c)).complete
      /\ Completed(Last(c)).name = Last(c).name
  BY <1>3 DEF Completed, Tree
<1> QED BY <1>1, <1>2, <1>3, <1>4 DEF CommitType, IsPrefix

\* The first commit is one.
LEMMA FirstCommit == First \in Commits
<1>1. [name |-> "first", complete |-> TRUE] \in Tree
  BY DEF Tree
<1> QED BY <1>1 DEF First, Commits, Commit

-----------------------------------------------------------------------------
(* Types                                                                   *)

\* What the sessions' steps resolve and make of HEAD are commits.
LEMMA ResolvedType ==
    ASSUME Types, NEW s \in Session
    PROVE  TheCommit(s) \in Commits /\ NewHead(s) \in Commits \cup {OnMaster}
BY DEF Types, TheCommit, NewHead

\* A checkout ends in a stage, and hands the lock back only as the reload ends.
LEMMA AfterType ==
    ASSUME NEW s \in Session, pc[s] \in HookStage \cup ReloadStage
    PROVE  /\ After(s) \in Stage
           /\ After(s) \in ReloadStage \cup {"commit"} <=> pc[s] = "ensure"
           /\ After(s) \in HookStage \cup ReloadStage => After(s) \in HookStage
           /\ (After(s) = "idle") <=> (pc[s] = "load")
BY DEF After, Stage, HookStage, ReloadStage

\* The initial values have their types.
LEMMA TypesInit == Init => Types
<1> SUFFICES ASSUME Init PROVE Types
  OBVIOUS
<1>1. First \in Commits /\ CommitType(First) /\ Last(First) \in Tree
  BY FirstCommit, LastTree
<1> QED
  BY <1>1, CheckoutsAssumption
  DEF Init, Types, TypeOK, Stage, Step, HookStage, ReloadStage

\* Every step keeps the types.
LEMMA TypesStep == ASSUME Types, [Next]_vars PROVE Types'
<1>a. \A c \in Commits : CommitType(c) /\ Last(c) \in Tree
  BY LastTree
<1>b. OnMaster \notin Commits /\ Free \notin Session
  BY CheckoutsAssumption DEF Commits
<1> USE CheckoutsAssumption, <1>a, <1>b
    DEF Types, TypeOK, Stage, Step, gitVars, coVars
<1>1. ASSUME NEW s \in Session, Push(s) PROVE Types'
  <2>1. PICK n \in Pushed, c \in BOOLEAN :
           push' = [push EXCEPT ![s] = Append(master, [name |-> n, complete |-> c])]
    BY <1>1 DEF Push
  <2>2. [name |-> n, complete |-> c] \in Tree
    BY DEF Tree
  <2>3. Append(master, [name |-> n, complete |-> c]) \in Commits
    BY <2>2, AppendCommit
  <2>4. push' \in [Session -> Commits]
    BY <2>1, <2>3
  <2> QED BY <1>1, <2>4 DEF Push, Goto, HookStage, ReloadStage
<1>2. ASSUME NEW s \in Session, Resolve(s) PROVE Types'
  BY <1>2, ResolvedType DEF Resolve, Then, InCheckout
<1>3. ASSUME NEW s \in Session, SetHead(s) PROVE Types'
  BY <1>3, ResolvedType DEF SetHead, Then, InCheckout
<1>4. ASSUME NEW s \in Session, ReadHead(s) PROVE Types'
  BY <1>4 DEF ReadHead, Then, InCheckout
<1>5. ASSUME NEW s \in Session, WriteRef(s) PROVE Types'
  BY <1>5 DEF WriteRef, Then, InCheckout
<1>6. ASSUME NEW s \in Session, WriteIndex(s) PROVE Types'
  BY <1>6, AfterType
  DEF WriteIndex, Then, InCheckout, Goto, Unlock, HookStage, ReloadStage
<1>7. ASSUME NEW s \in Session, RefUpdate(s) PROVE Types'
  BY <1>7 DEF RefUpdate, Goto, HookStage, ReloadStage
<1>8. ASSUME NEW s \in Session, LockReload(s) PROVE Types'
  BY <1>8 DEF LockReload, Goto, HookStage, ReloadStage
<1>9. ASSUME NEW s \in Session, CommitAdminRepo(s) PROVE Types'
  <2> DEFINE tree == Completed(Last(tip[s]))
  <2>1. tree \in Tree
    BY LastTree
  <2>2. /\ Append(master, tree) \in Commits
        /\ head # OnMaster => Append(head, tree) \in Commits
    BY <2>1, AppendCommit
  <2>3. index' = tree /\ master' \in {master, Append(master, tree)}
    BY <1>9 DEF CommitAdminRepo
  <2>4. head' = head \/ (head # OnMaster /\ head' = Append(head, tree))
    BY <1>9 DEF CommitAdminRepo
  <2> HIDE DEF tree
  <2>5. /\ master' \in Commits /\ head' \in Commits \cup {OnMaster} /\ index' \in Tree
    BY <2>1, <2>2, <2>3, <2>4
  <2> QED BY <1>9, <2>5 DEF CommitAdminRepo, Goto, HookStage, ReloadStage
<1>10. CASE Crash
  BY <1>10, FirstCommit DEF Crash, HookStage, ReloadStage
<1>11. CASE UNCHANGED vars
  BY <1>11 DEF vars
<1> QED
  BY <1>1, <1>2, <1>3, <1>4, <1>5, <1>6, <1>7, <1>8, <1>9, <1>10, <1>11
  DEF Next, Checkout, Done

\* The variables keep their types, however many sessions are at work at once:
\* a session within a reload has the lock, and nobody else has.
THEOREM TypesHold == Spec => []TypeOK
<1>1. Types => TypeOK
  BY DEF Types
<1> QED BY TypesInit, TypesStep, <1>1, PTL DEF Spec

-----------------------------------------------------------------------------
(* One session at work at a time                                           *)

\* A session that starts and is alone then finds nobody at work.
LEMMA NobodyElse ==
    ASSUME Types, OneAtWork', NEW s \in Session, Push(s)
    PROVE  \A t \in Session : pc[t] = "idle"
<1>1. pc[s] = "idle" /\ pc'[s] = "pre"
  BY DEF Push, Goto, Types
<1>2. \A t \in Session \ {s} : pc'[t] = pc[t]
  BY DEF Push, Goto, Types
<1> QED BY <1>1, <1>2 DEF OneAtWork

\* While one is at work the others are idle.
LEMMA OthersIdle ==
    ASSUME Types, OneAtWork, NEW s \in Session,
           Checkout(s) \/ RefUpdate(s) \/ LockReload(s) \/ CommitAdminRepo(s)
    PROVE  /\ \A t \in Session \ {s} : pc[t] = "idle" /\ pc'[t] = "idle"
           /\ pc[s] # "idle"
<1>1. pc[s] # "idle"
  BY DEF Checkout, Resolve, SetHead, ReadHead, WriteRef, WriteIndex, InCheckout,
         RefUpdate, LockReload, CommitAdminRepo, HookStage, ReloadStage
<1>2. \A t \in Session \ {s} : pc'[t] = pc[t]
  BY DEF Checkout, Resolve, SetHead, ReadHead, WriteRef, WriteIndex, Goto,
         RefUpdate, LockReload, CommitAdminRepo, Types
<1> QED BY <1>1, <1>2 DEF OneAtWork

\* A session starts with master for its base and one tree on top.
LEMMA PushStep ==
    ASSUME IInv, OneAtWork', NEW s \in Session, Push(s)
    PROVE  RefusedNeverLands' /\ PushesOnMaster' /\ OwnHead' /\ ReloadsMaster'
<1>1. PICK n \in Pushed, c \in BOOLEAN :
         push' = [push EXCEPT ![s] = Append(master, [name |-> n, complete |-> c])]
  BY DEF Push
<1>2. [name |-> n, complete |-> c] \in Tree
  BY DEF Tree
<1>3. \A t \in Session \ {s} : pc'[t] = "idle"
  BY NobodyElse DEF IInv, Types, Push, Goto
<1>4. pc'[s] = "pre" /\ step'[s] = "resolve"
  BY NobodyElse DEF IInv, Types, TypeOK, Push, Goto, coVars, HookStage, ReloadStage
<1>5. \E t \in Tree : base'[s] = master' /\ push'[s] = Append(master', t)
  BY <1>1, <1>2 DEF IInv, Types, Push, gitVars
<1>6. RefusedNeverLands'
  BY DEF IInv, RefusedNeverLands, Push, gitVars
<1> QED
  BY <1>3, <1>4, <1>5, <1>6
  DEF PushesOnMaster, OwnHead, ReloadsMaster, HookStage, ReloadStage

\* The steps of a checkout keep to the commit it resolved. Those of a commit
\* that is not master's write to HEAD, and those of master's write what is there.
LEMMA CheckoutStep ==
    ASSUME IInv, NEW s \in Session, Checkout(s)
    PROVE  /\ master' = master
           /\ RefusedNeverLands' /\ PushesOnMaster' /\ OwnHead' /\ ReloadsMaster'
<1>1. \A t \in Session \ {s} : pc'[t] = "idle"
  BY OthersIdle DEF IInv
<1>2. push' = push /\ base' = base
  BY DEF Checkout, Resolve, SetHead, ReadHead, WriteRef, WriteIndex
<1>3. pc[s] \in HookStage \cup ReloadStage
  BY DEF Checkout, Resolve, SetHead, ReadHead, WriteRef, WriteIndex, InCheckout
<1>4. master' = master
  BY <1>3 DEF IInv, OwnHead, ByHash, TheCommit, Checkout, Resolve, SetHead, ReadHead,
     WriteRef, WriteIndex, InCheckout, gitVars
<1>5. RefusedNeverLands'
  BY <1>4 DEF IInv, RefusedNeverLands
<1>6. tip[s] # OnMaster
  BY CheckoutsAssumption DEF IInv, Types, Commits
<1>7. CASE ~WriteIndex(s)
  <2>1. pc' = pc
    BY <1>7 DEF Checkout, Resolve, SetHead, ReadHead, WriteRef
  <2>2. PushesOnMaster' /\ ReloadsMaster'
    BY <1>1, <1>2, <1>3, <1>4, <2>1
    DEF IInv, PushesOnMaster, ReloadsMaster, HookStage, ReloadStage
  <2>3. OwnHead'
    <3>1. TheCommit(s)' = TheCommit(s) /\ ByHash(s)' = ByHash(s)
      BY <1>2, <1>4, <2>1 DEF TheCommit, ByHash
    <3>2. SUFFICES /\ step'[s] # "resolve" => tip'[s] = TheCommit(s)
                   /\ step'[s] \in {"readHead", "writeRef", "writeIndex"} =>
                         head' = IF ByHash(s) THEN tip'[s] ELSE OnMaster
                   /\ step'[s] = "writeRef" => (direct'[s] <=> ByHash(s))
      BY <1>1, <2>1, <3>1 DEF OwnHead, NewHead, HookStage, ReloadStage
    <3> USE <1>3, <1>6 DEF IInv, Types, OwnHead, NewHead, Then, InCheckout, gitVars
    <3>3. CASE Resolve(s)
      BY <3>3 DEF Resolve
    <3>4. CASE SetHead(s)
      BY <3>4 DEF SetHead
    <3>5. CASE ReadHead(s)
      BY <3>5 DEF ReadHead
    <3>6. CASE WriteRef(s)
      BY <3>6 DEF WriteRef
    <3> QED BY <1>7, <3>3, <3>4, <3>5, <3>6 DEF Checkout
  <2> QED BY <1>4, <1>5, <2>2, <2>3
<1>8. CASE WriteIndex(s)
  <2>1. step'[s] = "resolve" /\ pc'[s] = After(s) /\ tip' = tip /\ head' = head
    BY <1>8 DEF WriteIndex, Then, Goto, IInv, Types
  <2>2. OwnHead'
    BY <1>1, <2>1 DEF OwnHead, HookStage, ReloadStage
  <2>3. pc'[s] = "accepted" => Last(push[s]).name \notin Refused
    BY <1>3, <2>1 DEF After, HookStage, ReloadStage
  <2>4. pc'[s] \in HookStage \cup {"accepted"} => pc[s] \in HookStage
    BY <1>3, <2>1 DEF After, HookStage, ReloadStage
  <2>5. PushesOnMaster'
    BY <1>1, <1>2, <1>4, <2>3, <2>4 DEF IInv, PushesOnMaster, HookStage
  <2>6. pc'[s] = "commit" => pc[s] = "ensure"
    BY <1>3, <2>1 DEF After, HookStage, ReloadStage
  <2>7. pc'[s] # "load"
    BY <1>3, <2>1 DEF After, HookStage, ReloadStage
  <2>8. pc[s] = "ensure" => tip[s] = master /\ head = OnMaster
    BY <1>3, <1>8
    DEF IInv, OwnHead, ByHash, TheCommit, NewHead, WriteIndex, InCheckout
  <2>9. ReloadsMaster'
    BY <1>1, <1>4, <2>1, <2>6, <2>7, <2>8 DEF ReloadsMaster
  <2> QED BY <1>4, <1>5, <2>2, <2>5, <2>9
<1> QED BY <1>7, <1>8

\* git puts the accepted commit on master.
LEMMA RefUpdateStep ==
    ASSUME IInv, NEW s \in Session, RefUpdate(s)
    PROVE  /\ IsPrefix(master, master')
           /\ RefusedNeverLands' /\ PushesOnMaster' /\ OwnHead' /\ ReloadsMaster'
<1>1. \A t \in Session \ {s} : pc'[t] = "idle"
  BY OthersIdle DEF IInv
<1>2. pc[s] = "accepted" /\ pc'[s] = "reload"
  BY DEF RefUpdate, Goto, IInv, Types
<1>3. PICK t \in Tree : base[s] = master /\ push[s] = Append(master, t)
  BY <1>2 DEF IInv, PushesOnMaster
<1>4. master' = Append(master, t) /\ t.name \notin Refused
  BY <1>2, <1>3, AppendCommit DEF RefUpdate, IInv, Types, PushesOnMaster
<1>5. RefusedNeverLands' /\ IsPrefix(master, master')
  BY <1>4, AppendCommit DEF IInv, Types, RefusedNeverLands
<1> QED
  BY <1>1, <1>2, <1>5
  DEF PushesOnMaster, OwnHead, ReloadsMaster, HookStage, ReloadStage

\* The lock is taken while nothing is written.
LEMMA LockReloadStep ==
    ASSUME IInv, NEW s \in Session, LockReload(s)
    PROVE  /\ master' = master
           /\ RefusedNeverLands' /\ PushesOnMaster' /\ OwnHead' /\ ReloadsMaster'
<1>1. \A t \in Session \ {s} : pc'[t] = "idle"
  BY OthersIdle DEF IInv
<1>2. pc'[s] = "ensure" /\ step'[s] = "resolve" /\ master' = master
  BY DEF LockReload, Goto, IInv, Types, TypeOK, HookStage, ReloadStage, gitVars, coVars
<1> QED
  BY <1>1, <1>2
  DEF IInv, RefusedNeverLands, PushesOnMaster, OwnHead, ReloadsMaster, HookStage, ReloadStage

\* The reload completes what is on master, and commits that to master.
LEMMA CommitStep ==
    ASSUME IInv, NEW s \in Session, CommitAdminRepo(s)
    PROVE  /\ IsPrefix(master, master')
           /\ RefusedNeverLands' /\ PushesOnMaster' /\ OwnHead' /\ ReloadsMaster'
<1> DEFINE tree == Completed(Last(master))
<1>1. \A t \in Session \ {s} : pc'[t] = "idle"
  BY OthersIdle DEF IInv
<1>2. pc[s] = "commit" /\ pc'[s] = "load" /\ step'[s] = "resolve"
  BY DEF CommitAdminRepo, Goto, IInv, Types, TypeOK, HookStage, ReloadStage, coVars
<1>3. tip[s] = master /\ head = OnMaster
  BY <1>2 DEF IInv, ReloadsMaster
<1>4. IF Last(master) = tree THEN master' = master ELSE master' = Append(master, tree)
  BY <1>3 DEF CommitAdminRepo
<1>5. tree \in Tree /\ tree.complete /\ tree.name = Last(master).name
  BY LastTree DEF IInv, Types
<1>6. tree.name \notin Refused
  <2>1. Len(master) \in DOMAIN master
    BY DEF IInv, Types, Commits, Commit
  <2> QED BY <1>5, <2>1 DEF Last, IInv, RefusedNeverLands
<1> HIDE DEF tree
<1>7. Last(master').complete /\ RefusedNeverLands' /\ IsPrefix(master, master')
  <2>1. CASE master' = master /\ Last(master) = tree
    BY <1>5, <2>1, LastTree DEF IInv, Types, RefusedNeverLands
  <2>2. CASE master' = Append(master, tree)
    BY <1>5, <1>6, <2>2, AppendCommit DEF IInv, Types, RefusedNeverLands
  <2> QED BY <1>4, <2>1, <2>2
<1> QED
  BY <1>1, <1>2, <1>7
  DEF PushesOnMaster, OwnHead, ReloadsMaster, HookStage, ReloadStage

\* The invariant is inductive as long as one session is at work at a time.
LEMMA InvStep == ASSUME IInv, OneAtWork', [Next]_vars PROVE IInv'
<1>1. Types' /\ OneAtWork'
  BY TypesStep DEF IInv
<1>2. ASSUME NEW s \in Session, Push(s) PROVE IInv'
  BY <1>1, <1>2, PushStep DEF IInv
<1>3. ASSUME NEW s \in Session, Checkout(s) PROVE IInv'
  BY <1>1, <1>3, CheckoutStep DEF IInv
<1>4. ASSUME NEW s \in Session, RefUpdate(s) PROVE IInv'
  BY <1>1, <1>4, RefUpdateStep DEF IInv
<1>5. ASSUME NEW s \in Session, LockReload(s) PROVE IInv'
  BY <1>1, <1>5, LockReloadStep DEF IInv
<1>6. ASSUME NEW s \in Session, CommitAdminRepo(s) PROVE IInv'
  BY <1>1, <1>6, CommitStep DEF IInv
<1>7. CASE Crash
  <2>1. \A s \in Session : pc'[s] = "idle"
    BY <1>7 DEF Crash
  <2>2. RefusedNeverLands'
    BY <1>7 DEF Crash, gitVars, IInv, RefusedNeverLands
  <2> QED
    BY <1>1, <2>1, <2>2
    DEF IInv, PushesOnMaster, OwnHead, ReloadsMaster, HookStage, ReloadStage
<1>8. CASE UNCHANGED vars
  BY <1>1, <1>8
  DEF vars, gitVars, coVars, IInv, RefusedNeverLands, PushesOnMaster, OwnHead, ReloadsMaster,
      TheCommit, NewHead, ByHash
<1> QED BY <1>2, <1>3, <1>4, <1>5, <1>6, <1>7, <1>8 DEF Next, Done

\* It holds as long as no two are at work.
LEMMA InvHolds == Spec /\ []OneAtWork => []IInv
<1>1. Init => IInv
  <2> SUFFICES ASSUME Init PROVE IInv
    OBVIOUS
  <2>1. RefusedNeverLands
    BY CheckoutsAssumption DEF Init, First, RefusedNeverLands
  <2>2. \A s \in Session : pc[s] = "idle"
    BY DEF Init
  <2> QED
    BY <2>1, <2>2, TypesInit
    DEF IInv, OneAtWork, PushesOnMaster, OwnHead, ReloadsMaster, HookStage, ReloadStage
<1>2. IInv /\ OneAtWork' /\ [Next]_vars => IInv'
  BY InvStep
<1> QED BY <1>1, <1>2, PTL DEF Spec

\* A commit the update hook refuses is checked out in the directory of the admin
\* repo, its HEAD is set to it, and still it never comes to be on master, also
\* when the process is killed in the middle.
THEOREM RefusedStaysOff == Spec /\ []OneAtWork => []RefusedNeverLands
<1>1. IInv => RefusedNeverLands
  BY DEF IInv
<1> QED BY InvHolds, <1>1, PTL DEF Spec

\* Checkout looks at HEAD twice, and what it finds the second time is what it
\* wrote the first time: it never takes master for the hash it is to check out.
THEOREM CheckoutsKeepMaster == Spec /\ []OneAtWork => CheckoutKeepsMaster
<1>1. IInv /\ [Next]_vars => [(\E s \in Session : Checkout(s)) => master' = master]_vars
  BY CheckoutStep
<1> QED BY InvHolds, <1>1, PTL DEF Spec, CheckoutKeepsMaster

\* Whatever a step does, what was on master stays there.
THEOREM MasterGrows == Spec /\ []OneAtWork => MasterOnlyGrows
<1>1. ASSUME IInv, [Next]_vars PROVE IsPrefix(master, master')
  <2>1. IsPrefix(master, master)
    BY <1>1, LastTree DEF IInv, Types
  <2>2. ASSUME NEW s \in Session PROVE Push(s) => master' = master
    BY DEF Push, gitVars
  <2>3. (Crash \/ Done \/ UNCHANGED vars) => master' = master
    BY DEF Crash, Done, vars, gitVars
  <2> QED
    BY <1>1, <2>1, <2>2, <2>3, CheckoutStep, RefUpdateStep, LockReloadStep, CommitStep DEF Next
<1>2. IInv /\ [Next]_vars => [IsPrefix(master, master')]_vars
  BY <1>1
<1> QED BY InvHolds, <1>2, PTL DEF Spec, MasterOnlyGrows

\* A reload that runs to its end leaves HEAD on master, the index at it, and a
\* complete config in it, also after a crash left HEAD detached.
THEOREM ReloadsSettle == Spec /\ []OneAtWork => ReloadSettles
<1>1. ASSUME IInv, [Next]_vars, NEW s \in Session,
             pc[s] = "load", pc'[s] = "idle", crashes' = crashes
      PROVE  head' = OnMaster /\ index' = Last(master') /\ Last(master').complete
  <2>1. ~Crash /\ ~UNCHANGED vars /\ ~Done
    BY <1>1 DEF Crash, IInv, Types, TypeOK, vars, Done
  <2>2. ASSUME NEW t \in Session, Push(t) PROVE FALSE
    BY <1>1, <2>2 DEF Push, Goto, IInv, Types
  <2>3. PICK t \in Session :
           Checkout(t) \/ RefUpdate(t) \/ LockReload(t) \/ CommitAdminRepo(t)
    BY <1>1, <2>1, <2>2 DEF Next
  <2>4. t = s
    BY <1>1, <2>3, OthersIdle DEF IInv
  <2>5. WriteIndex(s)
    BY <1>1, <2>3, <2>4 DEF Checkout, Resolve, SetHead, ReadHead, WriteRef,
       RefUpdate, LockReload, CommitAdminRepo
  <2>6. tip[s] = master /\ head = OnMaster
    BY <1>1, <2>5
    DEF IInv, OwnHead, ByHash, TheCommit, NewHead, WriteIndex, InCheckout, ReloadStage
  <2> QED BY <1>1, <2>5, <2>6 DEF WriteIndex, IInv, ReloadsMaster
<1>2. IInv /\ [Next]_vars =>
         [\A s \in Session : pc[s] = "load" /\ pc'[s] = "idle" /\ crashes' = crashes =>
             /\ head' = OnMaster /\ index' = Last(master')
             /\ Last(master').complete]_vars
  BY <1>1
<1> QED BY InvHolds, <1>2, PTL DEF Spec, ReloadSettles

-----------------------------------------------------------------------------
\* With room for one session, as in the run of Checkouts.cfg, no two are at work.
THEOREM RoomForOne == ASSUME MaxAtOnce = 1 PROVE Spec => []OneAtWork
<1>1. ASSUME OneAtWork, NEW s \in Session, Push(s) PROVE \A t \in Session : pc[t] = "idle"
  <2> SUFFICES ASSUME NEW t \in Session, pc[t] # "idle" PROVE FALSE
    OBVIOUS
  <2>1. AtWork = {t}
    BY <1>1 DEF AtWork, OneAtWork
  <2>2. Cardinality(AtWork) = 1
    BY <2>1, FS_Singleton
  <2> QED BY <1>1, <2>2 DEF Push
<1>2. ASSUME Types, OneAtWork, [Next]_vars PROVE OneAtWork'
  <2>1. ASSUME NEW s \in Session, Push(s) PROVE OneAtWork'
    BY <1>1, <1>2, <2>1 DEF OneAtWork, Push, Goto, Types
  <2>2. ASSUME NEW s \in Session,
               Checkout(s) \/ RefUpdate(s) \/ LockReload(s) \/ CommitAdminRepo(s)
        PROVE  OneAtWork'
    BY <1>2, <2>2, OthersIdle DEF OneAtWork
  <2>3. CASE Crash
    BY <2>3 DEF Crash, OneAtWork
  <2>4. CASE UNCHANGED vars
    BY <1>2, <2>4 DEF vars, OneAtWork
  <2> QED BY <1>2, <2>1, <2>2, <2>3, <2>4 DEF Next, Done
<1>3. Init => OneAtWork
  BY DEF Init, OneAtWork
<1> QED BY <1>2, <1>3, TypesInit, TypesStep, PTL DEF Spec
=============================================================================

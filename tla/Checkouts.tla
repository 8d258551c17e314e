----------------------------- MODULE Checkouts ------------------------------
(***************************************************************************)
(* What Repository.Checkout and Commit (internal/git/) do to the admin     *)
(* repo's HEAD, master and index files, step by step, when hook processes  *)
(* and reloads do it in one directory. Server takes each checkout as one   *)
(* step; here it has the steps go-git takes, and a process may be killed   *)
(* or overtaken between them.                                              *)
(*                                                                         *)
(* A commit is the sequence of the trees that led to it.                   *)
(***************************************************************************)
EXTENDS Naturals, Sequences, SequencesExt

CONSTANTS
    Session,    \* the SSH connections that push to the admin repo
    Pushed,     \* the trees they may push
    Refused,    \* those the update hook refuses
    OnMaster,   \* HEAD is the symbolic ref to master
    Free,       \* nobody holds the server's lock
    MaxCommits, \* bound: no push starts when master has this many commits
    MaxAtOnce,  \* bound: sessions at work at once
    MaxCrashes  \* bound: how often all processes are killed

Tree == [name : {"first"} \cup Pushed, complete : BOOLEAN]
Commit == Seq(Tree)
Completed(t) == [t EXCEPT !.complete = TRUE]

ASSUME CheckoutsAssumption ==
    /\ Refused \subseteq Pushed \ {"first"}
    /\ OnMaster \notin Commit /\ Free \notin Session
    /\ MaxCommits \in Nat /\ MaxAtOnce \in Nat /\ MaxCrashes \in Nat

VARIABLES
    master, \* the commit in refs/heads/master
    head,   \* the HEAD file: OnMaster, or a commit
    index,  \* the tree in the index file
    lock,   \* serv.lock
    pc,     \* the stage of each session: which checkout it is in, or what comes between
    step,   \* the step within that checkout
    tip,    \* the commit it resolved
    direct, \* whether it found HEAD detached when it reset
    base,   \* what the session pushes on top of
    push,   \* the commit it pushes
    crashes

gitVars == <<master, head, index>>
coVars == <<step, tip, direct>>
vars == <<gitVars, lock, pc, coVars, base, push, crashes>>

\* Loads of the pre-receive and the update hook, SetHash and the load after it;
\* then EnsureConfig's and the last load of a reload.
HookStage == {"pre", "update", "set", "check"}
ReloadStage == {"ensure", "load"}

First == <<[name |-> "first", complete |-> TRUE]>>

Init ==
    /\ master = First /\ head = OnMaster /\ index = Last(First)
    /\ lock = Free
    /\ pc = [s \in Session |-> "idle"]
    /\ step = [s \in Session |-> "resolve"]
    /\ tip = [s \in Session |-> First] /\ direct = [s \in Session |-> FALSE]
    /\ base = [s \in Session |-> First] /\ push = [s \in Session |-> First]
    /\ crashes = 0

Goto(s, stage) == pc' = [pc EXCEPT ![s] = stage]
AtWork == {s \in Session : pc[s] # "idle"}

\* git-receive-pack tells the client where master is and gets a commit on it.
Push(s) ==
    /\ pc[s] = "idle"
    /\ Cardinality(AtWork) < MaxAtOnce /\ Len(master) < MaxCommits
    /\ \E n \in Pushed, c \in BOOLEAN :
          push' = [push EXCEPT ![s] = Append(master, [name |-> n, complete |-> c])]
    /\ base' = [base EXCEPT ![s] = master]
    /\ Goto(s, "pre")
    /\ UNCHANGED <<gitVars, lock, coVars, crashes>>

-----------------------------------------------------------------------------
(* Worktree.Checkout with Force, by the five steps that touch files        *)

InCheckout(s, at) == pc[s] \in HookStage \cup ReloadStage /\ step[s] = at
Then(s, at) == step' = [step EXCEPT ![s] = at]

KeepsHash(s) == pc[s] \notin {"pre", "update"} \* mutant
ByHash(s) == pc[s] \in {"set", "check"}

CachedCommit(s) == IF ByHash(s) THEN push[s] ELSE base[s] \* mutant
TheCommit(s) == IF ByHash(s) THEN push[s] ELSE master

Resolve(s) ==
    /\ InCheckout(s, "resolve")
    /\ tip' = [tip EXCEPT ![s] = TheCommit(s)]
    /\ Then(s, "setHead")
    /\ UNCHANGED <<gitVars, lock, pc, direct, base, push, crashes>>

StaysOnMaster(s) == OnMaster \* mutant
NewHead(s) == IF ByHash(s) THEN tip[s] ELSE OnMaster

SetHead(s) ==
    /\ InCheckout(s, "setHead")
    /\ head' = NewHead(s)
    /\ Then(s, "readHead")
    /\ UNCHANGED <<master, index, lock, pc, tip, direct, base, push, crashes>>

\* Reset looks at HEAD again, and writes the commit it resolved to HEAD itself
\* or to the branch HEAD stands for.
ReadHead(s) ==
    /\ InCheckout(s, "readHead")
    /\ direct' = [direct EXCEPT ![s] = head # OnMaster]
    /\ Then(s, "writeRef")
    /\ UNCHANGED <<gitVars, lock, pc, tip, base, push, crashes>>

WriteRef(s) ==
    /\ InCheckout(s, "writeRef")
    /\ IF direct[s] THEN head' = tip[s] /\ UNCHANGED master
                    ELSE master' = tip[s] /\ UNCHANGED head
    /\ Then(s, "writeIndex")
    /\ UNCHANGED <<index, lock, pc, tip, direct, base, push, crashes>>

\* What comes after the checkout: the next load, the verdict of the update hook
\* or what the reload does with the worktree.
After(s) ==
    CASE pc[s] = "pre" -> "update"
      [] pc[s] = "update" -> "set"
      [] pc[s] = "set" -> "check"
      [] pc[s] = "check" -> IF Last(push[s]).name \in Refused THEN "reload" ELSE "accepted"
      [] pc[s] = "ensure" -> "commit"
      [] pc[s] = "load" -> "idle"

KeepsLock(s) == lock \* mutant
Unlock(s) == IF pc[s] = "load" THEN Free ELSE lock

WriteIndex(s) ==
    /\ InCheckout(s, "writeIndex")
    /\ index' = Last(tip[s])
    /\ Goto(s, After(s)) /\ Then(s, "resolve")
    /\ lock' = Unlock(s)
    /\ UNCHANGED <<master, head, tip, direct, base, push, crashes>>

-----------------------------------------------------------------------------
\* git moves master if it still is where the client saw it.
RefUpdate(s) ==
    /\ pc[s] = "accepted"
    /\ master' = IF master = base[s] THEN push[s] ELSE master
    /\ Goto(s, "reload")
    /\ UNCHANGED <<head, index, lock, coVars, base, push, crashes>>

LockReload(s) ==
    /\ pc[s] = "reload" /\ lock = Free
    /\ lock' = s
    /\ Goto(s, "ensure")
    /\ UNCHANGED <<gitVars, coVars, base, push, crashes>>

\* ensureConfig stages the completed files and commits them unless HEAD, the
\* index and the worktree are the same.
CommitAdminRepo(s) ==
    /\ pc[s] = "commit"
    /\ LET tree == Completed(Last(tip[s]))
           at == IF head = OnMaster THEN master ELSE head
       IN /\ index' = tree
          /\ IF Last(at) = tree THEN UNCHANGED <<master, head>>
             ELSE IF head = OnMaster
             THEN master' = Append(master, tree) /\ UNCHANGED head
             ELSE head' = Append(head, tree) /\ UNCHANGED master
    /\ Goto(s, "load")
    /\ UNCHANGED <<lock, coVars, base, push, crashes>>

\* The machine goes down with everything that runs on it.
Crash ==
    /\ AtWork # {} /\ crashes < MaxCrashes
    /\ crashes' = crashes + 1
    /\ pc' = [s \in Session |-> "idle"] /\ step' = [s \in Session |-> "resolve"]
    /\ lock' = Free
    /\ tip' = [s \in Session |-> First] /\ direct' = [s \in Session |-> FALSE]
    /\ base' = [s \in Session |-> First] /\ push' = [s \in Session |-> First]
    /\ UNCHANGED gitVars

Done == Len(master) >= MaxCommits /\ AtWork = {} /\ UNCHANGED vars

Checkout(s) == Resolve(s) \/ SetHead(s) \/ ReadHead(s) \/ WriteRef(s) \/ WriteIndex(s)

Next ==
    \/ \E s \in Session :
          Push(s) \/ Checkout(s) \/ RefUpdate(s) \/ LockReload(s) \/ CommitAdminRepo(s)
    \/ Crash
    \/ Done

Spec == Init /\ [][Next]_vars

-----------------------------------------------------------------------------
(* Properties                                                              *)

CommitType(c) == Len(c) > 0 /\ \A i \in DOMAIN c : c[i] \in Tree

TypeOK ==
    /\ CommitType(master) /\ index \in Tree
    /\ head # OnMaster => CommitType(head)
    /\ lock \in Session \cup {Free}
    /\ \A s \in Session :
          /\ pc[s] \in HookStage \cup ReloadStage \cup {"idle", "accepted", "reload", "commit"}
          /\ step[s] \in {"resolve", "setHead", "readHead", "writeRef", "writeIndex"}
          /\ pc[s] \notin HookStage \cup ReloadStage => step[s] = "resolve"
          /\ lock = s <=> pc[s] \in ReloadStage \cup {"commit"}
    /\ crashes \in 0..MaxCrashes

\* A commit the update hook refused never becomes part of master, although it
\* was checked out in the directory of the repo to be looked at.
RefusedNeverLands == \A i \in DOMAIN master : master[i].name \notin Refused

\* Checking out does not move master, whichever commit is checked out
\* ("Checkout will checkout the given hash to the worktreeFS. If an empty
\* string is given, we checkout master.").
CheckoutKeepsMaster == [][(\E s \in Session : Checkout(s)) => master' = master]_vars

\* Commits on master stay: it only ever grows.
MasterOnlyGrows == [][IsPrefix(master, master')]_vars

\* A reload leaves the directory in order, with a complete commit on master and
\* HEAD and the index at it, also after a hook or a crash left HEAD detached.
ReloadSettles ==
    [][\A s \in Session : pc[s] = "load" /\ pc'[s] = "idle" /\ crashes' = crashes =>
          /\ head' = OnMaster /\ index' = Last(master')
          /\ Last(master').complete]_vars
=============================================================================

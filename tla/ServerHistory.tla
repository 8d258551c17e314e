---------------------------- MODULE ServerHistory ---------------------------
(***************************************************************************)
(* Server with the history of every config repo's master branch kept       *)
(* beside it, and with it that Server implements PublishedConfig. The      *)
(* history is the git log: no action reads it.                             *)
(***************************************************************************)
EXTENDS Server, Sequences

VARIABLE log

HistoryInit == Init /\ log = [r \in ConfigRepo |-> <<master[r]>>]

Logged(r) == IF version'[r] # version[r] THEN Append(log[r], master'[r]) ELSE log[r]

HistoryNext == Next /\ log' = [r \in ConfigRepo |-> Logged(r)]

HistorySpec == HistoryInit /\ [][HistoryNext]_<<vars, log>>

\* Sessions are given serv.config once the server listens.
Published ==
    INSTANCE PublishedConfig
    WITH serving <- IF phase = "up" THEN served ELSE Nil,
         at <- IF phase = "up" THEN servedAt ELSE NothingSeen

\* Whatever sessions, hooks, reloads and crashes do in whatever order, what the
\* server hands to its sessions is the meaning of versions that were pushed or
\* committed, and goes from older versions to newer ones (Reload, flatten).
ServesPublished == Published!Spec
=============================================================================

--------------------------- MODULE MCServerHistory --------------------------
(* Small instances of ServerHistory: keys move from user to user.          *)
EXTENDS MCServer, ServerHistory

\* The admin takes u2's key for another of their own, or exchanges the two
\* keys, in a file without all its sections that lets users keep keys in theirs.
OwnKeys == [Base EXCEPT !.options.userConfigKeys = TRUE]
Swapped == [OwnKeys EXCEPT !.users = u1 :> Adm({k2}) @@ u2 :> Reg({k1}), !.complete = FALSE]

\* u2 has a file that counts while the admin lets users keep keys.
WithUserFile(disk) == [disk EXCEPT ![UserRepo(u2)] = UserYml("ok", {k2}, EmptyMap(Repo))]
HistoryDisk == {WithUserFile(d) : d \in ConcurrentDisk}
HistoryProposal == AdminProposal({Unkey, Swapped, BadHostKey})
=============================================================================

---------------------------- MODULE MCHookProcess ----------------------------
(***************************************************************************)
(* Three directories, and good and bad values of every variable an         *)
(* operator sets.                                                          *)
(***************************************************************************)
EXTENDS HookProcess

Home == Absolute(<<"home">>)
Srv == Absolute(<<"srv">>)
Data == Absolute(<<"home", "data">>)
Gone == Absolute(<<"gone">>)
Relative == [absolute |-> FALSE, names |-> <<"data">>]

Directories == {Home, Srv, Data}

Values ==
    [GITDIR_DEBUG |-> {"true", "bad"},
     GITDIR_LOG_FORMAT |-> {"console", "bad"},
     GITDIR_BASE_DIR |-> {Srv, Relative, Gone},
     GITDIR_ADMIN_USER |-> {"", "admin"},
     GITDIR_ADMIN_PUBLIC_KEY |-> {"key", "bad"},
     GITHUB_ADMIN_PUBLIC_KEY |-> {"key"}]
=============================================================================

---------------------------- MODULE MCYamlEnsure ----------------------------
(***************************************************************************)
(* Small files for YamlEnsure, and the link to Config: what the edits of   *)
(* the file mean for the trees that Server works with.                     *)
(***************************************************************************)
EXTENDS YamlEnsure, TLC

CONSTANTS u1, u2, k1, k2, h1, Nil, NoKey, BadKey

Name == u1 :> "u1" @@ u2 :> "u2"
KeyText == k1 :> "k1" @@ k2 :> "k2"
Names == {"u1", "u2"}
AnyText == STRING

Pairs(entries) == FlattenSeq([i \in DOMAIN entries |-> <<Scalar(entries[i][1]), entries[i][2]>>])

\* Sequences of up to n of some pairs of a key and a value, in any order and
\* without a key twice.
Entries(pairs, n) ==
    {s \in BoundedSeq(pairs, n) : \A i, j \in DOMAIN s : s[i][1] = s[j][1] => i = j}
Mappings(pairs, n) == {MappingNode(Pairs(s)) : s \in Entries(pairs, n)}

KeyList(keys) == SequenceNode([i \in DOMAIN keys |-> Scalar(keys[i])])
UserFields ==
    {<<"is_admin", Scalar("true")>>, <<"is_admin", Scalar("false")>>,
     <<"disabled", Scalar("true")>>, <<"disabled", Scalar("false")>>,
     <<"keys", KeyList(<<"k1">>)>>, <<"keys", KeyList(<<"k2", "k1">>)>>,
     <<"repos", MappingNode(<<>>)>>}
SomeUser == <<"u2", MappingNode(Pairs(<<<<"keys", KeyList(<<"k2">>)>>>>))>>

UserSections(fields) ==
    UNION {{MappingNode(Pairs(<<<<"u1", n>>>>)), MappingNode(Pairs(<<SomeUser, <<"u1", n>>>>))} :
              n \in Mappings(fields, 2)}
    \cup {MappingNode(<<>>), MappingNode(Pairs(<<SomeUser>>))}

OptionSections ==
    {MappingNode(<<>>), MappingNode(Pairs(<<<<"org_prefix", Scalar("+")>>>>)),
     MappingNode(FoldSet(LAMBDA name, c : c \o <<Scalar(name), Scalar("mine")>>, <<>>, SampleOptions))}

TopEntries(users) ==
    {<<s, MappingNode(<<>>)>> : s \in {"invites", "groups", "orgs"}}
    \cup {<<"options", o>> : o \in OptionSections}
    \cup {<<"users", u>> : u \in users}

\* A list or a string where a mapping is expected, or a mapping for a list, does
\* not fit the structs.
WrongShape ==
    {Scalar("text"), KeyList(<<"k1">>)}
    \cup {MappingNode(Pairs(<<<<"users", n>>>>)) :
             n \in {KeyList(<<"u1">>),
                   MappingNode(Pairs(<<<<"u1", KeyList(<<"u1", "u2">>)>>>>)),
                   MappingNode(Pairs(<<<<"u1", MappingNode(
                       Pairs(<<<<"keys", MappingNode(<<>>)>>>>))>>>>))}}

Documents ==
    {Missing, Syntax} \cup WrongShape
    \cup Mappings(TopEntries(UserSections(UserFields)), 2)

Complete(users) ==
    MappingNode(Pairs(<<<<"users", users>>>> \o
        [i \in 1..3 |-> <<<<"orgs", "groups", "invites">>[i], MappingNode(<<>>)>>]))
CompleteDocuments == {Complete(u) : u \in UserSections(UserFields)}

\* A section or a user that is named and left empty is a null.
NullDocuments ==
    {MappingNode(Pairs(<<<<"users", Scalar("")>>>>)),
     MappingNode(Pairs(<<<<"users", MappingNode(Pairs(<<<<"u1", Scalar("")>>>>))>>>>))}

-----------------------------------------------------------------------------
C == INSTANCE Config WITH User <- {u1, u2}, Group <- {}, Org <- {}, Repo <- {},
                          Key <- {k1, k2}, HostKey <- {h1},
                          Prefix <- {"@", "~"}, OrgSigil <- "@", UserSigil <- "~"

ParsedUser(n) ==
    [isAdmin |-> IF ~HasKey(n, "is_admin") THEN "unset"
                 ELSE IF ValueNode(n, "is_admin").value = "true" THEN "yes" ELSE "no",
     disabled |-> ValueNode(n, "disabled").value = "true",
     keys |-> {k \in {k1, k2} : Lists(ValueNode(n, "keys"), KeyText[k])},
     repos |-> IF HasKey(n, "repos") THEN C!EmptyMap({}) ELSE Nil]

\* Whether the structs can be decoded from the file.
Decodes(data) ==
    LET users == ValueNode(data, "users") IN
    /\ data.kind = "map" /\ users.kind # "seq"
    /\ \A name \in Names : LET user == ValueNode(users, name) IN
          user.kind # "seq" /\ ValueNode(user, "keys").kind # "map"

\* The tree a file stands for in Config.
Parsed(data) ==
    IF data \in {Missing, Syntax} THEN [C!EmptyAdminTree EXCEPT !.yml = data.kind, !.hostKey = h1]
    ELSE IF ~Decodes(data) THEN [C!EmptyAdminTree EXCEPT !.yml = "shape", !.hostKey = h1]
    ELSE [C!EmptyAdminTree EXCEPT
            !.yml = "ok", !.hostKey = h1,
            !.complete = \A name \in Sections : HasKey(data, name),
            !.users = [u \in {u1, u2} |->
                         LET users == ValueNode(data, "users") IN
                         IF HasKey(users, Name[u]) THEN ParsedUser(ValueNode(users, Name[u]))
                         ELSE Nil]]

Same(t, s) == t = s \/ (t.yml = "shape" /\ s.yml = "shape")

\* The edits of the file, parsed, are the edits of the trees in Server's loads:
\* the abstraction Config makes of config_ensure.go is the right one.
EditsAreConfigs ==
    [][/\ did' = <<"completed">> => Same(Parsed(file'), C!EnsureConfigYaml(Parsed(file)))
       /\ \A u \in {u1, u2}, k \in {k1, k2} :
             did' = <<Name[u], KeyText[k]>> /\ Parsed(file).yml \in {"ok", "shape"} =>
                 Same(Parsed(file'), C!EnsureAdminUser(Parsed(file), u, k))]_vars
=============================================================================

----------------------------- MODULE YamlEnsure -----------------------------
(***************************************************************************)
(* How the server edits config.yml in place (config_ensure.go on top of    *)
(* internal/yaml): it completes the file with sections and options and     *)
(* makes sure of an admin user, keeping what a person wrote as it is.      *)
(*                                                                         *)
(* A node is what yaml.v3 makes of the file; comments are left out. Nodes  *)
(* are values here, so an edit of a child is put back into its parent.     *)
(***************************************************************************)
EXTENDS Naturals, Sequences, SequencesExt, FiniteSetsExt

CONSTANTS
    Text,  \* what may be written as a scalar
    Below, \* the nodes there may be below the ones the server has to do with
    Document, \* the files a person may have written
    AdminUser, AdminKey \* the users and keys the server may be told to ensure

-----------------------------------------------------------------------------
(* Nodes (internal/yaml)                                                   *)

Scalar(v) == [kind |-> "scalar", value |-> v, content |-> <<>>]
MappingNode(c) == [kind |-> "map", value |-> "none", content |-> c]
SequenceNode(c) == [kind |-> "seq", value |-> "none", content |-> c]
NoNode == [kind |-> "none", value |-> "none", content |-> <<>>]

\* Keys and values alternate in a node's content; a last one is no key.
Odd(i) == i % 2 = 1
KeyAt(n, i, key) ==
    Odd(i) /\ n.content[i].kind = "scalar" /\ n.content[i].value = key
Keyed(n, key) == {i \in 1..Len(n.content) - 1 : KeyAt(n, i, key)}

HasKey(n, key) == Keyed(n, key) # {}
KeyIndex(n, key) == Min(Keyed(n, key))
ValueNode(n, key) == IF HasKey(n, key) THEN n.content[KeyIndex(n, key) + 1] ELSE NoNode

\* The nodes yaml.v3 finds in a file, over the nodes S: a mapping has keys with
\* values, and a struct is not decoded from one that has a key twice.
Nodes(S) ==
    {n \in [kind : {"scalar", "map", "seq"}, value : Text, content : Seq(S)] :
        /\ n.kind = "scalar" => n.content = <<>>
        /\ n.kind = "map" =>
              /\ ~Odd(Len(n.content))
              /\ \A i, j \in DOMAIN n.content :
                    KeyAt(n, i, n.content[j].value) /\ KeyAt(n, j, n.content[j].value) => i = j}

NewNode(n, key, new) == new \* mutant
\* The node EnsureKey returns, by a pointer: the value there is, or the new one.
EnsuredNode(n, key, new) == IF HasKey(n, key) THEN ValueNode(n, key) ELSE new

PrependsKey(n, key, v) == \* mutant
    IF HasKey(n, key) THEN [n EXCEPT !.content[KeyIndex(n, key) + 1] = v]
    ELSE [n EXCEPT !.content = <<Scalar(key), v>> \o @]

\* What n is when EnsureKey has returned and v is made of the node it returned.
PutKey(n, key, v) ==
    IF HasKey(n, key) THEN [n EXCEPT !.content[KeyIndex(n, key) + 1] = v]
    ELSE [n EXCEPT !.content = @ \o <<Scalar(key), v>>]

EnsureKey(n, key, new) == PutKey(n, key, EnsuredNode(n, key, new))

RemovesKeyOnly(n, key) == \* mutant
    IF HasKey(n, key) THEN [n EXCEPT !.content = RemoveAt(@, KeyIndex(n, key))] ELSE n

RemoveKey(n, key) ==
    IF HasKey(n, key)
    THEN [n EXCEPT !.content = RemoveAt(RemoveAt(@, KeyIndex(n, key)), KeyIndex(n, key))]
    ELSE n

AppendScalar(n, v) == [n EXCEPT !.content = Append(@, Scalar(v))] \* mutant
AppendUniqueScalar(n, v) ==
    IF \E i \in DOMAIN n.content : n.content[i].kind = "scalar" /\ n.content[i].value = v
    THEN n ELSE [n EXCEPT !.content = Append(@, Scalar(v))]

\* A file is no YAML at all, or its root node. One that does not parse, or is
\* empty, is taken for an empty mapping; any other root is an error.
Missing == [NoNode EXCEPT !.kind = "missing"]
Syntax == [NoNode EXCEPT !.kind = "syntax"]
EnsureDocument(data) == IF data \in {Missing, Syntax} THEN MappingNode(<<>>) ELSE data
IsDocument(data) == EnsureDocument(data).kind = "map"

\* What is written of a node that was edited: of a scalar, as a null section is
\* one, its value alone, and of a mapping the keys that have a value.
Encode(n) ==
    IF n.kind = "scalar" THEN Scalar(n.value)
    ELSE IF n.kind = "map"
    THEN [n EXCEPT !.content = IF Odd(Len(@)) THEN Front(@) ELSE @]
    ELSE n

-----------------------------------------------------------------------------
(* Completing the file (config_ensure.go)                                  *)

Sections == {"invites", "users", "groups", "orgs"}
SampleOptions ==
    {"git_user", "org_prefix", "user_prefix", "invite_prefix", "implicit_repos",
     "user_config_keys", "user_config_repos", "org_config_repos"}

EnsureSections(root) ==
    LET With(n, name) == EnsureKey(n, name, MappingNode(<<>>))
    IN With(With(With(With(root, "invites"), "users"), "groups"), "orgs")

AddOptions(options) ==
    LET With(n, name) == EnsureKey(n, name, Scalar("default"))
        named == With(With(With(With(options, "git_user"), "org_prefix"),
                           "user_prefix"), "invite_prefix")
    IN With(With(With(With(named, "implicit_repos"), "user_config_keys"),
                 "user_config_repos"), "org_config_repos")

EnsureSampleOptions(root) ==
    PutKey(root, "options", Encode(AddOptions(EnsuredNode(root, "options", MappingNode(<<>>)))))

\* The file is written only when a section was added; that options were does
\* not count.
EnsureSampleConfig(data) ==
    LET root == EnsureDocument(data)
        sections == EnsureSections(root)
    IN IF sections = root THEN data ELSE EnsureSampleOptions(sections)

\* An is_admin that is there is left alone, whatever it says.
EnsureUser(old, key) ==
    LET keys == EnsuredNode(old, "keys", SequenceNode(<<>>))
        keyed == PutKey(old, "keys", Encode(AppendUniqueScalar(keys, key)))
    IN Encode(RemoveKey(EnsureKey(keyed, "is_admin", Scalar("true")), "disabled"))

\* Where nothing is modified, the root is the one of the file.
EnsureAdminUser(data, user, key) ==
    LET root == EnsureDocument(data)
        users == EnsuredNode(root, "users", MappingNode(<<>>))
        new == EnsureUser(EnsuredNode(users, user, MappingNode(<<>>)), key)
    IN PutKey(root, "users", Encode(PutKey(users, user, new)))

-----------------------------------------------------------------------------
(* What there is in a file, level by level                                 *)

Item == Nodes(Below)     \* in a list, as a key is
Field == Nodes(Item)     \* of a user
Entry == Nodes(Field)    \* of a section, as a user is
Section == Nodes(Entry)
File == Nodes(Section)

ASSUME EditorAssumption ==
    /\ Document \subseteq {Missing, Syntax} \cup File
    /\ AdminUser \subseteq Text /\ AdminKey \subseteq Text
    /\ Sections \subseteq Text /\ SampleOptions \subseteq Text
    /\ {"options", "keys", "is_admin", "true", "disabled", "default", "none"} \subseteq Text

-----------------------------------------------------------------------------
VARIABLES
    file, \* config.yml
    did   \* what was done to it last

vars == <<file, did>>

Init == file \in Document /\ did = <<"wrote">>

\* EnsureConfig and EnsureAdminUser; an error leaves the file alone.
EnsureConfigStep ==
    /\ IsDocument(file)
    /\ file' = EnsureSampleConfig(file)
    /\ did' = <<"completed">>

EnsureAdminUserStep ==
    /\ IsDocument(file)
    /\ \E u \in AdminUser, k \in AdminKey :
          file' = EnsureAdminUser(file, u, k) /\ did' = <<u, k>>

Refuse == ~IsDocument(file) /\ UNCHANGED vars

Next == EnsureConfigStep \/ EnsureAdminUserStep \/ Refuse

Spec == Init /\ [][Next]_vars

-----------------------------------------------------------------------------
(* Properties                                                              *)

\* n is old with nothing changed but the value of the key, which R holds of,
\* and with more only behind what was there.
Edited(n, old, key, R(_, _)) ==
    /\ n.kind = old.kind /\ n.value = old.value
    /\ Len(n.content) >= Len(old.content)
    /\ \A i \in DOMAIN old.content :
          \/ n.content[i] = old.content[i]
          \/ KeyAt(old, i - 1, key) /\ R(n.content[i], old.content[i])

Extended(n, old) ==
    /\ n.kind = old.kind /\ n.value = old.value
    /\ Len(n.content) >= Len(old.content)
    /\ \A i \in DOMAIN old.content : n.content[i] = old.content[i]

EditedUser(n, old) == Edited(n, RemoveKey(old, "disabled"), "keys", Extended)

UserNode(u) == ValueNode(ValueNode(file, "users"), u)
Lists(n, v) == \E i \in DOMAIN n.content : n.content[i] = Scalar(v)

\* A file with a list for its users or for the user, or a mapping for the keys,
\* is edited too, at the wrong places, but cannot be loaded and is not committed.
Fits(u) ==
    /\ ValueNode(file, "users").kind # "seq" /\ UserNode(u).kind # "seq"
    /\ ValueNode(UserNode(u), "keys").kind # "map"

\* Nothing a person wrote is lost, changed or moved, whatever is completed
\* around it, but for what was to change: the options, and the keys and the
\* "disabled" of the one user. The file of an administrator stays theirs.
KeepsWhatIsWritten ==
    [][file \notin {Missing, Syntax} =>
         /\ did' = <<"completed">> => Edited(file', file, "options", Extended)
         /\ \A u \in AdminUser, k \in AdminKey : did' = <<u, k>> /\ Fits(u) =>
               Edited(file', file, "users", LAMBDA n, old : Edited(n, old, u, EditedUser))]_vars

\* Doing it once more changes nothing, so that a reload without an edit has
\* nothing to commit, and restarts do not pile up keys or sections.
EnsuringSettles ==
    [][/\ did' = <<"completed">> => EnsureSampleConfig(file') = file'
       /\ \A u \in AdminUser, k \in AdminKey :
             did' = <<u, k>> /\ Fits(u)' => EnsureAdminUser(file', u, k) = file']_vars

\* The user the server was told of is there with the key and is not disabled
\* ("the name of an admin user which the server will ensure exists on startup",
\* README.md), whatever was written for that user before, in files that name no
\* section, user or list of keys and leave it empty: what is added to such a
\* null is lost (MCYamlEnsureNull.cfg).
AdminUserIsThere ==
    \A u \in AdminUser, k \in AdminKey :
        did = <<u, k>> /\ Fits(u) =>
            /\ Lists(ValueNode(UserNode(u), "keys"), k)
            /\ ~HasKey(UserNode(u), "disabled")

\* And is an admin ("Ensure this user is an admin and isn't disabled").
AdminUserIsAdmin ==
    \A u \in AdminUser, k \in AdminKey :
        did = <<u, k>> => ValueNode(UserNode(u), "is_admin") = Scalar("true")

\* A completed file has every option in it ("If we had to make any of the
\* modifications, we need to specify the node was updated").
OptionsAreWritten ==
    did = <<"completed">> =>
        \A name \in SampleOptions : HasKey(ValueNode(file, "options"), name)
=============================================================================

-------------------------- MODULE YamlEnsureProofs --------------------------
(***************************************************************************)
(* The edits of config.yml keep what a person wrote and settle, and the    *)
(* admin user is there after them, for any files, users and keys, whatever *)
(* the files hold.                                                         *)
(***************************************************************************)
EXTENDS YamlEnsure, WellFoundedInduction, TLAPS

-----------------------------------------------------------------------------
(* Keys and values in one node                                             *)

\* A node that is being edited: a scalar may have content until it is written.
RawNodes(S) == [kind : {"scalar", "map", "seq"}, value : Text, content : Seq(S)]

\* Nodes are nodes while they are edited.
LEMMA NodesAreRaw ==
    ASSUME NEW S, NEW n \in Nodes(S)
    PROVE  /\ n \in RawNodes(S)
           /\ n.kind = "scalar" => n.content = <<>>
           /\ n.kind = "map" => ~Odd(Len(n.content))
BY DEF Nodes, RawNodes

\* The nodes that the code makes are nodes.
LEMMA NewNodes ==
    ASSUME NEW S
    PROVE  /\ \A v \in Text : Scalar(v) \in Nodes(S)
           /\ MappingNode(<<>>) \in Nodes(S)
           /\ SequenceNode(<<>>) \in Nodes(S)
<1>1. <<>> \in Seq(S) /\ ~Odd(Len(<<>>)) /\ DOMAIN <<>> = {}
  BY DEF Odd
<1>2. ASSUME NEW k \in {"scalar", "map", "seq"}, NEW v \in Text
      PROVE  [kind |-> k, value |-> v, content |-> <<>>] \in Nodes(S)
  BY <1>1 DEF Nodes
<1>3. \A v \in Text : Scalar(v) \in Nodes(S)
  BY <1>2 DEF Scalar
<1>4. "none" \in Text
  BY EditorAssumption
<1>5. MappingNode(<<>>) \in Nodes(S) /\ SequenceNode(<<>>) \in Nodes(S)
  BY <1>2, <1>4 DEF MappingNode, SequenceNode
<1> QED  BY <1>3, <1>5

\* Which numbers are odd.
LEMMA Parity ==
    ASSUME NEW i \in Nat
    PROVE  (Odd(i + 1) <=> ~Odd(i)) /\ (Odd(i + 2) <=> Odd(i))
BY DEF Odd

\* KeyIndex finds the first of the places where the key is.
LEMMA KeyIndexIsThere ==
    ASSUME NEW S, NEW n \in RawNodes(S), NEW key, HasKey(n, key)
    PROVE  /\ KeyIndex(n, key) \in Keyed(n, key)
           /\ \A i \in Keyed(n, key) : KeyIndex(n, key) <= i
<1> DEFINE at == Keyed(n, key)
<1>1. at \subseteq Nat /\ at # {}
  BY DEF Keyed, HasKey, RawNodes
<1>2. PICK x \in at : \A y \in at : ~(<<y, x>> \in OpToRel(<, Nat))
  BY <1>1, NatLessThanWellFounded, WFMin
<1>3. \A y \in at : x <= y
  <2> TAKE y \in at
  <2>1. ~(y < x)
    BY <1>1, <1>2, Zenon DEF OpToRel
  <2> QED  BY <1>1, <2>1
<1>4. \E z \in at : \A y \in at : z <= y
  BY <1>3
<1>5. KeyIndex(n, key) \in at /\ \A y \in at : KeyIndex(n, key) <= y
  BY <1>4 DEF KeyIndex, Min
<1> QED  BY <1>5

\* Where a key is, and its value.
LEMMA WhereKeysAre ==
    ASSUME NEW S, NEW n \in RawNodes(S), NEW key, HasKey(n, key)
    PROVE  /\ KeyIndex(n, key) \in 1..Len(n.content) - 1
           /\ Odd(KeyIndex(n, key))
           /\ KeyAt(n, KeyIndex(n, key), key)
           /\ KeyIndex(n, key) + 1 \in 1..Len(n.content)
           /\ ValueNode(n, key) = n.content[KeyIndex(n, key) + 1]
           /\ ValueNode(n, key) \in S
<1>1. KeyIndex(n, key) \in Keyed(n, key)
  BY KeyIndexIsThere
<1>2. /\ KeyIndex(n, key) \in 1..Len(n.content) - 1
      /\ KeyAt(n, KeyIndex(n, key), key)
  BY <1>1 DEF Keyed
<1>3. n.content \in Seq(S) /\ Len(n.content) \in Nat
  BY DEF RawNodes
<1>4. Odd(KeyIndex(n, key))
  BY <1>2 DEF KeyAt
<1>5. KeyIndex(n, key) + 1 \in 1..Len(n.content)
  BY <1>2, <1>3
<1>6. ValueNode(n, key) = n.content[KeyIndex(n, key) + 1]
  BY DEF ValueNode
<1> QED  BY <1>2, <1>3, <1>4, <1>5, <1>6

\* The node that EnsureKey returns is one of the children.
LEMMA EnsuredNodeIsThere ==
    ASSUME NEW S, NEW n \in RawNodes(S), NEW key, NEW new \in S
    PROVE  EnsuredNode(n, key, new) \in S
BY WhereKeysAre DEF EnsuredNode

\* In a mapping a key is at one place.
LEMMA MappingHasKeyOnce ==
    ASSUME NEW S, NEW n \in Nodes(S), n.kind = "map", NEW key, NEW i \in Keyed(n, key)
    PROVE  /\ HasKey(n, key) /\ KeyIndex(n, key) = i
           /\ ValueNode(n, key) = n.content[i + 1]
<1>1. n \in RawNodes(S)
  BY NodesAreRaw
<1>2. HasKey(n, key)
  BY DEF HasKey
<1>3. KeyIndex(n, key) \in Keyed(n, key)
  BY <1>1, <1>2, KeyIndexIsThere
<1>4. KeyIndex(n, key) = i
  <2>1. /\ KeyAt(n, i, key) /\ KeyAt(n, KeyIndex(n, key), key)
        /\ i \in DOMAIN n.content /\ KeyIndex(n, key) \in DOMAIN n.content
    BY <1>1, <1>3 DEF Keyed, RawNodes
  <2>2. n.content[i].value = key
    BY <2>1 DEF KeyAt
  <2> QED  BY <2>1, <2>2 DEF Nodes
<1> QED  BY <1>2, <1>4 DEF ValueNode

\* A node without content has no keys.
LEMMA EmptyHasNoKeys ==
    ASSUME NEW n, n.content = <<>>, NEW key
    PROVE  ~HasKey(n, key) /\ ValueNode(n, key) = NoNode
BY DEF HasKey, Keyed, ValueNode

-----------------------------------------------------------------------------
(* Putting a value at a key                                                *)

\* PutKey replaces the value of the key, or adds both behind what is there.
LEMMA PutKeyIs ==
    ASSUME NEW S, NEW n \in RawNodes(S), NEW key, Scalar(key) \in S, NEW v \in S
    PROVE  LET r == PutKey(n, key, v) IN
           /\ r \in RawNodes(S) /\ r.kind = n.kind /\ r.value = n.value
           /\ HasKey(n, key) =>
                 /\ Len(r.content) = Len(n.content)
                 /\ r.content[KeyIndex(n, key) + 1] = v
                 /\ \A i \in 1..Len(n.content) :
                       i # KeyIndex(n, key) + 1 => r.content[i] = n.content[i]
           /\ ~HasKey(n, key) =>
                 /\ Len(r.content) = Len(n.content) + 2
                 /\ r.content[Len(n.content) + 1] = Scalar(key)
                 /\ r.content[Len(n.content) + 2] = v
                 /\ \A i \in 1..Len(n.content) : r.content[i] = n.content[i]
<1> DEFINE r == PutKey(n, key, v)
<1> DEFINE j == KeyIndex(n, key) + 1
<1>1. n.content \in Seq(S) /\ Len(n.content) \in Nat
  BY DEF RawNodes
<1>2. CASE HasKey(n, key)
  <2>1. j \in 1..Len(n.content)
    BY <1>2, WhereKeysAre
  <2> DEFINE c == [n.content EXCEPT ![j] = v]
  <2>2. r = [n EXCEPT !.content = c]
    BY <1>2 DEF PutKey
  <2>3. /\ c \in Seq(S) /\ Len(c) = Len(n.content) /\ c[j] = v
        /\ \A i \in 1..Len(n.content) : i # j => c[i] = n.content[i]
    <3> HIDE DEF j
    <3> QED  BY <1>1, <2>1
  <2> HIDE DEF c, j
  <2>4. r \in RawNodes(S) /\ r.kind = n.kind /\ r.value = n.value /\ r.content = c
    BY <2>2, <2>3 DEF RawNodes
  <2> QED  BY <1>2, <2>3, <2>4 DEF j
<1>3. CASE ~HasKey(n, key)
  <2> DEFINE c == n.content \o <<Scalar(key), v>>
  <2>1. r = [n EXCEPT !.content = c]
    BY <1>3 DEF PutKey
  <2>2. /\ c \in Seq(S) /\ Len(c) = Len(n.content) + 2
        /\ c[Len(n.content) + 1] = Scalar(key) /\ c[Len(n.content) + 2] = v
        /\ \A i \in 1..Len(n.content) : c[i] = n.content[i]
    BY <1>1
  <2> HIDE DEF c
  <2>3. r \in RawNodes(S) /\ r.kind = n.kind /\ r.value = n.value /\ r.content = c
    BY <2>1, <2>2 DEF RawNodes
  <2> QED  BY <1>3, <2>2, <2>3
<1> QED  BY <1>2, <1>3

\* The value that is there can be put there without a change.
LEMMA PutKeySame ==
    ASSUME NEW S, NEW n \in RawNodes(S), NEW key, HasKey(n, key)
    PROVE  PutKey(n, key, ValueNode(n, key)) = n
<1> DEFINE j == KeyIndex(n, key) + 1
<1>1. /\ n = [kind |-> n.kind, value |-> n.value, content |-> n.content]
      /\ n.content \in Seq(S)
  BY DEF RawNodes
<1>2. j \in 1..Len(n.content) /\ ValueNode(n, key) = n.content[j]
  BY WhereKeysAre
<1>3. PutKey(n, key, ValueNode(n, key)) = [n EXCEPT !.content = [n.content EXCEPT ![j] = n.content[j]]]
  BY <1>2 DEF PutKey
<1> HIDE DEF j
<1>4. [n.content EXCEPT ![j] = n.content[j]] = n.content
  BY <1>1
<1> QED  BY <1>1, <1>3, <1>4

\* In a mapping, the key has the value then and the other keys keep theirs.
LEMMA PutKeyInMapping ==
    ASSUME NEW S, NEW n \in Nodes(S), n.kind = "map",
           NEW key \in Text, Scalar(key) \in S, NEW v \in S
    PROVE  LET r == PutKey(n, key, v) IN
           /\ r \in Nodes(S)
           /\ HasKey(r, key) /\ ValueNode(r, key) = v
           /\ HasKey(n, key) => KeyIndex(r, key) = KeyIndex(n, key)
           /\ \A k : k # key =>
                 /\ HasKey(r, k) <=> HasKey(n, k)
                 /\ ValueNode(r, k) = ValueNode(n, k)
                 /\ HasKey(n, k) => KeyIndex(r, k) = KeyIndex(n, k)
<1> DEFINE r == PutKey(n, key, v)
<1> DEFINE at == IF HasKey(n, key) THEN KeyIndex(n, key) ELSE Len(n.content) + 1
<1>0. n \in RawNodes(S)
  BY NodesAreRaw
<1>1. n \in RawNodes(S) /\ n.content \in Seq(S) /\ ~Odd(Len(n.content))
  BY NodesAreRaw DEF RawNodes
<1>2. /\ r \in RawNodes(S) /\ r.kind = "map" /\ r.content \in Seq(S)
      /\ Len(r.content) \in Nat /\ Len(n.content) \in Nat
  <2>1. r \in RawNodes(S) /\ r.kind = n.kind
    BY <1>1, PutKeyIs
  <2> QED  BY <1>1, <2>1 DEF RawNodes
<1>3. ASSUME HasKey(n, key)
      PROVE  /\ at = KeyIndex(n, key) /\ Len(r.content) = Len(n.content)
             /\ at \in 1..Len(r.content) - 1 /\ KeyAt(r, at, key) /\ r.content[at + 1] = v
             /\ \A i \in 1..Len(n.content) : i # at + 1 => r.content[i] = n.content[i]
  <2>1. /\ KeyIndex(n, key) \in 1..Len(n.content) - 1 /\ KeyAt(n, KeyIndex(n, key), key)
        /\ Odd(KeyIndex(n, key))
    BY <1>1, <1>3, WhereKeysAre
  <2>2. /\ Len(r.content) = Len(n.content) /\ r.content[KeyIndex(n, key) + 1] = v
        /\ \A i \in 1..Len(n.content) :
              i # KeyIndex(n, key) + 1 => r.content[i] = n.content[i]
    BY ONLY <1>0, Scalar(key) \in S, v \in S, <1>3, PutKeyIs
  <2>3. at = KeyIndex(n, key)
    BY <1>3
  <2> HIDE DEF r, at
  <2>4. r.content[at] = n.content[at]
    BY <1>2, <2>1, <2>2, <2>3
  <2> QED  BY <2>1, <2>2, <2>3, <2>4 DEF KeyAt
<1>4. ASSUME ~HasKey(n, key)
      PROVE  /\ at = Len(n.content) + 1 /\ Len(r.content) = Len(n.content) + 2
             /\ at \in 1..Len(r.content) - 1 /\ KeyAt(r, at, key) /\ r.content[at + 1] = v
             /\ \A i \in 1..Len(n.content) : r.content[i] = n.content[i]
  <2>1. /\ Len(r.content) = Len(n.content) + 2
        /\ r.content[Len(n.content) + 1] = Scalar(key)
        /\ r.content[Len(n.content) + 2] = v
        /\ \A i \in 1..Len(n.content) : r.content[i] = n.content[i]
    BY <1>1, <1>4, PutKeyIs
  <2>2. at = Len(n.content) + 1
    BY <1>4
  <2> HIDE DEF r, at
  <2>3. at \in 1..Len(r.content) - 1 /\ Odd(at)
    <3>1. Odd(Len(n.content) + 1)
      BY <1>1, <1>2, Parity
    <3> QED  BY ONLY Len(n.content) \in Nat, <1>2, <2>1, <2>2, <3>1
  <2>4. KeyAt(r, at, key)
    <3>1. r.content[at] = Scalar(key)
      BY <2>1, <2>2
    <3> QED  BY <2>3, <3>1 DEF KeyAt, Scalar
  <2>5. r.content[at + 1] = v
    BY <1>2, <2>1, <2>2
  <2> QED  BY <2>1, <2>2, <2>3, <2>4, <2>5
<1>5. /\ at \in 1..Len(r.content) - 1 /\ KeyAt(r, at, key) /\ r.content[at + 1] = v
      /\ Odd(at) /\ ~Odd(Len(r.content))
  <2>1. /\ at \in 1..Len(r.content) - 1 /\ KeyAt(r, at, key) /\ r.content[at + 1] = v
        /\ Len(r.content) \in {Len(n.content), Len(n.content) + 2}
    BY <1>3, <1>4
  <2> HIDE DEF r, at
  <2>2. ~Odd(Len(r.content))
    <3>1. ~Odd(Len(n.content) + 2)
      BY <1>1, <1>2, Parity
    <3> QED  BY <1>1, <2>1, <3>1
  <2> QED  BY <2>1, <2>2 DEF KeyAt
<1>6. ASSUME NEW i \in 1..Len(r.content), Odd(i), i # at
      PROVE  /\ i \in 1..Len(n.content) - 1
             /\ r.content[i] = n.content[i] /\ r.content[i + 1] = n.content[i + 1]
  <2> HIDE DEF r, at
  <2>0. i \in Nat /\ i + 1 \in Nat /\ at \in Nat /\ ~Odd(i + 1) /\ ~Odd(at + 1)
    <3>1. i \in Nat /\ at \in Nat
      BY <1>2, <1>5, <1>6
    <3> QED  BY <1>5, <1>6, <3>1, Parity
  <2>1. CASE HasKey(n, key)
    <3>1. i # Len(n.content)
      BY <1>1, <1>6
    <3>2. i + 1 # at + 1 /\ i # at + 1
      BY <1>6, <2>0
    <3> QED  BY <1>2, <1>3, <1>6, <2>0, <2>1, <3>1, <3>2
  <2>2. CASE ~HasKey(n, key)
    <3>1. ~Odd(Len(n.content) + 2)
      BY <1>1, <1>2, Parity
    <3>2. i # Len(n.content) /\ i # Len(n.content) + 2
      BY <1>1, <1>6, <3>1
    <3> QED  BY <1>2, <1>4, <1>6, <2>0, <2>2, <3>2
  <2> QED  BY <2>1, <2>2
<1>7. ASSUME NEW i \in 1..Len(n.content), Odd(i)
      PROVE  i \in 1..Len(r.content) /\ r.content[i] = n.content[i]
  <2> HIDE DEF r, at
  <2>1. CASE HasKey(n, key)
    <3>1. i # at + 1
      BY <1>2, <1>5, <1>7, Parity
    <3> QED  BY <1>2, <1>3, <1>7, <2>1, <3>1
  <2>2. CASE ~HasKey(n, key)
    BY <1>2, <1>4, <1>7, <2>2
  <2> QED  BY <2>1, <2>2
<1>8. r \in Nodes(S)
  <2> HIDE DEF r
  <2> SUFFICES ASSUME NEW i \in DOMAIN r.content, NEW j \in DOMAIN r.content,
                      KeyAt(r, i, r.content[j].value), KeyAt(r, j, r.content[j].value)
               PROVE  i = j
    BY <1>2, <1>5 DEF Nodes, RawNodes
  <2>1. i \in 1..Len(r.content) /\ j \in 1..Len(r.content) /\ Odd(i) /\ Odd(j)
    BY <1>2 DEF KeyAt
  <2>2. /\ r.content[i].value = r.content[j].value
        /\ r.content[i].kind = "scalar" /\ r.content[j].kind = "scalar"
    BY DEF KeyAt
  <2>3. ASSUME NEW a \in {i, j}, a # at, r.content[a].value = key  PROVE FALSE
    <3> HIDE DEF at
    <3>1. a \in 1..Len(n.content) - 1 /\ KeyAt(n, a, key)
      BY <1>6, <2>1, <2>2, <2>3 DEF KeyAt
    <3>2. HasKey(n, key) /\ KeyIndex(n, key) = a
      BY <3>1, MappingHasKeyOnce DEF Keyed
    <3> QED  BY <1>3, <2>3, <3>2
  <2>4. r.content[at].value = key
    BY <1>5 DEF KeyAt
  <2>5. CASE i = at \/ j = at
    BY <2>2, <2>3, <2>4, <2>5
  <2>6. CASE i # at /\ j # at
    <3> HIDE DEF at
    <3>1. /\ i \in 1..Len(n.content) /\ j \in 1..Len(n.content)
          /\ r.content[i] = n.content[i] /\ r.content[j] = n.content[j]
      BY <1>2, <1>6, <2>1, <2>6
    <3>2. KeyAt(n, i, n.content[j].value) /\ KeyAt(n, j, n.content[j].value)
      BY <2>1, <2>2, <3>1 DEF KeyAt
    <3>3. i \in DOMAIN n.content /\ j \in DOMAIN n.content
      BY <1>1, <3>1
    <3> QED  BY <3>2, <3>3 DEF Nodes
  <2> QED  BY <2>5, <2>6
<1>9. /\ HasKey(r, key) /\ ValueNode(r, key) = v
      /\ HasKey(n, key) => KeyIndex(r, key) = KeyIndex(n, key)
  <2>1. at \in Keyed(r, key)
    BY <1>5 DEF Keyed
  <2> HIDE DEF r
  <2>2. HasKey(r, key) /\ KeyIndex(r, key) = at /\ ValueNode(r, key) = r.content[at + 1]
    BY <1>2, <1>8, <2>1, MappingHasKeyOnce
  <2> QED  BY <1>5, <2>2
<1>10. ASSUME NEW k, k # key
       PROVE  /\ HasKey(r, k) <=> HasKey(n, k)
              /\ ValueNode(r, k) = ValueNode(n, k)
              /\ HasKey(n, k) => KeyIndex(r, k) = KeyIndex(n, k)
  <2> HIDE DEF r, at
  <2>1. ASSUME NEW i \in Keyed(r, k)
        PROVE  i \in Keyed(n, k) /\ r.content[i + 1] = n.content[i + 1]
    <3>1. i \in 1..Len(r.content) /\ Odd(i) /\ r.content[i].value = k
          /\ r.content[i].kind = "scalar"
      BY <1>2 DEF Keyed, KeyAt
    <3>2. i # at
      BY <1>5, <1>10, <3>1 DEF KeyAt
    <3>3. /\ i \in 1..Len(n.content) - 1
          /\ r.content[i] = n.content[i] /\ r.content[i + 1] = n.content[i + 1]
      BY <1>6, <3>1, <3>2
    <3> QED  BY <3>1, <3>3 DEF Keyed, KeyAt
  <2>2. ASSUME NEW i \in Keyed(n, k)  PROVE i \in Keyed(r, k)
    <3>1. i \in 1..Len(n.content) /\ Odd(i) /\ KeyAt(n, i, k)
      BY <1>2 DEF Keyed, KeyAt
    <3>2. i \in 1..Len(r.content) /\ r.content[i] = n.content[i]
      BY <1>7, <3>1
    <3>3. i \in 1..Len(r.content) - 1
      <4>1. i # Len(r.content)
        BY <1>5, <3>1
      <4> QED  BY <1>2, <3>2, <4>1
    <3> QED  BY <3>1, <3>2, <3>3 DEF Keyed, KeyAt
  <2>3. Keyed(r, k) = Keyed(n, k)
    BY <2>1, <2>2
  <2>4. HasKey(r, k) <=> HasKey(n, k)
    BY <2>3 DEF HasKey
  <2>5. KeyIndex(r, k) = KeyIndex(n, k)
    BY <2>3 DEF KeyIndex
  <2>6. HasKey(r, k) => KeyIndex(r, k) \in Keyed(r, k)
    BY <1>2, KeyIndexIsThere
  <2>7. HasKey(r, k) => ValueNode(r, k) = ValueNode(n, k)
    BY <2>1, <2>4, <2>5, <2>6 DEF ValueNode
  <2> QED  BY <2>4, <2>5, <2>7 DEF ValueNode
<1> QED  BY <1>8, <1>9, <1>10

\* A list that is edited like a mapping is a list still.
LEMMA PutKeyInList ==
    ASSUME NEW S, NEW n \in Nodes(S), n.kind = "seq", NEW key, Scalar(key) \in S, NEW v \in S
    PROVE  PutKey(n, key, v) \in Nodes(S) /\ PutKey(n, key, v).kind = "seq"
<1>1. n \in RawNodes(S)
  BY NodesAreRaw
<1>2. PutKey(n, key, v) \in RawNodes(S) /\ PutKey(n, key, v).kind = "seq"
  BY <1>1, PutKeyIs
<1> QED  BY <1>2 DEF Nodes, RawNodes

\* A value that extends the old one, at its key.
LEMMA PutKeyEdits ==
    ASSUME NEW S, NEW n \in RawNodes(S), NEW key, Scalar(key) \in S, NEW v \in S
    PROVE  LET r == PutKey(n, key, v) IN
           /\ r.kind = n.kind /\ r.value = n.value
           /\ Len(r.content) >= Len(n.content)
           /\ \A i \in DOMAIN n.content :
                 \/ r.content[i] = n.content[i]
                 \/ /\ HasKey(n, key) /\ i - 1 \in DOMAIN n.content /\ KeyAt(n, i - 1, key)
                    /\ n.content[i] = ValueNode(n, key) /\ r.content[i] = v
<1> DEFINE r == PutKey(n, key, v)
<1>1. /\ r.kind = n.kind /\ r.value = n.value
      /\ Len(n.content) \in Nat /\ DOMAIN n.content = 1..Len(n.content)
  BY PutKeyIs DEF RawNodes
<1>2. CASE HasKey(n, key)
  <2>1. /\ Len(r.content) = Len(n.content) /\ r.content[KeyIndex(n, key) + 1] = v
        /\ \A i \in 1..Len(n.content) :
              i # KeyIndex(n, key) + 1 => r.content[i] = n.content[i]
    BY <1>2, PutKeyIs
  <2>2. /\ KeyIndex(n, key) \in 1..Len(n.content) - 1 /\ KeyAt(n, KeyIndex(n, key), key)
        /\ ValueNode(n, key) = n.content[KeyIndex(n, key) + 1]
    BY <1>2, WhereKeysAre
  <2> HIDE DEF r
  <2>3. ASSUME NEW i \in DOMAIN n.content, r.content[i] # n.content[i]
        PROVE  /\ i - 1 \in DOMAIN n.content /\ KeyAt(n, i - 1, key)
               /\ n.content[i] = ValueNode(n, key) /\ r.content[i] = v
    <3>1. i = KeyIndex(n, key) + 1
      BY <1>1, <2>1, <2>3
    <3>2. i - 1 = KeyIndex(n, key) /\ i - 1 \in DOMAIN n.content
      BY <1>1, <2>2, <3>1
    <3> QED  BY <2>1, <2>2, <3>1, <3>2
  <2>4. Len(r.content) >= Len(n.content)
    BY <1>1, <2>1
  <2> QED  BY <1>1, <1>2, <2>3, <2>4 DEF r
<1>3. CASE ~HasKey(n, key)
  <2>1. /\ Len(r.content) = Len(n.content) + 2
        /\ \A i \in 1..Len(n.content) : r.content[i] = n.content[i]
    BY <1>3, PutKeyIs
  <2> HIDE DEF r
  <2>2. Len(r.content) >= Len(n.content) /\ \A i \in DOMAIN n.content : r.content[i] = n.content[i]
    BY <1>1, <2>1
  <2> QED  BY <1>1, <2>2 DEF r
<1> QED  BY <1>2, <1>3

\* Nodes that extend each other, and a step of that.
LEMMA ExtendedIsTransitive ==
    ASSUME NEW S, NEW a \in RawNodes(S), NEW b \in RawNodes(S), NEW c \in RawNodes(S),
           Extended(b, a), Extended(c, b)
    PROVE  Extended(c, a)
BY DEF Extended, RawNodes

\* Nothing is lost of a node that is left alone.
LEMMA ExtendedIsReflexive ==
    ASSUME NEW S, NEW a \in RawNodes(S)
    PROVE  Extended(a, a)
BY DEF Extended, RawNodes

\* EnsureKey changes nothing of what is there, and nothing at all where the key
\* is there.
LEMMA EnsureKeyExtends ==
    ASSUME NEW S, NEW n \in RawNodes(S), NEW key, Scalar(key) \in S, NEW new \in S
    PROVE  LET r == EnsureKey(n, key, new) IN
           /\ r \in RawNodes(S) /\ Extended(r, n)
           /\ HasKey(n, key) => r = n
<1> DEFINE e == EnsuredNode(n, key, new)
<1> DEFINE r == PutKey(n, key, e)
<1>1. e \in S
  BY EnsuredNodeIsThere
<1>2. EnsureKey(n, key, new) = r
  BY DEF EnsureKey
<1>3. CASE HasKey(n, key)
  <2>1. e = ValueNode(n, key)
    BY <1>3 DEF EnsuredNode
  <2>2. r = n
    BY <1>3, <2>1, PutKeySame
  <2> QED  BY <1>2, <2>2, ExtendedIsReflexive
<1>4. CASE ~HasKey(n, key)
  <2> HIDE DEF e
  <2>1. /\ r \in RawNodes(S) /\ r.kind = n.kind /\ r.value = n.value
        /\ Len(r.content) = Len(n.content) + 2
        /\ \A i \in 1..Len(n.content) : r.content[i] = n.content[i]
    BY <1>1, <1>4, PutKeyIs
  <2> HIDE DEF r
  <2>2. Extended(r, n)
    BY <2>1 DEF Extended, RawNodes
  <2> QED  BY <1>2, <1>4, <2>1, <2>2
<1> QED  BY <1>3, <1>4

\* EnsureKey in a mapping.
LEMMA EnsureKeyInMapping ==
    ASSUME NEW S, NEW n \in Nodes(S), n.kind = "map",
           NEW key \in Text, Scalar(key) \in S, NEW new \in S
    PROVE  LET r == EnsureKey(n, key, new) IN
           /\ r \in Nodes(S) /\ r.kind = "map" /\ Extended(r, n)
           /\ HasKey(n, key) => r = n
           /\ HasKey(r, key) /\ ValueNode(r, key) = EnsuredNode(n, key, new)
           /\ \A k : k # key =>
                 /\ HasKey(r, k) <=> HasKey(n, k)
                 /\ ValueNode(r, k) = ValueNode(n, k)
                 /\ HasKey(n, k) => KeyIndex(r, k) = KeyIndex(n, k)
<1> DEFINE e == EnsuredNode(n, key, new)
<1>1. n \in RawNodes(S)
  BY NodesAreRaw
<1>2. e \in S
  BY <1>1, EnsuredNodeIsThere
<1>3. EnsureKey(n, key, new) = PutKey(n, key, e)
  BY DEF EnsureKey
<1> HIDE DEF e
<1>4. LET r == PutKey(n, key, e) IN
      /\ r \in Nodes(S) /\ HasKey(r, key) /\ ValueNode(r, key) = e
      /\ \A k : k # key =>
            /\ HasKey(r, k) <=> HasKey(n, k)
            /\ ValueNode(r, k) = ValueNode(n, k)
            /\ HasKey(n, k) => KeyIndex(r, k) = KeyIndex(n, k)
  BY <1>2, PutKeyInMapping
<1>5. LET r == EnsureKey(n, key, new) IN Extended(r, n) /\ (HasKey(n, key) => r = n)
  BY <1>1, EnsureKeyExtends
<1>6. EnsureKey(n, key, new).kind = "map"
  BY <1>5 DEF Extended
<1> QED  BY <1>3, <1>4, <1>5, <1>6 DEF e

\* A sequence without one of its elements.
LEMMA RemoveAtIs ==
    ASSUME NEW S, NEW s \in Seq(S), NEW j \in 1..Len(s)
    PROVE  /\ RemoveAt(s, j) \in Seq(S) /\ Len(RemoveAt(s, j)) = Len(s) - 1
           /\ \A i \in 1..Len(s) - 1 :
                 RemoveAt(s, j)[i] = IF i < j THEN s[i] ELSE s[i + 1]
<1> DEFINE a == SubSeq(s, 1, j - 1)
<1> DEFINE b == SubSeq(s, j + 1, Len(s))
<1>1. /\ a \in Seq(S) /\ Len(a) = j - 1
      /\ \A i \in 1..j - 1 : a[i] = s[i]
  OBVIOUS
<1>2. /\ b \in Seq(S) /\ Len(b) = Len(s) - j
      /\ \A i \in 1..Len(s) - j : b[i] = s[j + i]
  OBVIOUS
<1>3. RemoveAt(s, j) = a \o b
  BY DEF RemoveAt
<1> HIDE DEF a, b
<1>4. a \o b \in Seq(S) /\ Len(a \o b) = Len(s) - 1
  <2>1. a \in Seq(S) /\ b \in Seq(S)
    BY <1>1, <1>2
  <2>2. a \o b \in Seq(S) /\ Len(a \o b) = Len(a) + Len(b)
    BY <2>1
  <2> QED  BY <1>1, <1>2, <2>2
<1>5. ASSUME NEW i \in 1..Len(s) - 1
      PROVE  (a \o b)[i] = IF i < j THEN s[i] ELSE s[i + 1]
  <2>1. CASE i < j
    BY <1>1, <1>2, <2>1
  <2>2. CASE ~(i < j)
    <3>1. i - (j - 1) \in 1..Len(s) - j /\ j + (i - (j - 1)) = i + 1
      BY <2>2
    <3>2. (a \o b)[i] = b[i - (j - 1)]
      BY <1>1, <1>2, <2>2, <3>1
    <3> QED  BY <1>2, <2>2, <3>1, <3>2
  <2> QED  BY <2>1, <2>2
<1> QED  BY <1>3, <1>4, <1>5

\* Removing a key takes it and its value away; what is behind moves up by two.
LEMMA RemoveKeyIs ==
    ASSUME NEW S, NEW n \in RawNodes(S), NEW key
    PROVE  LET r == RemoveKey(n, key) IN
           /\ r \in RawNodes(S) /\ r.kind = n.kind /\ r.value = n.value
           /\ ~HasKey(n, key) => r = n
           /\ HasKey(n, key) =>
                 /\ Len(r.content) = Len(n.content) - 2
                 /\ \A i \in 1..Len(n.content) - 2 :
                       r.content[i] = IF i < KeyIndex(n, key) THEN n.content[i] ELSE n.content[i + 2]
<1> DEFINE r == RemoveKey(n, key)
<1> DEFINE j == KeyIndex(n, key)
<1> DEFINE s == n.content
<1>1. CASE ~HasKey(n, key)
  BY <1>1 DEF RemoveKey
<1>2. CASE HasKey(n, key)
  <2>1. s \in Seq(S) /\ j \in 1..Len(s) - 1 /\ Len(s) \in Nat
    BY <1>2, WhereKeysAre DEF RawNodes
  <2> DEFINE t == RemoveAt(s, j)
  <2> DEFINE c == RemoveAt(t, j)
  <2>2. r = [n EXCEPT !.content = c]
    BY <1>2 DEF RemoveKey
  <2> HIDE DEF s, j
  <2>3. /\ t \in Seq(S) /\ Len(t) = Len(s) - 1
        /\ \A i \in 1..Len(s) - 1 : t[i] = IF i < j THEN s[i] ELSE s[i + 1]
    BY <2>1, RemoveAtIs
  <2> HIDE DEF t
  <2>4. /\ c \in Seq(S) /\ Len(c) = Len(t) - 1
        /\ \A i \in 1..Len(t) - 1 : c[i] = IF i < j THEN t[i] ELSE t[i + 1]
    <3>1. j \in 1..Len(t) /\ t \in Seq(S)
      BY <2>1, <2>3
    <3> QED  BY <3>1, RemoveAtIs
  <2> HIDE DEF c
  <2>5. /\ Len(c) = Len(s) - 2
        /\ \A i \in 1..Len(s) - 2 : c[i] = IF i < j THEN s[i] ELSE s[i + 2]
    BY <2>1, <2>3, <2>4
  <2>6. r \in RawNodes(S) /\ r.kind = n.kind /\ r.value = n.value /\ r.content = c
    BY <2>2, <2>4 DEF RawNodes
  <2> QED  BY <1>2, <2>5, <2>6 DEF s, j
<1> QED  BY <1>1, <1>2

\* In a mapping, the key is gone then and the other keys keep their values.
LEMMA RemoveKeyInMapping ==
    ASSUME NEW S, NEW n \in Nodes(S), n.kind = "map", NEW key, HasKey(n, key)
    PROVE  LET r == RemoveKey(n, key) IN
           /\ r \in Nodes(S) /\ ~HasKey(r, key)
           /\ \A k : k # key =>
                 (HasKey(r, k) <=> HasKey(n, k)) /\ ValueNode(r, k) = ValueNode(n, k)
<1> DEFINE r == RemoveKey(n, key)
<1> DEFINE d == KeyIndex(n, key)
<1> DEFINE From(i) == IF i < d THEN i ELSE i + 2
<1>0. n \in RawNodes(S) /\ ~Odd(Len(n.content)) /\ Len(n.content) \in Nat
  BY NodesAreRaw DEF RawNodes
<1>1. d \in 1..Len(n.content) - 1 /\ KeyAt(n, d, key) /\ Odd(d)
  BY <1>0, WhereKeysAre DEF KeyAt
<1>2. /\ r \in RawNodes(S) /\ r.kind = "map" /\ Len(r.content) = Len(n.content) - 2
      /\ \A i \in 1..Len(n.content) - 2 : r.content[i] = n.content[From(i)]
  BY <1>0, RemoveKeyIs
<1>3. Len(r.content) \in Nat /\ DOMAIN r.content = 1..Len(r.content) /\ ~Odd(Len(r.content))
  <2>1. Len(r.content) \in Nat /\ DOMAIN r.content = 1..Len(r.content)
    BY <1>2 DEF RawNodes
  <2>2. Odd(Len(r.content) + 2) <=> Odd(Len(r.content))
    BY <2>1, Parity
  <2>3. Len(r.content) + 2 = Len(n.content)
    BY <1>0, <1>2
  <2> QED  BY <1>0, <2>1, <2>2, <2>3
<1>4. ASSUME NEW i \in 1..Len(r.content)
      PROVE  /\ From(i) \in 1..Len(n.content) /\ r.content[i] = n.content[From(i)]
             /\ Odd(From(i)) <=> Odd(i)
             /\ From(i) # d
             /\ Odd(i) => i + 1 \in 1..Len(r.content) /\ From(i + 1) = From(i) + 1
  <2> HIDE DEF r, d
  <2>1. i \in Nat /\ d \in Nat
    BY <1>0, <1>1, <1>3
  <2>2. Odd(i + 2) <=> Odd(i)
    BY <2>1, Parity
  <2>3. Odd(i) => i + 1 # d /\ i # Len(r.content)
    <3>1. Odd(i) => ~Odd(i + 1)
      BY <2>1, Parity
    <3> QED  BY <1>1, <1>3, <3>1
  <2>4. From(i) \in 1..Len(n.content) /\ r.content[i] = n.content[From(i)] /\ From(i) # d
    BY <1>0, <1>1, <1>2, <2>1
  <2>5. Odd(From(i)) <=> Odd(i)
    BY <2>2
  <2>6. Odd(i) => i + 1 \in 1..Len(r.content) /\ From(i + 1) = From(i) + 1
    BY <1>3, <2>1, <2>3
  <2> QED  BY <2>4, <2>5, <2>6
<1>5. ASSUME NEW i \in 1..Len(r.content), NEW j \in 1..Len(r.content), From(i) = From(j)
      PROVE  i = j
  <2> HIDE DEF r, d
  <2>1. i \in Nat /\ j \in Nat /\ d \in Nat
    BY <1>0, <1>1, <1>3
  <2> QED  BY <1>5, <2>1
<1>6. r \in Nodes(S)
  <2> HIDE DEF r, From
  <2> SUFFICES ASSUME NEW i \in DOMAIN r.content, NEW j \in DOMAIN r.content,
                      KeyAt(r, i, r.content[j].value), KeyAt(r, j, r.content[j].value)
               PROVE  i = j
    BY <1>2, <1>3 DEF Nodes, RawNodes
  <2>1. i \in 1..Len(r.content) /\ j \in 1..Len(r.content)
    BY <1>3
  <2>2. /\ From(i) \in 1..Len(n.content) /\ From(j) \in 1..Len(n.content)
        /\ r.content[i] = n.content[From(i)] /\ r.content[j] = n.content[From(j)]
        /\ Odd(From(i)) <=> Odd(i)
        /\ Odd(From(j)) <=> Odd(j)
    BY <1>4, <2>1
  <2>3. /\ KeyAt(n, From(i), n.content[From(j)].value)
        /\ KeyAt(n, From(j), n.content[From(j)].value)
    BY <2>2 DEF KeyAt
  <2>4. From(i) \in DOMAIN n.content /\ From(j) \in DOMAIN n.content
    BY <1>0, <2>2 DEF RawNodes
  <2>5. From(i) = From(j)
    BY <2>3, <2>4 DEF Nodes
  <2> QED  BY <1>5, <2>1, <2>5
<1>7. ASSUME NEW k, NEW i \in Keyed(r, k)
      PROVE  /\ From(i) \in Keyed(n, k) /\ From(i) # d
             /\ r.content[i + 1] = n.content[From(i) + 1]
  <2> HIDE DEF r, From
  <2>1. i \in 1..Len(r.content) /\ KeyAt(r, i, k) /\ Odd(i)
    BY <1>3 DEF Keyed, KeyAt
  <2>2. /\ From(i) \in 1..Len(n.content) /\ r.content[i] = n.content[From(i)]
        /\ Odd(From(i)) /\ From(i) # d
        /\ i + 1 \in 1..Len(r.content) /\ From(i + 1) = From(i) + 1
    BY <1>4, <2>1
  <2>3. r.content[i + 1] = n.content[From(i + 1)] /\ From(i + 1) \in 1..Len(n.content)
    BY <1>4, <2>2
  <2>4. From(i) \in 1..Len(n.content) - 1
    BY <1>0, <2>2, <2>3
  <2> QED  BY <2>1, <2>2, <2>3, <2>4 DEF Keyed, KeyAt
<1>8. ~HasKey(r, key)
  <2> HIDE DEF r, From
  <2> SUFFICES ASSUME NEW i \in Keyed(r, key)  PROVE FALSE
    BY DEF HasKey
  <2>1. From(i) \in Keyed(n, key) /\ From(i) # d
    BY <1>7
  <2> QED  BY <2>1, MappingHasKeyOnce
<1>9. ASSUME NEW k, k # key
      PROVE  (HasKey(r, k) <=> HasKey(n, k)) /\ ValueNode(r, k) = ValueNode(n, k)
  <2>1. ASSUME NEW i \in Keyed(r, k)
        PROVE  HasKey(r, k) /\ HasKey(n, k) /\ ValueNode(r, k) = ValueNode(n, k)
    <3> HIDE DEF r, From
    <3>1. From(i) \in Keyed(n, k) /\ r.content[i + 1] = n.content[From(i) + 1]
      BY <1>7
    <3>2. HasKey(r, k) /\ ValueNode(r, k) = r.content[i + 1]
      BY <1>2, <1>6, MappingHasKeyOnce
    <3>3. HasKey(n, k) /\ ValueNode(n, k) = n.content[From(i) + 1]
      BY <3>1, MappingHasKeyOnce
    <3> QED  BY <3>1, <3>2, <3>3
  <2>2. ASSUME NEW i \in Keyed(n, k)
        PROVE  Keyed(r, k) # {}
    <3> HIDE DEF r, d
    <3>1. i \in 1..Len(n.content) - 1 /\ KeyAt(n, i, k) /\ Odd(i) /\ i \in Nat /\ d \in Nat
      BY <1>0, <1>1 DEF Keyed, KeyAt
    <3>2. i # d
      BY <1>1, <1>9, <3>1 DEF KeyAt
    <3>3. i + 1 # d /\ d + 1 # i
      <4>1. ~Odd(i + 1) /\ ~Odd(d + 1)
        BY <1>1, <3>1, Parity
      <4> QED  BY <1>1, <3>1, <4>1
    <3>4. PICK j \in 1..Len(r.content) - 1 : From(j) = i
      <4>1. CASE i < d
        <5>1. i \in 1..Len(r.content) - 1 /\ From(i) = i
          BY <1>0, <1>1, <1>2, <3>1, <3>3, <4>1
        <5> QED  BY <5>1
      <4>2. CASE ~(i < d)
        <5>1. i - 2 \in 1..Len(r.content) - 1 /\ From(i - 2) = i
          BY <1>0, <1>1, <1>2, <3>1, <3>2, <3>3, <4>2
        <5> QED  BY <5>1
      <4> QED  BY <4>1, <4>2
    <3> HIDE DEF From
    <3>5. j \in 1..Len(r.content)
      BY <1>3
    <3>6. r.content[j] = n.content[i] /\ Odd(j)
      BY <1>4, <3>1, <3>4, <3>5
    <3> QED  BY <3>1, <3>6 DEF Keyed, KeyAt
  <2>3. CASE Keyed(n, k) = {} /\ Keyed(r, k) = {}
    BY <2>3 DEF HasKey, ValueNode
  <2>4. CASE Keyed(r, k) # {}
    BY <2>1, <2>4
  <2> QED  BY <2>2, <2>3, <2>4
<1> QED  BY <1>6, <1>8, <1>9

-----------------------------------------------------------------------------
(* The keys of a user                                                      *)

\* What is written of a node that a node of a file was edited to.
LEMMA EncodeIs ==
    ASSUME NEW S, NEW n \in RawNodes(S)
    PROVE  /\ n.kind = "scalar" => Encode(n) = Scalar(n.value)
           /\ n.kind = "map" /\ ~Odd(Len(n.content)) => Encode(n) = n
           /\ n.kind = "seq" => Encode(n) = n
<1>1. n = [kind |-> n.kind, value |-> n.value, content |-> n.content]
  BY DEF RawNodes
<1>2. CASE n.kind = "scalar"
  BY <1>2 DEF Encode
<1>3. CASE n.kind = "map" /\ ~Odd(Len(n.content))
  <2>1. Encode(n) = [n EXCEPT !.content = n.content]
    BY <1>3 DEF Encode
  <2> QED  BY <1>1, <1>3, <2>1
<1>4. CASE n.kind = "seq"
  BY <1>4 DEF Encode
<1> QED  BY <1>2, <1>3, <1>4

\* A scalar of a file is nothing but its value.
LEMMA ScalarsAreValues ==
    ASSUME NEW S, NEW n \in Nodes(S), n.kind = "scalar"
    PROVE  n = Scalar(n.value)
BY DEF Nodes, Scalar

\* Putting something into a scalar is in vain.
LEMMA PutKeyInScalar ==
    ASSUME NEW S, NEW n \in Nodes(S), n.kind = "scalar", NEW key, Scalar(key) \in S, NEW v \in S
    PROVE  Encode(PutKey(n, key, v)) = n
<1>1. n \in RawNodes(S)
  BY NodesAreRaw
<1>2. LET r == PutKey(n, key, v) IN r \in RawNodes(S) /\ r.kind = n.kind /\ r.value = n.value
  BY <1>1, PutKeyIs
<1>3. Encode(PutKey(n, key, v)) = Scalar(n.value)
  BY <1>2, EncodeIs
<1> QED  BY <1>3, ScalarsAreValues

\* Nodes of a file are written as they are.
LEMMA NodesAreWritten ==
    ASSUME NEW S, NEW n \in Nodes(S)
    PROVE  Encode(n) = n
<1>1. n \in RawNodes(S) /\ (n.kind = "map" => ~Odd(Len(n.content)))
  BY NodesAreRaw
<1>2. CASE n.kind = "scalar"
  BY <1>1, <1>2, EncodeIs, ScalarsAreValues
<1>3. CASE n.kind \in {"map", "seq"}
  BY <1>1, <1>3, EncodeIs
<1> QED  BY <1>1, <1>2, <1>3 DEF RawNodes

\* A node edited by PutKey is a node of a file when it is written, with the key
\* in it unless it was a scalar.
LEMMA WrittenPutKey ==
    ASSUME NEW S, NEW n \in Nodes(S), NEW key \in Text, Scalar(key) \in S, NEW v \in S
    PROVE  LET r == Encode(PutKey(n, key, v)) IN
           /\ r \in Nodes(S) /\ r.kind = n.kind
           /\ n.kind = "scalar" => r = n
           /\ n.kind # "scalar" => r = PutKey(n, key, v)
<1>1. n.kind \in {"scalar", "map", "seq"}
  BY DEF Nodes
<1>2. CASE n.kind = "scalar"
  BY <1>2, PutKeyInScalar
<1>3. CASE n.kind = "map"
  <2>1. PutKey(n, key, v) \in Nodes(S) /\ PutKey(n, key, v).kind = "map"
    BY <1>3, PutKeyInMapping, PutKeyIs, NodesAreRaw
  <2> QED  BY <1>3, <2>1, NodesAreWritten
<1>4. CASE n.kind = "seq"
  <2>1. PutKey(n, key, v) \in Nodes(S) /\ PutKey(n, key, v).kind = "seq"
    BY <1>4, PutKeyInList
  <2> QED  BY <1>4, <2>1, NodesAreWritten
<1> QED  BY <1>1, <1>2, <1>3, <1>4

\* A list of keys has the key then, behind what it had, and once only.
LEMMA WrittenKeys ==
    ASSUME NEW S, NEW n \in Nodes(Nodes(S)), NEW v \in Text
    PROVE  LET r == Encode(AppendUniqueScalar(n, v)) IN
           /\ r \in Nodes(Nodes(S)) /\ Extended(r, n)
           /\ n.kind = "seq" => Lists(r, v)
           /\ Encode(AppendUniqueScalar(r, v)) = r
<1> DEFINE a == AppendUniqueScalar(n, v)
<1>1. n \in RawNodes(Nodes(S)) /\ n = [kind |-> n.kind, value |-> n.value, content |-> n.content]
  BY NodesAreRaw DEF RawNodes
<1>2. /\ n.kind \in {"scalar", "map", "seq"} /\ n.content \in Seq(Nodes(S)) /\ Len(n.content) \in Nat
      /\ DOMAIN n.content = 1..Len(n.content)
      /\ n.kind = "scalar" => n.content = <<>>
      /\ n.kind = "map" => ~Odd(Len(n.content))
  BY <1>1, NodesAreRaw DEF RawNodes
<1>3. Scalar(v) \in Nodes(S)
  BY NewNodes
<1>4. Extended(n, n)
  BY <1>1, ExtendedIsReflexive
<1>5. CASE a = n
  <2>1. Encode(a) = n
    BY <1>5, NodesAreWritten
  <2>2. ASSUME n.kind = "seq"  PROVE Lists(n, v)
    <3>1. PICK i \in DOMAIN n.content : n.content[i].kind = "scalar" /\ n.content[i].value = v
      <4>1. ASSUME ~\E i \in DOMAIN n.content : n.content[i].kind = "scalar" /\ n.content[i].value = v
            PROVE  FALSE
        <5>1. a = [n EXCEPT !.content = Append(n.content, Scalar(v))]
          BY <4>1 DEF AppendUniqueScalar
        <5>2. a.content = Append(n.content, Scalar(v))
          BY <1>1, <5>1
        <5>3. Len(Append(n.content, Scalar(v))) = Len(n.content) + 1
          BY <1>2, <1>3
        <5> QED  BY <1>2, <1>5, <5>2, <5>3
      <4> QED  BY <4>1
    <3>2. n.content[i] \in Nodes(S)
      BY <1>2
    <3>3. n.content[i] = Scalar(v)
      BY <3>1, <3>2, ScalarsAreValues
    <3> QED  BY <3>3 DEF Lists
  <2> QED  BY <1>4, <1>5, <2>1, <2>2
<1>6. CASE a # n
  <2> DEFINE c == Append(n.content, Scalar(v))
  <2>1. a = [n EXCEPT !.content = c]
    BY <1>6 DEF AppendUniqueScalar
  <2>2. /\ c \in Seq(Nodes(S)) /\ Len(c) = Len(n.content) + 1
        /\ c[Len(c)] = Scalar(v) /\ DOMAIN c = 1..Len(c)
        /\ \A i \in 1..Len(n.content) : c[i] = n.content[i]
    BY <1>2, <1>3
  <2>3. CASE n.kind = "scalar"
    <3>1. Encode(a) = Scalar(n.value)
      BY <1>1, <2>1, <2>3 DEF Encode
    <3>2. Encode(a) = n
      BY <2>3, <3>1, ScalarsAreValues
    <3> QED  BY <1>4, <2>3, <3>2
  <2>4. CASE n.kind = "map"
    <3>1. Odd(Len(c))
      BY <1>2, <2>2, <2>4, Parity
    <3>2. Front(c) = n.content
      BY <1>2, <1>3, <2>2 DEF Front
    <3>3. a.kind = "map" /\ a.content = c
      BY <1>1, <2>1, <2>4
    <3>4. Encode(a) = [a EXCEPT !.content = Front(c)]
      <4> HIDE DEF c
      <4> QED  BY <3>1, <3>3 DEF Encode
    <3>5. Encode(a) = n
      <4> HIDE DEF c
      <4> QED  BY <1>1, <2>1, <3>2, <3>4
    <3> QED  BY <1>4, <2>4, <3>5
  <2>5. CASE n.kind = "seq"
    <3> HIDE DEF c
    <3>1. /\ a.kind = "seq" /\ a.value = n.value /\ a.content = c
          /\ a \in Nodes(Nodes(S))
      BY <1>1, <1>2, <2>1, <2>2, <2>5 DEF Nodes
    <3>2. Encode(a) = a
      BY <3>1, NodesAreWritten
    <3>3. Extended(a, n)
      BY <1>2, <2>2, <2>5, <3>1 DEF Extended
    <3>4. Len(c) \in DOMAIN a.content /\ a.content[Len(c)] = Scalar(v)
      BY <1>2, <2>2, <3>1
    <3>5. Lists(a, v)
      BY <3>4 DEF Lists
    <3>6. AppendUniqueScalar(a, v) = a
      BY <3>4 DEF AppendUniqueScalar, Scalar
    <3> QED  BY <3>1, <3>2, <3>3, <3>5, <3>6
  <2> QED  BY <1>2, <2>3, <2>4, <2>5
<1> QED  BY <1>5, <1>6

\* A key that is in a node and in what it was edited to, at the same place, can
\* be removed from both.
LEMMA RemoveKeyKeepsEdited ==
    ASSUME NEW S, NEW n \in RawNodes(S), NEW old \in RawNodes(S), NEW key, NEW k,
           HasKey(n, k) <=> HasKey(old, k),
           HasKey(old, k) => KeyIndex(n, k) = KeyIndex(old, k),
           Len(n.content) >= Len(old.content), n.kind = old.kind, n.value = old.value,
           \A i \in DOMAIN old.content :
              \/ n.content[i] = old.content[i]
              \/ /\ i - 1 \in DOMAIN old.content /\ KeyAt(old, i - 1, key)
                 /\ Extended(n.content[i], old.content[i])
    PROVE  Edited(RemoveKey(n, k), RemoveKey(old, k), key, Extended)
<1> DEFINE r == RemoveKey(n, k)
<1> DEFINE o == RemoveKey(old, k)
<1> DEFINE d == KeyIndex(old, k)
<1> DEFINE From(i) == IF i < d THEN i ELSE i + 2
<1>1. CASE ~HasKey(old, k)
  <2>1. r = n /\ o = old
    BY <1>1, RemoveKeyIs
  <2> QED  BY <2>1 DEF Edited
<1>2. CASE HasKey(old, k)
  <2>1. /\ Len(n.content) \in Nat /\ Len(old.content) \in Nat
        /\ DOMAIN old.content = 1..Len(old.content)
    BY DEF RawNodes
  <2>2. /\ o \in RawNodes(S) /\ o.kind = old.kind /\ o.value = old.value
        /\ Len(o.content) = Len(old.content) - 2
        /\ \A i \in 1..Len(old.content) - 2 : o.content[i] = old.content[From(i)]
    BY <1>2, RemoveKeyIs
  <2>3. /\ r.kind = n.kind /\ r.value = n.value
        /\ Len(r.content) = Len(n.content) - 2
        /\ \A i \in 1..Len(n.content) - 2 : r.content[i] = n.content[From(i)]
    BY <1>2, RemoveKeyIs
  <2>4. d \in 1..Len(old.content) - 1 /\ Odd(d) /\ d \in Nat
    BY <1>2, WhereKeysAre DEF KeyAt
  <2>5. DOMAIN o.content = 1..Len(old.content) - 2
    BY <2>2 DEF RawNodes
  <2>6. ASSUME NEW i \in DOMAIN o.content
        PROVE  \/ r.content[i] = o.content[i]
               \/ KeyAt(o, i - 1, key) /\ Extended(r.content[i], o.content[i])
    <3> HIDE DEF r, o, d
    <3>1. /\ i \in Nat /\ i \in 1..Len(old.content) - 2 /\ i \in 1..Len(n.content) - 2
          /\ From(i) \in 1..Len(old.content)
      BY <2>1, <2>4, <2>5
    <3>2. r.content[i] = n.content[From(i)] /\ o.content[i] = old.content[From(i)]
      BY <2>2, <2>3, <3>1
    <3>3. CASE n.content[From(i)] = old.content[From(i)]
      BY <3>2, <3>3
    <3>4. CASE /\ From(i) - 1 \in DOMAIN old.content /\ KeyAt(old, From(i) - 1, key)
               /\ Extended(n.content[From(i)], old.content[From(i)])
      <4>1. Odd(From(i) - 1)
        BY <3>4 DEF KeyAt
      <4>2. i # d
        <5>1. ~Odd(d + 1)
          BY <2>4, Parity
        <5>2. i = d => From(i) - 1 = d + 1
          BY <2>4
        <5> QED  BY <4>1, <5>1, <5>2
      <4>3. i - 1 \in 1..Len(old.content) - 2 /\ From(i - 1) = From(i) - 1
        BY <2>1, <2>4, <3>1, <3>4, <4>2
      <4>4. o.content[i - 1] = old.content[From(i) - 1]
        BY <2>2, <4>3
      <4>5. Odd(i - 1)
        <5>1. i - 1 \in Nat /\ (i - 1) + 2 = i + 1
          BY <3>1, <4>3
        <5>2. Odd(i + 1) <=> Odd(i - 1)
          BY <5>1, Parity
        <5>3. From(i) - 1 = i - 1 \/ From(i) - 1 = i + 1
          BY <3>1
        <5> QED  BY <4>1, <5>2, <5>3
      <4>6. KeyAt(o, i - 1, key)
        BY <3>4, <4>4, <4>5 DEF KeyAt
      <4> QED  BY <3>2, <3>4, <4>6
    <3> HIDE DEF From
    <3> QED  BY <2>1, <3>1, <3>3, <3>4
  <2>7. Len(r.content) >= Len(o.content)
    <3> HIDE DEF r, o
    <3> QED  BY <2>1, <2>2, <2>3
  <2> HIDE DEF r, o
  <2>8. Edited(r, o, key, Extended)
    BY <2>2, <2>3, <2>6, <2>7 DEF Edited
  <2> QED  BY <2>8 DEF r, o
<1> QED  BY <1>1, <1>2

\* The words that the code puts into files.
LEMMA Words ==
    ASSUME NEW S
    PROVE  /\ \A w \in {"options", "keys", "is_admin", "true", "default"} \cup Sections \cup SampleOptions :
                 w \in Text /\ Scalar(w) \in Nodes(S)
           /\ "disabled" # "keys" /\ "disabled" # "is_admin"
BY NewNodes, EditorAssumption

\* EnsureUser, step by step, on the user of a file.
LEMMA EnsuredUser ==
    ASSUME NEW old \in Entry, NEW key \in Text
    PROVE  LET new == EnsureUser(old, key)
               keys == EnsuredNode(old, "keys", SequenceNode(<<>>))
               written == Encode(AppendUniqueScalar(keys, key))
           IN /\ new \in Entry /\ new.kind = old.kind
              /\ old.kind = "scalar" => new = old
              /\ old.kind = "map" =>
                    /\ HasKey(new, "keys") /\ ValueNode(new, "keys") = written
                    /\ HasKey(new, "is_admin") /\ ~HasKey(new, "disabled")
                    /\ EditedUser(new, old)
<1> DEFINE keys == EnsuredNode(old, "keys", SequenceNode(<<>>))
<1> DEFINE written == Encode(AppendUniqueScalar(keys, key))
<1> DEFINE keyed == PutKey(old, "keys", written)
<1> DEFINE admin == EnsureKey(keyed, "is_admin", Scalar("true"))
<1> DEFINE new == RemoveKey(admin, "disabled")
<1>1. EnsureUser(old, key) = Encode(new)
  BY DEF EnsureUser
<1>2. /\ old \in Nodes(Field) /\ old \in RawNodes(Field) /\ old.kind \in {"scalar", "map", "seq"}
      /\ "keys" \in Text /\ "is_admin" \in Text
      /\ Scalar("keys") \in Field /\ Scalar("is_admin") \in Field /\ Scalar("true") \in Field
  BY NodesAreRaw, Words DEF Entry, Field, RawNodes
<1>3. keys \in Field
  BY <1>2, EnsuredNodeIsThere, NewNodes DEF Field
<1>4. written \in Field /\ Extended(written, keys)
  BY <1>3, WrittenKeys DEF Field, Item
<1> HIDE DEF written
<1>5. CASE old.kind = "map"
  <2>1. /\ keyed \in Nodes(Field) /\ keyed.kind = "map"
        /\ HasKey(keyed, "keys") /\ ValueNode(keyed, "keys") = written
        /\ HasKey(keyed, "disabled") <=> HasKey(old, "disabled")
        /\ HasKey(old, "disabled") => KeyIndex(keyed, "disabled") = KeyIndex(old, "disabled")
    <3>1. keyed.kind = old.kind
      BY <1>2, <1>4, PutKeyIs
    <3> QED  BY <1>2, <1>4, <1>5, <3>1, PutKeyInMapping, Words
  <2>2. /\ keyed.kind = old.kind /\ keyed.value = old.value
        /\ Len(keyed.content) >= Len(old.content)
        /\ \A i \in DOMAIN old.content :
              \/ keyed.content[i] = old.content[i]
              \/ /\ i - 1 \in DOMAIN old.content /\ KeyAt(old, i - 1, "keys")
                 /\ Extended(keyed.content[i], old.content[i])
    <3>1. /\ keyed.kind = old.kind /\ keyed.value = old.value
          /\ Len(keyed.content) >= Len(old.content)
          /\ \A i \in DOMAIN old.content :
                 \/ keyed.content[i] = old.content[i]
                 \/ /\ HasKey(old, "keys") /\ i - 1 \in DOMAIN old.content /\ KeyAt(old, i - 1, "keys")
                    /\ old.content[i] = ValueNode(old, "keys") /\ keyed.content[i] = written
      BY <1>2, <1>4, PutKeyEdits
    <3>2. HasKey(old, "keys") => keys = ValueNode(old, "keys")
      BY DEF EnsuredNode
    <3> HIDE DEF keyed, keys
    <3> QED  BY <1>4, <3>1, <3>2
  <2> HIDE DEF keyed, keys
  <2>3. /\ admin \in Nodes(Field) /\ admin.kind = "map" /\ Extended(admin, keyed)
        /\ HasKey(admin, "is_admin")
        /\ HasKey(admin, "keys") /\ ValueNode(admin, "keys") = written
        /\ HasKey(admin, "disabled") <=> HasKey(keyed, "disabled")
        /\ HasKey(keyed, "disabled") => KeyIndex(admin, "disabled") = KeyIndex(keyed, "disabled")
    BY <1>2, <2>1, EnsureKeyInMapping
  <2> HIDE DEF admin
  <2>4. /\ new \in Nodes(Field) /\ new.kind = "map" /\ ~HasKey(new, "disabled")
        /\ HasKey(new, "keys") /\ ValueNode(new, "keys") = written /\ HasKey(new, "is_admin")
    <3>1. admin \in RawNodes(Field)
      BY <2>3, NodesAreRaw
    <3>2. new.kind = admin.kind /\ (~HasKey(admin, "disabled") => new = admin)
      BY <3>1, RemoveKeyIs
    <3>3. CASE ~HasKey(admin, "disabled")
      BY <2>3, <3>2, <3>3
    <3>4. CASE HasKey(admin, "disabled")
      BY <2>3, <3>2, <3>4, RemoveKeyInMapping
    <3> QED  BY <3>3, <3>4
  <2>5. EditedUser(new, old)
    <3>1. /\ Len(admin.content) >= Len(old.content)
          /\ admin.kind = old.kind /\ admin.value = old.value
          /\ \A i \in DOMAIN old.content : admin.content[i] = keyed.content[i]
      <4>1. old.content \in Seq(Field) /\ keyed.content \in Seq(Field) /\ admin.content \in Seq(Field)
        BY <1>2, <2>1, <2>3, NodesAreRaw DEF RawNodes
      <4> QED  BY <2>2, <2>3, <4>1 DEF Extended
    <3>2. \A i \in DOMAIN old.content :
              \/ admin.content[i] = old.content[i]
              \/ /\ i - 1 \in DOMAIN old.content /\ KeyAt(old, i - 1, "keys")
                 /\ Extended(admin.content[i], old.content[i])
      BY <2>2, <3>1
    <3>3. admin \in RawNodes(Field)
      BY <2>3, NodesAreRaw
    <3>4. Edited(RemoveKey(admin, "disabled"), RemoveKey(old, "disabled"), "keys", Extended)
      BY <1>2, <2>1, <2>3, <3>1, <3>2, <3>3, RemoveKeyKeepsEdited
    <3> QED  BY <3>4 DEF EditedUser
  <2>6. Encode(new) = new
    BY <2>4, NodesAreWritten
  <2> QED  BY <1>1, <1>5, <2>4, <2>5, <2>6 DEF Entry, written, keys
<1>6. CASE old.kind # "map"
  <2>1. keyed \in RawNodes(Field) /\ keyed.kind = old.kind /\ keyed.value = old.value
    BY <1>2, <1>4, PutKeyIs
  <2> HIDE DEF keyed
  <2>2. admin \in RawNodes(Field) /\ admin.kind = old.kind /\ admin.value = old.value
    BY <1>2, <2>1, EnsureKeyExtends DEF Extended
  <2> HIDE DEF admin
  <2>3. new \in RawNodes(Field) /\ new.kind = old.kind /\ new.value = old.value
    BY <2>2, RemoveKeyIs
  <2> HIDE DEF new
  <2>4. CASE old.kind = "scalar"
    <3>1. Encode(new) = old
      BY <1>2, <2>3, <2>4, EncodeIs, ScalarsAreValues
    <3> QED  BY <1>1, <2>4, <3>1
  <2>5. CASE old.kind = "seq"
    <3>1. new \in Nodes(Field)
      BY <2>3, <2>5 DEF Nodes, RawNodes
    <3>2. Encode(new) = new
      BY <3>1, NodesAreWritten
    <3> QED  BY <1>1, <2>3, <2>5, <3>1, <3>2 DEF Entry
  <2> QED  BY <1>2, <1>6, <2>4, <2>5
<1> QED  BY <1>5, <1>6

\* Ensuring the user again changes nothing.
LEMMA EnsureUserSettles ==
    ASSUME NEW old \in Entry, old.kind # "seq", NEW key \in Text
    PROVE  EnsureUser(EnsureUser(old, key), key) = EnsureUser(old, key)
<1> DEFINE new == EnsureUser(old, key)
<1> DEFINE keys == EnsuredNode(old, "keys", SequenceNode(<<>>))
<1> DEFINE written == Encode(AppendUniqueScalar(keys, key))
<1>1. old.kind \in {"scalar", "map"} /\ old \in RawNodes(Field)
  BY NodesAreRaw DEF Entry, RawNodes
<1>2. CASE old.kind = "scalar"
  <2>1. new = old
    BY <1>2, EnsuredUser
  <2> QED  BY <2>1
<1>3. CASE old.kind = "map"
  <2>1. /\ new \in Entry /\ HasKey(new, "keys") /\ ValueNode(new, "keys") = written
        /\ HasKey(new, "is_admin") /\ ~HasKey(new, "disabled")
    BY <1>3, EnsuredUser
  <2>2. new \in Nodes(Field) /\ new \in RawNodes(Field)
    BY <2>1, NodesAreRaw DEF Entry
  <2>3. keys \in Field
    BY <1>1, EnsuredNodeIsThere, NewNodes DEF Field
  <2>4. Encode(AppendUniqueScalar(written, key)) = written
    BY <2>3, WrittenKeys DEF Field, Item
  <2> HIDE DEF new, written
  <2>5. EnsuredNode(new, "keys", SequenceNode(<<>>)) = written
    BY <2>1 DEF EnsuredNode
  <2>6. PutKey(new, "keys", written) = new
    BY <2>1, <2>2, PutKeySame
  <2>7. EnsureKey(new, "is_admin", Scalar("true")) = new
    <3>1. EnsuredNode(new, "is_admin", Scalar("true")) = ValueNode(new, "is_admin")
      BY <2>1 DEF EnsuredNode
    <3> QED  BY <2>1, <2>2, <3>1, PutKeySame DEF EnsureKey
  <2>8. RemoveKey(new, "disabled") = new
    BY <2>1 DEF RemoveKey
  <2>9. Encode(new) = new
    BY <2>2, NodesAreWritten
  <2>10. EnsureUser(new, key) = new
    BY <2>4, <2>5, <2>6, <2>7, <2>8, <2>9 DEF EnsureUser
  <2> QED  BY <2>10 DEF new
<1> QED  BY <1>1, <1>2, <1>3

-----------------------------------------------------------------------------
(* The file                                                                *)

\* A file that can be edited, as the mapping that its edits start from.
LEMMA Roots ==
    ASSUME NEW data \in {Missing, Syntax} \cup File, IsDocument(data)
    PROVE  LET root == EnsureDocument(data) IN
           /\ root \in File /\ root.kind = "map"
           /\ data \notin {Missing, Syntax} => root = data
           /\ data \in {Missing, Syntax} => root = MappingNode(<<>>)
<1>1. MappingNode(<<>>) \in File
  BY NewNodes DEF File
<1> QED  BY <1>1 DEF EnsureDocument, IsDocument

\* A mapping is a file that does parse.
LEMMA MappingsParse ==
    ASSUME NEW data, data.kind = "map"
    PROVE  data \notin {Missing, Syntax} /\ EnsureDocument(data) = data /\ IsDocument(data)
<1>1. data \notin {Missing, Syntax}
  BY DEF Missing, Syntax, NoNode
<1> QED  BY <1>1 DEF EnsureDocument, IsDocument

\* EnsureAdminUser, level by level: the file has the users then, and they have
\* the user, unless what is there is a scalar, which stays.
LEMMA EnsuredAdminUser ==
    ASSUME NEW data \in {Missing, Syntax} \cup File, IsDocument(data),
           NEW u \in AdminUser, NEW key \in AdminKey
    PROVE  LET root == EnsureDocument(data)
               users == EnsuredNode(root, "users", MappingNode(<<>>))
               old == EnsuredNode(users, u, MappingNode(<<>>))
               new == EnsureUser(old, key)
               edited == Encode(PutKey(users, u, new))
               r == EnsureAdminUser(data, u, key)
           IN /\ r \in File /\ r.kind = "map" /\ r = PutKey(root, "users", edited)
              /\ HasKey(r, "users") /\ ValueNode(r, "users") = edited
              /\ users \in Section /\ old \in Entry
              /\ edited \in Section /\ edited.kind = users.kind
              /\ users.kind = "scalar" => edited = users
              /\ users.kind = "map" =>
                    /\ edited = PutKey(users, u, new)
                    /\ HasKey(edited, u) /\ ValueNode(edited, u) = new
                    /\ \A w : w # u => ValueNode(edited, w) = ValueNode(users, w)
<1> DEFINE root == EnsureDocument(data)
<1> DEFINE users == EnsuredNode(root, "users", MappingNode(<<>>))
<1> DEFINE old == EnsuredNode(users, u, MappingNode(<<>>))
<1> DEFINE new == EnsureUser(old, key)
<1> DEFINE edited == Encode(PutKey(users, u, new))
<1>1. root \in Nodes(Section) /\ root.kind = "map" /\ root \in RawNodes(Section)
  BY Roots, NodesAreRaw DEF File
<1>2. /\ u \in Text /\ key \in Text /\ "users" \in Text
      /\ Scalar("users") \in Section /\ Scalar(u) \in Entry
  BY EditorAssumption, Words, NewNodes DEF Sections, Section, Entry
<1>3. EnsureAdminUser(data, u, key) = PutKey(root, "users", edited)
  BY DEF EnsureAdminUser
<1> HIDE DEF root
<1>4. users \in Nodes(Entry) /\ users \in RawNodes(Entry)
  BY <1>1, EnsuredNodeIsThere, NewNodes, NodesAreRaw DEF Section
<1> HIDE DEF users
<1>5. old \in Entry
  BY <1>4, EnsuredNodeIsThere, NewNodes DEF Entry
<1> HIDE DEF old
<1>6. new \in Entry
  BY <1>2, <1>5, EnsuredUser
<1> HIDE DEF new
<1>7. /\ edited \in Nodes(Entry) /\ edited.kind = users.kind
      /\ users.kind = "scalar" => edited = users
      /\ users.kind # "scalar" => edited = PutKey(users, u, new)
  BY <1>2, <1>4, <1>6, WrittenPutKey
<1>8. users.kind = "map" =>
        /\ HasKey(PutKey(users, u, new), u) /\ ValueNode(PutKey(users, u, new), u) = new
        /\ \A w : w # u => ValueNode(PutKey(users, u, new), w) = ValueNode(users, w)
  BY <1>2, <1>4, <1>6, PutKeyInMapping
<1> HIDE DEF edited
<1>9. /\ PutKey(root, "users", edited) \in Nodes(Section)
      /\ HasKey(PutKey(root, "users", edited), "users")
      /\ ValueNode(PutKey(root, "users", edited), "users") = edited
  BY <1>1, <1>2, <1>7, PutKeyInMapping DEF Section
<1>10. PutKey(root, "users", edited).kind = root.kind
  BY <1>1, <1>2, <1>7, PutKeyIs DEF Section
<1> QED  BY <1>1, <1>3, <1>4, <1>5, <1>7, <1>8, <1>9, <1>10
         DEF root, users, old, new, edited, File, Section

\* EnsureAdminUser settles, where the users and the user are no lists.
LEMMA AdminUserSettles ==
    ASSUME NEW data \in {Missing, Syntax} \cup File, IsDocument(data),
           NEW u \in AdminUser, NEW key \in AdminKey,
           LET r == EnsureAdminUser(data, u, key) IN
           /\ ValueNode(r, "users").kind # "seq"
           /\ ValueNode(ValueNode(r, "users"), u).kind # "seq"
    PROVE  LET r == EnsureAdminUser(data, u, key) IN EnsureAdminUser(r, u, key) = r
<1> DEFINE root == EnsureDocument(data)
<1> DEFINE users == EnsuredNode(root, "users", MappingNode(<<>>))
<1> DEFINE old == EnsuredNode(users, u, MappingNode(<<>>))
<1> DEFINE new == EnsureUser(old, key)
<1> DEFINE edited == Encode(PutKey(users, u, new))
<1> DEFINE r == EnsureAdminUser(data, u, key)
<1>1. /\ r \in File /\ r.kind = "map"
      /\ HasKey(r, "users") /\ ValueNode(r, "users") = edited
      /\ users \in Section /\ old \in Entry
      /\ edited \in Section /\ edited.kind = users.kind
      /\ users.kind = "scalar" => edited = users
      /\ users.kind = "map" =>
            /\ edited = PutKey(users, u, new)
            /\ HasKey(edited, u) /\ ValueNode(edited, u) = new
  BY EnsuredAdminUser
<1>2. ValueNode(r, "users").kind # "seq" /\ ValueNode(ValueNode(r, "users"), u).kind # "seq"
  OBVIOUS
<1>3. key \in Text /\ u \in Text /\ Scalar(u) \in Entry
  BY EditorAssumption, NewNodes DEF Entry
<1>4. users \in Nodes(Entry)
  BY <1>1 DEF Section
<1>5. old.kind # "seq" => EnsureUser(new, key) = new
  BY <1>1, <1>3, EnsureUserSettles
<1>6. new \in Entry /\ new.kind = old.kind
  BY <1>1, <1>3, EnsuredUser
<1>7. MappingNode(<<>>) \in Entry
  BY NewNodes DEF Entry
<1> HIDE DEF r, users, old, new, edited, root
<1>8. EnsureDocument(r) = r
  BY <1>1, MappingsParse
<1>9. EnsuredNode(r, "users", MappingNode(<<>>)) = edited
  BY <1>1 DEF EnsuredNode
<1>10. PutKey(r, "users", edited) = r
  <2>1. r \in RawNodes(Section)
    BY <1>1, NodesAreRaw DEF File
  <2> QED  BY <1>1, <2>1, PutKeySame
<1>11. edited.kind \in {"scalar", "map"} /\ edited \in Nodes(Entry) /\ edited \in RawNodes(Entry)
  BY <1>1, <1>2, NodesAreRaw DEF Section, RawNodes
<1> DEFINE again == EnsureUser(EnsuredNode(edited, u, MappingNode(<<>>)), key)
<1>12. Encode(PutKey(edited, u, again)) = edited
  <2>1. CASE edited.kind = "scalar"
    <3>1. EnsuredNode(edited, u, MappingNode(<<>>)) \in Entry
      BY <1>7, <1>11, EnsuredNodeIsThere
    <3>2. again \in Entry
      BY <1>3, <3>1, EnsuredUser
    <3> HIDE DEF again
    <3> QED  BY <1>3, <1>11, <2>1, <3>2, PutKeyInScalar
  <2>2. CASE edited.kind = "map"
    <3>1. HasKey(edited, u) /\ ValueNode(edited, u) = new
      BY <1>1, <2>2
    <3>2. old.kind # "seq"
      BY <1>1, <1>2, <1>6, <3>1
    <3>3. again = new
      BY <1>5, <3>1, <3>2 DEF EnsuredNode
    <3> HIDE DEF again
    <3>4. PutKey(edited, u, again) = edited
      BY <1>11, <3>1, <3>3, PutKeySame
    <3> QED  BY <1>11, <3>4, NodesAreWritten
  <2> QED  BY <1>11, <2>1, <2>2
<1>13. EnsureAdminUser(r, u, key) = r
  BY <1>8, <1>9, <1>10, <1>12 DEF EnsureAdminUser
<1> QED  BY <1>13 DEF r

\* The sections are all there then, and where they were nothing changes.
LEMMA EnsuredSections ==
    ASSUME NEW root \in File, root.kind = "map"
    PROVE  LET r == EnsureSections(root) IN
           /\ r \in File /\ r.kind = "map" /\ Extended(r, root)
           /\ \A name \in Sections : HasKey(r, name)
           /\ (\A name \in Sections : HasKey(root, name)) => r = root
           /\ ValueNode(r, "users") = EnsuredNode(root, "users", MappingNode(<<>>))
<1> DEFINE With(n, name) == EnsureKey(n, name, MappingNode(<<>>))
<1>1. ASSUME NEW n \in File, n.kind = "map", NEW name \in Sections
      PROVE  /\ With(n, name) \in File /\ With(n, name).kind = "map" /\ Extended(With(n, name), n)
             /\ HasKey(n, name) => With(n, name) = n
             /\ HasKey(With(n, name), name)
             /\ ValueNode(With(n, name), name) = EnsuredNode(n, name, MappingNode(<<>>))
             /\ \A k : k # name =>
                   /\ HasKey(With(n, name), k) <=> HasKey(n, k)
                   /\ ValueNode(With(n, name), k) = ValueNode(n, k)
  <2>1. name \in Text /\ Scalar(name) \in Section /\ MappingNode(<<>>) \in Section
    BY Words, NewNodes DEF Section
  <2> QED  BY <1>1, <2>1, EnsureKeyInMapping DEF File
<1>2. ASSUME NEW n \in File  PROVE n \in RawNodes(Section)
  BY NodesAreRaw DEF File
<1> DEFINE a == With(root, "invites")
<1> DEFINE b == With(a, "users")
<1> DEFINE c == With(b, "groups")
<1> DEFINE r == With(c, "orgs")
<1>3. EnsureSections(root) = r
  BY DEF EnsureSections
<1> HIDE DEF With
<1>4. Sections = {"invites", "users", "groups", "orgs"}
  BY DEF Sections
<1>5. /\ a \in File /\ a.kind = "map" /\ Extended(a, root)
      /\ HasKey(root, "invites") => a = root
      /\ HasKey(a, "invites") /\ ValueNode(a, "users") = ValueNode(root, "users")
      /\ \A name \in Sections \ {"invites"} : HasKey(a, name) <=> HasKey(root, name)
  BY <1>1, <1>4
<1> HIDE DEF a
<1>6. /\ b \in File /\ b.kind = "map" /\ Extended(b, a)
      /\ HasKey(a, "users") => b = a
      /\ HasKey(b, "users") /\ ValueNode(b, "users") = EnsuredNode(a, "users", MappingNode(<<>>))
      /\ \A name \in Sections \ {"users"} : HasKey(b, name) <=> HasKey(a, name)
  BY <1>1, <1>4, <1>5
<1> HIDE DEF b
<1>7. /\ c \in File /\ c.kind = "map" /\ Extended(c, b)
      /\ HasKey(b, "groups") => c = b
      /\ HasKey(c, "groups") /\ ValueNode(c, "users") = ValueNode(b, "users")
      /\ \A name \in Sections \ {"groups"} : HasKey(c, name) <=> HasKey(b, name)
  BY <1>1, <1>4, <1>6
<1> HIDE DEF c
<1>8. /\ r \in File /\ r.kind = "map" /\ Extended(r, c)
      /\ HasKey(c, "orgs") => r = c
      /\ HasKey(r, "orgs") /\ ValueNode(r, "users") = ValueNode(c, "users")
      /\ \A name \in Sections \ {"orgs"} : HasKey(r, name) <=> HasKey(c, name)
  BY <1>1, <1>4, <1>7
<1> HIDE DEF r
<1>9. \A name \in Sections : HasKey(r, name)
  BY <1>4, <1>5, <1>6, <1>7, <1>8
<1>10. (\A name \in Sections : HasKey(root, name)) => r = root
  BY <1>4, <1>5, <1>6, <1>7, <1>8
<1>11. EnsuredNode(a, "users", MappingNode(<<>>)) = EnsuredNode(root, "users", MappingNode(<<>>))
  BY <1>4, <1>5 DEF EnsuredNode
<1>12. Extended(r, root)
  <2>1. Extended(b, root)
    BY <1>2, <1>5, <1>6, ExtendedIsTransitive
  <2>2. Extended(c, root)
    BY <1>2, <1>6, <1>7, <2>1, ExtendedIsTransitive
  <2> QED  BY <1>2, <1>7, <1>8, <2>2, ExtendedIsTransitive
<1> QED  BY <1>3, <1>6, <1>7, <1>8, <1>9, <1>10, <1>11, <1>12

\* What is in the options stays, and a list or nothing stays what it is.
LEMMA AddedOptions ==
    ASSUME NEW options \in Section
    PROVE  LET r == Encode(AddOptions(options)) IN
           r \in Section /\ Extended(r, options)
<1> DEFINE With(n, name) == EnsureKey(n, name, Scalar("default"))
<1> DEFINE Good(n) ==
      /\ n \in RawNodes(Entry) /\ Extended(n, options)
      /\ options.kind # "scalar" => n \in Nodes(Entry)
<1>1. ASSUME NEW n, Good(n), NEW name \in SampleOptions
      PROVE  Good(With(n, name))
  <2>1. name \in Text /\ Scalar(name) \in Entry /\ Scalar("default") \in Entry
    BY Words DEF Entry
  <2>2. With(n, name) \in RawNodes(Entry) /\ Extended(With(n, name), n)
    BY <1>1, <2>1, EnsureKeyExtends
  <2>3. options \in RawNodes(Entry)
    BY NodesAreRaw DEF Section
  <2>4. Extended(With(n, name), options)
    BY <1>1, <2>2, <2>3, ExtendedIsTransitive
  <2>5. ASSUME options.kind # "scalar"  PROVE With(n, name) \in Nodes(Entry)
    <3>1. n.kind \in {"map", "seq"} /\ n \in Nodes(Entry)
      BY <1>1, <2>3, <2>5 DEF Extended, RawNodes
    <3>2. CASE n.kind = "map"
      BY <2>1, <3>1, <3>2, EnsureKeyInMapping
    <3>3. CASE n.kind = "seq"
      <4>1. With(n, name).kind = "seq"
        BY <2>2, <3>3 DEF Extended
      <4> QED  BY <2>2, <4>1 DEF Nodes, RawNodes
    <3> QED  BY <3>1, <3>2, <3>3
  <2> QED  BY <2>2, <2>4, <2>5
<1>2. Good(options)
  BY NodesAreRaw, ExtendedIsReflexive DEF Section
<1> HIDE DEF Good
<1> DEFINE named == With(With(With(With(options, "git_user"), "org_prefix"), "user_prefix"), "invite_prefix")
<1> DEFINE r == With(With(With(With(named, "implicit_repos"), "user_config_keys"), "user_config_repos"), "org_config_repos")
<1>3. AddOptions(options) = r
  BY DEF AddOptions
<1>4. SampleOptions =
        {"git_user", "org_prefix", "user_prefix", "invite_prefix", "implicit_repos",
         "user_config_keys", "user_config_repos", "org_config_repos"}
  BY DEF SampleOptions
<1> HIDE DEF With
<1>5. Good(named)
  <2>1. Good(With(options, "git_user"))
    BY <1>1, <1>2, <1>4
  <2>2. Good(With(With(options, "git_user"), "org_prefix"))
    BY <1>1, <1>4, <2>1
  <2>3. Good(With(With(With(options, "git_user"), "org_prefix"), "user_prefix"))
    BY <1>1, <1>4, <2>2
  <2> QED  BY <1>1, <1>4, <2>3
<1> HIDE DEF named
<1>6. Good(r)
  <2>1. Good(With(named, "implicit_repos"))
    BY <1>1, <1>4, <1>5
  <2>2. Good(With(With(named, "implicit_repos"), "user_config_keys"))
    BY <1>1, <1>4, <2>1
  <2>3. Good(With(With(With(named, "implicit_repos"), "user_config_keys"), "user_config_repos"))
    BY <1>1, <1>4, <2>2
  <2> QED  BY <1>1, <1>4, <2>3
<1> HIDE DEF r
<1>7. r \in RawNodes(Entry) /\ Extended(r, options) /\ (options.kind # "scalar" => r \in Nodes(Entry))
  BY <1>6 DEF Good
<1>8. CASE options.kind = "scalar"
  <2>1. r.kind = "scalar" /\ r.value = options.value
    BY <1>7, <1>8 DEF Extended
  <2>2. Encode(r) = Scalar(options.value)
    BY <1>7, <2>1, EncodeIs
  <2>3. Encode(r) = options
    BY <1>8, <2>2, ScalarsAreValues DEF Section
  <2>4. Extended(options, options)
    BY ExtendedIsReflexive, NodesAreRaw DEF Section
  <2> QED  BY <1>3, <2>3, <2>4
<1>9. CASE options.kind # "scalar"
  <2>1. Encode(r) = r
    BY <1>7, <1>9, NodesAreWritten
  <2> QED  BY <1>3, <1>7, <1>9, <2>1 DEF Section
<1> QED  BY <1>8, <1>9

\* A file that is completed is one that parses, has all sections, keeps what it
\* had, and is complete from then on.
LEMMA CompletedFile ==
    ASSUME NEW data \in {Missing, Syntax} \cup File, IsDocument(data)
    PROVE  LET r == EnsureSampleConfig(data)
               root == EnsureDocument(data)
           IN /\ r \in File /\ r.kind = "map"
              /\ HasKey(r, "users")
              /\ ValueNode(r, "users") = EnsuredNode(root, "users", MappingNode(<<>>))
              /\ data \notin {Missing, Syntax} => Edited(r, data, "options", Extended)
              /\ EnsureSampleConfig(r) = r
<1> DEFINE root == EnsureDocument(data)
<1> DEFINE sections == EnsureSections(root)
<1> DEFINE options == EnsuredNode(sections, "options", MappingNode(<<>>))
<1> DEFINE added == Encode(AddOptions(options))
<1> DEFINE full == PutKey(sections, "options", added)
<1> DEFINE r == EnsureSampleConfig(data)
<1>1. /\ root \in File /\ root.kind = "map"
      /\ data \notin {Missing, Syntax} => root = data
      /\ data \in {Missing, Syntax} => root = MappingNode(<<>>)
  BY Roots
<1>2. r = IF sections = root THEN data ELSE full
  BY DEF EnsureSampleConfig, EnsureSampleOptions
<1> HIDE DEF root
<1>3. /\ sections \in File /\ sections.kind = "map" /\ Extended(sections, root)
      /\ \A name \in Sections : HasKey(sections, name)
      /\ ValueNode(sections, "users") = EnsuredNode(root, "users", MappingNode(<<>>))
  BY <1>1, EnsuredSections
<1>4. "users" \in Sections /\ "options" \notin Sections
  BY DEF Sections
<1> HIDE DEF sections
<1>5. sections \in Nodes(Section) /\ sections \in RawNodes(Section)
  BY <1>3, NodesAreRaw DEF File
<1>6. options \in Section
  BY <1>5, EnsuredNodeIsThere, NewNodes DEF Section
<1>7. "options" \in Text /\ Scalar("options") \in Section
  BY Words DEF Section
<1> HIDE DEF options
<1>8. added \in Section /\ Extended(added, options)
  BY <1>6, AddedOptions
<1> HIDE DEF added
<1>9. /\ full \in File
      /\ \A k : k # "options" =>
            /\ HasKey(full, k) <=> HasKey(sections, k)
            /\ ValueNode(full, k) = ValueNode(sections, k)
  BY <1>3, <1>5, <1>7, <1>8, PutKeyInMapping DEF File
<1>10. /\ full.kind = sections.kind /\ full.value = sections.value
       /\ Len(full.content) >= Len(sections.content)
       /\ \A i \in DOMAIN sections.content :
                 \/ full.content[i] = sections.content[i]
                 \/ /\ HasKey(sections, "options") /\ i - 1 \in DOMAIN sections.content
                    /\ KeyAt(sections, i - 1, "options")
                    /\ sections.content[i] = ValueNode(sections, "options") /\ full.content[i] = added
  BY <1>5, <1>7, <1>8, PutKeyEdits
<1> HIDE DEF full
<1>11. CASE sections = root
  <2>1. HasKey(root, "users")
    BY <1>3, <1>4, <1>11
  <2>2. data \notin {Missing, Syntax} /\ root = data
    BY <1>1, <2>1, EmptyHasNoKeys DEF MappingNode
  <2>3. r = root
    BY <1>2, <1>11, <2>2
  <2>4. EnsureSampleConfig(r) = r
    BY <1>2, <1>11, <2>2
  <2>5. Edited(root, root, "options", Extended)
    BY <1>5, <1>11 DEF Edited, RawNodes
  <2> QED  BY <1>1, <1>3, <1>11, <2>1, <2>2, <2>3, <2>4, <2>5 DEF root
<1>12. CASE sections # root
  <2>1. r = full
    BY <1>2, <1>12
  <2>2. \A name \in Sections : HasKey(full, name)
    BY <1>3, <1>4, <1>9
  <2>3. full.kind = "map"
    BY <1>3, <1>10
  <2>4. EnsureDocument(full) = full
    BY <2>3, MappingsParse
  <2>5. EnsureSections(full) = full
    BY <1>9, <2>2, <2>3, EnsuredSections
  <2>6. EnsureSampleConfig(full) = full
    BY <2>4, <2>5 DEF EnsureSampleConfig
  <2>7. HasKey(full, "users") /\ ValueNode(full, "users") = EnsuredNode(root, "users", MappingNode(<<>>))
    BY <1>3, <1>4, <1>9
  <2>8. Edited(full, root, "options", Extended)
    <3>1. /\ root.content \in Seq(Section) /\ sections.content \in Seq(Section)
          /\ full.content \in Seq(Section)
      BY <1>1, <1>3, <1>9, NodesAreRaw DEF File, RawNodes
    <3>2. /\ full.kind = root.kind /\ full.value = root.value
          /\ Len(full.content) >= Len(root.content)
      BY <1>3, <1>10, <3>1 DEF Extended
    <3>3. ASSUME NEW i \in DOMAIN root.content, full.content[i] # root.content[i]
          PROVE  KeyAt(root, i - 1, "options") /\ Extended(full.content[i], root.content[i])
      <4>1. i \in DOMAIN sections.content /\ sections.content[i] = root.content[i]
        BY <1>3, <3>1 DEF Extended
      <4>2. /\ HasKey(sections, "options") /\ i - 1 \in DOMAIN sections.content
            /\ KeyAt(sections, i - 1, "options")
            /\ sections.content[i] = ValueNode(sections, "options") /\ full.content[i] = added
        BY <1>10, <3>3, <4>1
      <4>3. options = ValueNode(sections, "options")
        BY <4>2 DEF options, EnsuredNode
      <4>4. i - 1 \in DOMAIN root.content
        BY <3>1, <4>2
      <4>5. sections.content[i - 1] = root.content[i - 1]
        BY <1>3, <4>4 DEF Extended
      <4> QED  BY <1>8, <4>1, <4>2, <4>3, <4>5 DEF KeyAt
    <3> QED  BY <3>2, <3>3 DEF Edited
  <2> QED  BY <1>1, <1>9, <2>1, <2>3, <2>6, <2>7, <2>8 DEF root
<1> QED  BY <1>11, <1>12

\* What the users keep when one of them is ensured.
LEMMA UsersAreKept ==
    ASSUME NEW users \in Section, users.kind # "seq", NEW u \in AdminUser, NEW key \in AdminKey,
           ValueNode(users, u).kind # "seq"
    PROVE  LET old == EnsuredNode(users, u, MappingNode(<<>>))
               edited == Encode(PutKey(users, u, EnsureUser(old, key)))
           IN Edited(edited, users, u, EditedUser)
<1> DEFINE old == EnsuredNode(users, u, MappingNode(<<>>))
<1> DEFINE new == EnsureUser(old, key)
<1> DEFINE edited == PutKey(users, u, new)
<1>1. /\ users \in Nodes(Entry) /\ users \in RawNodes(Entry) /\ users.kind \in {"scalar", "map"}
      /\ u \in Text /\ key \in Text /\ Scalar(u) \in Entry
  BY EditorAssumption, NewNodes, NodesAreRaw DEF Section, Entry, RawNodes
<1>2. old \in Entry
  BY <1>1, EnsuredNodeIsThere, NewNodes DEF Entry
<1>3. /\ new \in Entry
      /\ old.kind = "scalar" => new = old
      /\ old.kind = "map" => EditedUser(new, old)
  BY <1>1, <1>2, EnsuredUser
<1> HIDE DEF new
<1>4. CASE users.kind = "scalar"
  <2>1. Encode(edited) = users
    BY <1>1, <1>3, <1>4, PutKeyInScalar
  <2>2. Edited(users, users, u, EditedUser)
    BY <1>1 DEF Edited, RawNodes
  <2> QED  BY <2>1, <2>2 DEF new
<1>5. CASE users.kind = "map"
  <2>1. Encode(edited) = edited
    BY <1>1, <1>3, <1>5, WrittenPutKey
  <2>2. /\ edited.kind = users.kind /\ edited.value = users.value
        /\ Len(edited.content) >= Len(users.content)
        /\ \A i \in DOMAIN users.content :
                 \/ edited.content[i] = users.content[i]
                 \/ /\ HasKey(users, u) /\ i - 1 \in DOMAIN users.content /\ KeyAt(users, i - 1, u)
                    /\ users.content[i] = ValueNode(users, u) /\ edited.content[i] = new
    BY <1>1, <1>3, PutKeyEdits
  <2> HIDE DEF edited
  <2>3. ASSUME NEW i \in DOMAIN users.content, edited.content[i] # users.content[i]
        PROVE  KeyAt(users, i - 1, u) /\ EditedUser(edited.content[i], users.content[i])
    <3>1. /\ HasKey(users, u) /\ KeyAt(users, i - 1, u)
          /\ users.content[i] = ValueNode(users, u) /\ edited.content[i] = new
      BY <2>2, <2>3
    <3>2. old = ValueNode(users, u)
      BY <3>1 DEF EnsuredNode
    <3> HIDE DEF old
    <3>3. old.kind \in {"scalar", "map"}
      BY <1>2, <3>2 DEF Entry, Nodes
    <3> QED  BY <1>3, <2>3, <3>1, <3>2, <3>3
  <2>4. Edited(edited, users, u, EditedUser)
    BY <2>2, <2>3 DEF Edited
  <2> QED  BY <2>1, <2>4 DEF edited, new
<1> QED  BY <1>1, <1>4, <1>5

-----------------------------------------------------------------------------
(* The steps                                                               *)

\* The file is none that could not be made of one that a person wrote.
FileOK == file \in {Missing, Syntax} \cup File

\* What was done last, of the things there are to do.
LEMMA Doings ==
    ASSUME NEW u, NEW k
    PROVE  <<u, k>> # <<"wrote">> /\ <<u, k>> # <<"completed">> /\ <<"wrote">> # <<"completed">>
<1>1. Len(<<u, k>>) = 2 /\ Len(<<"wrote">>) = 1 /\ Len(<<"completed">>) = 1
  OBVIOUS
<1> QED  BY <1>1

\* A step completes the file or ensures a user, and its files stay files.
LEMMA Steps ==
    ASSUME FileOK, Next
    PROVE  /\ FileOK'
           /\ \/ IsDocument(file) /\ file' = EnsureSampleConfig(file) /\ did' = <<"completed">>
              \/ /\ IsDocument(file)
                 /\ \E u \in AdminUser, k \in AdminKey :
                       file' = EnsureAdminUser(file, u, k) /\ did' = <<u, k>>
              \/ UNCHANGED vars
<1>1. CASE EnsureConfigStep
  BY <1>1, CompletedFile DEF EnsureConfigStep, FileOK
<1>2. CASE EnsureAdminUserStep
  <2>1. PICK u \in AdminUser, k \in AdminKey :
          file' = EnsureAdminUser(file, u, k) /\ did' = <<u, k>>
    BY <1>2 DEF EnsureAdminUserStep
  <2>2. IsDocument(file)
    BY <1>2 DEF EnsureAdminUserStep
  <2>3. file' \in File
    BY <2>1, <2>2, EnsuredAdminUser DEF FileOK
  <2> QED  BY <2>1, <2>2, <2>3 DEF FileOK
<1>3. CASE Refuse
  BY <1>3 DEF Refuse, FileOK, vars
<1> QED  BY <1>1, <1>2, <1>3 DEF Next

\* What is in config.yml is a file or no YAML at all, whatever is done to it.
LEMMA FileAlways == Spec => []FileOK
<1>1. Init => FileOK
  BY EditorAssumption DEF Init, FileOK
<1>2. FileOK /\ [Next]_vars => FileOK'
  <2>1. CASE Next
    BY <2>1, Steps
  <2>2. CASE UNCHANGED vars
    BY <2>2 DEF vars, FileOK
  <2> QED  BY <2>1, <2>2
<1> QED  BY <1>1, <1>2, PTL DEF Spec

\* A step that keeps what is written.
LEMMA KeepsStep ==
    ASSUME FileOK, Next, vars' # vars, file \notin {Missing, Syntax}
    PROVE  /\ did' = <<"completed">> => Edited(file', file, "options", Extended)
           /\ \A u \in AdminUser, k \in AdminKey : did' = <<u, k>> /\ Fits(u) =>
                 Edited(file', file, "users", LAMBDA n, old : Edited(n, old, u, EditedUser))
<1>1. CASE IsDocument(file) /\ file' = EnsureSampleConfig(file) /\ did' = <<"completed">>
  <2>1. Edited(file', file, "options", Extended)
    BY <1>1, CompletedFile DEF FileOK
  <2> QED  BY <1>1, <2>1, Doings
<1>2. CASE /\ IsDocument(file)
           /\ \E u \in AdminUser, k \in AdminKey :
                 file' = EnsureAdminUser(file, u, k) /\ did' = <<u, k>>
  <2>1. PICK u \in AdminUser, k \in AdminKey :
          file' = EnsureAdminUser(file, u, k) /\ did' = <<u, k>>
    BY <1>2
  <2>2. did' # <<"completed">>
    BY <2>1, Doings
  <2>3. ASSUME NEW w \in AdminUser, NEW l \in AdminKey, did' = <<w, l>>, Fits(w)
        PROVE  Edited(file', file, "users", LAMBDA n, old : Edited(n, old, w, EditedUser))
    <3>1. u = w /\ Fits(u)
      BY <2>1, <2>3
    <3> DEFINE users == EnsuredNode(file, "users", MappingNode(<<>>))
    <3> DEFINE old == EnsuredNode(users, u, MappingNode(<<>>))
    <3> DEFINE edited == Encode(PutKey(users, u, EnsureUser(old, k)))
    <3>2. EnsureDocument(file) = file /\ file \in File
      BY DEF EnsureDocument, FileOK
    <3>3. /\ file' = PutKey(file, "users", edited)
          /\ users \in Section /\ edited \in Section
      BY <1>2, <2>1, <3>2, EnsuredAdminUser DEF FileOK
    <3>4. "users" \in Text /\ Scalar("users") \in Section /\ file \in RawNodes(Section)
      BY <3>2, Words, NodesAreRaw DEF Sections, Section, File
    <3>5. HasKey(file, "users") => Edited(edited, users, u, EditedUser)
      <4> SUFFICES ASSUME HasKey(file, "users")  PROVE Edited(edited, users, u, EditedUser)
        OBVIOUS
      <4>1. users = ValueNode(file, "users")
        BY DEF EnsuredNode
      <4>2. users.kind # "seq" /\ ValueNode(users, u).kind # "seq"
        BY <3>1, <4>1 DEF Fits, UserNode
      <4> QED  BY <3>3, <4>2, UsersAreKept
    <3> HIDE DEF edited
    <3>6. /\ file'.kind = file.kind /\ file'.value = file.value
          /\ Len(file'.content) >= Len(file.content)
          /\ \A i \in DOMAIN file.content :
                 \/ file'.content[i] = file.content[i]
                 \/ /\ HasKey(file, "users") /\ i - 1 \in DOMAIN file.content
                    /\ KeyAt(file, i - 1, "users")
                    /\ file.content[i] = ValueNode(file, "users") /\ file'.content[i] = edited
      BY <3>3, <3>4, PutKeyEdits
    <3>7. HasKey(file, "users") => users = ValueNode(file, "users")
      BY DEF EnsuredNode
    <3> HIDE DEF users
    <3>8. \A i \in DOMAIN file.content :
             \/ file'.content[i] = file.content[i]
             \/ /\ KeyAt(file, i - 1, "users")
                /\ Edited(file'.content[i], file.content[i], u, EditedUser)
      BY <3>5, <3>6, <3>7
    <3>9. Edited(file', file, "users", LAMBDA n, o : Edited(n, o, w, EditedUser))
      BY <3>1, <3>6, <3>8 DEF Edited
    <3> QED  BY <3>9
  <2> QED  BY <2>2, <2>3
<1> QED  BY <1>1, <1>2, Steps

\* Nothing in a file that can be loaded is lost, changed or moved when the server
\* completes it (ensureSampleConfig) or ensures its admin user (ensureAdminUser).
THEOREM WhatIsWrittenIsKept == Spec => KeepsWhatIsWritten
<1>1. FileOK /\ [Next]_vars =>
        [file \notin {Missing, Syntax} =>
           /\ did' = <<"completed">> => Edited(file', file, "options", Extended)
           /\ \A u \in AdminUser, k \in AdminKey : did' = <<u, k>> /\ Fits(u) =>
                 Edited(file', file, "users", LAMBDA n, old : Edited(n, old, u, EditedUser))]_vars
  BY KeepsStep
<1> QED  BY <1>1, FileAlways, PTL DEF Spec, KeepsWhatIsWritten

\* A step whose edit settles.
LEMMA SettlesStep ==
    ASSUME FileOK, Next, vars' # vars
    PROVE  /\ did' = <<"completed">> => EnsureSampleConfig(file') = file'
           /\ \A u \in AdminUser, k \in AdminKey :
                 did' = <<u, k>> /\ Fits(u)' => EnsureAdminUser(file', u, k) = file'
<1>1. CASE IsDocument(file) /\ file' = EnsureSampleConfig(file) /\ did' = <<"completed">>
  <2>1. EnsureSampleConfig(file') = file'
    BY <1>1, CompletedFile DEF FileOK
  <2> QED  BY <1>1, <2>1, Doings
<1>2. CASE /\ IsDocument(file)
           /\ \E u \in AdminUser, k \in AdminKey :
                 file' = EnsureAdminUser(file, u, k) /\ did' = <<u, k>>
  <2>1. PICK u \in AdminUser, k \in AdminKey :
          file' = EnsureAdminUser(file, u, k) /\ did' = <<u, k>>
    BY <1>2
  <2>2. did' # <<"completed">>
    BY <2>1, Doings
  <2>3. ASSUME NEW w \in AdminUser, NEW l \in AdminKey, did' = <<w, l>>, Fits(w)'
        PROVE  EnsureAdminUser(file', w, l) = file'
    <3>1. u = w /\ k = l
      BY <2>1, <2>3
    <3>2. /\ ValueNode(file', "users").kind # "seq"
          /\ ValueNode(ValueNode(file', "users"), u).kind # "seq"
      BY <2>3, <3>1 DEF Fits, UserNode
    <3>3. EnsureAdminUser(EnsureAdminUser(file, u, k), u, k) = EnsureAdminUser(file, u, k)
      BY <1>2, <2>1, <3>2, AdminUserSettles DEF FileOK
    <3> QED  BY <2>1, <3>1, <3>3
  <2> QED  BY <2>2, <2>3
<1> QED  BY <1>1, <1>2, Steps

\* What the server has made of the file it leaves alone the next time, whatever
\* the file was: no reload without an edit has anything to commit.
THEOREM EditsSettle == Spec => EnsuringSettles
<1>1. FileOK /\ [Next]_vars =>
        [/\ did' = <<"completed">> => EnsureSampleConfig(file') = file'
         /\ \A u \in AdminUser, k \in AdminKey :
               did' = <<u, k>> /\ Fits(u)' => EnsureAdminUser(file', u, k) = file']_vars
  BY SettlesStep
<1> QED  BY <1>1, FileAlways, PTL DEF Spec, EnsuringSettles

-----------------------------------------------------------------------------
(* The admin user                                                          *)

\* Neither the users, nor one of the admin users, nor the keys of one are named
\* and left empty: what is put into such a null is not written.
NoneEmpty(users) ==
    /\ users.kind # "scalar"
    /\ users.kind = "map" =>
          \A u \in AdminUser :
             /\ ValueNode(users, u).kind # "scalar"
             /\ ValueNode(users, u).kind = "map" =>
                   ValueNode(ValueNode(users, u), "keys").kind # "scalar"

FileNotEmpty == NoneEmpty(ValueNode(file, "users"))

\* What is not there is not left empty.
LEMMA NewIsNotEmpty == NoneEmpty(NoNode) /\ NoneEmpty(MappingNode(<<>>))
<1>1. NoNode.kind = "none"
  BY DEF NoNode
<1>2. MappingNode(<<>>).kind = "map" /\ MappingNode(<<>>).content = <<>>
  BY DEF MappingNode
<1>3. \A u : ValueNode(MappingNode(<<>>), u) = NoNode
  BY <1>2, EmptyHasNoKeys
<1> QED  BY <1>1, <1>2, <1>3 DEF NoneEmpty

\* Nor are then the users that the server finds or adds.
LEMMA UsersAreNotEmpty ==
    ASSUME FileOK, FileNotEmpty, IsDocument(file)
    PROVE  NoneEmpty(EnsuredNode(EnsureDocument(file), "users", MappingNode(<<>>)))
<1>1. CASE HasKey(EnsureDocument(file), "users")
  <2>1. EnsureDocument(file) = file
    BY <1>1, EmptyHasNoKeys DEF EnsureDocument, MappingNode
  <2> QED  BY <1>1, <2>1 DEF EnsuredNode, FileNotEmpty
<1>2. CASE ~HasKey(EnsureDocument(file), "users")
  BY <1>2, NewIsNotEmpty DEF EnsuredNode
<1> QED  BY <1>1, <1>2

\* EnsureAdminUser leaves nothing empty that was not, and the user has the key.
LEMMA UserIsThere ==
    ASSUME FileOK, FileNotEmpty, IsDocument(file),
           NEW u \in AdminUser, NEW k \in AdminKey, file' = EnsureAdminUser(file, u, k)
    PROVE  /\ FileNotEmpty'
           /\ Fits(u)' => Lists(ValueNode(UserNode(u)', "keys"), k) /\ ~HasKey(UserNode(u)', "disabled")
<1> DEFINE root == EnsureDocument(file)
<1> DEFINE users == EnsuredNode(root, "users", MappingNode(<<>>))
<1> DEFINE old == EnsuredNode(users, u, MappingNode(<<>>))
<1> DEFINE new == EnsureUser(old, k)
<1> DEFINE edited == Encode(PutKey(users, u, new))
<1> DEFINE keys == EnsuredNode(old, "keys", SequenceNode(<<>>))
<1> DEFINE written == Encode(AppendUniqueScalar(keys, k))
<1>1. /\ ValueNode(file', "users") = edited
      /\ users \in Section /\ old \in Entry
      /\ edited \in Section /\ edited.kind = users.kind
      /\ users.kind = "map" =>
            /\ ValueNode(edited, u) = new
            /\ \A w : w # u => ValueNode(edited, w) = ValueNode(users, w)
  BY EnsuredAdminUser DEF FileOK
<1>2. NoneEmpty(users)
  BY UsersAreNotEmpty
<1>3. k \in Text /\ users.kind \in {"map", "seq"}
  BY <1>1, <1>2, EditorAssumption DEF NoneEmpty, Section, Nodes
<1>4. CASE users.kind = "seq"
  <2> HIDE DEF edited, users
  <2>1. edited.kind = "seq"
    BY <1>1, <1>4
  <2> QED  BY <1>1, <2>1 DEF FileNotEmpty, NoneEmpty, Fits
<1>5. CASE users.kind = "map"
  <2>1. /\ new \in Entry /\ new.kind = old.kind
        /\ old.kind = "map" =>
              ValueNode(new, "keys") = written /\ ~HasKey(new, "disabled")
    BY <1>1, <1>3, EnsuredUser
  <2>2. /\ old.kind # "scalar"
        /\ old.kind = "map" /\ HasKey(old, "keys") => ValueNode(old, "keys").kind # "scalar"
    <3>1. CASE HasKey(users, u)
      BY <1>2, <1>5, <3>1 DEF EnsuredNode, NoneEmpty
    <3>2. CASE ~HasKey(users, u)
      <4>1. old = MappingNode(<<>>)
        BY <3>2 DEF EnsuredNode
      <4> HIDE DEF old
      <4>2. old.kind = "map" /\ old.content = <<>>
        BY <4>1 DEF MappingNode
      <4>3. ~HasKey(old, "keys")
        BY <4>2, EmptyHasNoKeys
      <4> QED  BY <4>2, <4>3
    <3> QED  BY <3>1, <3>2
  <2>3. old \in RawNodes(Field) /\ old.kind \in {"map", "seq"}
    BY <1>1, <2>2, NodesAreRaw DEF Entry, RawNodes
  <2>4. keys \in Field
    BY <2>3, EnsuredNodeIsThere, NewNodes DEF Field
  <2>5. old.kind = "map" => keys.kind # "scalar"
    BY <2>2 DEF EnsuredNode, SequenceNode
  <2>6. /\ Extended(written, keys)
        /\ keys.kind = "seq" => Lists(written, k)
    BY <1>3, <2>4, WrittenKeys DEF Field, Item
  <2>7. written.kind = keys.kind /\ keys.kind \in {"scalar", "map", "seq"}
    BY <2>4, <2>6 DEF Extended, Field, Nodes
  <2> HIDE DEF written, keys, new, old, edited
  <2>8. FileNotEmpty'
    <3>1. NoneEmpty(edited)
      <4>1. edited.kind = "map"
        BY <1>1, <1>5
      <4>2. ASSUME NEW w \in AdminUser
            PROVE  /\ ValueNode(edited, w).kind # "scalar"
                   /\ ValueNode(edited, w).kind = "map" =>
                         ValueNode(ValueNode(edited, w), "keys").kind # "scalar"
        <5>1. CASE w = u
          BY <1>1, <1>5, <2>1, <2>2, <2>5, <2>7, <5>1
        <5>2. CASE w # u
          BY <1>1, <1>2, <1>5, <5>2 DEF NoneEmpty
        <5> QED  BY <5>1, <5>2
      <4> QED  BY <4>1, <4>2 DEF NoneEmpty
    <3> QED  BY <1>1, <3>1 DEF FileNotEmpty
  <2>9. ASSUME Fits(u)'
        PROVE  Lists(ValueNode(UserNode(u)', "keys"), k) /\ ~HasKey(UserNode(u)', "disabled")
    <3>1. UserNode(u)' = new
      BY <1>1, <1>5 DEF UserNode
    <3>2. old.kind = "map"
      BY <2>1, <2>3, <2>9, <3>1 DEF Fits
    <3>3. written.kind # "map"
      BY <2>1, <2>9, <3>1, <3>2 DEF Fits
    <3>4. keys.kind = "seq"
      BY <2>5, <2>7, <3>2, <3>3
    <3> QED  BY <2>1, <2>6, <3>1, <3>2, <3>4
  <2> QED  BY <2>8, <2>9
<1> QED  BY <1>3, <1>4, <1>5

\* A step that leaves nothing empty and keeps the admin user there.
LEMMA UserStep ==
    ASSUME FileOK, FileNotEmpty, AdminUserIsThere, Next
    PROVE  FileNotEmpty' /\ AdminUserIsThere'
<1>1. CASE IsDocument(file) /\ file' = EnsureSampleConfig(file) /\ did' = <<"completed">>
  <2>1. ValueNode(file', "users") = EnsuredNode(EnsureDocument(file), "users", MappingNode(<<>>))
    BY <1>1, CompletedFile DEF FileOK
  <2>2. FileNotEmpty'
    BY <1>1, <2>1, UsersAreNotEmpty DEF FileNotEmpty
  <2>3. AdminUserIsThere'
    BY <1>1, Doings DEF AdminUserIsThere
  <2> QED  BY <2>2, <2>3
<1>2. CASE /\ IsDocument(file)
           /\ \E u \in AdminUser, k \in AdminKey :
                 file' = EnsureAdminUser(file, u, k) /\ did' = <<u, k>>
  <2>1. PICK u \in AdminUser, k \in AdminKey :
          file' = EnsureAdminUser(file, u, k) /\ did' = <<u, k>>
    BY <1>2
  <2>2. /\ FileNotEmpty'
        /\ Fits(u)' => Lists(ValueNode(UserNode(u)', "keys"), k) /\ ~HasKey(UserNode(u)', "disabled")
    BY <1>2, <2>1, UserIsThere
  <2>3. AdminUserIsThere'
    <3> SUFFICES ASSUME NEW w \in AdminUser, NEW l \in AdminKey, did' = <<w, l>>, Fits(w)'
                 PROVE  Lists(ValueNode(UserNode(w)', "keys"), l) /\ ~HasKey(UserNode(w)', "disabled")
      BY DEF AdminUserIsThere
    <3>1. u = w /\ k = l
      BY <2>1
    <3> QED  BY <2>2, <3>1
  <2> QED  BY <2>2, <2>3
<1>3. CASE UNCHANGED vars
  BY <1>3 DEF vars, FileNotEmpty, AdminUserIsThere, Fits, UserNode
<1> QED  BY <1>1, <1>2, <1>3, Steps

\* The user that the server is told of has the key and is not disabled after
\* EnsureAdminUser, whatever a person wrote for the user, as long as no file
\* names the users, the user or the keys and leaves them empty (AdminUserIsThere
\* is violated then, as MCYamlEnsureNull.cfg shows).
THEOREM AdminUserGetsThere ==
    ASSUME \A data \in Document : NoneEmpty(ValueNode(data, "users"))
    PROVE  Spec => []AdminUserIsThere
<1>1. Init => FileNotEmpty /\ AdminUserIsThere
  BY Doings DEF Init, FileNotEmpty, AdminUserIsThere
<1>2. FileOK /\ FileNotEmpty /\ AdminUserIsThere /\ [Next]_vars => FileNotEmpty' /\ AdminUserIsThere'
  <2>1. ASSUME FileOK, FileNotEmpty, AdminUserIsThere, Next
        PROVE  FileNotEmpty' /\ AdminUserIsThere'
    BY <2>1, UserStep
  <2>2. ASSUME FileNotEmpty, AdminUserIsThere, UNCHANGED vars
        PROVE  FileNotEmpty' /\ AdminUserIsThere'
    BY <2>2 DEF vars, FileNotEmpty, AdminUserIsThere, Fits, UserNode
  <2> QED  BY <2>1, <2>2
<1> QED  BY <1>1, <1>2, FileAlways, PTL DEF Spec
=============================================================================

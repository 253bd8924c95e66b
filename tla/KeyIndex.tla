------------------------------ MODULE KeyIndex ------------------------------
(***************************************************************************)
(* The KeyManager as Conductor::LoadData fills it, in two passes over the  *)
(* lines of the input.  The first pass adds the classes to a radix tree    *)
(* and gives them keys; the second adds everything else, remembers each    *)
(* quad as four pointers to leaves, and gives the remaining leaves their   *)
(* keys, the upper half of which is the type of the URI.                   *)
(*                                                                         *)
(* Nodes and leaves are numbered in the order of their allocation and a    *)
(* number stands for the pointer: the tree is restructured while pointers  *)
(* to its nodes and leaves are held elsewhere.                             *)
(***************************************************************************)
EXTENDS Integers, SequencesExt

CONSTANTS Uri,         \* the URIs and literals of the input, as sequences
          RdfType,     \* ... rdf-syntax-ns#type
          SubClassOf,  \* ... rdf-schema#subClassOf
          Skipped,     \* the class the first pass ignores
          Inputs,      \* the sequences of lines that may be loaded
          SeqRange     \* 2^MASK: the sequence numbers of a KEY_ID

\* The characters of the URIs.
Char == UNION {Range(u) : u \in Uri}

Line == [subject: Uri, predicate: Uri, object: Uri, prov: Uri]

ASSUME UriAssumption ==
    /\ \A u \in Uri : u \in Seq(Char) /\ u # <<>>
    /\ RdfType \in Uri /\ SubClassOf \in Uri \ {RdfType} /\ Skipped \in Uri

ASSUME LineAssumption == Inputs \subseteq Seq(Line)

\* A key is made of two halves: sequence numbers and types stay below SeqRange.
ASSUME SeqAssumption ==
    /\ SeqRange \in Nat
    /\ \A input \in Inputs : 4 * Len(input) + 3 < SeqRange

VARIABLES
    lines,     \* the input
    pass,      \* 1, 2, and 3 once LoadData goes on to the templates
    next,      \* the line read next
    trie,      \* the radix tree, see Trie
    elements,  \* types[t].elements for all t: the node of every key
    tt,        \* leaf and class of the rdf:type lines, in their order
    quads      \* tripleTemplatesLeafs

vars == <<lines, pass, next, trie, elements, tt, quads>>

NoNode == 0
NoLeaf == 0

\* A Node: its part of the URI, its children, its parent and its leaf.
Node == [uri: Seq(Char), next: Seq(Nat), prev: Nat, leaf: Nat]

\* nodes: all nodes; uri_id: the roots; id: the key in every leaf, 0 until it
\* is given; added: the leaves returned by the calls of Add for this line.
Trie == [nodes: Seq(Node), uri_id: Seq(Nat), id: Seq(Nat), added: Seq(Nat)]

-----------------------------------------------------------------------------
(* Node and KeyManager: adding a URI *)

Leaf(uri, prev, leaf) == [uri |-> uri, next |-> <<>>, prev |-> prev, leaf |-> leaf]

\* What a node keeps of its label when it is split after k characters.
From(uri, k) == SubSeq(uri, k + 1, Len(uri))

\* How many characters uri and part have in common, 0 to the shorter length.
Common(uri, part) ==
    CHOOSE k \in 0..Len(uri) : /\ IsPrefix(SubSeq(uri, 1, k), part)
                               /\ k = Len(uri) \/ ~IsPrefix(SubSeq(uri, 1, k + 1), part)

\* Where a search for uri is: the list of nodes it looks through, and how many
\* characters it has read.
Place(nodes, uri) == Seq(DOMAIN nodes) \X (0..Len(uri))

\* Node::FindAdd: the node below a list where a URI goes, after how many of its
\* characters Add splits it, and what is left of the URI.  The first node with
\* the right first character decides; the node is NoNode if there is none.
FindAddFrom(nodes, uri) ==
    LET find[x \in Place(nodes, uri)] ==
            LET part == From(uri, x[2])
                i == SelectInSeq(x[1], LAMBDA n : nodes[n].uri # <<>>
                                                  /\ Head(nodes[n].uri) = Head(part))
                n == x[1][i]
                label == nodes[n].uri
                k == Common(label, part)
                below == find[<<nodes[n].next, x[2] + k>>]
            IN  IF i = 0 THEN [node |-> NoNode, at |-> 0, rest |-> part]
                ELSE IF k = Len(part) THEN [node |-> n, at |-> 0, rest |-> part]
                ELSE IF k = Len(label) /\ below.node # NoNode THEN below
                ELSE [node |-> n, at |-> k, rest |-> From(part, k)]
    IN  find

FindAdd(nodes, roots, uri) == FindAddFrom(nodes, uri)[<<roots, 0>>]

\* Slip: the new node does not take over the children.
SplitLosingChildren(t, n, k, rest, leaf) ==
    LET m == Len(t.nodes)
        moved == [t.nodes[n] EXCEPT !.uri = From(@, k), !.prev = n, !.next = <<>>]
    IN  [t.nodes EXCEPT ![n] = [@ EXCEPT !.uri = SubSeq(@, 1, k), !.leaf = NoLeaf,
                                         !.next = <<m + 1, m + 2>>]]
        \o <<moved, Leaf(rest, n, leaf)>>

\* Slip: the children of the node that is split keep it as their parent.
SplitKeepingParent(t, n, k, rest, leaf) ==
    LET m == Len(t.nodes)
        moved == [t.nodes[n] EXCEPT !.uri = From(@, k), !.prev = n]
    IN  [i \in 1..m |->
            IF i = n THEN [t.nodes[n] EXCEPT !.uri = SubSeq(@, 1, k), !.leaf = NoLeaf,
                                             !.next = <<m + 1, m + 2>>]
            ELSE t.nodes[i]] \o <<moved, Leaf(rest, n, leaf)>>

\* n keeps the first k characters; a new node takes the others, the children
\* and the leaf, and a second new node is the one that is added.
Split(t, n, k, rest, leaf) ==
    LET m == Len(t.nodes)
        moved == [t.nodes[n] EXCEPT !.uri = From(@, k), !.prev = n]
    IN  [i \in 1..m |->
            IF i = n THEN [t.nodes[n] EXCEPT !.uri = SubSeq(@, 1, k), !.leaf = NoLeaf,
                                             !.next = <<m + 1, m + 2>>]
            ELSE IF i \in Range(moved.next) THEN [t.nodes[i] EXCEPT !.prev = m + 1]
            ELSE t.nodes[i]] \o <<moved, Leaf(rest, n, leaf)>>

\* The whole label of n has been read: the new node is one more child.
AppendChild(t, n, rest, leaf) ==
    Append([t.nodes EXCEPT ![n].next = Append(@, Len(t.nodes) + 1)], Leaf(rest, n, leaf))

\* Slip: a URI that is there already gets a new leaf.
NodeAddAlways(t, n, k, rest) ==
    LET part1 == From(t.nodes[n].uri, k)
        leaf == Len(t.id) + 1
    IN  [nodes |-> IF part1 = rest THEN [t.nodes EXCEPT ![n].leaf = leaf]
                   ELSE IF part1 = <<>> THEN AppendChild(t, n, rest, leaf)
                   ELSE Split(t, n, k, rest, leaf),
         uri_id |-> t.uri_id, id |-> Append(t.id, 0), added |-> Append(t.added, leaf)]

\* Node::Add
NodeAdd(t, n, k, rest) ==
    LET part1 == From(t.nodes[n].uri, k)
        leaf == Len(t.id) + 1
        new(nodes) == [nodes |-> nodes, uri_id |-> t.uri_id,
                       id |-> Append(t.id, 0), added |-> Append(t.added, leaf)]
    IN  IF part1 = rest /\ t.nodes[n].leaf # NoLeaf
        THEN [t EXCEPT !.added = Append(@, t.nodes[n].leaf)]
        ELSE new(IF part1 = rest THEN [t.nodes EXCEPT ![n].leaf = leaf]
                 ELSE IF part1 = <<>> THEN AppendChild(t, n, rest, leaf)
                 ELSE Split(t, n, k, rest, leaf))

\* KeyManager::Add: below one of the roots, or as a root of its own.
Add(t, uri) ==
    LET place == FindAdd(t.nodes, t.uri_id, uri)
        leaf == Len(t.id) + 1
    IN  IF place.node # NoNode THEN NodeAdd(t, place.node, place.at, place.rest)
        ELSE [nodes  |-> Append(t.nodes, Leaf(uri, NoNode, leaf)),
              uri_id |-> Append(t.uri_id, Len(t.nodes) + 1),
              id     |-> Append(t.id, 0),
              added  |-> Append(t.added, leaf)]

\* The calls of one line.
AddAll(uris) ==
    LET after[i \in 0..Len(uris)] ==
            IF i = 0 THEN [trie EXCEPT !.added = <<>>] ELSE Add(after[i - 1], uris[i])
    IN  after[Len(uris)]

-----------------------------------------------------------------------------
(* Keys *)

GetId(seq, tid) == tid * SeqRange + seq
GetSeq(key)     == key % SeqRange
GetType(key)    == key \div SeqRange

\* The first of a list of keys that is not 0.
FirstKey(keys) ==
    LET first[i \in 0..Len(keys)] ==
            IF i = 0 THEN 0
            ELSE LET before == first[i - 1] IN IF before # 0 THEN before ELSE keys[i]
    IN  first[Len(keys)]

\* Node::Get for the nodes of a list: the first key found below them, 0 if there
\* is no leaf for the URI or the leaf has no key yet.
GetFrom(t, uri) ==
    LET get[x \in Place(t.nodes, uri)] ==
            LET key(n) ==
                    LET label == t.nodes[n].uri
                        at == x[2] + Len(label)
                    IN  IF label = <<>> \/ ~IsPrefix(label, From(uri, x[2])) THEN 0
                        ELSE IF at < Len(uri) THEN get[<<t.nodes[n].next, at>>]
                        ELSE IF t.nodes[n].leaf = NoLeaf THEN 0 ELSE t.id[t.nodes[n].leaf]
            IN  FirstKey([i \in DOMAIN x[1] |-> key(x[1][i])])
    IN  get

\* KeyManager::Get of a URI.
GetIn(t, uri) == GetFrom(t, uri)[<<t.uri_id, 0>>]

Get(uri) == GetIn(trie, uri)

\* Node::GetUri: the labels from the root down to n.
GetUri(n) ==
    LET labels[m \in {NoNode} \cup DOMAIN trie.nodes] == IF m = NoNode THEN <<>>
                             ELSE labels[trie.nodes[m].prev] \o trie.nodes[m].uri
    IN  labels[n]

\* The children of a node, and the roots as those of NoNode.
Kids(nodes, roots, p) == IF p = NoNode THEN roots ELSE nodes[p].next

\* All nodes below n, in the order in which they are given keys: each child and
\* what is below it.
Walk(list, below) ==
    LET walk[i \in 0..Len(list)] ==
            IF i = 0 THEN <<>> ELSE walk[i - 1] \o <<list[i]>> \o below[list[i]]
    IN  walk[Len(list)]

Below(t) ==
    LET below[n \in {NoNode} \cup DOMAIN t.nodes] == Walk(Kids(t.nodes, t.uri_id, n), below)
    IN  below

Preorder == Below(trie)[NoNode]

\* The elements of a list that are in S.
Kept(list, S) ==
    LET kept[i \in 0..Len(list)] ==
            IF i = 0 THEN <<>>
            ELSE IF list[i] \in S THEN Append(kept[i - 1], list[i]) ELSE kept[i - 1]
    IN  kept[Len(list)]

\* The nodes with a leaf, and those of them whose leaf has no key yet.
WithLeaf == {n \in DOMAIN trie.nodes : trie.nodes[n].leaf # NoLeaf}
AllLeaves == Kept(Preorder, WithLeaf)
Pending == Kept(Preorder, {n \in WithLeaf : trie.id[trie.nodes[n].leaf] = 0})

\* nodes[i] is given the key k[i]: in its leaf, and in the map of the type.
Assign(nodes, k) ==
    /\ trie' = [trie EXCEPT !.id = [l \in DOMAIN @ |->
           LET i == SelectInSeq(nodes, LAMBDA n : trie.nodes[n].leaf = l)
           IN  IF i = 0 THEN @[l] ELSE k[i]]]
    /\ elements' = [key \in DOMAIN elements \cup Range(k) |->
           IF key \in Range(k) THEN nodes[SelectInSeq(k, LAMBDA x : x = key)]
           ELSE elements[key]]

Unclassified == 2

\* Slip: the type that came first is kept.
GiveSubClassOld(oldone, newone) == oldone

\* TypesHierarchy::GiveSubClass returns before it looks at the hierarchy: there
\* are always more rows than the number of a type.
GiveSubClass(oldone, newone) == newone

\* Node::MakeInverseIndex: the type of a leaf from its rdf:type lines.  The set
\* of its types never has two elements, as each one replaces the one before.
TypeOfLeaf(leaf) ==
    LET type[i \in 0..Len(tt)] ==
            IF i = 0 THEN Unclassified
            ELSE IF tt[i].leaf # leaf THEN type[i - 1]
            ELSE IF \E j \in 1..(i - 1) : tt[j].leaf = leaf
                 THEN GiveSubClass(type[i - 1], tt[i].type)
            ELSE tt[i].type
    IN  type[Len(tt)]

-----------------------------------------------------------------------------
(* The two passes *)

Init ==
    /\ lines \in Inputs
    /\ pass = 1 /\ next = 1
    /\ trie = [nodes |-> <<>>, uri_id |-> <<>>, id |-> <<>>, added |-> <<>>]
    /\ elements = <<>>
    /\ tt = <<>>
    /\ quads = <<>>

\* The URIs of a line that the first pass takes for classes.
ClassesOf(l) ==
    IF l.predicate = RdfType /\ l.object # Skipped THEN <<l.object>>
    ELSE IF l.predicate = SubClassOf /\ Skipped \notin {l.subject, l.object}
         THEN <<l.subject, l.object>>
    ELSE <<>>

ReadClasses ==
    /\ pass = 1 /\ next <= Len(lines)
    /\ trie' = AddAll(ClassesOf(lines[next]))
    /\ next' = next + 1
    /\ UNCHANGED <<lines, pass, elements, tt, quads>>

\* The first key of a class is 3, which is also the first TYPE_ID of a class.
MakeInverseIndexTypes ==
    /\ pass = 1 /\ next > Len(lines)
    /\ LET nodes == AllLeaves
       IN  Assign(nodes, [i \in DOMAIN nodes |-> GetId(i + 2, 1)])
    /\ pass' = 2 /\ next' = 1
    /\ UNCHANGED <<lines, tt, quads>>

\* An rdf:type line adds its subject and says its type, a subClassOf line does
\* nothing, and any other line is a quad of the data.
ReadLine ==
    /\ pass = 2 /\ next <= Len(lines)
    /\ LET l == lines[next] IN
        \/ /\ l.predicate = RdfType
           /\ trie' = AddAll(<<l.subject>>)
           /\ tt' = Append(tt, [leaf |-> trie'.added[1], type |-> GetSeq(GetIn(trie', l.object))])
           /\ UNCHANGED quads
        \/ /\ l.predicate = SubClassOf
           /\ UNCHANGED <<trie, tt, quads>>
        \/ /\ l.predicate \notin {RdfType, SubClassOf}
           /\ trie' = AddAll(<<l.subject, l.predicate, l.object, l.prov>>)
           /\ quads' = Append(quads, trie'.added)
           /\ UNCHANGED tt
    /\ next' = next + 1
    /\ UNCHANGED <<lines, pass, elements>>

\* Each of nodes is given a key of its type: the sequence number is that of the
\* first, or one more than the last, as types[t] is empty for every type but 1.
AssignByType(nodes, first) ==
    LET t == [i \in DOMAIN nodes |-> TypeOfLeaf(trie.nodes[nodes[i]].leaf)]
        before(i) == {j \in 1..(i - 1) : t[j] = t[i]}
    IN  /\ Assign(nodes, [i \in DOMAIN nodes |-> GetId(Cardinality(before(i)) + first, t[i])])
        /\ pass' = 3
        /\ UNCHANGED <<lines, next, tt, quads>>

\* Slip: the sequence numbers of a type start at 0.
MakeInverseIndexFromZero ==
    pass = 2 /\ next > Len(lines) /\ AssignByType(Pending, 0)

\* Slip: the leaves that have a key are given another.
MakeInverseIndexOfAll ==
    pass = 2 /\ next > Len(lines) /\ AssignByType(AllLeaves, 1)

MakeInverseIndex ==
    pass = 2 /\ next > Len(lines) /\ AssignByType(Pending, 1)

Next == ReadClasses \/ MakeInverseIndexTypes \/ ReadLine \/ MakeInverseIndex

Spec == Init /\ [][Next]_vars

-----------------------------------------------------------------------------
(* Properties *)

KeyTypeOK ==
    /\ lines \in Inputs /\ pass \in 1..3 /\ next \in 1..(Len(lines) + 1)
    /\ trie \in Trie
    /\ \A key \in DOMAIN elements : key \in Nat \ {0} /\ elements[key] \in DOMAIN trie.nodes
    /\ tt \in Seq([leaf: DOMAIN trie.id, type: Nat])
    /\ quads \in Seq([1..4 -> DOMAIN trie.id])

\* The lines read in the first pass, and in the second.
Read1 == IF pass = 1 THEN 1..(next - 1) ELSE DOMAIN lines
Read2 == IF pass = 1 THEN {} ELSE 1..(next - 1)

IsQuad(l) == l.predicate \notin {RdfType, SubClassOf}

Classes == UNION {Range(ClassesOf(lines[i])) : i \in Read1}

\* The URIs added so far, by what the lines say.
Added == Classes
         \cup {lines[i].subject : i \in {j \in Read2 : lines[j].predicate = RdfType}}
         \cup UNION {Range(<<lines[i].subject, lines[i].predicate, lines[i].object,
                             lines[i].prov>>) : i \in {j \in Read2 : IsQuad(lines[j])}}

\* The leaves a search for uri ends at.
LeavesFrom(uri) ==
    LET found[x \in Place(trie.nodes, uri)] ==
            UNION {LET node == trie.nodes[n]
                       at == x[2] + Len(node.uri)
                   IN  IF node.uri = <<>> \/ ~IsPrefix(node.uri, From(uri, x[2])) THEN {}
                       ELSE IF at = Len(uri) THEN {node.leaf} \ {NoLeaf}
                       ELSE found[<<node.next, at>>] : n \in Range(x[1])}
    IN  found

LeavesOf(uri) == LeavesFrom(uri)[<<trie.uri_id, 0>>]

\* No URI that has been added is ever lost from the tree.
AddedAreFound == \A u \in Added : LeavesOf(u) # {}

\* A search finds the URIs added, each at one leaf of its own, and no other,
\* however the tree has been split since.
TrieExact ==
    /\ \A u \in Uri : Cardinality(LeavesOf(u)) = IF u \in Added THEN 1 ELSE 0
    /\ \A u, v \in Added : u # v => LeavesOf(u) # LeavesOf(v)

\* The leaf pointers kept for a quad are those a search for its URIs finds.
QuadLeavesExact ==
    pass >= 2 =>
        LET read == {i \in Read2 : IsQuad(lines[i])} IN
        /\ Len(quads) = Cardinality(read)
        /\ \A i \in read :
              LET l == lines[i]
                  uris == <<l.subject, l.predicate, l.object, l.prov>>
                  quad == quads[Cardinality({h \in read : h <= i})]
              IN  \A j \in 1..4 : {quad[j]} = LeavesOf(uris[j])

\* After the load every URI that was added has a key, no two have the same, and
\* a URI that was not added has none.
KeysExact ==
    pass = 3 =>
        /\ \A u \in Uri : Get(u) # 0 <=> u \in Added
        /\ \A u, v \in Added : Get(u) = Get(v) => u = v

\* The key of a URI leads back to it, unless it is a class: the node of a class
\* may be split after it has been put in elements, and then keeps a prefix.
InverseExact ==
    pass = 3 =>
        \A u \in Added :
            /\ Get(u) \in DOMAIN elements
            /\ u \notin Classes => GetUri(elements[Get(u)]) = u
            /\ IsPrefix(GetUri(elements[Get(u)]), u)

\* The lines that say the type of u, and the type the last of them says: the
\* sequence number of the class, 0 for the class that was skipped.
TypeLines(u) == {i \in DOMAIN lines : lines[i].predicate = RdfType /\ lines[i].subject = u}

TypeSaid(u) ==
    LET class == lines[Max(TypeLines(u))].object
    IN  IF class \in Classes THEN GetSeq(Get(class)) ELSE 0

\* The upper half of a key: 1 for a class, the class of the last rdf:type line of
\* an instance, 2 for what has no rdf:type line.
TypesExact ==
    pass = 3 =>
        \A u \in Added :
            GetType(Get(u)) = IF u \in Classes THEN 1
                              ELSE IF TypeLines(u) = {} THEN Unclassified
                              ELSE TypeSaid(u)

\* No instance is filed under a class when a line gives it a subclass of it.
MostSpecific ==
    pass = 3 =>
        \A i, j \in DOMAIN lines :
            LET a == lines[i]
                b == lines[j]
            IN  /\ a.predicate = RdfType /\ b.predicate = RdfType
                /\ a.subject = b.subject /\ a.subject \notin Classes
                /\ \E l \in Range(lines) : l.predicate = SubClassOf
                                           /\ l.subject = b.object /\ l.object = a.object
                => GetType(Get(a.subject)) # GetSeq(Get(a.object))

\* The promise of the KeyManager.
Named == {[uri |-> u, key |-> Get(u)] : u \in {v \in Uri : Get(v) # 0}}

Promise == INSTANCE Dictionary WITH named <- Named

ImplementsDictionary == Promise!Spec
=============================================================================

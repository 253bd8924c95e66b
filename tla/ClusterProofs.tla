---------------------------- MODULE ClusterProofs ----------------------------
(***************************************************************************)
(* Theorems about Cluster, for any datasets, any order of their molecules, *)
(* any number of nodes and any length of a run, however often the master   *)
(* and the nodes are started and wherever they die.                        *)
(*                                                                         *)
(* What makes files of two loads fit together is that the second deals its *)
(* molecules out as the first did: whose turn it is depends on nothing but *)
(* how many molecules there have been.                                     *)
(***************************************************************************)
EXTENDS Cluster, Recursion, FiniteSetTheorems

USE DEF Node

-----------------------------------------------------------------------------
(* One deal, of Partitioner *)

\* The node after the last one is the first.
LEMMA NextNodeIsNode ==
    ASSUME ClientsAssumption, lastNetworkNode \in Node
    PROVE  nextNetworkNode \in Node
  BY DEF ClientsAssumption, nextNetworkNode

\* The first molecule of a run, or another one of it, keeps all types.
LEMMA DealTypeStep ==
    ASSUME DealTypeOK, [DealNext]_dealVars
    PROVE  DealTypeOK'
<1>1. CASE UNCHANGED dealVars
  BY <1>1 DEF DealTypeOK, dealVars
<1>2. ASSUME NEW k \in todo, DealFirst(k) PROVE DealTypeOK'
  <2>1. lastNetworkNode' \in Node
    BY <1>2, NextNodeIsNode, ClientsAssumption DEF DealFirst, DealTypeOK
  <2>2. nodes' \in [Node -> Seq(given)]
    BY <1>2 DEF DealFirst, push_back, DealTypeOK
  <2> QED BY <1>2, <2>1, <2>2, RangeAssumption DEF DealFirst, DealTypeOK
<1>3. ASSUME NEW k \in todo, DealMore(k) PROVE DealTypeOK'
  <2>1. nodes' \in [Node -> Seq(given)]
    BY <1>3 DEF DealMore, push_back, DealTypeOK
  <2> QED BY <1>3, <2>1, RangeAssumption DEF DealMore, DealTypeOK
<1> QED BY <1>1, <1>2, <1>3 DEF DealNext

\* Every variable of the dealing keeps its type.
THEOREM DealTypeCorrect == DealSpec => []DealTypeOK
<1>1. DealInit => DealTypeOK
  BY ClientsAssumption, RangeAssumption DEF DealInit, Start, DealTypeOK
<1>2. DealTypeOK /\ [DealNext]_dealVars => DealTypeOK'
  BY DealTypeStep
<1> QED BY <1>1, <1>2, PTL DEF DealSpec

-----------------------------------------------------------------------------

\* One molecule at the end of one node's vector: what it deals out and how.
LEMMA PushBackDealsOnce ==
    ASSUME DealTypeOK, DealtOnce, NEW n \in Node, NEW k \in todo, push_back(n, k),
           given' = given, todo' = todo \ {k}
    PROVE  DealtOnce'
<1> DEFINE Dealt == UNION {{nodes[m][i] : i \in DOMAIN nodes[m]} : m \in Node}
<1>1. /\ nodes' = [nodes EXCEPT ![n] = Append(nodes[n], k)]
      /\ nodes \in [Node -> Seq(given)]
      /\ nodes[n] \in Seq(given)
      /\ Len(nodes[n]) \in Nat
      /\ k \in given
  BY DEF push_back, DealTypeOK
<1>2. /\ DOMAIN (nodes'[n]) = 1..(Len(nodes[n]) + 1)
      /\ \A i \in 1..Len(nodes[n]) : nodes'[n][i] = nodes[n][i]
      /\ nodes'[n][Len(nodes[n]) + 1] = k
      /\ DOMAIN (nodes[n]) = 1..Len(nodes[n])
  BY <1>1
<1>3. \A m \in Node : m # n => nodes'[m] = nodes[m]
  BY <1>1
<1>4. k \notin Dealt
  BY DEF DealtOnce
<1>5. \A m \in Node : \A i \in DOMAIN nodes[m] : nodes[m][i] # k
  BY <1>4
<1>6. (given \ todo)' = UNION {{(nodes[m][i])' : i \in DOMAIN (nodes'[m])} : m \in Node}
  <2>1. \A x : x \in Dealt \cup {k} <=> \E m \in Node : \E i \in DOMAIN (nodes'[m]) : x = nodes'[m][i]
    <3>1. ASSUME NEW x \in Dealt PROVE \E m \in Node : \E i \in DOMAIN (nodes'[m]) : x = nodes'[m][i]
      <4>1. PICK m \in Node : \E i \in DOMAIN nodes[m] : x = nodes[m][i]
        BY <3>1
      <4>2. PICK i \in DOMAIN nodes[m] : x = nodes[m][i]
        BY <4>1
      <4>3. CASE m = n
        BY <4>2, <4>3, <1>1, <1>2
      <4>4. CASE m # n
        BY <4>2, <4>4, <1>3
      <4> QED BY <4>3, <4>4
    <3>2. \E m \in Node : \E i \in DOMAIN (nodes'[m]) : k = nodes'[m][i]
      BY <1>1, <1>2
    <3>3. ASSUME NEW m \in Node, NEW i \in DOMAIN (nodes'[m]) PROVE nodes'[m][i] \in Dealt \cup {k}
      <4>1. CASE m = n
        BY <4>1, <1>1, <1>2, <3>3
      <4>2. CASE m # n
        BY <4>2, <1>3, <3>3
      <4> QED BY <4>1, <4>2
    <3> QED BY <3>1, <3>2, <3>3
  <2>2. (given \ todo)' = Dealt \cup {k}
    BY <1>1 DEF DealtOnce, DealTypeOK
  <2> QED BY <2>1, <2>2
<1>7. ASSUME NEW m \in Node, NEW l \in Node,
             NEW i \in DOMAIN (nodes'[m]), NEW j \in DOMAIN (nodes'[l]),
             nodes'[m][i] = nodes'[l][j]
      PROVE  m = l /\ i = j
  <2> DEFINE new(p, x) == p = n /\ x = Len(nodes[n]) + 1
  <2>1. \A p \in Node : \A x \in DOMAIN (nodes'[p]) :
          ~ new(p, x) => x \in DOMAIN nodes[p] /\ nodes'[p][x] = nodes[p][x]
    BY <1>1, <1>2, <1>3
  <2>2. \A p \in Node : \A x \in DOMAIN (nodes'[p]) : new(p, x) => nodes'[p][x] = k
    BY <1>2
  <2>3. CASE new(m, i) /\ new(l, j)
    BY <2>3
  <2>4. CASE new(m, i) /\ ~ new(l, j)
    BY <2>4, <2>1, <2>2, <1>5, <1>7
  <2>5. CASE ~ new(m, i) /\ new(l, j)
    BY <2>5, <2>1, <2>2, <1>5, <1>7
  <2>6. CASE ~ new(m, i) /\ ~ new(l, j)
    <3>1. /\ i \in DOMAIN nodes[m] /\ j \in DOMAIN nodes[l]
          /\ nodes[m][i] = nodes[l][j]
      BY <2>6, <2>1, <1>7
    <3> QED BY <3>1 DEF DealtOnce
  <2> QED BY <2>3, <2>4, <2>5, <2>6
<1> QED BY <1>6, <1>7 DEF DealtOnce

\* Neither kind of step deals a molecule out again, or loses one.
LEMMA DealtOnceStep ==
    ASSUME DealTypeOK, DealtOnce, [DealNext]_dealVars
    PROVE  DealtOnce'
<1>1. CASE UNCHANGED dealVars
  BY <1>1 DEF DealtOnce, dealVars
<1>2. ASSUME NEW k \in todo, DealFirst(k) PROVE DealtOnce'
  BY <1>2, PushBackDealsOnce DEF DealFirst, DealTypeOK
<1>3. ASSUME NEW k \in todo, DealMore(k) PROVE DealtOnce'
  BY <1>3, PushBackDealsOnce DEF DealMore, DealTypeOK
<1> QED BY <1>1, <1>2, <1>3 DEF DealNext

\* Every molecule that was passed is at exactly one place of one node, whatever
\* the order, and wherever a run is cut short.
THEOREM MoleculesAreDealtOnce == DealSpec => []DealtOnce
<1>1. DealInit => DealtOnce
  BY DEF DealInit, Start, DealtOnce
<1>2. DealTypeOK /\ DealtOnce /\ [DealNext]_dealVars => DealtOnce'
  BY DealtOnceStep
<1> QED BY <1>1, <1>2, DealTypeCorrect, PTL DEF DealSpec

-----------------------------------------------------------------------------

\* How much every node has: full rounds of runs, one run more for the nodes that
\* have had theirs in this round, and the run that goes on.
Rounds(full) ==
    \A n \in Node : Len(nodes[n]) =
        full + (IF n < networkNode THEN PartitionerRange
                ELSE IF n = networkNode THEN run ELSE 0)

\* Before the first run no node has anything, and the first node is next.
LevelInv ==
    \/ /\ \A n \in Node : Len(nodes[n]) = 0
       /\ run = PartitionerRange /\ lastNetworkNode = 0
    \/ /\ \E full \in Nat : Rounds(full)
       /\ lastNetworkNode = IF networkNode < nbOfClients - 1 THEN networkNode + 1 ELSE 0

\* The vector of one node grows by one.
LEMMA PushBackLengths ==
    ASSUME DealTypeOK, NEW n \in Node, NEW k \in todo, push_back(n, k)
    PROVE  \A m \in Node : Len(nodes'[m]) = IF m = n THEN Len(nodes[m]) + 1 ELSE Len(nodes[m])
  BY DEF push_back, DealTypeOK

\* Nothing has been dealt at first.
LEMMA LevelStart == DealInit => LevelInv
  BY DEF DealInit, Start, LevelInv

\* A run begins at the node after that of the last one, or goes on at its own.
LEMMA LevelStep ==
    ASSUME DealTypeOK, LevelInv, [DealNext]_dealVars PROVE LevelInv'
<1> USE ClientsAssumption, RangeAssumption DEF ClientsAssumption, RangeAssumption
<1>1. CASE UNCHANGED dealVars
  BY <1>1 DEF LevelInv, Rounds, dealVars
<1>2. ASSUME NEW k \in todo, DealFirst(k) PROVE LevelInv'
  <2>1. /\ run = PartitionerRange /\ run' = 1
        /\ networkNode' = lastNetworkNode /\ lastNetworkNode \in Node
        /\ lastNetworkNode' = nextNetworkNode
        /\ networkNode \in Node
    BY <1>2 DEF DealFirst, DealTypeOK
  <2>2. \A m \in Node : Len(nodes'[m]) =
            IF m = lastNetworkNode THEN Len(nodes[m]) + 1 ELSE Len(nodes[m])
    BY <1>2, <2>1, PushBackLengths DEF DealFirst
  <2>3. lastNetworkNode' = IF networkNode' < nbOfClients - 1 THEN networkNode' + 1 ELSE 0
    BY <2>1 DEF nextNetworkNode
  <2>4. \E full \in Nat : Rounds(full)'
    <3>1. CASE \A n \in Node : Len(nodes[n]) = 0 /\ lastNetworkNode = 0
      <4>1. Rounds(0)'
        BY <3>1, <2>1, <2>2 DEF Rounds
      <4> QED BY <4>1
    <3>2. CASE /\ \E full \in Nat : Rounds(full)
               /\ lastNetworkNode = IF networkNode < nbOfClients - 1 THEN networkNode + 1 ELSE 0
      <4>1. PICK full \in Nat : Rounds(full)
        BY <3>2
      <4>2. CASE networkNode < nbOfClients - 1
        <5>1. Rounds(full)'
          BY <4>1, <4>2, <3>2, <2>1, <2>2 DEF Rounds
        <5> QED BY <5>1
      <4>3. CASE ~ (networkNode < nbOfClients - 1)
        <5>1. Rounds(full + PartitionerRange)'
          BY <4>1, <4>3, <3>2, <2>1, <2>2 DEF Rounds
        <5> QED BY <5>1
      <4> QED BY <4>2, <4>3
    <3>3. Node # {}
      OBVIOUS
    <3> QED BY <3>1, <3>2, <3>3 DEF LevelInv
  <2> QED BY <2>3, <2>4 DEF LevelInv
<1>3. ASSUME NEW k \in todo, DealMore(k) PROVE LevelInv'
  <2>1. /\ run < PartitionerRange /\ run' = run + 1 /\ run \in 1..PartitionerRange
        /\ UNCHANGED <<networkNode, lastNetworkNode>> /\ networkNode \in Node
    BY <1>3 DEF DealMore, DealTypeOK
  <2>2. \A m \in Node : Len(nodes'[m]) =
            IF m = networkNode THEN Len(nodes[m]) + 1 ELSE Len(nodes[m])
    BY <1>3, <2>1, PushBackLengths DEF DealMore
  <2>3. PICK full \in Nat : Rounds(full)
    BY <2>1 DEF LevelInv
  <2>4. Rounds(full)'
    BY <2>1, <2>2, <2>3 DEF Rounds
  <2> QED BY <2>1, <2>4 DEF LevelInv
<1> QED BY <1>1, <1>2, <1>3 DEF DealNext

\* Within a round nodes differ by at most the run.
LEMMA LevelIsBalanced == ASSUME DealTypeOK, LevelInv PROVE Balanced
<1> USE RangeAssumption DEF RangeAssumption
<1>1. CASE \A n \in Node : Len(nodes[n]) = 0
  BY <1>1 DEF Balanced
<1>2. CASE \E full \in Nat : Rounds(full)
  <2>1. PICK full \in Nat : Rounds(full)
    BY <1>2
  <2>2. run \in 1..PartitionerRange /\ networkNode \in Node
    BY DEF DealTypeOK
  <2>3. ASSUME NEW n \in Node PROVE Len(nodes[n]) \in full..(full + PartitionerRange)
    BY <2>1, <2>2 DEF Rounds
  <2> QED BY <2>3 DEF Balanced
<1> QED BY <1>1, <1>2 DEF LevelInv

\* At any moment no node has more than one run more than another.
THEOREM NodesAreBalanced == DealSpec => []Balanced
<1>1. DealTypeOK /\ LevelInv /\ [DealNext]_dealVars => LevelInv'
  BY LevelStep
<1>2. DealTypeOK /\ LevelInv => Balanced
  BY LevelIsBalanced
<1> QED BY <1>1, <1>2, LevelStart, DealTypeCorrect, PTL DEF DealSpec

-----------------------------------------------------------------------------
(* The turns *)

\* The variables of the Partitioner that say who is next
TurnType == [node: Node, next: Node, run: 1..PartitionerRange]

FirstTurn == [node |-> 0, next |-> 0, run |-> PartitionerRange]

NextTurn ==
    [t \in TurnType |->
        IF t.run = PartitionerRange
        THEN [node |-> t.next, next |-> IF t.next < nbOfClients - 1 THEN t.next + 1 ELSE 0,
              run |-> 1]
        ELSE [node |-> t.node, next |-> t.next, run |-> t.run + 1]]

\* Their values after any number of molecules
Turn == CHOOSE f \in [Nat -> TurnType] :
            f[0] = FirstTurn /\ \A n \in Nat : f[n + 1] = NextTurn[f[n]]

\* The turns follow one another as DealFirst and DealMore take them.
LEMMA TurnsFollow ==
    /\ Turn \in [Nat -> TurnType] /\ Turn[0] = FirstTurn
    /\ \A n \in Nat : Turn[n + 1] = NextTurn[Turn[n]]
<1>1. FirstTurn \in TurnType
  BY ClientsAssumption, RangeAssumption DEF FirstTurn, TurnType
<1>2. NextTurn \in [TurnType -> TurnType]
  BY ClientsAssumption, RangeAssumption DEF NextTurn, TurnType
<1>3. \E f \in [Nat -> TurnType] : f[0] = FirstTurn /\ \A n \in Nat : f[n + 1] = NextTurn[f[n]]
  BY <1>1, <1>2, RecursionExists
<1> QED BY <1>3 DEF Turn

-----------------------------------------------------------------------------
(* The invariant *)

Total(d) == Cardinality(MoleculesOf(d))

\* What the first c molecules of an order give to node n
Share(molecules, c, n) == {molecules[i] : i \in {j \in 1..c : Turn[j].node = n}}

Passed == Cardinality(given) - Cardinality(todo)

\* The master is so far in the order of the molecules of its dataset as what the
\* nodes have, what is to do and whose turn it is say.
DealtInOrder ==
    data # NoData =>
        /\ given = MoleculesOf(data)
        /\ Passed \in 0..Total(data)
        /\ todo = {order[data][i] : i \in (Passed + 1)..Total(data)}
        /\ Turn[Passed] = [node |-> networkNode, next |-> lastNetworkNode, run |-> run]
        /\ \A n \in Node : Seqs!ToSet(nodes[n]) = Share(order[data], Passed, n)
        /\ writing > 1 \/ (open /\ writing = 1) => todo = {}

\* A file is open only while there are some to write.
OpenIsNext == open => data # NoData /\ writing < Len(Written)

NodeShape(x) ==
    x = [status |-> x.status, read |-> x.read, stored |-> x.stored, ProvIdx |-> x.ProvIdx]

Shapes ==
    /\ order \in Orders
    /\ files = [f \in File |-> files[f]]
    /\ DOMAIN node = Node /\ node = [n \in Node |-> node[n]]
    /\ \A n \in Node : NodeShape(node[n])

\* What a file holds that has been written to its end, whichever load has written it
TriplesFiles == {[of |-> d, triples |-> QuadsOf[d]] : d \in Data}
TemplatesFiles == {[of |-> d, templates |-> TemplatesOf[d]] : d \in Data}
TypesFiles == {[of |-> d, types |-> TypesOf[d]] : d \in Data}
NodeFiles(n) == {[of |-> d, molecules |-> Share(order[d], Total(d), n)] : d \in Data}
NoMolecules == [of |-> NoData, molecules |-> {}]

AnyFiles == TriplesFiles \cup TemplatesFiles \cup TypesFiles \cup {NoMolecules}
              \cup UNION {NodeFiles(n) : n \in Node}

FilesAreWhole ==
    /\ files[<<"triples">>] \in TriplesFiles \cup {Empty}
    /\ files[<<"templates">>] \in TemplatesFiles \cup {Empty}
    /\ files[<<"types">>] \in TypesFiles \cup {Empty}
    /\ \A n \in Node : files[NodeFile(n)] \in NodeFiles(n) \cup {Empty}

\* What node n has read, file by file
ReadOK(n, r) ==
    /\ r \in Seq(AnyFiles) /\ Len(r) <= 4
    /\ Len(r) >= 1 => r[1] \in TriplesFiles
    /\ Len(r) >= 2 => r[2] \in NodeFiles(n) \cup {NoMolecules}
    /\ Len(r) >= 3 => r[3] \in TypesFiles
    /\ Len(r) >= 4 => r[4] \in TemplatesFiles

\* The triples of a node's own molecules, and the entry of one
Mine(r) == {q \in r[1].triples : q.subject \in r[2].molecules}

Entry(r, q) == [subject |-> q.subject, tmpl |-> GetTemplate(r[4].templates, q),
                object |-> q.object, prov |-> q.prov]

\* What a node has made of what it has read
BuiltOK(x) ==
    /\ x.status = "serving" =>
          Len(x.read) = 4 /\ x.stored = {Entry(x.read, q) : q \in Mine(x.read)}
    /\ x.status = "undefined" /\ Len(x.read) = 4 =>
          \E q \in Mine(x.read) : \/ TypeOf[q.subject] >= x.read[3].types
                                  \/ TypeOf[q.object] >= x.read[3].types

ReadIsWhole == \A n \in Node : ReadOK(n, node[n].read)

BuiltFromRead == \A n \in Node : BuiltOK(node[n])

IInv ==
    /\ ClusterTypeOK /\ DealtOnce /\ LevelInv
    /\ Shapes /\ DealtInOrder /\ OpenIsNext
    /\ FilesAreWhole /\ ReadIsWhole /\ BuiltFromRead

-----------------------------------------------------------------------------
(* Facts the steps need *)

\* Where the elements of a concatenation come from.
LEMMA Concatenated ==
    ASSUME NEW S, NEW a \in Seq(S), NEW b \in Seq(S)
    PROVE  /\ a \o b \in Seq(S) /\ Len(a \o b) = Len(a) + Len(b)
           /\ \A i \in 1..Len(a) : (a \o b)[i] = a[i]
           /\ \A i \in 1..Len(b) : (a \o b)[Len(a) + i] = b[i]
  OBVIOUS

\* The files the master writes, one by one.
LEMMA WrittenInOrder ==
    /\ Len(Written) = nbOfClients + 3
    /\ Written[1] = <<"triples">>
    /\ \A n \in Node : Written[n + 2] = NodeFile(n)
    /\ Written[nbOfClients + 2] = <<"templates">>
    /\ Written[nbOfClients + 3] = <<"types">>
<1> DEFINE mine == [i \in 1..nbOfClients |-> NodeFile(i - 1)]
           last == <<<<"templates">>, <<"types">>>>
           first == <<<<"triples">>>>
           front == first \o mine
<1>1. first \in Seq(File) /\ mine \in Seq(File) /\ last \in Seq(File)
  BY ClientsAssumption DEF File
<1>2. Len(mine) = nbOfClients /\ Len(first) = 1 /\ Len(last) = 2
  BY ClientsAssumption
<1>3. \A n \in Node : mine[n + 1] = NodeFile(n)
  BY ClientsAssumption
<1> HIDE DEF mine
<1>4. Written = front \o last
  BY DEF Written, mine
<1>5. /\ front \in Seq(File) /\ Len(front) = nbOfClients + 1
      /\ front[1] = <<"triples">>
      /\ \A n \in Node : front[n + 2] = mine[n + 1]
  BY <1>1, <1>2, ClientsAssumption
<1> HIDE DEF first
<1>6. /\ last[1] = <<"templates">> /\ last[2] = <<"types">>
  OBVIOUS
<1> HIDE DEF last, front
<1>7. /\ Len(Written) = nbOfClients + 3
      /\ \A i \in 1..(nbOfClients + 1) : Written[i] = front[i]
      /\ \A i \in 1..2 : Written[nbOfClients + 1 + i] = last[i]
  <2>1. /\ Len(front \o last) = Len(front) + Len(last)
        /\ \A i \in 1..Len(front) : (front \o last)[i] = front[i]
        /\ \A i \in 1..Len(last) : (front \o last)[Len(front) + i] = last[i]
    <3>1. \A a, b \in Seq(File) : /\ Len(a \o b) = Len(a) + Len(b)
                                  /\ \A i \in 1..Len(a) : (a \o b)[i] = a[i]
                                  /\ \A i \in 1..Len(b) : (a \o b)[Len(a) + i] = b[i]
      BY Concatenated
    <3>2. front \in Seq(File) /\ last \in Seq(File)
      BY <1>1, <1>5
    <3>3. Len(front \o last) = Len(front) + Len(last)
      BY <3>1, <3>2
    <3>4. \A i \in 1..Len(front) : (front \o last)[i] = front[i]
      BY <3>1, <3>2
    <3>5. \A i \in 1..Len(last) : (front \o last)[Len(front) + i] = last[i]
      BY <3>1, <3>2
    <3> QED BY <3>3, <3>4, <3>5
  <2> QED BY <2>1, <1>2, <1>4, <1>5, ClientsAssumption
<1>8. \A n \in Node : Written[n + 2] = NodeFile(n)
  <2> SUFFICES ASSUME NEW n \in Node PROVE Written[n + 2] = NodeFile(n)
    OBVIOUS
  <2>1. n + 2 \in 1..(nbOfClients + 1)
    BY ClientsAssumption
  <2> QED BY <2>1, <1>3, <1>5, <1>7
<1>9. Written[1] = <<"triples">>
  BY <1>5, <1>7, ClientsAssumption
<1>10. Written[nbOfClients + 1 + 1] = <<"templates">> /\ Written[nbOfClients + 1 + 2] = <<"types">>
  BY <1>6, <1>7
<1>11. nbOfClients + 1 + 1 = nbOfClients + 2 /\ nbOfClients + 1 + 2 = nbOfClients + 3
  BY ClientsAssumption
<1> QED BY <1>7, <1>8, <1>9, <1>10, <1>11

\* Which of them comes after so many.
LEMMA NextWritten ==
    ASSUME NEW i \in Nat, i < Len(Written)
    PROVE  \/ i = 0 /\ Written[i + 1] = <<"triples">>
           \/ i >= 1 /\ \E n \in Node : Written[i + 1] = NodeFile(n)
           \/ i >= 1 /\ Written[i + 1] \in {<<"templates">>, <<"types">>}
<1>1. CASE i = 0
  BY <1>1, WrittenInOrder
<1>2. CASE i \in 1..nbOfClients
  <2>1. i - 1 \in Node /\ Written[i - 1 + 2] = NodeFile(i - 1)
    BY <1>2, WrittenInOrder, ClientsAssumption
  <2> QED BY <1>2, <2>1, ClientsAssumption
<1>3. CASE i = nbOfClients + 1
  <2>1. i + 1 = nbOfClients + 2 /\ i >= 1
    BY <1>3, ClientsAssumption
  <2> QED BY <2>1, WrittenInOrder
<1>4. CASE i = nbOfClients + 2
  <2>1. i + 1 = nbOfClients + 3 /\ i >= 1
    BY <1>4, ClientsAssumption
  <2> QED BY <2>1, WrittenInOrder
<1> QED BY <1>1, <1>2, <1>3, <1>4, WrittenInOrder, ClientsAssumption

\* An order of a dataset has each of its molecules once.
LEMMA OrderHasEach ==
    ASSUME order \in Orders, NEW d \in Data
    PROVE  /\ IsFiniteSet(MoleculesOf(d)) /\ Total(d) \in Nat
           /\ order[d] \in [1..Total(d) -> MoleculesOf(d)]
           /\ \A i, j \in 1..Total(d) : order[d][i] = order[d][j] => i = j
           /\ \A k \in MoleculesOf(d) : \E i \in 1..Total(d) : order[d][i] = k
<1>1. IsFiniteSet(MoleculesOf(d)) /\ Total(d) \in Nat
  BY DataAssumption, FS_CardinalityType DEF Total
<1>2. /\ order[d] \in [1..Total(d) -> MoleculesOf(d)]
      /\ \A i, j \in 1..Total(d) : i # j => order[d][i] # order[d][j]
  BY OrdersAssumption DEF Total
<1>3. order[d] \in Injection(1..Total(d), MoleculesOf(d))
  BY <1>2 DEF Injection, IsInjective
<1>4. Cardinality(1..Total(d)) = Total(d)
  BY <1>1, FS_Interval
<1>5. order[d] \in Surjection(1..Total(d), MoleculesOf(d))
  BY <1>1, <1>3, <1>4, FS_Injection DEF Total
<1> QED BY <1>1, <1>2, <1>5 DEF Surjection

-----------------------------------------------------------------------------
(* What a step leaves alone *)

\* What is a node's share of a dataset depends on the order alone.
LEMMA SharesStay ==
    ASSUME order' = order
    PROVE  (\A n : NodeFiles(n)' = NodeFiles(n)) /\ AnyFiles' = AnyFiles
  BY DEF NodeFiles, AnyFiles

\* The files, while nothing is written
LEMMA FilesStay ==
    ASSUME FilesAreWhole, UNCHANGED <<order, files>>
    PROVE  FilesAreWhole'
  BY SharesStay DEF FilesAreWhole

\* The nodes, while the master is at work
LEMMA NodesStay ==
    ASSUME ReadIsWhole, BuiltFromRead, UNCHANGED <<order, node>>
    PROVE  ReadIsWhole' /\ BuiltFromRead'
  BY SharesStay DEF ReadIsWhole, BuiltFromRead, ReadOK

\* The molecules, while none is dealt out
LEMMA DealStays ==
    ASSUME DealtOnce, LevelInv, UNCHANGED dealVars
    PROVE  DealtOnce' /\ LevelInv'
  BY DEF DealtOnce, LevelInv, Rounds, dealVars

\* So does how far the master is, unless it goes on to write with some to do.
LEMMA OrderStays ==
    ASSUME DealtInOrder, UNCHANGED <<dealVars, order, data>>,
           writing' > 1 \/ (open' /\ writing' = 1) =>
               todo = {} \/ writing > 1 \/ (open /\ writing = 1)
    PROVE  DealtInOrder'
  BY DEF DealtInOrder, Passed, dealVars

-----------------------------------------------------------------------------
(* The steps of the master *)

\* A Partitioner that has dealt out nothing
LEMMA FreshDeal ==
    ASSUME NEW m \in SUBSET Molecule, given' = m, todo' = m,
           nodes' = [n \in Node |-> <<>>],
           lastNetworkNode' = 0, networkNode' = 0, run' = PartitionerRange
    PROVE  DealTypeOK' /\ DealtOnce' /\ LevelInv'
<1>1. DealTypeOK'
  BY ClientsAssumption, RangeAssumption DEF DealTypeOK
<1>2. DealtOnce'
  BY DEF DealtOnce
<1>3. LevelInv'
  BY DEF LevelInv
<1> QED BY <1>1, <1>2, <1>3

\* It is at the beginning of the order of its dataset.
LEMMA FreshOrder ==
    ASSUME order \in Orders, order' = order, NEW d \in Data, data' = d,
           given' = MoleculesOf(d), todo' = MoleculesOf(d),
           nodes' = [n \in Node |-> <<>>], writing' = 0, open' = FALSE,
           lastNetworkNode' = 0, networkNode' = 0, run' = PartitionerRange
    PROVE  DealtInOrder'
<1>1. Passed' = 0
  BY OrderHasEach DEF Passed, Total
<1>2. MoleculesOf(d) = {order[d][i] : i \in 1..Total(d)}
  BY OrderHasEach
<1>3. Turn[0] = [node |-> 0, next |-> 0, run |-> PartitionerRange]
  BY TurnsFollow DEF FirstTurn
<1>4. \A n \in Node : Share(order[d], 0, n) = {}
  BY DEF Share
<1>5. \A n \in Node : Seqs!ToSet(nodes'[n]) = {}
  BY DEF Seqs!ToSet
<1>6. Total(d) \in Nat
  BY OrderHasEach
<1>7. todo' = {order'[d][i] : i \in (Passed' + 1)..Total(d)}
  BY <1>1, <1>2
<1>8. Turn[Passed'] = [node |-> networkNode', next |-> lastNetworkNode', run |-> run']
  BY <1>1, <1>3
<1>9. \A n \in Node : Seqs!ToSet(nodes'[n]) = Share(order'[d], Passed', n)
  BY <1>1, <1>4, <1>5
<1> QED
  BY <1>1, <1>6, <1>7, <1>8, <1>9 DEF DealtInOrder

\* The master is started.
LEMMA StartMasterStep ==
    ASSUME IInv, NEW d \in Data, StartMaster(d)
    PROVE  IInv'
<1>1. MoleculesOf(d) \in SUBSET Molecule
  BY DataAssumption
<1>2. DealTypeOK' /\ DealtOnce' /\ LevelInv'
  BY <1>1, FreshDeal DEF StartMaster
<1>3. order \in Orders
  BY DEF IInv, Shapes
<1>4. DealtInOrder'
  BY <1>3, FreshOrder DEF StartMaster
<1>5. ClusterTypeOK'
  <2>1. 0 \in 0..Len(Written)
    BY WrittenInOrder, ClientsAssumption
  <2>2. starts' \in 0..MaxStarts
    BY DataAssumption DEF IInv, ClusterTypeOK, StartMaster
  <2> QED
    BY <1>2, <2>1, <2>2 DEF IInv, ClusterTypeOK, StartMaster
<1>6. Shapes' /\ OpenIsNext'
  BY DEF IInv, StartMaster, Shapes, OpenIsNext
<1>7. FilesAreWhole' /\ ReadIsWhole' /\ BuiltFromRead'
  BY FilesStay, NodesStay DEF IInv, StartMaster
<1> QED BY <1>2, <1>4, <1>5, <1>6, <1>7 DEF IInv

\* The share of the node whose turn it is grows by the molecule it gets.
LEMMA ShareGrows ==
    ASSUME NEW molecules, NEW c \in Nat, NEW n \in Node
    PROVE  Share(molecules, c + 1, n) =
               Share(molecules, c, n) \cup (IF Turn[c + 1].node = n THEN {molecules[c + 1]} ELSE {})
<1>1. \A j : j \in 1..(c + 1) <=> j \in 1..c \/ j = c + 1
  OBVIOUS
<1> QED BY <1>1 DEF Share

\* The molecules of a node, when it gets one more
LEMMA SetGrows ==
    ASSUME NEW S, NEW s \in Seq(S), NEW k
    PROVE  Seqs!ToSet(Append(s, k)) = Seqs!ToSet(s) \cup {k}
<1>1. /\ DOMAIN s = 1..Len(s) /\ Len(s) \in Nat
      /\ DOMAIN Append(s, k) = 1..(Len(s) + 1)
      /\ \A i \in 1..Len(s) : Append(s, k)[i] = s[i]
      /\ Append(s, k)[Len(s) + 1] = k
  OBVIOUS
<1> QED BY <1>1 DEF Seqs!ToSet

\* A molecule is dealt out: the next one of the order, to whose turn it is.
LEMMA DealtInOrderStep ==
    ASSUME IInv, Deal
    PROVE  DealtInOrder'
<1> DEFINE c == Passed
           T == Total(data)
<1>1. /\ data \in Data /\ order \in Orders /\ DealTypeOK
      /\ UNCHANGED <<order, data, writing, open, given>>
      /\ ~ (writing > 1) /\ ~ open
  BY DEF IInv, ClusterTypeOK, Shapes, Deal, DealFirst, DealMore, clusterVars
<1>2. /\ given = MoleculesOf(data) /\ c \in 0..T
      /\ todo = {order[data][i] : i \in (c + 1)..T}
      /\ Turn[c] = [node |-> networkNode, next |-> lastNetworkNode, run |-> run]
      /\ \A n \in Node : Seqs!ToSet(nodes[n]) = Share(order[data], c, n)
  BY <1>1, DataAssumption DEF IInv, DealtInOrder
<1>3. PICK k \in todo : k = order[data][c + 1] /\ (DealFirst(k) \/ DealMore(k))
  BY DEF Deal, Passed
<1>4. /\ IsFiniteSet(given) /\ IsFiniteSet(todo) /\ T = Cardinality(given) /\ T \in Nat
      /\ Cardinality(todo) \in Nat
  BY <1>1, <1>2, OrderHasEach, FS_Subset, FS_CardinalityType DEF DealTypeOK, Total
<1>5. c \in 0..(T - 1)
  <2>1. c = T - Cardinality(todo)
    BY <1>4 DEF Passed
  <2>2. Cardinality(todo) # 0
    BY <1>3, <1>4, FS_EmptySet
  <2> QED BY <1>2, <1>4, <2>1, <2>2
<1>6. todo' = todo \ {k}
  BY <1>3 DEF DealFirst, DealMore
<1>7. Passed' = c + 1
  <2>1. Cardinality(todo \ {k}) = Cardinality(todo) - 1
    BY <1>4, FS_RemoveElement
  <2> QED BY <1>1, <1>4, <1>6, <2>1 DEF Passed
<1> HIDE DEF c, T
<1>8. todo' = {order[data][i] : i \in (c + 2)..T}
  <2>1. \A i \in (c + 1)..T : order[data][i] = k <=> i = c + 1
    BY <1>1, <1>3, <1>4, <1>5, OrderHasEach DEF T
  <2>2. \A i : i \in (c + 1)..T /\ i # c + 1 <=> i \in (c + 2)..T
    BY <1>4, <1>5
  <2> QED BY <1>2, <1>6, <2>1, <2>2
<1>9. /\ Turn[c + 1] = [node |-> networkNode', next |-> lastNetworkNode', run |-> run']
      /\ push_back(networkNode', k) /\ networkNode' \in Node
  <2>1. Turn[c] \in TurnType /\ Turn[c + 1] = NextTurn[Turn[c]]
    BY <1>5, <1>4, TurnsFollow
  <2>2. CASE DealFirst(k)
    BY <1>1, <1>2, <2>1, <2>2 DEF DealFirst, NextTurn, nextNetworkNode, DealTypeOK
  <2>3. CASE DealMore(k)
    BY <1>1, <1>2, <2>1, <2>3 DEF DealMore, NextTurn, DealTypeOK
  <2> QED BY <1>3, <2>2, <2>3
<1>10. \A n \in Node : Seqs!ToSet(nodes'[n]) = Share(order[data], c + 1, n)
  <2> SUFFICES ASSUME NEW n \in Node PROVE Seqs!ToSet(nodes'[n]) = Share(order[data], c + 1, n)
    OBVIOUS
  <2>1. nodes \in [Node -> Seq(given)]
    BY <1>1 DEF DealTypeOK
  <2>4. Share(order[data], c + 1, n) =
            Share(order[data], c, n) \cup (IF Turn[c + 1].node = n THEN {order[data][c + 1]} ELSE {})
    <3>1. c \in Nat
      BY <1>4, <1>5
    <3> QED BY <3>1, ShareGrows
  <2>2. CASE n = networkNode'
    <3>1. nodes'[n] = Append(nodes[n], k)
      BY <1>9, <2>1, <2>2 DEF push_back
    <3>2. Turn[c + 1].node = n
      BY <1>9, <2>2
    <3>3. Seqs!ToSet(nodes'[n]) = Seqs!ToSet(nodes[n]) \cup {k}
      BY <2>1, <3>1, SetGrows
    <3> QED BY <1>2, <1>3, <2>4, <3>2, <3>3
  <2>3. CASE n # networkNode'
    <3>1. nodes'[n] = nodes[n]
      BY <1>9, <2>1, <2>3 DEF push_back
    <3>2. Turn[c + 1].node # n
      BY <1>9, <2>3
    <3> QED BY <1>2, <2>4, <3>1, <3>2
  <2> QED BY <2>2, <2>3
<1>11. Passed' \in 0..T /\ Passed' + 1 = c + 2
  BY <1>4, <1>5, <1>7
<1> QED
  BY <1>1, <1>2, <1>7, <1>8, <1>9, <1>10, <1>11 DEF DealtInOrder, T

\* PartitionMolecules goes on.
LEMMA DealStep ==
    ASSUME IInv, Deal
    PROVE  IInv'
<1>1. [DealNext]_dealVars /\ DealTypeOK /\ UNCHANGED clusterVars
  BY DEF Deal, DealNext, IInv, ClusterTypeOK
<1>2. DealTypeOK' /\ DealtOnce' /\ LevelInv'
  BY <1>1, DealTypeStep, DealtOnceStep, LevelStep DEF IInv
<1>3. ClusterTypeOK'
  BY <1>1, <1>2 DEF IInv, ClusterTypeOK, clusterVars
<1>4. Shapes' /\ OpenIsNext'
  BY <1>1 DEF IInv, Shapes, OpenIsNext, clusterVars
<1>5. FilesAreWhole' /\ ReadIsWhole' /\ BuiltFromRead'
  BY <1>1, FilesStay, NodesStay DEF IInv, clusterVars
<1> QED BY <1>2, <1>3, <1>4, <1>5, DealtInOrderStep DEF IInv

\* A node's file is not written before all molecules are dealt out, and is then its
\* share of them.
LEMMA NodeFileIsShare ==
    ASSUME IInv, open, NEW n \in Node, Written[writing + 1] = NodeFile(n)
    PROVE  Seqs!ToSet(nodes[n]) = Share(order[data], Total(data), n)
<1>1. data # NoData /\ data \in Data /\ writing \in Nat /\ writing < Len(Written)
  BY WrittenInOrder, ClientsAssumption DEF IInv, OpenIsNext, ClusterTypeOK
<1>2. writing >= 1
  BY <1>1, NextWritten DEF NodeFile
<1>3. todo = {}
  BY <1>1, <1>2 DEF IInv, DealtInOrder
<1>4. Passed = Total(data)
  BY <1>1, <1>3, FS_EmptySet, OrderHasEach DEF IInv, DealtInOrder, Passed, Total, Shapes
<1> QED BY <1>1, <1>4 DEF IInv, DealtInOrder

\* The next file is opened: it holds nothing.
LEMMA OpenFileStep ==
    ASSUME IInv, OpenFile
    PROVE  IInv'
<1>1. /\ data # NoData /\ data \in Data /\ writing \in Nat /\ writing < Len(Written)
      /\ open' = TRUE /\ (writing = 1 => todo = {})
      /\ files' = [files EXCEPT ![Written[writing + 1]] = Empty]
      /\ UNCHANGED <<dealVars, order, data, writing, starts, node, restarts>>
  BY WrittenInOrder, ClientsAssumption DEF IInv, OpenFile, ClusterTypeOK
<1>2. DealtOnce' /\ LevelInv'
  BY <1>1, DealStays DEF IInv
<1>3. ClusterTypeOK'
  BY <1>1 DEF IInv, ClusterTypeOK, DealTypeOK, dealVars
<1>4. DealtInOrder'
  BY <1>1, OrderStays DEF IInv
<1>5. Shapes' /\ OpenIsNext'
  BY <1>1 DEF IInv, Shapes, OpenIsNext
<1>6. FilesAreWhole'
  <2>1. \A f \in File : files'[f] \in {files[f], Empty}
    BY <1>1 DEF IInv, Shapes
  <2> QED BY <1>1, <2>1, SharesStay DEF IInv, FilesAreWhole, File
<1>7. ReadIsWhole' /\ BuiltFromRead'
  BY <1>1, NodesStay DEF IInv
<1> QED BY <1>2, <1>3, <1>4, <1>5, <1>6, <1>7 DEF IInv

\* What is written to the next file is what a load of this dataset has to leave in it.
LEMMA ContentIsWhole ==
    ASSUME IInv, open
    PROVE  LET f == Written[writing + 1] IN
           /\ f \in File /\ data \in Data
           /\ f = <<"triples">> => Content(f) \in TriplesFiles
           /\ f = <<"templates">> => Content(f) \in TemplatesFiles
           /\ f = <<"types">> => Content(f) \in TypesFiles
           /\ \A n \in Node : f = NodeFile(n) => Content(f) \in NodeFiles(n)
<1>1. data # NoData /\ data \in Data /\ writing \in Nat /\ writing < Len(Written)
  BY WrittenInOrder, ClientsAssumption DEF IInv, OpenIsNext, ClusterTypeOK
<1>2. Written[writing + 1] \in File
  BY <1>1, NextWritten DEF File
<1>3. /\ Content(<<"triples">>) \in TriplesFiles
      /\ Content(<<"templates">>) \in TemplatesFiles
      /\ Content(<<"types">>) \in TypesFiles
  BY <1>1 DEF Content, TriplesFiles, TemplatesFiles, TypesFiles
<1>4. ASSUME NEW n \in Node, Written[writing + 1] = NodeFile(n)
      PROVE  Content(NodeFile(n)) \in NodeFiles(n)
  BY <1>1, <1>4, NodeFileIsShare DEF Content, NodeFile, NodeFiles
<1> QED BY <1>1, <1>2, <1>3, <1>4

\* It is closed: all of it is there.
LEMMA CloseFileStep ==
    ASSUME IInv, CloseFile
    PROVE  IInv'
<1> DEFINE f == Written[writing + 1]
<1>1. /\ data # NoData /\ data \in Data /\ writing \in Nat /\ writing < Len(Written)
      /\ open /\ open' = FALSE /\ writing' = writing + 1
      /\ files' = [files EXCEPT ![f] = Content(f)]
      /\ UNCHANGED <<dealVars, order, data, starts, node, restarts>>
  BY WrittenInOrder, ClientsAssumption DEF IInv, CloseFile, ClusterTypeOK, OpenIsNext
<1>2. DealtOnce' /\ LevelInv'
  BY <1>1, DealStays DEF IInv
<1>3. ClusterTypeOK'
  <2>1. writing' \in 0..Len(Written)
    BY <1>1, WrittenInOrder, ClientsAssumption
  <2> QED
    BY <1>1, <2>1 DEF IInv, ClusterTypeOK, DealTypeOK, dealVars
<1>4. DealtInOrder'
  BY <1>1, OrderStays DEF IInv
<1>5. Shapes' /\ OpenIsNext'
  BY <1>1 DEF IInv, Shapes, OpenIsNext
<1>6. FilesAreWhole'
  <2> HIDE DEF f
  <2>1. \A g \in File : files'[g] = IF g = f THEN Content(f) ELSE files[g]
    BY <1>1 DEF IInv, Shapes
  <2>2. /\ f = <<"triples">> => Content(f) \in TriplesFiles
        /\ f = <<"templates">> => Content(f) \in TemplatesFiles
        /\ f = <<"types">> => Content(f) \in TypesFiles
        /\ \A n \in Node : f = NodeFile(n) => Content(f) \in NodeFiles(n)
    BY <1>1, ContentIsWhole DEF f
  <2> QED BY <1>1, <2>1, <2>2, SharesStay
      DEF IInv, FilesAreWhole, File, TriplesFiles, TemplatesFiles, TypesFiles
<1>7. ReadIsWhole' /\ BuiltFromRead'
  BY <1>1, NodesStay DEF IInv
<1> QED BY <1>2, <1>3, <1>4, <1>5, <1>6, <1>7 DEF IInv

\* The master dies: what is closed stays.
LEMMA DieStep ==
    ASSUME IInv, Die
    PROVE  IInv'
<1>1. /\ data' = NoData /\ writing' = 0 /\ open' = FALSE
      /\ UNCHANGED <<dealVars, order, files, starts, node, restarts>>
  BY DEF Die
<1>2. DealtOnce' /\ LevelInv'
  BY <1>1, DealStays DEF IInv
<1>3. ClusterTypeOK'
  <2>1. 0 \in 0..Len(Written)
    BY WrittenInOrder, ClientsAssumption
  <2> QED BY <1>1, <2>1 DEF IInv, ClusterTypeOK, DealTypeOK, dealVars
<1>4. DealtInOrder' /\ Shapes' /\ OpenIsNext'
  BY <1>1 DEF IInv, DealtInOrder, Shapes, OpenIsNext
<1>5. FilesAreWhole' /\ ReadIsWhole' /\ BuiltFromRead'
  BY <1>1, FilesStay, NodesStay DEF IInv
<1> QED BY <1>2, <1>3, <1>4, <1>5 DEF IInv

-----------------------------------------------------------------------------
(* The steps of a node *)

\* A node reads four files.
LEMMA ReadIsShort ==
    ASSUME NEW n, NEW r, ReadOK(n, r)
    PROVE  Len(r) \in 0..4 /\ Len(r) <= 4
<1>1. r \in Seq(AnyFiles) /\ Len(r) <= 4
  BY DEF ReadOK
<1>2. Len(r) \in Nat
  BY <1>1
<1>3. \A k \in Nat : k <= 4 => k \in 0..4
  OBVIOUS
<1>4. Len(r) \in 0..4
  BY <1>1, <1>2, <1>3, Zenon
<1> QED BY <1>1, <1>4, Zenon

\* A node that changes in a way that leaves what it has read and made of it as it
\* should be.
LEMMA NodeChanges ==
    ASSUME IInv, NEW n \in Node, NEW x,
           node' = [node EXCEPT ![n] = x],
           NodeShape(x),
           x.status \in {"loading", "serving", "undefined"},
           ReadOK(n, x.read), BuiltOK(x), restarts' \in 0..MaxRestarts,
           UNCHANGED <<dealVars, order, files, data, writing, open, starts>>
    PROVE  IInv'
<1>1. DOMAIN node = Node
  BY DEF IInv, Shapes
<1>2. node'[n] = x /\ \A m \in Node : m # n => node'[m] = node[m]
  BY <1>1
<1>3. ReadIsWhole'
  BY <1>2, SharesStay DEF IInv, ReadIsWhole, ReadOK
<1>4. BuiltFromRead'
  BY <1>2 DEF IInv, BuiltFromRead
<1>5. Shapes' /\ OpenIsNext'
  BY <1>1, <1>2 DEF IInv, Shapes, OpenIsNext
<1>6. ClusterTypeOK'
  <2>1. \A m : Len(ReadBy(m)) = 4
    BY DEF ReadBy
  <2>2. \A m \in Node : Len(node'[m].read) <= 4
    <3> SUFFICES ASSUME NEW m \in Node PROVE Len(node'[m].read) <= 4
      OBVIOUS
    <3>1. Len(node[m].read) <= 4
      BY ReadIsShort DEF IInv, ReadIsWhole
    <3>2. Len(x.read) <= 4
      BY ReadIsShort
    <3>3. CASE m = n
      BY <1>2, <3>2, <3>3, Zenon
    <3>4. CASE m # n
      BY <1>2, <3>1, <3>4, Zenon
    <3> QED BY <3>3, <3>4
  <2>3. \A m \in Node : node'[m].status \in {"loading", "serving", "undefined"}
    BY <1>2 DEF IInv, ClusterTypeOK
  <2> QED
    BY <2>1, <2>2, <2>3 DEF IInv, ClusterTypeOK, DealTypeOK, dealVars
<1>7. DealtOnce' /\ LevelInv' /\ DealtInOrder' /\ FilesAreWhole'
  BY DealStays, OrderStays, FilesStay DEF IInv
<1> QED BY <1>3, <1>4, <1>5, <1>6, <1>7 DEF IInv

\* One more file has been read.
LEMMA ReadOneMore ==
    ASSUME NEW n \in Node, NEW r, NEW x, ReadOK(n, r), Len(r) \in 0..3,
           Len(r) = 0 => x \in TriplesFiles,
           Len(r) = 1 => x \in NodeFiles(n) \cup {NoMolecules},
           Len(r) = 2 => x \in TypesFiles,
           Len(r) = 3 => x \in TemplatesFiles
    PROVE  ReadOK(n, Append(r, x))
<1>1. r \in Seq(AnyFiles)
  BY DEF ReadOK
<1>2. x \in AnyFiles
  BY <1>1 DEF AnyFiles
<1>3. /\ Append(r, x) \in Seq(AnyFiles) /\ Len(Append(r, x)) = Len(r) + 1
      /\ Append(r, x)[Len(r) + 1] = x
      /\ \A i \in 1..Len(r) : Append(r, x)[i] = r[i]
  BY <1>1, <1>2
<1> HIDE DEF AnyFiles
<1> DEFINE s == Append(r, x)
<1> SUFFICES ReadOK(n, s)
  OBVIOUS
<1> HIDE DEF s
<1>4. /\ s \in Seq(AnyFiles) /\ Len(s) = Len(r) + 1 /\ s[Len(r) + 1] = x
      /\ \A i \in 1..Len(r) : s[i] = r[i]
  BY <1>3 DEF s
<1>5. CASE Len(r) = 0
  BY <1>4, <1>5 DEF ReadOK
<1>6. CASE Len(r) = 1
  BY <1>4, <1>6 DEF ReadOK
<1>7. CASE Len(r) = 2
  BY <1>4, <1>7 DEF ReadOK
<1>8. CASE Len(r) = 3
  BY <1>4, <1>8 DEF ReadOK
<1> QED BY <1>5, <1>6, <1>7, <1>8

\* One field of one node
LEMMA OneField ==
    ASSUME NEW n \in Node, DOMAIN node = Node, NodeShape(node[n]), NEW v
    PROVE  /\ [node EXCEPT ![n].status = v] =
                 [node EXCEPT ![n] = [status |-> v, read |-> node[n].read,
                                      stored |-> node[n].stored, ProvIdx |-> node[n].ProvIdx]]
           /\ [node EXCEPT ![n].read = Append(@, v)] =
                 [node EXCEPT ![n] = [status |-> node[n].status, read |-> Append(node[n].read, v),
                                      stored |-> node[n].stored, ProvIdx |-> node[n].ProvIdx]]
<1> DEFINE y == node[n]
<1>1. y = [status |-> y.status, read |-> y.read, stored |-> y.stored, ProvIdx |-> y.ProvIdx]
  BY DEF NodeShape
<1> HIDE DEF y
<1>2. [y EXCEPT !.status = v] =
        [status |-> v, read |-> y.read, stored |-> y.stored, ProvIdx |-> y.ProvIdx]
  BY <1>1
<1>3. \A w : [y EXCEPT !.read = w] =
        [status |-> y.status, read |-> w, stored |-> y.stored, ProvIdx |-> y.ProvIdx]
  BY <1>1
<1> QED BY <1>2, <1>3 DEF y

\* A node reads the next of its files, or fails to.
LEMMA ReadFileStep ==
    ASSUME IInv, NEW n \in Node, ReadFile(n)
    PROVE  IInv'
<1> DEFINE r == node[n].read
           f == ReadBy(n)[Len(r) + 1]
<1>1. /\ ReadOK(n, r) /\ Len(r) \in 0..3
      /\ UNCHANGED <<dealVars, order, files, data, writing, open, starts, restarts>>
      /\ DOMAIN node = Node /\ restarts \in 0..MaxRestarts
  <2>1. ReadOK(n, r)
    BY DEF IInv, ReadIsWhole
  <2>2. Len(r) \in 0..4
    BY <2>1, ReadIsShort
  <2>3. Len(r) < 4
    BY DEF ReadFile, ReadBy
  <2>4. Len(r) \in 0..3
    <3>1. \A k \in 0..4 : k < 4 => k \in 0..3
      OBVIOUS
    <3> QED BY <2>2, <2>3, <3>1, Zenon
  <2>5. DOMAIN node = Node /\ restarts \in 0..MaxRestarts
    BY DEF IInv, Shapes, ClusterTypeOK
  <2> QED BY <2>1, <2>4, <2>5 DEF ReadFile
<1>2. /\ Len(r) = 0 => f = <<"triples">>
      /\ Len(r) = 1 => f = NodeFile(n)
      /\ Len(r) = 2 => f = <<"types">>
      /\ Len(r) = 3 => f = <<"templates">>
  <2>1. /\ ReadBy(n)[1] = <<"triples">> /\ ReadBy(n)[2] = NodeFile(n)
        /\ ReadBy(n)[3] = <<"types">> /\ ReadBy(n)[4] = <<"templates">>
    BY DEF ReadBy
  <2>2. \A k : /\ k = 0 => ReadBy(n)[k + 1] = <<"triples">>
               /\ k = 1 => ReadBy(n)[k + 1] = NodeFile(n)
               /\ k = 2 => ReadBy(n)[k + 1] = <<"types">>
               /\ k = 3 => ReadBy(n)[k + 1] = <<"templates">>
    BY <2>1
  <2> QED BY <2>2, Zenon
<1>7. node[n].status = "loading" /\ NodeShape(node[n])
  BY DEF IInv, ReadFile, Shapes
<1>3. CASE node' = [node EXCEPT ![n].status = "undefined"]
  <2> DEFINE x == [status |-> "undefined", read |-> r,
                   stored |-> node[n].stored, ProvIdx |-> node[n].ProvIdx]
  <2>1. node' = [node EXCEPT ![n] = x]
    BY <1>1, <1>3, <1>7, OneField
  <2>2. BuiltOK(x)
    <3>1. \A k \in 0..3 : k # 4
      OBVIOUS
    <3>2. x.read = r /\ x.status = "undefined"
      OBVIOUS
    <3> QED BY <1>1, <3>1, <3>2, Zenon DEF BuiltOK
  <2>3. x.read = r /\ x.status = "undefined" /\ NodeShape(x)
    BY DEF NodeShape
  <2> HIDE DEF x
  <2> QED BY <1>1, <2>1, <2>2, <2>3, NodeChanges
<1>4. ASSUME NEW y, node' = [node EXCEPT ![n].read = Append(@, y)], ReadOK(n, Append(r, y))
      PROVE  IInv'
  <2> DEFINE x == [status |-> "loading", read |-> Append(r, y),
                   stored |-> node[n].stored, ProvIdx |-> node[n].ProvIdx]
  <2>1. node' = [node EXCEPT ![n] = x]
    <3>1. node' = [node EXCEPT ![n] = [status |-> node[n].status, read |-> Append(node[n].read, y),
                                       stored |-> node[n].stored, ProvIdx |-> node[n].ProvIdx]]
      BY <1>1, <1>4, <1>7, OneField, Zenon
    <3> QED BY <1>7, <3>1
  <2>2. BuiltOK(x)
    BY DEF BuiltOK
  <2>3. x.read = Append(r, y) /\ x.status = "loading" /\ NodeShape(x)
    BY DEF NodeShape
  <2> HIDE DEF x
  <2> QED BY <1>1, <1>4, <2>1, <2>2, <2>3, NodeChanges
<1>5. CASE files[f] = Empty /\ f = NodeFile(n)
           /\ node' = [node EXCEPT ![n].read = Append(@, NoMolecules)]
  <2>1. Len(r) = 1
    BY <1>1, <1>2, <1>5 DEF NodeFile
  <2> HIDE DEF r
  <2>2. ReadOK(n, Append(r, NoMolecules))
    BY <1>1, <2>1, ReadOneMore
  <2> QED BY <1>4, <1>5, <2>2
<1>6. CASE files[f] # Empty /\ node' = [node EXCEPT ![n].read = Append(@, files[f])]
  <2>1. /\ Len(r) = 0 => files[f] \in TriplesFiles
        /\ Len(r) = 1 => files[f] \in NodeFiles(n)
        /\ Len(r) = 2 => files[f] \in TypesFiles
        /\ Len(r) = 3 => files[f] \in TemplatesFiles
    BY <1>1, <1>2, <1>6 DEF IInv, FilesAreWhole
  <2> HIDE DEF r, f
  <2>2. ReadOK(n, Append(r, files[f]))
    BY <1>1, <2>1, ReadOneMore
  <2> QED BY <1>4, <1>6, <2>2
<1> QED BY <1>3, <1>5, <1>6 DEF ReadFile, NoMolecules

\* A node builds its part of the store, or writes outside of its types.
LEMMA BuildStep ==
    ASSUME IInv, NEW n \in Node, Build(n)
    PROVE  IInv'
<1> DEFINE r == node[n].read
           stored == {Entry(r, q) : q \in Mine(r)}
           ProvIdx == {<<q.prov, q.subject>> : q \in r[1].triples}
<1>1. /\ UNCHANGED <<dealVars, order, files, data, writing, open, starts, restarts>>
      /\ DOMAIN node = Node /\ NodeShape(node[n])
      /\ ReadOK(n, r) /\ Len(r) = 4 /\ restarts \in 0..MaxRestarts
  <2>1. Len(r) = 4
    BY DEF Build, ReadBy
  <2> QED BY <2>1 DEF Build, IInv, Shapes, ReadIsWhole, ClusterTypeOK
<1>2. CASE /\ \E q \in Mine(r) : TypeOf[q.subject] >= r[3].types \/ TypeOf[q.object] >= r[3].types
           /\ node' = [node EXCEPT ![n].status = "undefined"]
  <2> DEFINE x == [status |-> "undefined", read |-> r,
                   stored |-> node[n].stored, ProvIdx |-> node[n].ProvIdx]
  <2>1. node' = [node EXCEPT ![n] = x]
    BY <1>1, <1>2, OneField
  <2>2. x.read = r /\ x.status = "undefined" /\ NodeShape(x)
    BY DEF NodeShape
  <2> HIDE DEF x
  <2>3. BuiltOK(x)
    BY <1>2, <2>2, Zenon DEF BuiltOK
  <2> QED BY <1>1, <2>1, <2>2, <2>3, NodeChanges
<1>3. CASE node' = [node EXCEPT ![n].status = "serving", ![n].stored = stored,
                               ![n].ProvIdx = ProvIdx]
  <2> DEFINE x == [status |-> "serving", read |-> r, stored |-> stored, ProvIdx |-> ProvIdx]
  <2> HIDE DEF stored, ProvIdx
  <2>1. node' = [node EXCEPT ![n] = x]
    <3> DEFINE y == node[n]
               a == [y EXCEPT !.status = "serving"]
               b == [a EXCEPT !.stored = stored]
               c == [b EXCEPT !.ProvIdx = ProvIdx]
    <3>1. y = [status |-> y.status, read |-> y.read, stored |-> y.stored, ProvIdx |-> y.ProvIdx]
      BY <1>1 DEF NodeShape
    <3> HIDE DEF y
    <3>2. a = [status |-> "serving", read |-> y.read, stored |-> y.stored, ProvIdx |-> y.ProvIdx]
      BY <3>1
    <3>3. node' = [node EXCEPT ![n] = c]
      BY <1>3 DEF y
    <3> HIDE DEF a
    <3>4. b = [status |-> "serving", read |-> y.read, stored |-> stored, ProvIdx |-> y.ProvIdx]
      BY <3>2
    <3> HIDE DEF b
    <3>5. c = [status |-> "serving", read |-> y.read, stored |-> stored, ProvIdx |-> ProvIdx]
      BY <3>4
    <3> QED BY <3>3, <3>5 DEF y
  <2>2. x.read = r /\ x.status = "serving" /\ x.stored = stored /\ NodeShape(x)
    BY DEF NodeShape
  <2> HIDE DEF x
  <2>3. BuiltOK(x)
    BY <1>1, <2>2, Zenon DEF BuiltOK, stored
  <2> QED BY <1>1, <2>1, <2>2, <2>3, NodeChanges
<1> QED BY <1>2, <1>3 DEF Build, Mine, Entry

\* A node is started again: it has read nothing.
LEMMA StartNodeStep ==
    ASSUME IInv, NEW n \in Node, StartNode(n)
    PROVE  IInv'
<1> DEFINE x == NewNode
<1>1. /\ node' = [node EXCEPT ![n] = x] /\ restarts' \in 0..MaxRestarts
      /\ UNCHANGED <<dealVars, order, files, data, writing, open, starts>>
  BY DataAssumption DEF StartNode, IInv, ClusterTypeOK
<1>2. /\ NodeShape(x) /\ x.status = "loading" /\ x.read = <<>>
  BY DEF NewNode, NodeShape
<1>3. ReadOK(n, <<>>)
  BY DEF ReadOK
<1> HIDE DEF x
<1>4. BuiltOK(x)
  BY <1>2 DEF BuiltOK
<1> QED BY <1>1, <1>2, <1>3, <1>4, NodeChanges

-----------------------------------------------------------------------------
(* The invariant holds *)

\* Nothing has been loaded, written or read at first.
LEMMA ClusterStart == ClusterInit => IInv
<1> SUFFICES ASSUME ClusterInit PROVE IInv
  OBVIOUS
<1>1. DealTypeOK /\ DealtOnce /\ LevelInv
  BY ClientsAssumption, RangeAssumption DEF ClusterInit, Start, DealTypeOK, DealtOnce, LevelInv
<1>2. \A n \in Node : node[n] = NewNode
  BY DEF ClusterInit
<1>3. ReadIsWhole
  <2>1. \A n \in Node : ReadOK(n, <<>>)
    BY DEF ReadOK
  <2> QED BY <1>2, <2>1 DEF ReadIsWhole, NewNode
<1>4. BuiltFromRead
  BY <1>2 DEF BuiltFromRead, BuiltOK, NewNode
<1>5. FilesAreWhole
  BY DEF ClusterInit, FilesAreWhole, File
<1>6. Shapes
  BY <1>2 DEF ClusterInit, Shapes, NodeShape, NewNode
<1>7. DealtInOrder /\ OpenIsNext
  BY DEF ClusterInit, DealtInOrder, OpenIsNext
<1>8. ClusterTypeOK
  <2>1. 0 \in 0..Len(Written)
    BY WrittenInOrder, ClientsAssumption
  <2>2. order \in [Data -> Seq(Molecule)]
    BY OrdersAssumption DEF ClusterInit
  <2>3. \A n \in Node : node[n].status = "loading" /\ Len(node[n].read) <= Len(ReadBy(n))
    BY <1>2 DEF NewNode, ReadBy
  <2>4. /\ DOMAIN files = File /\ data = NoData /\ writing = 0 /\ open = FALSE
        /\ starts = 0 /\ restarts = 0
    BY DEF ClusterInit
  <2>5. starts \in 0..MaxStarts /\ restarts \in 0..MaxRestarts
    BY <2>4, DataAssumption
  <2> QED BY <1>1, <2>1, <2>2, <2>3, <2>4, <2>5 DEF ClusterTypeOK
<1> QED BY <1>1, <1>3, <1>4, <1>5, <1>6, <1>7, <1>8 DEF IInv

\* Every step keeps it.
LEMMA ClusterStep == ASSUME IInv, [ClusterNext]_allVars PROVE IInv'
<1>1. CASE UNCHANGED allVars
  <2>1. UNCHANGED dealVars /\ UNCHANGED clusterVars
    BY <1>1 DEF allVars
  <2>2. DealtOnce' /\ LevelInv' /\ DealtInOrder'
    BY <2>1, DealStays, OrderStays DEF IInv, clusterVars
  <2>3. ClusterTypeOK'
    BY <2>1 DEF IInv, ClusterTypeOK, DealTypeOK, dealVars, clusterVars
  <2>4. Shapes' /\ OpenIsNext'
    BY <2>1 DEF IInv, Shapes, OpenIsNext, clusterVars
  <2>5. FilesAreWhole' /\ ReadIsWhole' /\ BuiltFromRead'
    BY <2>1, FilesStay, NodesStay DEF IInv, clusterVars
  <2> QED BY <2>2, <2>3, <2>4, <2>5 DEF IInv
<1>2. ASSUME NEW d \in Data, StartMaster(d) PROVE IInv'
  BY <1>2, StartMasterStep
<1>3. CASE MasterStep
  BY <1>3, DealStep, OpenFileStep, CloseFileStep DEF MasterStep
<1>4. CASE Die
  BY <1>4, DieStep
<1>5. ASSUME NEW n \in Node, NodeStep(n) \/ StartNode(n) PROVE IInv'
  BY <1>5, ReadFileStep, BuildStep, StartNodeStep DEF NodeStep
<1> QED BY <1>1, <1>2, <1>3, <1>4, <1>5 DEF ClusterNext

\* What the master has dealt out, the files hold and the nodes have read fits together.
THEOREM ClusterInvariant == ClusterSpec => []IInv
  BY ClusterStart, ClusterStep, PTL DEF ClusterSpec

\* Every variable of the master, the files and the nodes keeps its type.
THEOREM ClusterTypeCorrect == ClusterSpec => []ClusterTypeOK
<1>1. IInv => ClusterTypeOK
  BY DEF IInv
<1> QED BY <1>1, ClusterInvariant, PTL

\* A master that is started again deals each molecule out once, as the first did,
\* and evenly.
THEOREM MastersDealOnce == ClusterSpec => [](DealtOnce /\ Balanced)
<1>1. IInv => DealtOnce /\ Balanced
  BY LevelIsBalanced DEF IInv, ClusterTypeOK
<1> QED BY <1>1, ClusterInvariant, PTL

-----------------------------------------------------------------------------
(* Shares *)

\* Each molecule of a dataset is in the share of some node.
LEMMA SharesCover ==
    ASSUME order \in Orders, NEW d \in Data
    PROVE  UNION {Share(order[d], Total(d), n) : n \in Node} = MoleculesOf(d)
<1>1. /\ order[d] \in [1..Total(d) -> MoleculesOf(d)] /\ Total(d) \in Nat
      /\ \A k \in MoleculesOf(d) : \E i \in 1..Total(d) : order[d][i] = k
  BY OrderHasEach
<1>2. \A i \in 1..Total(d) : Turn[i].node \in Node
  <2>1. \A t \in TurnType : t.node \in Node
    BY DEF TurnType
  <2>2. \A i \in Nat : Turn[i] \in TurnType
    BY TurnsFollow
  <2> QED BY <1>1, <2>1, <2>2
<1>3. ASSUME NEW k \in MoleculesOf(d)
      PROVE  \E n \in Node : k \in Share(order[d], Total(d), n)
  <2>1. PICK i \in 1..Total(d) : order[d][i] = k
    BY <1>1
  <2>2. k \in Share(order[d], Total(d), Turn[i].node)
    BY <2>1 DEF Share
  <2> QED BY <1>2, <2>2
<1>4. \A n \in Node : Share(order[d], Total(d), n) \subseteq MoleculesOf(d)
  BY <1>1 DEF Share
<1> QED BY <1>3, <1>4

\* No molecule is in the shares of two.
LEMMA SharesDiffer ==
    ASSUME order \in Orders, NEW d \in Data, NEW n \in Node, NEW m \in Node,
           NEW k \in Share(order[d], Total(d), n), k \in Share(order[d], Total(d), m)
    PROVE  n = m
<1>1. PICK i \in 1..Total(d) : Turn[i].node = n /\ order[d][i] = k
  BY DEF Share
<1>2. PICK j \in 1..Total(d) : Turn[j].node = m /\ order[d][j] = k
  BY DEF Share
<1>3. i = j
  BY <1>1, <1>2, OrderHasEach
<1> QED BY <1>1, <1>2, <1>3

\* Files that are all there and of one dataset hold all its molecules, even if one
\* load wrote some of them and another one the rest.
THEOREM FilesFitTogether == ClusterSpec => []FilesAgree
<1>1. ASSUME IInv PROVE FilesAgree
  <2> SUFFICES ASSUME NEW d \in Data, \A f \in File : files[f] # Empty /\ files[f].of = d
               PROVE  UNION {files[NodeFile(n)].molecules : n \in Node} = MoleculesOf(d)
    BY DEF FilesAgree
  <2>1. ASSUME NEW n \in Node
        PROVE  files[NodeFile(n)].molecules = Share(order[d], Total(d), n)
    <3>1. NodeFile(n) \in File
      BY DEF File
    <3>2. files[NodeFile(n)] \in NodeFiles(n) /\ files[NodeFile(n)].of = d
      BY <1>1, <3>1 DEF IInv, FilesAreWhole
    <3>3. PICK e \in Data : files[NodeFile(n)] =
                               [of |-> e, molecules |-> Share(order[e], Total(e), n)]
      BY <3>2 DEF NodeFiles
    <3> QED BY <3>2, <3>3
  <2>2. UNION {Share(order[d], Total(d), n) : n \in Node} = MoleculesOf(d)
    BY <1>1, SharesCover DEF IInv, Shapes
  <2> QED BY <2>1, <2>2
<1> QED BY <1>1, ClusterInvariant, PTL

-----------------------------------------------------------------------------
(* What the nodes answer *)

\* A node that has read all its files, of one dataset
LEMMA OneDataRead ==
    ASSUME NEW n \in Node, NEW r, ReadOK(n, r), Len(r) = 4, NEW d, \A i \in 1..4 : r[i].of = d
    PROVE  /\ d \in Data
           /\ r[1].triples = QuadsOf[d] /\ r[3].types = TypesOf[d]
           /\ r[4].templates = TemplatesOf[d]
           /\ r[2].molecules = Share(order[d], Total(d), n)
<1>1. /\ r[1] \in TriplesFiles /\ r[2] \in NodeFiles(n) \cup {NoMolecules}
      /\ r[3] \in TypesFiles /\ r[4] \in TemplatesFiles
  <2>1. 4 >= 1 /\ 4 >= 2 /\ 4 >= 3 /\ 4 >= 4
    OBVIOUS
  <2> QED BY <2>1, Zenon DEF ReadOK
<1>2. /\ r[1].of = d /\ r[2].of = d /\ r[3].of = d /\ r[4].of = d
  OBVIOUS
<1>3. d \in Data /\ r[1].triples = QuadsOf[d]
  BY <1>1, <1>2 DEF TriplesFiles
<1>4. r[3].types = TypesOf[d]
  BY <1>1, <1>2 DEF TypesFiles
<1>5. r[4].templates = TemplatesOf[d]
  BY <1>1, <1>2 DEF TemplatesFiles
<1>6. r[2].molecules = Share(order[d], Total(d), n)
  <2>1. r[2] # NoMolecules
    BY <1>2, <1>3, DataAssumption DEF NoMolecules
  <2> QED BY <1>1, <1>2, <2>1 DEF NodeFiles
<1> QED BY <1>3, <1>4, <1>5, <1>6

\* A node writes outside of its types only if its files are of different loads.
THEOREM OneDataIsDefined == ClusterSpec => []OneDataDefined
<1>1. ASSUME IInv PROVE OneDataDefined
  <2> SUFFICES ASSUME NEW n \in Node, node[n].status = "undefined",
                      Len(node[n].read) = Len(ReadBy(n)),
                      \A d, e \in LoadedFrom(n) : d = e
               PROVE  FALSE
    BY DEF OneDataDefined
  <2> DEFINE r == node[n].read
             d == r[1].of
  <2>1. Len(r) = 4 /\ ReadOK(n, r) /\ BuiltOK(node[n])
    BY <1>1 DEF ReadBy, IInv, ReadIsWhole, BuiltFromRead
  <2>2. \A i \in 1..4 : r[i].of = d
    <3>1. DOMAIN r = 1..4
      BY <2>1 DEF ReadOK
    <3>2. \A i \in 1..4 : r[i].of \in LoadedFrom(n)
      BY <3>1 DEF LoadedFrom
    <3>3. 1 \in 1..4
      OBVIOUS
    <3> QED BY <3>2, <3>3
  <2>3. PICK q \in r[1].triples : TypeOf[q.subject] >= r[3].types \/ TypeOf[q.object] >= r[3].types
    BY <2>1, Zenon DEF BuiltOK, Mine
  <2> HIDE DEF r, d
  <2>4. /\ d \in Data /\ r[1].triples = QuadsOf[d] /\ r[3].types = TypesOf[d]
    BY <2>1, <2>2, OneDataRead
  <2>5. {TypeOf[q.subject], TypeOf[q.object]} \subseteq 0..(TypesOf[d] - 1) /\ TypesOf[d] \in Nat
    BY <2>3, <2>4, DataAssumption
  <2> QED BY <2>3, <2>4, <2>5
<1> QED BY <1>1, ClusterInvariant, PTL

\* An entry and the quad it says, through the templates
Said(templates, e) ==
    [subject |-> e.subject, object |-> e.object, prov |-> e.prov,
     predicate |-> (CHOOSE t \in templates : t.root = TypeOf[e.subject] /\ t.ID = e.tmpl).predicateID]

\* The templates lose nothing of a quad: the ID of the template, which is cut to 16
\* bits, and the type of the subject say its predicate.
LEMMA EntrySays ==
    ASSUME NEW d \in Data, NEW q \in Instances(d), NEW r, r[4].templates = TemplatesOf[d]
    PROVE  Said(r[4].templates, Entry(r, q)) = q
<1> DEFINE T == TemplatesOf[d]
           found == {t \in T : /\ t.root = TypeOf[q.subject] /\ t.predicateID = q.predicate
                              /\ t.objectType = TypeOf[q.object]}
           t0 == CHOOSE t \in found : TRUE
           e == Entry(r, q)
<1>1. found # {}
  BY DataAssumption
<1>2. t0 \in found
  BY <1>1
<1> HIDE DEF t0
<1>3. t0 \in T /\ t0.root = TypeOf[q.subject] /\ t0.predicateID = q.predicate
  BY <1>2
<1>4. t0.ID \in 0..(TmplMod - 1) /\ TmplMod \in Nat \ {0}
  BY <1>3, DataAssumption
<1>5. GetTemplate(r[4].templates, q) = t0.ID % TmplMod
  BY <1>1 DEF GetTemplate, t0
<1>6. t0.ID % TmplMod = t0.ID
  BY <1>4
<1>7. e.subject = q.subject /\ e.object = q.object /\ e.prov = q.prov /\ e.tmpl = t0.ID
  BY <1>5, <1>6 DEF Entry
<1> HIDE DEF e
<1> DEFINE t1 == CHOOSE t \in T : t.root = TypeOf[e.subject] /\ t.ID = e.tmpl
<1>8. t1 \in T /\ t1.root = TypeOf[q.subject] /\ t1.ID = t0.ID
  BY <1>3, <1>7
<1>9. t1 = t0
  BY <1>3, <1>8, DataAssumption
<1> HIDE DEF t1
<1>10. Said(T, e) = [subject |-> e.subject, object |-> e.object, prov |-> e.prov,
                     predicate |-> t1.predicateID]
  BY DEF Said, t1
<1>11. q = [subject |-> q.subject, predicate |-> q.predicate, object |-> q.object, prov |-> q.prov]
  BY DataAssumption DEF Instances
<1> QED BY <1>3, <1>7, <1>9, <1>10, <1>11 DEF e

\* A node that serves and has read files of one dataset only answers its share of
\* the instances of it.
LEMMA AnswersAreShare ==
    ASSUME IInv, NEW d \in Data, NEW n \in Node, node[n].status = "serving", LoadedFrom(n) = {d}
    PROVE  /\ Answers(n) = {q \in Instances(d) : q.subject \in Share(order[d], Total(d), n)}
           /\ \A e \in node[n].stored : e.subject \in Share(order[d], Total(d), n)
<1> DEFINE r == node[n].read
           own == {q \in Instances(d) : q.subject \in Share(order[d], Total(d), n)}
<1>1. /\ Len(r) = 4 /\ node[n].stored = {Entry(r, q) : q \in Mine(r)}
      /\ ReadOK(n, r) /\ order \in Orders
  BY Zenon DEF IInv, BuiltFromRead, BuiltOK, ReadIsWhole, Shapes
<1>2. \A i \in 1..4 : r[i].of = d
  <2>1. DOMAIN r = 1..4
    BY <1>1 DEF ReadOK
  <2>2. \A i \in 1..4 : r[i].of \in LoadedFrom(n)
    BY <2>1 DEF LoadedFrom
  <2> QED BY <2>2
<1>3. Answers(n) = {Said(r[4].templates, e) : e \in node[n].stored}
  BY DEF Answers, Said
<1> HIDE DEF r
<1>4. /\ r[1].triples = QuadsOf[d] /\ r[4].templates = TemplatesOf[d]
      /\ r[2].molecules = Share(order[d], Total(d), n)
  BY <1>1, <1>2, OneDataRead
<1>5. Share(order[d], Total(d), n) \subseteq MoleculesOf(d)
  BY <1>1, SharesCover
<1>6. Mine(r) = own
  <2>1. \A q : q.subject \in MoleculesOf(d) => TypeOf[q.subject] >= 2
    BY DEF MoleculesOf, Instances
  <2> QED BY <1>4, <1>5, <2>1 DEF Mine, Instances
<1>7. \A q \in own : Said(r[4].templates, Entry(r, q)) = q
  BY <1>4, EntrySays
<1>8. \A q \in own : Entry(r, q).subject = q.subject
  BY DEF Entry
<1> HIDE DEF own
<1>9. Answers(n) = {Said(r[4].templates, Entry(r, q)) : q \in own}
  BY <1>1, <1>3, <1>6
<1>10. Answers(n) = own
  BY <1>7, <1>9
<1>11. \A e \in node[n].stored : e.subject \in Share(order[d], Total(d), n)
  BY <1>1, <1>6, <1>8 DEF own
<1> QED BY <1>10, <1>11 DEF own

\* Nodes that have read files of one dataset only hold together exactly its instances
\* and none twice, whichever loads wrote these files.
THEOREM ClusterIsExact == ClusterSpec => []ClusterExact
<1>1. ASSUME IInv PROVE ClusterExact
  <2> SUFFICES ASSUME NEW d \in Data,
                      \A n \in Node : node[n].status = "serving" /\ LoadedFrom(n) = {d}
               PROVE  /\ UNION {Answers(n) : n \in Node} = Instances(d)
                      /\ \A n, m \in Node : \A e \in node[n].stored, f \in node[m].stored :
                            e.subject = f.subject => n = m
    BY DEF ClusterExact
  <2>1. order \in Orders
    BY <1>1 DEF IInv, Shapes
  <2>2. \A n \in Node :
           /\ Answers(n) = {q \in Instances(d) : q.subject \in Share(order[d], Total(d), n)}
           /\ \A e \in node[n].stored : e.subject \in Share(order[d], Total(d), n)
    BY <1>1, AnswersAreShare
  <2>3. UNION {Share(order[d], Total(d), n) : n \in Node} = MoleculesOf(d)
    BY <2>1, SharesCover
  <2>4. \A q \in Instances(d) : \E n \in Node : q.subject \in Share(order[d], Total(d), n)
    BY <2>3 DEF MoleculesOf
  <2>5. UNION {Answers(n) : n \in Node} = Instances(d)
    BY <2>2, <2>4
  <2>6. \A n, m \in Node : \A e \in node[n].stored, f \in node[m].stored :
           e.subject = f.subject => n = m
    BY <2>1, <2>2, SharesDiffer
  <2> QED BY <2>5, <2>6
<1> QED BY <1>1, ClusterInvariant, PTL
=============================================================================

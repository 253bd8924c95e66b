----------------------------- MODULE Partitioner -----------------------------
(***************************************************************************)
(* How the master deals the molecules out to the network nodes: runs of    *)
(* PartitionerRange molecules to one node after the other.  The molecules  *)
(* come in the order of an unordered_set, which may be any.                *)
(***************************************************************************)
EXTENDS Integers, Sequences

CONSTANTS Molecule,            \* the subjects that may have a molecule
          nbOfClients,         \* number of nodes
          PartitionerRange     \* length of a run

ASSUME ClientsAssumption == nbOfClients \in Nat \ {0}
ASSUME RangeAssumption == PartitionerRange \in Nat \ {0}

VARIABLES
    given,             \* _molecules, the argument of PartitionMolecules
    todo,              \* the molecules the iterator has not come to
    nodes,             \* the molecules of every node
    lastNetworkNode,   \* the node of the next run
    networkNode,       \* the node of this run
    run                \* molecules of this run dealt out so far

dealVars == <<given, todo, nodes, lastNetworkNode, networkNode, run>>

Node == 0..(nbOfClients - 1)

DealTypeOK ==
    /\ given \subseteq Molecule
    /\ todo \subseteq given
    /\ nodes \in [Node -> Seq(given)]
    /\ lastNetworkNode \in Node
    /\ networkNode \in Node
    /\ run \in 1..PartitionerRange

\* A new Partitioner.  The run before the first is over.
Start(molecules) ==
    /\ given = molecules /\ todo = molecules
    /\ nodes = [n \in Node |-> <<>>]
    /\ lastNetworkNode = 0 /\ networkNode = 0
    /\ run = PartitionerRange

\* Slip: the last node is never reached.
nextNetworkNodeShort ==
    IF lastNetworkNode < nbOfClients - 2 THEN lastNetworkNode + 1 ELSE 0

\* Slip: <= for <.
nextNetworkNodeLate ==
    IF lastNetworkNode <= nbOfClients - 1 THEN lastNetworkNode + 1 ELSE 0

\* What getNextNetworkNode leaves in lastNetworkNode.
nextNetworkNode ==
    IF lastNetworkNode < nbOfClients - 1 THEN lastNetworkNode + 1 ELSE 0

push_back(n, k) == nodes' = [nodes EXCEPT ![n] = Append(@, k)]

\* The first molecule of a run, to the node whose turn it is.
DealFirst(k) ==
    /\ k \in todo /\ run = PartitionerRange
    /\ networkNode' = lastNetworkNode
    /\ lastNetworkNode' = nextNetworkNode
    /\ push_back(lastNetworkNode, k)
    /\ run' = 1
    /\ todo' = todo \ {k}
    /\ UNCHANGED given

\* Slip: the iterator is not advanced before push_back.
DealMoreAgain(k) ==
    /\ k \in todo /\ run < PartitionerRange
    /\ push_back(networkNode, k)
    /\ run' = run + 1
    /\ UNCHANGED <<given, todo, lastNetworkNode, networkNode>>

\* The others of a run; it is cut short if there are no more.
DealMore(k) ==
    /\ k \in todo /\ run < PartitionerRange
    /\ push_back(networkNode, k)
    /\ run' = run + 1
    /\ todo' = todo \ {k}
    /\ UNCHANGED <<given, lastNetworkNode, networkNode>>

DealInit == \E molecules \in SUBSET Molecule : Start(molecules)

DealNext == \E k \in todo : DealFirst(k) \/ DealMore(k)

DealSpec == DealInit /\ [][DealNext]_dealVars

-----------------------------------------------------------------------------
(* Properties *)

\* Every molecule the iterator has passed is at exactly one place of one node:
\* a run that goes on, ends or is cut short loses none and deals none twice.
DealtOnce ==
    /\ given \ todo = UNION {{nodes[n][i] : i \in DOMAIN nodes[n]} : n \in Node}
    /\ \A n, m \in Node : \A i \in DOMAIN nodes[n], j \in DOMAIN nodes[m] :
          nodes[n][i] = nodes[m][j] => n = m /\ i = j

\* No node ever has more than one run more than another.
Balanced == \A n, m \in Node : Len(nodes[n]) - Len(nodes[m]) <= PartitionerRange
=============================================================================

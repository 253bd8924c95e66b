------------------------------- MODULE Cluster -------------------------------
(***************************************************************************)
(* The master writes what it has loaded to files and every node builds its *)
(* part of the store from them.                                            *)
(*                                                                         *)
(* The files are written one after the other, in place, and carry nothing  *)
(* that says which load they are of; a node reads them one after the other *)
(* whenever it is started.  The master may die at any point and be run     *)
(* again on the same data or on other data.  Opening a file for writing    *)
(* cuts it to nothing; what it holds is there when it is closed.           *)
(*                                                                         *)
(* A load is given by what MoleculeStore and KeyIndex say of it: its quads *)
(* and templates and the number of types.  The order of the unordered_set  *)
(* of its molecules is unknown, but the same whenever it is loaded.        *)
(***************************************************************************)
EXTENDS Partitioner, FiniteSets

Seqs == INSTANCE SequencesExt

CONSTANTS Data,         \* the datasets
          QuadsOf,      \* dataset -> its quads
          TemplatesOf,  \* dataset -> its templates
          TypesOf,      \* dataset -> KeyManager::GetNbOfTypes
          TypeOf,       \* KeyManager::GetType
          TmplMod,      \* 2^16
          Orders,       \* how unordered_sets may have the molecules of the datasets
          MaxStarts,    \* bound on the starts of the master
          MaxRestarts   \* bound on the restarts of nodes

Instances(d) == {q \in QuadsOf[d] : TypeOf[q.subject] >= 2}
MoleculesOf(d) == {q.subject : q \in Instances(d)}

NoData == "no data"

ASSUME DataAssumption ==
    /\ NoData \notin Data
    /\ TmplMod \in Nat \ {0} /\ {MaxStarts, MaxRestarts} \subseteq Nat
    /\ \A d \in Data :
          /\ MoleculesOf(d) \subseteq Molecule /\ IsFiniteSet(MoleculesOf(d))
          /\ \A t, u \in TemplatesOf[d] : t.root = u.root /\ t.ID = u.ID => t = u
          /\ \A t \in TemplatesOf[d] : t.ID \in 0..(TmplMod - 1)
          /\ \A q \in Instances(d) : \E t \in TemplatesOf[d] :
                /\ t.root = TypeOf[q.subject] /\ t.predicateID = q.predicate
                /\ t.objectType = TypeOf[q.object]
          /\ TypesOf[d] \in Nat
          /\ \A q \in QuadsOf[d] :
                /\ {TypeOf[q.subject], TypeOf[q.object]} \subseteq 0..(TypesOf[d] - 1)
                /\ q = [subject |-> q.subject, predicate |-> q.predicate,
                         object |-> q.object, prov |-> q.prov]

\* Each molecule has its place.
ASSUME OrdersAssumption ==
    \A o \in Orders :
        /\ o \in [Data -> Seq(Molecule)]
        /\ \A d \in Data :
              /\ o[d] \in [1..Cardinality(MoleculesOf(d)) -> MoleculesOf(d)]
              /\ \A i, j \in DOMAIN o[d] : i # j => o[d][i] # o[d][j]

NodeFile(n) == <<"node", n>>
File == {<<"triples">>, <<"templates">>, <<"types">>} \cup {NodeFile(n) : n \in Node}

Empty == [of |-> NoData]    \* a file that is not there, or not written to its end

VARIABLES
    order,      \* dataset -> its molecules, as their unordered_set has them
    files,      \* what is on disk
    data,       \* the dataset the master loads, or NoData
    writing,    \* how many of the master's files are closed
    open,       \* whether the next one is open
    starts,     \* how often the master has been started
    node,       \* every ConductorNode
    restarts    \* how often one of them has been restarted

clusterVars == <<order, files, data, writing, open, starts, node, restarts>>
allVars == <<dealVars, clusterVars>>

\* The files in the order the master writes them, and a node reads them.
Written == <<<<"triples">>>> \o [i \in 1..nbOfClients |-> NodeFile(i - 1)]
              \o <<<<"templates">>, <<"types">>>>
ReadBy(n) == <<<<"triples">>, NodeFile(n), <<"types">>, <<"templates">>>>

Finished == data # NoData /\ writing = Len(Written)

\* A ConductorNode before it has read anything.
NewNode == [status |-> "loading", read |-> <<>>, stored |-> {}, ProvIdx |-> {}]

ClusterTypeOK ==
    /\ DealTypeOK
    /\ order \in [Data -> Seq(Molecule)]
    /\ DOMAIN files = File
    /\ data \in Data \cup {NoData}
    /\ writing \in 0..Len(Written) /\ open \in BOOLEAN
    /\ starts \in 0..MaxStarts /\ restarts \in 0..MaxRestarts
    /\ \A n \in Node : /\ node[n].status \in {"loading", "serving", "undefined"}
                       /\ Len(node[n].read) <= Len(ReadBy(n))

ClusterInit ==
    /\ Start({})
    /\ order \in Orders
    /\ files = [f \in File |-> Empty]
    /\ data = NoData /\ writing = 0 /\ open = FALSE /\ starts = 0
    /\ node = [n \in Node |-> NewNode] /\ restarts = 0

-----------------------------------------------------------------------------
(* The master *)

\* A process that has dealt out nothing; the files are as the last one left them.
StartMaster(d) ==
    /\ starts < MaxStarts
    /\ starts' = starts + 1
    /\ data' = d /\ writing' = 0 /\ open' = FALSE
    /\ given' = MoleculesOf(d) /\ todo' = MoleculesOf(d)
    /\ nodes' = [n \in Node |-> <<>>]
    /\ lastNetworkNode' = 0 /\ networkNode' = 0 /\ run' = PartitionerRange
    /\ UNCHANGED <<order, files, node, restarts>>

\* Slip: an order that changes with every process, as a seeded hash has it.
DealAnyOrder ==
    /\ data # NoData /\ writing = 1 /\ ~open
    /\ \E k \in todo : DealFirst(k) \/ DealMore(k)
    /\ UNCHANGED clusterVars

\* PartitionMolecules runs between the first file and the others.
Deal ==
    /\ data # NoData /\ writing = 1 /\ ~open
    /\ \E k \in todo : /\ k = order[data][Cardinality(given) - Cardinality(todo) + 1]
                       /\ DealFirst(k) \/ DealMore(k)
    /\ UNCHANGED clusterVars

\* Slip: the highest number of a type for how many there are.
ContentLastType(f) ==
    CASE f[1] = "triples"   -> [of |-> data, triples |-> QuadsOf[data]]
      [] f[1] = "templates" -> [of |-> data, templates |-> TemplatesOf[data]]
      [] f[1] = "types"     -> [of |-> data, types |-> TypesOf[data] - 1]
      [] f[1] = "node"      -> [of |-> data, molecules |-> Seqs!ToSet(nodes[f[2]])]

\* What goes into a file.
Content(f) ==
    CASE f[1] = "triples"   -> [of |-> data, triples |-> QuadsOf[data]]
      [] f[1] = "templates" -> [of |-> data, templates |-> TemplatesOf[data]]
      [] f[1] = "types"     -> [of |-> data, types |-> TypesOf[data]]
      [] f[1] = "node"      -> [of |-> data, molecules |-> Seqs!ToSet(nodes[f[2]])]

OpenFile ==
    /\ data # NoData /\ writing < Len(Written) /\ ~open
    /\ writing = 1 => todo = {}
    /\ open' = TRUE
    /\ files' = [files EXCEPT ![Written[writing + 1]] = Empty]
    /\ UNCHANGED <<dealVars, order, data, writing, starts, node, restarts>>

\* Slip: a node that gets no molecules gets no file.
CloseFileIfAny ==
    /\ open
    /\ open' = FALSE /\ writing' = writing + 1
    /\ LET f == Written[writing + 1] IN
          files' = IF f[1] = "node" /\ nodes[f[2]] = <<>> THEN files
                   ELSE [files EXCEPT ![f] = Content(f)]
    /\ UNCHANGED <<dealVars, order, data, starts, node, restarts>>

CloseFile ==
    /\ open
    /\ open' = FALSE /\ writing' = writing + 1
    /\ files' = [files EXCEPT ![Written[writing + 1]] = Content(Written[writing + 1])]
    /\ UNCHANGED <<dealVars, order, data, starts, node, restarts>>

\* The process ends where it is; it has not finished.
Die ==
    /\ data # NoData /\ ~Finished
    /\ data' = NoData /\ writing' = 0 /\ open' = FALSE
    /\ UNCHANGED <<dealVars, order, files, starts, node, restarts>>

-----------------------------------------------------------------------------
(* A node *)

\* Slip: a node waits for a file that is not there.
ReadFileWaiting(n) ==
    LET f == ReadBy(n)[Len(node[n].read) + 1] IN
    /\ node[n].status = "loading" /\ Len(node[n].read) < Len(ReadBy(n))
    /\ files[f] # Empty
    /\ node' = [node EXCEPT ![n].read = Append(@, files[f])]
    /\ UNCHANGED <<dealVars, order, files, data, writing, open, starts, restarts>>

\* A size that cannot be read is used as it is, except that of node<i>: it was
\* set to 0, and the node then has no molecules.
ReadFile(n) ==
    LET f == ReadBy(n)[Len(node[n].read) + 1] IN
    /\ node[n].status = "loading" /\ Len(node[n].read) < Len(ReadBy(n))
    /\ \/ /\ files[f] = Empty /\ f # NodeFile(n)
          /\ node' = [node EXCEPT ![n].status = "undefined"]
       \/ /\ files[f] = Empty /\ f = NodeFile(n)
          /\ node' = [node EXCEPT ![n].read = Append(@, [of |-> NoData, molecules |-> {}])]
       \/ /\ files[f] # Empty
          /\ node' = [node EXCEPT ![n].read = Append(@, files[f])]
    /\ UNCHANGED <<dealVars, order, files, data, writing, open, starts, restarts>>

\* unsigned short: of size_t(-1), too, if there is no template.
GetTemplate(templates, q) ==
    LET found == {t \in templates : /\ t.root = TypeOf[q.subject] /\ t.predicateID = q.predicate
                                    /\ t.objectType = TypeOf[q.object]}
    IN  (IF found = {} THEN -1 ELSE (CHOOSE t \in found : TRUE).ID) % TmplMod

\* Slip: the node keeps every triple of the file.
BuildAll(n) ==
    LET r == node[n].read IN
    /\ node[n].status = "loading" /\ Len(r) = Len(ReadBy(n))
    /\ node' = [node EXCEPT ![n].status = "serving",
                    ![n].stored = {[subject |-> q.subject, tmpl |-> GetTemplate(r[4].templates, q),
                                    object |-> q.object, prov |-> q.prov] : q \in r[1].triples},
                    ![n].ProvIdx = {<<q.prov, q.subject>> : q \in r[1].triples}]
    /\ UNCHANGED <<dealVars, order, files, data, writing, open, starts, restarts>>

\* The entries of the node's own molecules, and the provenance of all; a type
\* that the file of types has no place for is written outside of the vector.
Build(n) ==
    LET r == node[n].read
        mine == {q \in r[1].triples : q.subject \in r[2].molecules}
    IN
    /\ node[n].status = "loading" /\ Len(r) = Len(ReadBy(n))
    /\ \/ /\ \E q \in mine : TypeOf[q.subject] >= r[3].types \/ TypeOf[q.object] >= r[3].types
          /\ node' = [node EXCEPT ![n].status = "undefined"]
       \/ /\ \A q \in mine : TypeOf[q.subject] < r[3].types /\ TypeOf[q.object] < r[3].types
          /\ node' = [node EXCEPT ![n].status = "serving",
                 ![n].stored = {[subject |-> q.subject, tmpl |-> GetTemplate(r[4].templates, q),
                                 object |-> q.object, prov |-> q.prov] : q \in mine},
                 ![n].ProvIdx = {<<q.prov, q.subject>> : q \in r[1].triples}]
    /\ UNCHANGED <<dealVars, order, files, data, writing, open, starts, restarts>>

StartNode(n) ==
    /\ restarts < MaxRestarts
    /\ restarts' = restarts + 1
    /\ node' = [node EXCEPT ![n] = NewNode]
    /\ UNCHANGED <<dealVars, order, files, data, writing, open, starts>>

MasterStep == Deal \/ OpenFile \/ CloseFile

NodeStep(n) == ReadFile(n) \/ Build(n)

ClusterNext ==
    \/ \E d \in Data : StartMaster(d)
    \/ MasterStep
    \/ Die
    \/ \E n \in Node : NodeStep(n) \/ StartNode(n)

\* The master and the nodes are threads of their own that wait for nothing; how
\* often they are started is not up to them.
ClusterSpec ==
    /\ ClusterInit /\ [][ClusterNext]_allVars
    /\ WF_allVars(MasterStep) /\ \A n \in Node : WF_allVars(NodeStep(n))

-----------------------------------------------------------------------------
(* Properties *)

\* The dataset of a file, or of one that was read.
LoadedFrom(n) == {node[n].read[i].of : i \in DOMAIN node[n].read}

\* The quads a node can answer, through the templates it has read.
Answers(n) ==
    {[subject |-> e.subject, object |-> e.object, prov |-> e.prov,
      predicate |-> (CHOOSE t \in node[n].read[4].templates :
                        t.root = TypeOf[e.subject] /\ t.ID = e.tmpl).predicateID] :
        e \in node[n].stored}

\* If every node has read files of one dataset only, together they hold exactly
\* its instances, no molecule twice, whichever loads wrote these files: one
\* that died half-way and the one that did it again can both have.
ClusterExact ==
    \A d \in Data : (\A n \in Node : node[n].status = "serving" /\ LoadedFrom(n) = {d}) =>
        /\ UNION {Answers(n) : n \in Node} = Instances(d)
        /\ \A n, m \in Node : \A e \in node[n].stored, f \in node[m].stored :
              e.subject = f.subject => n = m

\* A node that has read files of one dataset only is never in an undefined state.
OneDataDefined ==
    \A n \in Node : node[n].status = "undefined" /\ Len(node[n].read) = Len(ReadBy(n)) =>
        \E d, e \in LoadedFrom(n) : d # e

\* Files that are all there and say they are of one dataset are what one load of
\* it leaves, even if it took two.
FilesAgree ==
    \A d \in Data : (\A f \in File : files[f] # Empty /\ files[f].of = d) =>
        UNION {files[NodeFile(n)].molecules : n \in Node} = MoleculesOf(d)

\* A master that is not killed leaves complete files of its dataset, whatever
\* was there before; and stays so until it is started again.
MasterFinishes ==
    \A d \in Data : data = d /\ starts = MaxStarts ~>
        \/ data = NoData
        \/ \A f \in File : files[f] # Empty /\ files[f].of = d

\* A node ends up serving, or in an undefined state, once it is not restarted.
NodesFinish == <>[](\A n \in Node : node[n].status # "loading")
=============================================================================

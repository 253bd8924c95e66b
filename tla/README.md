# TripleProv for WatDiv: a verification development

This directory specifies and verifies the program of this repository: TripleProv,
an in-memory RDF store (`tripleprov/src`, C++) that answers queries together with
the provenance of every part of the answer, and the benchmark around it.

## 1. The system

### Parts, state and operations

| part | state | operations | correct when |
|---|---|---|---|
| `KeyManager` (KeyManager.cpp) | radix tree of URIs, a leaf with a KEY_ID at each, `types[t].elements` from keys to nodes | `Add`, `Get` both ways, `MakeInverseIndexTypes`, `MakeInverseIndex` | every URI added is found again, has a key of its own, the key leads back to it, and its upper half is its type |
| `Conductor::LoadData` (Conductor.cpp) | the position in the file, leaf pointers of the quads, types of instances | pass 1 (classes), pass 2 (everything else), templates, node files, molecules | every quad of the file is in the store and in all indexes, and no other |
| `TemplateManager` | templates (subject type, predicate, object type) with an ID per subject type | `AddTemplate`, `GetTemplate(s)`, `GetPredicate`, `Store`, `Restore` | an ID names one template under its root |
| `Molecules` | one molecule per subject, inverted index object -> molecules | `CreateMolecule`, `GetPair`, `CheckIfEntityExists`, `GetEntity` | molecules and index agree; nothing outside the provenance filter is shown |
| globals of `diplo` (diplodocus.cpp) | `ProvIdx`, `contextTriples`, `ProvUris`, `ProvTrigerON` | set by the load and by `TPDemo` | the filter is what the provenance query means |
| `API` | none | `TriplePatern`, `GetSubjects`, `GetObjects` | answers and provenance are what the patterns mean |
| `BTCprov`, `WatDivprov`, `WDCqueries` | none | one hand-written plan per query, `TPDemo` for query files | the plan answers the SPARQL query above it |
| `TypesHierarchy`, `TypesManager` | subclass lists, elements by type | `AddRelation`, `GiveSubClass`, ... | an instance has its most specific class |
| `Partitioner`, `ConductorNode` | node files, the nodes' part of the store | deal out molecules, write and read files | the nodes' parts are together the store, and disjoint |
| `Server`, `Client` | a socket for each node | `Start`, `Send`, `Receive` | what is sent arrives, in order, or somebody notices |
| `LUBMnetwork` | none | for every query what a node (`_n`) and what the master (`_m`) does | node and master agree on what is sent, and find what one process with the whole store would |
| benchmark (`Rakefile`, `rakelib`, `lib`) | marker files, containers, result files | get and reify datasets, create containers, measure | a task marked done has been done; a measurement is of the query it names |
| generators (`scripts`) | none | reify, transpose, generate | formatting, apart from the reification |

`main` (diplodocus.cpp:112) runs one load and then one benchmark query, in one thread.
LoadData calls the KeyManager for every word of every line, gives the keys to the
TemplateManager, and both to Molecules. The queries only read the store; what they
change is the filter. The parts share their state through globals of the namespace
`diplo`; there are no callbacks and, in the program that is built, no messages.

Around it stands the remainder of a distributed store. The master's load still writes the files
of the nodes, and a node's load (`ConductorNode`) and the sockets are built; the queries
over the nodes, in `LUBMnetwork`, are not in CMakeLists.txt any more, and what calls them
(`HandleQueries`, in Conductor.cpp and ConductorNode.cpp) is commented out. They are modelled
because they are what the files and the sockets are for, and the largest file of
the repository.

### What is hard

* **Pointers into a structure that changes.** The tree is split by later URIs while
  leaf pointers of earlier quads, parent pointers of children and the nodes kept in
  `elements` point into it.
* **Derived copies.** Templates, entries, the inverted index and the provenance index say the
  same quads in four ways; they are filled in different places under different
  conditions, and each query reads some of them.
* **Encodings.** An entry holds a template ID in 16 bits, unique only under its root,
  instead of a predicate. A key holds a type in its upper half; 0 is at the same time an
  unknown URI and a variable.
* **Order.** Templates are numbered and types are chosen by what comes first or last;
  the input's order should not show in the answers.
* **State that outlives a query.** The provenance filter is global, never reset, and the
  query that builds it runs under it from its second run on.
* **Hand-written plans.** Thirty-one queries are C++ loops; what they leave out or mix up no
  type and no test tells.
* **Several processes.** Nodes read files that a master writes and may write again; master and
  nodes send lists that nothing asks for, over sockets whose errors look like data.
* **Restarts.** rake goes on where a marker file says it has stopped, over containers that
  a killed task has left running.

The list in PROJECT.json, `hazards`, gives the line of each, and the properties that
cover it.

## 2. The modules

| module | models | state and actions |
|---|---|---|
| `Dictionary` | abstract: what whoever holds a KEY_ID relies on | `named`, the pairs of URI and key; `Assign` gives some more |
| `KeyIndex` | KeyManager.cpp, passes 1 and 2 of LoadData, `GiveSubClass` | `trie` (nodes and leaves), `elements`, `tt`, `quads`; `ReadClasses`, `MakeInverseIndexTypes`, `ReadLine`, `MakeInverseIndex` |
| `QuadStore` | abstract: what the store promises of a load | `accepted`, `stored`, `serving`; `Store`, `Serve` |
| `MoleculeStore` | the rest of LoadData, TemplateManager, `CreateMolecule` | `templates`, `molecules`, `inv_molecules`, `ProvIdx`, ...; `AddTemplate`, `StartMolecules`, `LoadTriple`, `Serve` |
| `API` | API.cpp and the searches of Molecules.cpp it calls | none: `TriplePatern` is an operator of the store and the filter |
| `ProvSession` | `run_queries`, `TPDemo`, the BTC queries of one call | `ProvUris`, `ProvTrigerON`, the file, its repetition, the last answer; `Load`, `OpenQuery`, `TPDemo`, `RunFixed` |
| `PlanSteps` | the calls and loops plans are made of | none: a plan is a sequence of calls |
| `WatDiv`, `BTC`, `WDC` | the plans of WatDivprov, BTCprov and WDCqueries | none: a plan for each function, with the patterns of the SPARQL text above it |
| `Plans` | running plans over a loaded store | the store, `plan`, `filter`, `rows`; `Load`, `RunPlan` |
| `PlanTexts` | when the calls of a plan read what its text says | none: conditions on a plan and its text |
| `Partitioner` | Partitioner.cpp | `todo`, `nodes`, `lastNetworkNode`, ...; `DealFirst`, `DealMore` |
| `Cluster` | the files of LoadData, `Store` and `Restore`, ConductorNode.cpp | `files`, `data`, `writing`, `node`, and the Partitioner's; `StartMaster`, `Deal`, `OpenFile`, `CloseFile`, `Die`, `ReadFile`, `Build`, `StartNode` |
| `LUBMnetwork` | the twenty-two queries of LUBMnetwork.cpp | none: what a node answers and what the master makes of answers |
| `Network` | Server.cpp, Client.cpp, the protocol of `q.._m` and `q.._n`, `HandleQueries` | `pc` and lists of the master, `state` and `sending` of the nodes, the connections `up` and `down`, `reset`; `Ask`, `Send`, `ReceiveSize`, `ReceiveRows`, `ReceiveError`, ..., `ReceiveQuery`, `SendList`, `DieNode`, `DieMaster`, ... |
| `Gathering` | what the master of `Network` makes of the answers if it takes them one node after the other | none: conditions on a query, a store and how it is dealt out |
| `Bench` | Rakefile, run_bench.rake, sparql_bench.rb | marker files, results, containers, engines; `NextTask`, `ContainerStart`, `WarmUp`, `BenchQuery`, `Stop`, `Killed`, ... |
| `MC*` | instances for TLC | |
| `KeyIndexProofs`, `MoleculeStoreProofs`, `ProvSessionProofs`, `PlansProofs`, `ClusterProofs` (with the theorems about `Partitioner`), `NetworkProofs`, `BenchProofs` | theorems about the module of that name | |
| `Recursion` | induction and recursion over the naturals in a form the provers can apply | |

`ProvSession` EXTENDS `API`, which EXTENDS `MoleculeStore`: a session is the store with
its actions (as `Load`) and the queries over it. `Plans` EXTENDS `API` in the same way and runs the
plans on it. `KeyIndex` ends where
`MoleculeStore` starts: `quads` are its `triples`, `GetType` of a key its `TypeOf`.
`Cluster` EXTENDS `Partitioner`, whose actions are steps of the master; a dataset is given by
what `MoleculeStore` ends with: quads, templates, number of types. `Network`
EXTENDS `LUBMnetwork`; the nodes' parts of the store are what `Cluster` shows them to be.
`KeyIndex` and `MoleculeStore` are refinements of `Dictionary` and `QuadStore`
(`ImplementsDictionary`, `ImplementsQuadStore`).

How the code is abstracted:

* **KeyIndex.** Nodes and leaves are numbered in the order of their allocation; a number
  is the pointer. URIs are sequences of characters because the splits depend on their common
  prefixes. `FindAdd`, `Get`, `GetUri` and the sweeps over the tree are recursive
  functions. A key is `type * SeqRange + number`; `SeqRange` stands for 2^32, and
  `SeqAssumption` says that a load does not exhaust it. Only `GiveSubClass` is taken
  from TypesHierarchy: it returns at once, so that nothing else of the hierarchy shows.
* **MoleculeStore.** Keys are what KeyIndex gives, with a type each. The entries of a molecule
  are a set: a repeated line makes a second equal entry that no query tells apart from
  the first. The templates come out of a `std::set` in the order of their ID fields;
  the model takes any order, which proves the result does not depend on it.
  `TmplAssumption` says the templates of an input fit in the `unsigned short` of
  CreateMolecule.  minScope and maxScope are 0 in `main`, so there is only scope 0.
* **API.** A pattern is a `TripleIDs` of the code, with the wildcard -1 as `Any` and 0 as
  `NoKey`. The filter is an argument: the set of provenances `provenanceTriger` lets through.
* **ProvSession.** The names of the query files and their parsing are left out: a file is
  its patterns. `WellPosed` is what the callers guarantee.  file_p has no option
  in the built `main`, which calls only WatDivprov; README of tripleprov shows it as
  the second argument, and TPDemo is modelled with and without it.
* **Plans.** A row is a function from the variables of the SPARQL text to keys, and each call
  extends every row, which is what nested loops over answers do. The printed vectors
  are sets of rows. `begin()` of an unordered container is any element (`Leads`).
  `GetSubjects` never clears the set it collects provenance in, and what `prov[0]` is depends on
  the order of the container. Where one TriplePatern gets the values of all rows as
  constraints, the plan says so (`StarOfAll`). The SPARQL texts of four plans say rdf:type and
  the plans ask for a URI that is not how it is spelled (`rdf_type` in WatDiv); LoadData keeps
  no quad of it anyway, but the types of the keys, and the texts are read with these.  l2, l4, l5 and c3 print
  fewer variables than their text selects; they are compared over what they print.
* **Cluster.** A file is empty from when it is opened until it is closed, and holds what its
  dataset says. The order of an unordered_set is unknown but the same in each process. A size
  read from a file that is not there is an uninitialised number, except where it was set to 0:
  `undefined`. Key numbers are taken as given; that a second load gives the same
  ones is what `KeyIndex` is about.
* **LUBMnetwork.** Keys are named, types and hierarchy are constants. A list has its rows in
  one order, except where the order shows. Where code takes the first of a set or keeps one of several values, the operator gives
  all answers there may be. What the code does not check (the predicate in q12 and q16) the operator does not either.
  q08 in scope 1 (`q08s2`) looks entries up by the IDs of templates, of all types of students as one set; what the
  IDs are under each root follows from the order in which templates are added, by keys (`KeyOf`). Where the
  templates of a query are kept for each type, or all its entries are of one type, IDs and predicates say the same, and
  the operators compare predicates.
* **Network.** A message is a size or a list of rows; a message that is read in pieces is read by a
  process that does nothing else meanwhile. Connections hold `Capacity` messages and block. A
  process that dies leaves what it has sent; if it had not read all it was sent, one read()
  or write() of the other side fails, and after that read() gives 0 and write() may give
  SIGPIPE, as TCP has it.
* **Bench.** Times and answers are left out; a query in curl that is killed or runs into its limit
  is given up and stays with the engine. Everything that can fail may (`StopFails`, a container that
  is not there), because nothing looks at what commands return.

## 3. The runs

| run | instance | checks |
|---|---|---|
| `store` | every file of up to 3 of 8 lines, any order of templates | `TypeOK`; `MoleculesExact`: the quads can be read back, no more, no fewer; `InvertedIndexExact`; `ProvIdxExact`; `LoadCompletes`; `ImplementsQuadStore` |
| `session` | 4 files of up to 5 lines, 10 queries of which 2 build a filter, 2 query files, 3 repetitions | `SessionTypeOK`; `AnswersExact`: answer and provenance are the query's meaning over the quads shown; `LookupsExact`: the same of `GetSubjects` and `GetObjects`; `FilterExact`; `ProvenanceSuffices`: a row's provenance alone yields the row; `RepetitionsAgree` |
| `keyindex` | every file of up to 3 of 10 lines over 10 URIs | `KeyTypeOK`; `TrieExact`: searches find what was added, at one leaf each; `QuadLeavesExact`: kept pointers stay right; `KeysExact`; `InverseExact`; `TypesExact`; `ImplementsDictionary` |
| `literals` | violation of `AddedAreFound` | a literal that is a prefix of an earlier one |
| `subclass` | violation of `MostSpecific` | the last class wins |
| `plans` | all 31 plans, each on its own files, under three filters | `PlanTypeOK`; `NothingInvented`: what is printed solves the SPARQL text; `NothingLost`: every solution is printed; `RowsExplained`: a row's provenance alone yields the row; `OneLinkExact`: a plan that looks all linked keys up at once is exact if there is one; and, as assumptions of `MCPlanTexts`, which plans meet the conditions of `PlanTexts` |
| `joins` | violation of `NothingInvented` | WatDiv S4 does not use the intersection it makes |
| `cluster` | 2 nodes, runs of 2, two datasets of 3 and 2 molecules, deaths and restarts | `ClusterTypeOK`; `DealtOnce`; `Balanced`; `ClusterExact`: nodes that have read one dataset hold it, each molecule once; `OneDataDefined`: only files of two datasets make a node undefined; `FilesAgree`; `MasterFinishes`; `NodesFinish` |
| `netquery` | 2 nodes, 22 queries asked twice, every way to deal out the molecules, one process may die in 4 of the queries | `NetTypeOK`; `GatheredInTurn`: the network gathers what taking the nodes' lists in turn does; `AnswerExact`: the answer is what the query means over the whole store, each solution once; `ResetOnlyLoses`: an error taken for data loses solutions and makes up none; `NothingLeft` on the connections when a query has ended, whoever died; `AllEnd`; and, as an assumption of `MCNetwork`, `QueriesFit`: the nodes' lists, taken in turn, make the solutions, and without some of the lists some of them |
| `counts` | violation of `RowsExact` | q15 counts the first node's students twice |
| `mails` | violation of `RowsExact` | q08 in scope 1 takes a university for an e-mail address where types of students have different templates |
| `bench` | 2 workloads in one container, 1 in a missing one, 2 queries twice, rake killed and run 3 times | `ResultsComplete`: a done task has every row once; `OverlapExplained`: a query measured beside another is in a task that ran into the limit itself or found its container running |

**Bounds.** Three lines are enough for `store`: the hazards relate two quads (same
root and predicate, same object, same provenance) and a third that comes before or after
them, and each line is independent of the rest. The eight lines have one triple in two graphs,
one predicate with two types of object, one object under two subjects, an object that is a
subject, a subject without type and one that is a class. `session` needs more lines,
so the four files are chosen: the filter hides one of two sources of one triple, one of two
objects, a whole molecule, or the statement the filter rests on. Repetitions are 3 of the
code's 5: after the second run under a filter the third can only repeat it. In `keyindex` the
URIs share prefixes of length 0, 1 and 2, so that three lines reach splits in roots, in inner
nodes and in leaves, of nodes that have children, of classes and of instances; they end in a
character that is nowhere else in them, as the `>` of an IRI, so that none is a prefix of
another: that is the condition under which the tree is exact, and `literals` is what
happens without it.

`plans` makes the files of a plan from the patterns of its SPARQL text: one solution; the same
without one of its lines or with one from a second graph; with a second value of one variable or
of all but one, with all of its lines or all but one. These are the cases in which a pattern
that is left out, a loop over the wrong set or an early end shows. In `cluster` 3 molecules in runs
of 2 reach a run that is full, one that is cut short and a node without
molecules; the second dataset shares a molecule under other templates and has fewer types. One
restart of a node and two starts of the master put a node on either side of every file of a new load.
In `netquery` each store has solutions and triples that miss being one, and all ways to deal its
molecules to two nodes; connections hold one message, the smallest at which both sides can
block, and everything is asked twice so that what one query leaves would be read by the next.
As in the data of LUBM, and as the queries assume, a student has one advisor, department, degree
and address, and a course one teacher. Unlike there, the students of q08s2's store have the same
properties whatever their type (see below). In `bench` two runs of rake after a kill are enough for a task
that was killed to be followed by one in the same container.

CHECK_DEADLOCK is FALSE where a system ends: in a load, a session, a cluster that is no more
started and a benchmark. `netquery` checks deadlock: the states in which its processes may
rest are those of `Terminated`.

**What the properties leave out.** Some plans do not do what their text says, and the constants of
MCPlans name them. `MayInvent`: s4, f4 (negates its language), f1 and f5 (an inner loop over the
wrong set), wdc_q04 (no guard against an empty list), and s7 and f2, which like f1 and f5 ask for rdf:type
under another URI: what they would print if there were quads of that URI is no solution of their text.
`MayLose`: these four, as there are none; f4; and q04 of BTC and
WDC, which ask for all linked keys at once and so are exact only for one (`OneLinkExact`).
`MayHide`: l1 prints the provenance of the first row for all, s1 hides a pattern's. In `netquery` the
counts of q15, the names of q17 and the faculty of q09s2 are wrong and not compared (`Right`); their other
columns and the number of rows are. `RowsExact` compares everything. q08s2 is
compared in full, but `netquery` asks it of a store in which the types of students have the same templates. In the data of
LUBM they have not: graduate students have an undergraduate degree, the others none. `mails` is what happens then, so
that `AnswerExact` is no claim about q08s2 on that data.

**Fairness.** `store` assumes weak fairness of its next-state relation: LoadData is one
thread that waits for nothing, and each of its loops goes over a finite container. `cluster`
assumes it of the master's steps and of each node's: they are processes of their own that wait for
nothing; that they are started, or die, is not assumed. `netquery` assumes it of the master and of
each node, whose steps are enabled when a message or room for one is there: a blocked read() or
write() returns then. `AllEnd` says that once a query has been asked everybody comes to an end; before
that a master waits for nodes that have given up after 51 tries. The other runs check safety
only.

**Findings.** (1) `literals`: KeyManager.cpp:188 passes Add the place 0 where the new URI
ends inside a label, Add cuts the label to nothing, and both URIs are unreachable from then
on. The WatDiv query C1 looks literals up by their text. (2) `subclass`: the early return
in TypesHierarchy.cpp:46 against the comments of KeyManager.cpp:283-286. (3) `joins`:
WatDivprov.cpp:424 goes over the users of the age group, not over those that are also of
the nationality the text asks for. (4) `counts`: LUBMnetwork.cpp:2964 inserts a faculty's first count and
then adds it. (5) `mails`: line 1472 puts template IDs of several roots in one
set, and an ID that is the e-mail address of one type is the degree of another.

Four more disagreements have no run of their own; a property that is checked has an exception for each.
WatDivprov.cpp:457 writes `22-rdf-syntax-ns/type` for rdf:type, as do lines 506, 584 and 831, and s7, f1, f2
and f5 find nothing (`MayLose`). In LUBMnetwork.cpp the set of names of line 3231 is not cleared between the students of
a type, and begin() of it is sent as the name of each; and line 1974 sends the course that was found
among those of the faculty, not the faculty (`Right`). Conductor.cpp:409 lists subjects that are classes in the provenance index,
whose comment says "context value -> molecules", although they have no molecule (`ProvIdxExact` is about the others).

`ResetOnlyLoses` is worth a second look: it holds, and says that a node that dies at the right
moment makes the master print an answer that lacks the node's solutions, as if it
were complete.

## 4. The theorems

All are proved for every value of the constants under the assumptions named in the
modules: `UriAssumption`, `LineAssumption`, `SeqAssumption`, `KeyAssumption`, `InputAssumption`,
`TmplAssumption`, `AnyAssumption`, `SessionAssumption`, `PlanAssumption`, `CatalogueAssumption`, `ClientsAssumption`, `RangeAssumption`, `DataAssumption`, `OrdersAssumption`, `NetworkAssumption`,
`TypeAssumption` (every key of a store has a type) and `BenchAssumption`. Most say what kind of thing a constant is. Those that say more are about what a module is
given: `DataAssumption` that the templates of a dataset are those of its quads with
IDs of their own (`MoleculeStore`: `TemplateIDsAreUnique`, `StoreIsExact`), that its molecules are
finitely many, and that a load has counted at least as many types as its quads use;
`OrdersAssumption` that the unordered_set the molecules come out of has each once; `SeqAssumption` that the
keys of a load fit in the lower half of a KEY_ID. The theorems about `KeyIndex` have a hypothesis in
addition, `PrefixFree`: no URI of the input begins with another. IRIs in brackets are like that, and so is the
instance of `keyindex`; literals need not be, and for those the theorems are false, which `literals` shows.

**Recursion.** The library's induction theorems take an operator, which the provers cannot
instantiate. `SetInduction` says the same of a set, proved from `NatLessThanWellFounded` and `WFMin`;
`RecursionExists` gives a function for every first value and step. What `Partitioner` deals in which round
(`Turn` in ClusterProofs), the messages of any number of lists (`Streams` in NetworkProofs) and
`FlattenSeq` are reasoned about with them. `SizeRecursion` is the same for functions over data with
a size: one whose step looks at smaller data alone exists, and is what its definition says. All
searches and sweeps over the tree of `KeyIndex` are such functions; the size is the number of characters still to read,
or what is missing to the length of the longest word.

**KeyIndexProofs.** The properties say what searches find; that is not inductive, as a search knows nothing
of the nodes it does not enter. The invariant says what the tree is: every node stands for a word `W[n]`,
that of its parent and its own label (`Worded`); siblings start with different characters; lists of children and parent
pointers agree (`Linked`); and the leaves are those of the URIs `L` that have been added, each
at the node whose word it is, and below every node there is one (`Leafed`). Words and `L` are nowhere
in the code: `IInv` says that there are some. A URI that is added ends where `FindAddIs` says: within a
label, after a label none of whose children goes on, or at no root (`Outcome`). In each case the tree
grows by a child or a root (`Grown`) or a node is divided (`Divided`), and `KeyTree` is kept; the
case the code gets wrong, the end within a label, is where `PrefixFree` is needed (`EndsAtWord`). With `AddAllKeeps` for the
calls of a line each action keeps `IInv`: leaves keep their URI, so that pointers to leaves that are kept for
quads stay right (`QuadsKept`). Searches are exact in such a tree by induction over what is left to
read (`LeavesOfIs`, `GetIs`), and the sweeps visit nodes of it (`BelowIs`, `KeptIs`).

What the keys are depends on the pass. `KInv` says, on top of `IInv`: in the first pass there are none
(`Blank`); in the second the classes taken so far have the keys of their numbers (`Half`); in the last every
leaf has one (`Whole`), that of a class being its number with type 1, and classes having numbers of their own that fit in
the lower half (`ClassKeys`, `Numbers`), and that of another leaf having in its upper half what the last rdf:type line
of its URI says (`Says`, `Said`). That no two keys are the same then rests on the sweeps coming to each node once: no node
is in the lists of children of two (`Linked`), so that the preorder of the tree names each
once (`PreorderExact`) and the leaves a sweep keeps are those it says, once each (`KeptIs`,
`KeptLeafs`). A line read in the second pass can still split the node of a class that `elements` already leads to: `LeadsTowards` says
what is left then, a prefix; for all other keys `LeadsTo` says the node of the URI itself. From `KeysInvariant` follow
`KeysAreExact`, `InversesAreExact`, `TypesAreExact`, and, with `KeepsKeys` for the steps, `KeyIndexImplementsDictionary`.

**MoleculeStoreProofs.** `MoleculesExact` is not inductive: that a quad can be read back
depends on the template its entry names. `IInv` adds: the templates of a root have it as
subject type, have IDs from 1 to their number and differ in ID and in triple
(`TemplatesWellFormed`); every triple of the input still waits or has its template
(`TemplatesCover`); a root has no more templates than triples have been taken, so that IDs stay
below 2^16 (`TemplatesCounted`); no template is added once there are molecules
(`PhaseOrder`); and the entries and indexes are those of the lines read so far
(`EntriesExact`, `IndexesExact`). `Invariance` proves `Spec => []IInv` with a lemma per
action; from it follow `TypeCorrect`, `StoreIsExact`, `TemplateIDsAreUnique`,
`InvertedIndexAgrees` and `ProvIdxAgrees`. `StoreImplementsQuadStore` maps each step: `LoadTriple` of an
instance to `Store`, `Serve` to `Serve`, everything else to a stutter.

**ProvSessionProofs.** `RunExact`: over a loaded store `TriplePatern` is `StarAnswer`. It
goes from `LoadedFacts` (what `IInv` says once the load is over) through `TemplatesPick` and
`ShownExact` (template IDs pick exactly the entries of the pattern's predicate) to
`AnsweringExact` (the candidates of one index and one pattern lose no answer). `SessionInv`
conjoins `IInv`, the types of the session, and that answer and filter are what their queries mean;
that the provenance query's repetition under its own filter adds nothing rests on
`UrisMonotone`: fewer quads, fewer URIs. `ProvenanceIsSufficient` is the statement
the whole program is about: the provenance of a row, taken as a filter, yields the row.

`LookupsAreExact` says of `GetSubjects` and `GetObjects`, what the plans are made of, what
`RunExact` says of `TriplePatern`.

**PlansProofs.** Each plan is another program with another text, so the theorems are about all programs
made of such calls, and say by a condition on the text (`PlanTexts`) which of them are right. `FollowsText`: every pattern of the
text is read by a call, in the terms it has there; then what is printed solves it (`PlansInventNothing`).
`KeepsToText`: a call reads, variables renamed if the plan calls them otherwise, only what a pattern says, and looks up every row for itself; then every
solution is printed (`PlansLoseNothing`). Both are conditions on the text as it stands above the plan: those that ask for
rdf:type under another URI meet neither. `ShowsAll`: no call hides the provenance of what it
reads; then what is printed for a row suffices for it (`PlansExplainRows`). The assumptions of `plans` evaluate the conditions for the
31 plans: the first holds of all but those of `MayInvent`, the second of all but those of `MayLose`, and
the third of all but those of `MayHide` and the two q04, of which only the run shows that rows are
explained. So they are as sharp as the properties: a plan that fails a condition, but for the two q04, fails the
property on some file. `CatalogueAssumption` says that calls use no variable before it is bound, and that lists of
URIs are finite.

The argument goes call by call. What `API` finds in a loaded store is a set of quads (`SubjectsAre`, `ObjectsAre`,
`TriplePaternSound` and `TriplePaternHas`, which rest on `MoleculeStoreProofs`). `CallSound`: a row after a call extends one
before it, its bindings meet the patterns of the call, and if the call shows what it reads they meet them in
quads of the row's provenance alone. `CallHas`: bindings that meet a plain call have a row after it. By induction over the calls
`RunSound` and `RunHas` say the same of a plan, and by induction over the patterns `SolutionHas` and `SolutionMeets` say
what the join of a text holds, as functions that recurse over 0..n. `PInv` is `IInv` of the store with
`RowsRight`, that the rows of the last run are sound and complete by the calls; it is kept because the store no
longer changes (the lemmas ending in `Stay`).

**ClusterProofs.** First of the Partitioner alone: `DealTypeCorrect`, `MoleculesAreDealtOnce` and `NodesAreBalanced`, for any number of nodes, any
range and any order. `DealtOnce` is inductive with the types: what is pushed
back is still to do, so that no node has it. `Balanced` is not: it needs how many molecules each
node has: the full rounds, a run more for the nodes that had their turn in this one, and for the node
at its turn what has been dealt of the run (`LevelInv`).

`ClusterExact` relates nodes that read files at different times, written by loads of
which some died. The invariant names what any load would write: `Turn` is the endless sequence of
whose turn it is, so that `Share(order, total, n)`, the molecules whose place in the order is n's turn, is what
n's file holds when a load of that order ends, however the loads interleave with deaths.
`DealtInOrder` says that the master's nodes have the shares of what has been dealt so far, `FilesAreWhole` that
every file is empty or holds exactly what its dataset says, `ReadIsWhole` and
`BuiltFromRead` the same of what a node has read and built, and `OpenIsNext` which file is
open. From `ClusterInvariant` follow `ClusterTypeCorrect`, `MastersDealOnce` (through the lemmas of
the Partitioner), `OneDataIsDefined`, `FilesFitTogether` (`SharesCover`, `SharesDiffer`) and
`ClusterIsExact`, which adds that a template ID read back under its root gives the predicate.

**NetworkProofs.** Nothing in the protocol says what a message is: a size is a size because the
reader is at a place where it reads one. `Streams[k]` are the sequences of messages that are k lists, a size and,
unless it is 0, that many rows. The invariant says for every node and every place of the
master what the connection holds and what is still to come: `Waits` (not all of the round has been read by
the node), `Owes` (the master has still so many lists to read of it) and `IsIdle`. A node
that has died has `up` as a prefix of such a stream. `Telling` and `Reading` say which nodes are in
which of the three while the master sends and receives, by their place in its list. Each action has lemmas
(of the master, of the nodes and of deaths); a process with a full connection, one that is gone and one whose death has
made a read() fail are cases of them. `AnswersAreLists` goes through the 22 queries and shows that each of them
gives as many lists of rows as the master reads (`NbOfLists`), for any store: it needs that stores are finite,
as a list of a set that is not finite would be none. From `NetInvariant` follow
`NetTypeCorrect` and `QueriesLeaveNothing`. Its proof made the property
stronger: that nothing is left holds whoever dies, not only if nobody does.

What the master has gathered is a second invariant on top of this one, `GatheringInv`. `Gathered` in
module `Gathering` is what the lists are after the first nodes have been taken in turn;
`SoFar` are those lists in a state of the network, for the round it is in. `Gathers` says at each place: what
is on a connection and still to be sent is what is left of one of the answers the node may give (`Knows`, `Made`), the
lists the master has are those of the nodes before the one it is at and the lists of this one that it
has read (`Reads`, `Midway`), and in the second round every node is sent, or has been, the same rows, those
of the first (`Tells`). After an error has been read the lists of its node are missing (`Lost`); if the query has several,
the master is on its way to read an end of file (`Doomed`), so that with an answer it has one list. From it follow, for
any interleaving and whoever dies, `AnswersAreGathered`, and with the condition on the queries alone `AnswersAreExact`
and `ResetsOnlyLose`: what remains of "the nodes together find what the query means" is whether the hand-written node
and master sides of a query fit each other, `GathersExactly` and `LosesOnly`, which do not mention the network. `QueriesFit`
evaluates them for all 22 queries on the stores of the instance; q08s2 meets them there because the types of students have the
same templates, and on the store of `mails`, which is more like LUBM's, it does not. For the eight in which no node
chooses among several values and none has to know what another one has (`Listing`: q01, q03, q05, q06, q10, q13, q14,
q15) `ListingsFit` proves both conditions, so that `AnswersAreExact` and `ResetsOnlyLose` ask them of the other queries
alone, and `ListingsAreAnswered` has no hypothesis: over any network these are answered exactly, each solution once. The
argument is that the rows of the nodes are apart, as every subject is on one node (`ListsItsOwn`), so that
the lists put together are as long as there are solutions (`NumberGathered`); q15 is proved as far as
`AnswerExact` compares it, the faculty and not the counts, which are wrong (the run `counts`).

**BenchProofs.** `OverlapsAreExplained`. `OverlapExplained` is about history; `IInv` adds where a workload's
container is up (`Places`), that an engine works on a given up query only in a container that was
left or that of the task at work, which has then run into the limit (`BusyExplained`), and that a
task at work in a container that was left has been recorded as finding it (`LeftIsFound`).
`ResultsAreComplete` has an invariant of its own, `RInv`: the rows of the task at work are those
before its place in the list of queries and repetitions (`AtPlace`), and those of a task that is
done are not written again (`DoneStays`).

Only model-checked:

* liveness (`LoadCompletes`, `MasterFinishes`, `NodesFinish`, `AllEnd`), which the prover does not do under fairness;
* `OneLinkExact`, and `RowsExplained` of q04 of BTC and WDC: plans that look the values of all rows up at once;
* `GathersExactly` and `LosesOnly` of the other queries than the eight of `Listing`, under which
  `AnswersAreExact` and `ResetsOnlyLose` hold: they take any one of several values, or join what nodes
  have found, and are right on data of a certain kind only (as LUBM's, a student with one department and a course with one teacher; unlike
  LUBM's, for q08s2, types of students with the same templates).

## 5. Not modelled

* LUBM.cpp and DBPnetwork.cpp: not built, and of the same kind as LUBMnetwork.cpp, the one for
  a single process and the other over the same protocol; PageManager: nothing uses it.
* What nothing calls in files that are modelled: `ProvQuery` and q07 of BTCprov, whose calls
  are commented out, `ReceiveFromAllSelect`, `ReconstructMolecule`, `MaterializeMoleculesForProvenance`.
* The molecule configuration file and the load of scopes from 1 on: `main` sets both scopes to 0. What
  scope 1 adds to a molecule is modelled as far as LUBM_network reads it.
* The tasks of the benchmark that get and reify data and make containers: commands of other
  programs, one after the other, without state that is looked at. Of the endpoints only
  those that tasks use.
* Generators of queries and plots, scripts that reformat (no state), data, results.

What could come next: `KeyIndex` feeding `MoleculeStore`, so that `TypeOf` is what the lines say.

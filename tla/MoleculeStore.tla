---------------------------- MODULE MoleculeStore ----------------------------
(***************************************************************************)
(* The in-memory store of one process: what Conductor::LoadData builds     *)
(* from the quads of its second pass, once the KeyManager has given every  *)
(* URI its KEY_ID.                                                         *)
(*                                                                         *)
(* A molecule is everything known about one subject.  Its entries do not   *)
(* hold the predicate: they hold the ID of a triple template (type of the  *)
(* subject, predicate, type of the object) that is unique only among the   *)
(* templates of the subject's type.  Three indexes are filled beside the   *)
(* molecules: object -> molecules, provenance -> subjects, and the number  *)
(* of triples of every provenance.                                         *)
(*                                                                         *)
(* minScope and maxScope are 0 in main(), so only scope 0 exists here.     *)
(* The files LoadData writes between the templates and the molecules       *)
(* (triples, node<i>, templates, hierarchy) touch none of this state.      *)
(* A line that is repeated adds a second, equal entry to the molecule; no  *)
(* query tells the two apart, and the entries are a set here.              *)
(***************************************************************************)
EXTENDS Integers, Sequences, FiniteSets

CONSTANTS Key,       \* the KEY_IDs given to the URIs and literals of the data
          NoKey,     \* KEY_ID 0: an unknown URI, and a variable in a query
          TypeOf,    \* KeyManager::GetType, the upper half of a KEY_ID
          Inputs,    \* the sequences of quads that may be loaded
          TmplMod    \* 2^16, the range of the template ID of CreateMolecule

TypeId == {TypeOf[k] : k \in Key}

\* TripleIDs: the four keys of a line of the input.
Quad == [subject: Key, predicate: Key, object: Key, prov: Key]

\* What a template says of a triple (TripleTemplate without its ID).
Triple == [subjectType: TypeId, predicateID: Key, objectType: TypeId]

TripleOf(q) == [subjectType |-> TypeOf[q.subject],
                predicateID |-> q.predicate,
                objectType  |-> TypeOf[q.object]]

TriplesOf(input) == {TripleOf(input[i]) : i \in DOMAIN input}

ASSUME KeyAssumption ==
    /\ NoKey \notin Key
    /\ TypeOf \in [Key -> Nat]

ASSUME InputAssumption == Inputs \subseteq Seq(Quad)

\* The template IDs of one input fit in CreateMolecule's unsigned short.
ASSUME TmplAssumption ==
    /\ TmplMod \in Nat \ {0}
    /\ \A input \in Inputs : Cardinality(TriplesOf(input)) < TmplMod

VARIABLES
    triples,               \* tripleTemplatesLeafs, in the order of the file
    tripleTemplatesTypes,  \* templates not yet passed to TM.AddTemplate
    templates,             \* TM.templates: root type -> its templates
    phase,                 \* where LoadData stands
    next,                  \* the iterator of the loop over the triples
    molecules,             \* M.molecules: subject -> entries, {} if no molecule
    inv_molecules,         \* M.inv_molecules: object -> subjects
    ProvIdx,               \* provenance -> subjects
    contextTriples         \* provenance -> number of triples

vars == <<triples, tripleTemplatesTypes, templates, phase, next,
          molecules, inv_molecules, ProvIdx, contextTriples>>

Template == [triple: Triple, ID: Nat]

\* An entry of a molecule: Molecule::next groups them by provenance.
Entry == [prov: Key, tmpl: Nat, obj: Key]

Phase == {"templates", "molecules", "serving"}

TypeOK ==
    /\ triples \in Inputs
    /\ tripleTemplatesTypes \in SUBSET Triple
    /\ templates \in [TypeId -> SUBSET Template]
    /\ phase \in Phase
    /\ next \in 1..(Len(triples) + 1)
    /\ molecules \in [Key -> SUBSET Entry]
    /\ inv_molecules \in [Key -> SUBSET Key]
    /\ ProvIdx \in [Key -> SUBSET Key]
    /\ contextTriples \in [Key -> Nat]

\* Slip: the loop over the triples starts at 0, as an index into a vector does.
InitZeroBased ==
    /\ triples \in Inputs
    /\ tripleTemplatesTypes = TriplesOf(triples)
    /\ templates = [root \in TypeId |-> {}]
    /\ phase = "templates"
    /\ next = 0
    /\ molecules = [s \in Key |-> {}]
    /\ inv_molecules = [o \in Key |-> {}]
    /\ ProvIdx = [p \in Key |-> {}]
    /\ contextTriples = [p \in Key |-> 0]

Init ==
    /\ triples \in Inputs
    /\ tripleTemplatesTypes = TriplesOf(triples)
    /\ templates = [root \in TypeId |-> {}]
    /\ phase = "templates"
    /\ next = 1
    /\ molecules = [s \in Key |-> {}]
    /\ inv_molecules = [o \in Key |-> {}]
    /\ ProvIdx = [p \in Key |-> {}]
    /\ contextTriples = [p \in Key |-> 0]

-----------------------------------------------------------------------------
(* TemplateManager *)

\* Slip: templates.size() instead of it_templates->second.size().
AddTemplateCountingRoots(triple) ==
    /\ phase = "templates"
    /\ tripleTemplatesTypes' = tripleTemplatesTypes \ {triple}
    /\ templates' = [templates EXCEPT ![triple.subjectType] =
           @ \cup {[triple |-> triple,
                   ID |-> 1 + Cardinality({r \in TypeId : templates[r] # {}})]}]
    /\ UNCHANGED <<triples, phase, next, molecules, inv_molecules, ProvIdx,
                   contextTriples>>

\* AddTemplate: the new ID is one more than the templates of the root.  The
\* triples come from a set, so insert never meets an equal template; the code
\* takes them in the order of the set, the model in any order.
AddTemplate(triple) ==
    /\ phase = "templates"
    /\ triple \in tripleTemplatesTypes
    /\ tripleTemplatesTypes' = tripleTemplatesTypes \ {triple}
    /\ \/ /\ triple.subjectType < 2
          /\ UNCHANGED templates
       \/ /\ triple.subjectType >= 2
          /\ templates' = [templates EXCEPT ![triple.subjectType] =
                 @ \cup {[triple |-> triple, ID |-> Cardinality(@) + 1]}]
    /\ UNCHANGED <<triples, phase, next, molecules, inv_molecules, ProvIdx,
                   contextTriples>>

\* What GetTemplate returns as size_t(-1).
NoTemplate == -1

GetTemplate(root, triple) ==
    LET found == {t \in templates[root] : t.triple = triple}
    IN  IF found = {} THEN NoTemplate ELSE (CHOOSE t \in found : TRUE).ID

\* The predicate a template ID stands for under a root type, 0 if none.  (The
\* code looks at no root without templates: no molecule has such a type.)
GetPredicate(root, tmpl) ==
    LET found == {t \in templates[root] : t.ID = tmpl}
    IN  IF found = {} THEN NoKey
        ELSE (CHOOSE t \in found : TRUE).triple.predicateID

\* Both loops over the templates are over; the molecules are created next.
StartMolecules ==
    /\ phase = "templates"
    /\ tripleTemplatesTypes = {}
    /\ phase' = "molecules"
    /\ UNCHANGED <<triples, tripleTemplatesTypes, templates, next, molecules,
                   inv_molecules, ProvIdx, contextTriples>>

-----------------------------------------------------------------------------
(* Molecules and the loop of LoadData *)

\* Slip: a template ID that keeps only one bit.
EntryTmplOneBit(q) == GetTemplate(TypeOf[q.subject], TripleOf(q)) % 2

\* unsigned short int tripleTmpl = TM.GetTemplate(...)
EntryTmpl(q) == GetTemplate(TypeOf[q.subject], TripleOf(q)) % TmplMod

EntryOf(q) == [prov |-> q.prov, tmpl |-> EntryTmpl(q), obj |-> q.object]

\* Slip: the index is filled only when insert made a new molecule.
CreateMoleculeIndexingFirst(q) ==
    /\ molecules' = [molecules EXCEPT ![q.subject] = @ \cup {EntryOf(q)}]
    /\ inv_molecules' = IF molecules[q.subject] # {} THEN inv_molecules
          ELSE [inv_molecules EXCEPT ![q.object] = @ \cup {q.subject}]

CreateMolecule(q) ==
    /\ molecules' = [molecules EXCEPT ![q.subject] = @ \cup {EntryOf(q)}]
    /\ inv_molecules' = [inv_molecules EXCEPT ![q.object] = @ \cup {q.subject}]

\* Slip: ProvIdx.insert() alone, which leaves a provenance already there as is.
LoadTripleFirstSubjectOnly ==
    /\ phase = "molecules"
    /\ next <= Len(triples)
    /\ LET q == triples[next] IN
        /\ \/ TypeOf[q.subject] >= 2 /\ CreateMolecule(q)
           \/ TypeOf[q.subject] < 2 /\ UNCHANGED <<molecules, inv_molecules>>
        /\ ProvIdx' = [ProvIdx EXCEPT ![q.prov] = IF @ # {} THEN @ ELSE {q.subject}]
        /\ contextTriples' = [contextTriples EXCEPT ![q.prov] = @ + 1]
    /\ next' = next + 1
    /\ UNCHANGED <<triples, tripleTemplatesTypes, templates, phase>>

\* One turn of the loop: a molecule only for a subject that is not itself a
\* class (type 1), the provenance index and the statistics for every triple.
LoadTriple ==
    /\ phase = "molecules"
    /\ next <= Len(triples)
    /\ LET q == triples[next] IN
        /\ \/ TypeOf[q.subject] >= 2 /\ CreateMolecule(q)
           \/ TypeOf[q.subject] < 2 /\ UNCHANGED <<molecules, inv_molecules>>
        /\ ProvIdx' = [ProvIdx EXCEPT ![q.prov] = @ \cup {q.subject}]
        /\ contextTriples' = [contextTriples EXCEPT ![q.prov] = @ + 1]
    /\ next' = next + 1
    /\ UNCHANGED <<triples, tripleTemplatesTypes, templates, phase>>

\* Slip: the loop stops before the last triple.
ServeOneEarly ==
    /\ phase = "molecules"
    /\ next >= Len(triples)
    /\ phase' = "serving"
    /\ UNCHANGED <<triples, tripleTemplatesTypes, templates, next, molecules,
                   inv_molecules, ProvIdx, contextTriples>>

\* LoadData returns to main(), which starts to run queries.
Serve ==
    /\ phase = "molecules"
    /\ next > Len(triples)
    /\ phase' = "serving"
    /\ UNCHANGED <<triples, tripleTemplatesTypes, templates, next, molecules,
                   inv_molecules, ProvIdx, contextTriples>>

Next ==
    \/ \E triple \in tripleTemplatesTypes : AddTemplate(triple)
    \/ StartMolecules
    \/ LoadTriple
    \/ Serve

Spec == Init /\ [][Next]_vars

\* LoadData is one thread that does not wait for anything.
FairSpec == Spec /\ WF_vars(Next)

-----------------------------------------------------------------------------
(* Properties *)

\* The quads of the first n lines whose subject may have a molecule.
Instances(n) == {triples[i] : i \in {j \in 1..n : TypeOf[triples[j].subject] >= 2}}

\* The quads that can be read back from the molecules, each predicate found
\* through the template of its entry.
StoredOf(s) == {[subject   |-> s,
                 predicate |-> GetPredicate(TypeOf[s], e.tmpl),
                 object    |-> e.obj,
                 prov      |-> e.prov] : e \in molecules[s]}

Stored == UNION {StoredOf(s) : s \in Key}

\* The molecules hold exactly the quads loaded so far: storing a predicate as
\* a 16-bit template ID that is unique only within a type loses no quad and
\* merges no two of them.
MoleculesExact == Stored = Instances(next - 1)

\* Two templates of one type never have the same ID, so that the ID of an
\* entry names one predicate and one type of object.
TemplateIDsUnique ==
    \A root \in TypeId : \A t, u \in templates[root] : t.ID = u.ID => t = u

\* The inverted index returns exactly the molecules that hold the object:
\* GetSubjects and TriplePatern look nowhere else for candidates.
InvertedIndexExact ==
    \A s, o \in Key : s \in inv_molecules[o] <=> \E e \in molecules[s] : e.obj = o

\* The provenance index agrees with the molecules: it lists the molecule of s
\* under p exactly when s has an entry of provenance p.  A subject that is a class
\* is listed too, although it has no molecule.
ProvIdxExact ==
    \A s, p \in Key : TypeOf[s] >= 2 =>
        (s \in ProvIdx[p] <=> \E e \in molecules[s] : e.prov = p)

\* The load ends, with every quad of an instance answerable.
LoadCompletes == <>(phase = "serving" /\ Stored = Instances(Len(triples)))

\* The promise of the store.
Abstract == INSTANCE QuadStore WITH
    accepted <- Instances(Len(triples)),
    stored   <- Stored,
    serving  <- (phase = "serving")

ImplementsQuadStore == Abstract!Spec
=============================================================================

------------------------- MODULE MoleculeStoreProofs -------------------------
(***************************************************************************)
(* MoleculeStore proved for every set of keys, every typing of them, every *)
(* set of inputs and every width of the template IDs that is wide enough.  *)
(*                                                                         *)
(* MoleculesExact is not inductive: it speaks of what templates say of the *)
(* entries.  IInv adds that the templates are complete when the molecules  *)
(* are created, that a template ID under a type names one template, that   *)
(* the IDs are small enough not to be truncated, and which entries are in  *)
(* the molecules after n lines.                                            *)
(***************************************************************************)
EXTENDS API, FiniteSetTheorems, TLAPS

\* The templates of a root have it as subject type and are told apart both
\* by their triple and by their ID, which is at most their number.
TemplatesWellFormed ==
    \A root \in TypeId :
        /\ IsFiniteSet(templates[root])
        /\ \A t \in templates[root] :
              /\ t.triple.subjectType = root
              /\ t.ID \in 1..Cardinality(templates[root])
              /\ t.triple \notin tripleTemplatesTypes
        /\ \A t, u \in templates[root] :
              (t.ID = u.ID \/ t.triple = u.triple) => t = u

\* A triple of the input still waits for its template or has it.
TemplatesCover ==
    \A triple \in TriplesOf(triples) :
        triple.subjectType >= 2 =>
            \/ triple \in tripleTemplatesTypes
            \/ \E t \in templates[triple.subjectType] : t.triple = triple

\* A root has no more templates than triples have been taken from the set.
TemplatesCounted ==
    /\ IsFiniteSet(tripleTemplatesTypes)
    /\ \A root \in TypeId :
          Cardinality(templates[root]) + Cardinality(tripleTemplatesTypes)
              <= Cardinality(TriplesOf(triples))

\* The templates are complete and stay as they are once molecules exist.
PhaseOrder ==
    /\ phase = "templates" => next = 1
    /\ phase # "templates" => tripleTemplatesTypes = {}
    /\ phase = "serving" => next = Len(triples) + 1

\* The entries of a molecule are those of the lines loaded so far.
EntriesExact ==
    \A s \in Key :
        molecules[s] = {EntryOf(q) : q \in {r \in Instances(next - 1) : r.subject = s}}

\* The two indexes list the subjects of the lines loaded so far.
IndexesExact ==
    /\ \A o \in Key : inv_molecules[o] =
           {q.subject : q \in {r \in Instances(next - 1) : r.object = o}}
    /\ \A p \in Key : ProvIdx[p] =
           {triples[i].subject : i \in {j \in 1..(next - 1) : triples[j].prov = p}}

IInv ==
    /\ TypeOK
    /\ TemplatesWellFormed
    /\ TemplatesCover
    /\ TemplatesCounted
    /\ PhaseOrder
    /\ EntriesExact
    /\ IndexesExact

-----------------------------------------------------------------------------
(* Facts about the constants and about the operators of the store *)

\* The key pair (type, predicate, type) of a quad is a triple of the templates.
LEMMA TripleOfType ==
    ASSUME NEW q \in Quad
    PROVE  TripleOf(q) \in Triple
BY KeyAssumption DEF TripleOf, Triple, Quad, TypeId

\* A line of an input is a quad, and lines are numbered from 1.
LEMMA InputLines ==
    ASSUME NEW input \in Inputs
    PROVE  /\ Len(input) \in Nat
           /\ DOMAIN input = 1..Len(input)
           /\ \A i \in 1..Len(input) : input[i] \in Quad
BY InputAssumption

\* An input has finitely many templates, fewer than CreateMolecule can number.
LEMMA TriplesOfFinite ==
    ASSUME NEW input \in Inputs
    PROVE  /\ TriplesOf(input) \subseteq Triple
           /\ IsFiniteSet(TriplesOf(input))
           /\ Cardinality(TriplesOf(input)) \in Nat
           /\ Cardinality(TriplesOf(input)) < TmplMod
<1> DEFINE n == Len(input)
           f == [i \in 1..n |-> TripleOf(input[i])]
<1>1. TriplesOf(input) \subseteq Triple
  BY InputLines, TripleOfType DEF TriplesOf
<1>2. f \in Surjection(1..n, TriplesOf(input))
  BY InputLines DEF TriplesOf, Surjection
<1>3. IsFiniteSet(1..n)
  BY InputLines, FS_Interval
<1>4. IsFiniteSet(TriplesOf(input))
  BY <1>2, <1>3, FS_Surjection
<1> QED BY <1>1, <1>4, FS_CardinalityType, TmplAssumption

\* The quads loaded so far are quads of the input.
LEMMA InstancesFacts ==
    ASSUME triples \in Inputs, NEW n \in 0..Len(triples), NEW q \in Instances(n)
    PROVE  /\ q \in Quad
           /\ TripleOf(q) \in TriplesOf(triples)
           /\ TypeOf[q.subject] >= 2
BY InputLines DEF Instances, TriplesOf

\* Once the templates are complete, an entry holds the ID of the template of
\* its own triple: the lookup finds it and 16 bits are enough for it.
LEMMA EntryTmplFound ==
    ASSUME IInv, phase # "templates",
           NEW q \in Quad,
           TripleOf(q) \in TriplesOf(triples),
           TypeOf[q.subject] >= 2
    PROVE  \E t \in templates[TypeOf[q.subject]] :
              t.triple = TripleOf(q) /\ EntryTmpl(q) = t.ID
<1> DEFINE root == TypeOf[q.subject]
           found == {t \in templates[root] : t.triple = TripleOf(q)}
<1>1. /\ root \in TypeId
      /\ TripleOf(q).subjectType = root
  BY KeyAssumption DEF TypeId, Quad, TripleOf
<1>2. PICK t \in templates[root] : t.triple = TripleOf(q)
  BY <1>1 DEF IInv, TemplatesCover, PhaseOrder
<1>3. found = {t}
  BY <1>1, <1>2 DEF IInv, TemplatesWellFormed
<1>4. GetTemplate(root, TripleOf(q)) = t.ID
  BY <1>3 DEF GetTemplate
<1>5. Cardinality(templates[root]) \in Nat
  BY <1>1, FS_CardinalityType DEF IInv, TemplatesWellFormed
<1>6. Cardinality(tripleTemplatesTypes) \in Nat
  BY FS_CardinalityType DEF IInv, TemplatesCounted
<1>7. t.ID \in 0..(TmplMod - 1)
  <2>1. t.ID \in 1..Cardinality(templates[root])
    BY <1>1, <1>2 DEF IInv, TemplatesWellFormed
  <2>2. Cardinality(templates[root]) + Cardinality(tripleTemplatesTypes)
            <= Cardinality(TriplesOf(triples))
    BY <1>1 DEF IInv, TemplatesCounted
  <2>3. Cardinality(TriplesOf(triples)) \in Nat /\ Cardinality(TriplesOf(triples)) < TmplMod
    BY TriplesOfFinite DEF IInv, TypeOK
  <2> HIDE DEF root
  <2> QED BY <2>1, <2>2, <2>3, <1>5, <1>6, TmplAssumption
<1>8. t.ID % TmplMod = t.ID
  BY <1>7, TmplAssumption
<1> QED BY <1>2, <1>4, <1>8 DEF EntryTmpl

\* The predicate read back through an entry's template is the loaded one.
LEMMA PredicateReadBack ==
    ASSUME IInv, phase # "templates",
           NEW q \in Quad,
           TripleOf(q) \in TriplesOf(triples),
           TypeOf[q.subject] >= 2
    PROVE  GetPredicate(TypeOf[q.subject], EntryTmpl(q)) = q.predicate
<1> DEFINE root == TypeOf[q.subject]
           found == {t \in templates[root] : t.ID = EntryTmpl(q)}
<1>1. root \in TypeId
  BY KeyAssumption DEF TypeId, Quad
<1>2. PICK t \in templates[root] : t.triple = TripleOf(q) /\ EntryTmpl(q) = t.ID
  BY EntryTmplFound
<1>3. found = {t}
  BY <1>1, <1>2 DEF IInv, TemplatesWellFormed
<1>4. t.triple.predicateID = q.predicate
  BY <1>2 DEF TripleOf
<1> QED BY <1>3, <1>4 DEF GetPredicate

-----------------------------------------------------------------------------
(* IInv is inductive: one lemma per action *)

LEMMA InitIInv == Init => IInv
<1> SUFFICES ASSUME Init PROVE IInv
  OBVIOUS
<1>1. TypeOK
  BY InputLines, TriplesOfFinite DEF Init, TypeOK, Phase
<1>2. TemplatesWellFormed
  BY FS_EmptySet DEF Init, TemplatesWellFormed
<1>3. TemplatesCover
  BY DEF Init, TemplatesCover
<1>4. TemplatesCounted
  BY TriplesOfFinite, FS_EmptySet DEF Init, TemplatesCounted
<1>5. PhaseOrder
  BY DEF Init, PhaseOrder
<1>6. Instances(next - 1) = {}
  BY DEF Init, Instances
<1>7. EntriesExact
  BY <1>6 DEF Init, EntriesExact
<1>8. IndexesExact
  BY <1>6 DEF Init, IndexesExact
<1> QED BY <1>1, <1>2, <1>3, <1>4, <1>5, <1>7, <1>8 DEF IInv

LEMMA AddTemplateIInv ==
    ASSUME IInv, NEW triple \in tripleTemplatesTypes, AddTemplate(triple)
    PROVE  IInv'
<1> USE DEF IInv
<1> DEFINE root == triple.subjectType
           new == [triple |-> triple, ID |-> Cardinality(templates[root]) + 1]
<1>1. /\ triple \in Triple
      /\ root \in TypeId
      /\ root \in Nat
  BY KeyAssumption DEF TypeOK, Triple, TypeId
<1>2. /\ tripleTemplatesTypes' = tripleTemplatesTypes \ {triple}
      /\ UNCHANGED <<triples, phase, next, molecules, inv_molecules, ProvIdx,
                     contextTriples>>
      /\ phase = "templates" /\ next = 1
  BY DEF AddTemplate, PhaseOrder
<1>3. \/ root < 2 /\ UNCHANGED templates
      \/ templates' = [templates EXCEPT ![root] = @ \cup {new}]
  BY <1>1 DEF AddTemplate, TypeOK
<1>4. \A r \in TypeId : Cardinality(templates[r]) \in Nat
  BY FS_CardinalityType DEF TemplatesWellFormed
<1>5. new \notin templates[root]
  BY <1>1 DEF TemplatesWellFormed
<1>6. /\ IsFiniteSet(templates[root] \cup {new})
      /\ Cardinality(templates[root] \cup {new}) = Cardinality(templates[root]) + 1
  <2>1. IsFiniteSet(templates[root])
    BY <1>1 DEF TemplatesWellFormed
  <2> HIDE DEF new
  <2> QED BY <1>5, <2>1, FS_AddElement
<1>7. /\ IsFiniteSet(tripleTemplatesTypes')
      /\ Cardinality(tripleTemplatesTypes') = Cardinality(tripleTemplatesTypes) - 1
      /\ Cardinality(tripleTemplatesTypes) \in Nat
  BY <1>2, FS_RemoveElement, FS_CardinalityType DEF TemplatesCounted
<1>8. TypeOK'
  <2>1. new \in Template
    BY <1>1, <1>4 DEF Template
  <2> QED BY <1>1, <1>2, <1>3, <2>1 DEF TypeOK
<1>9. TemplatesWellFormed'
  <2>1. CASE UNCHANGED templates
    BY <1>2, <2>1 DEF TemplatesWellFormed
  <2>2. CASE templates' = [templates EXCEPT ![root] = @ \cup {new}]
    <3> SUFFICES ASSUME NEW r \in TypeId
                 PROVE  /\ IsFiniteSet(templates'[r])
                        /\ \A t \in templates'[r] :
                              /\ t.triple.subjectType = r
                              /\ t.ID \in 1..Cardinality(templates'[r])
                              /\ t.triple \notin tripleTemplatesTypes'
                        /\ \A t, u \in templates'[r] :
                              (t.ID = u.ID \/ t.triple = u.triple) => t = u
      BY DEF TemplatesWellFormed
    <3>1. CASE r # root
      BY <1>2, <2>2, <3>1 DEF TypeOK, TemplatesWellFormed
    <3>2. CASE r = root
      <4>1. templates'[r] = templates[root] \cup {new}
        BY <1>1, <2>2, <3>2 DEF TypeOK
      <4>2. \A t \in templates[root] :
                /\ t.triple.subjectType = root
                /\ t.ID \in 1..Cardinality(templates[root])
                /\ t.triple # triple
                /\ t.triple \notin tripleTemplatesTypes'
        BY <1>1, <1>2 DEF TemplatesWellFormed
      <4>3. /\ new.triple = triple
            /\ new.ID = Cardinality(templates[root]) + 1
        OBVIOUS
      <4>4. \A t, u \in templates[root] :
                (t.ID = u.ID \/ t.triple = u.triple) => t = u
        BY <1>1 DEF TemplatesWellFormed
      <4>5. triple \notin tripleTemplatesTypes'
        BY <1>2
      <4>6. Cardinality(templates'[r]) = Cardinality(templates[root]) + 1
        BY <1>6, <4>1
      <4>7. Cardinality(templates[root]) \in Nat
        BY <1>1, <1>4
      <4>8. IsFiniteSet(templates'[r])
        BY <1>6, <4>1
      <4> HIDE DEF new
      <4>9. ASSUME NEW t \in templates'[r]
            PROVE  /\ t.triple.subjectType = r
                   /\ t.ID \in 1..Cardinality(templates'[r])
                   /\ t.triple \notin tripleTemplatesTypes'
        <5>1. CASE t \in templates[root]
          BY <3>2, <4>2, <4>6, <4>7, <5>1
        <5>2. CASE t = new
          BY <3>2, <4>3, <4>5, <4>6, <4>7, <5>2
        <5> QED BY <4>1, <5>1, <5>2
      <4>10. ASSUME NEW t \in templates'[r], NEW u \in templates'[r],
                    t.ID = u.ID \/ t.triple = u.triple
             PROVE  t = u
        <5>1. CASE t \in templates[root] /\ u \in templates[root]
          BY <4>4, <4>10, <5>1
        <5>2. CASE t \in templates[root] /\ u = new
          BY <4>2, <4>3, <4>7, <4>10, <5>2
        <5>3. CASE t = new /\ u \in templates[root]
          BY <4>2, <4>3, <4>7, <4>10, <5>3
        <5> QED BY <4>1, <5>1, <5>2, <5>3
      <4> QED BY <4>8, <4>9, <4>10
    <3> QED BY <3>1, <3>2
  <2> QED BY <1>3, <2>1, <2>2
<1>10. TemplatesCover'
  <2> SUFFICES ASSUME NEW x \in TriplesOf(triples), x.subjectType >= 2
               PROVE  \/ x \in tripleTemplatesTypes'
                      \/ \E t \in templates'[x.subjectType] : t.triple = x
    BY <1>2 DEF TemplatesCover
  <2>1. x \in Triple
    BY TriplesOfFinite DEF TypeOK
  <2>2. CASE x = triple
    <3>1. templates' = [templates EXCEPT ![root] = @ \cup {new}]
      BY <1>1, <1>3, <2>2
    <3>2. new \in templates'[x.subjectType]
      BY <1>1, <2>2, <3>1 DEF TypeOK
    <3> QED BY <2>2, <3>2
  <2>3. CASE x # triple
    BY <1>1, <1>2, <1>3, <2>1, <2>3 DEF TemplatesCover, TypeOK, Triple
  <2> QED BY <2>2, <2>3
<1>11. TemplatesCounted'
  <2> SUFFICES ASSUME NEW r \in TypeId
               PROVE  Cardinality(templates'[r]) + Cardinality(tripleTemplatesTypes')
                          <= Cardinality(TriplesOf(triples))
    BY <1>2, <1>7 DEF TemplatesCounted
  <2>1. Cardinality(templates'[r]) <= Cardinality(templates[r]) + 1
    <3>1. CASE r = root
      <4>1. CASE UNCHANGED templates
        BY <1>4, <4>1
      <4>2. CASE templates' = [templates EXCEPT ![root] = @ \cup {new}]
        <5>1. templates'[r] = templates[root] \cup {new}
          BY <1>1, <3>1, <4>2 DEF TypeOK
        <5> HIDE DEF new
        <5> QED BY <1>4, <1>6, <3>1, <5>1
      <4> QED BY <1>3, <4>1, <4>2
    <3>2. CASE r # root
      BY <1>3, <1>4, <3>2 DEF TypeOK
    <3> QED BY <3>1, <3>2
  <2>2. Cardinality(templates[r]) + Cardinality(tripleTemplatesTypes)
            <= Cardinality(TriplesOf(triples))
    BY DEF TemplatesCounted
  <2>3. Cardinality(templates'[r]) \in Nat
    BY <1>9, FS_CardinalityType DEF TemplatesWellFormed
  <2>4. Cardinality(TriplesOf(triples)) \in Nat
    BY TriplesOfFinite DEF TypeOK
  <2> HIDE DEF new
  <2> QED BY <1>4, <1>7, <2>1, <2>2, <2>3, <2>4
<1>12. PhaseOrder'
  BY <1>2 DEF PhaseOrder
<1>13. Instances(next - 1) = {} /\ Instances(next - 1)' = {}
  BY <1>2 DEF Instances
<1>14. EntriesExact'
  BY <1>2, <1>13 DEF EntriesExact
<1>15. IndexesExact'
  BY <1>2, <1>13 DEF IndexesExact
<1> QED BY <1>8, <1>9, <1>10, <1>11, <1>12, <1>14, <1>15

LEMMA StartMoleculesIInv ==
    ASSUME IInv, StartMolecules
    PROVE  IInv'
<1> USE DEF IInv
<1>1. /\ UNCHANGED <<triples, tripleTemplatesTypes, templates, next, molecules,
                     inv_molecules, ProvIdx, contextTriples>>
      /\ phase = "templates" /\ phase' = "molecules"
      /\ tripleTemplatesTypes = {} /\ next = 1
  BY DEF StartMolecules, PhaseOrder
<1>2. TypeOK'
  BY <1>1 DEF TypeOK, Phase
<1>3. TemplatesWellFormed' /\ TemplatesCover' /\ TemplatesCounted' /\ PhaseOrder'
  BY <1>1 DEF TemplatesWellFormed, TemplatesCover, TemplatesCounted, PhaseOrder
<1>4. Instances(next - 1) = {} /\ Instances(next - 1)' = {}
  BY <1>1 DEF Instances
<1>5. EntriesExact' /\ IndexesExact'
  BY <1>1, <1>4 DEF EntriesExact, IndexesExact
<1> QED BY <1>2, <1>3, <1>5

\* An entry depends on the templates alone.
LEMMA EntryOfStable ==
    ASSUME UNCHANGED templates, NEW q
    PROVE  EntryOf(q)' = EntryOf(q)
BY DEF EntryOf, EntryTmpl, GetTemplate

\* What one more line adds to the quads of the instances.
LEMMA InstancesStep ==
    ASSUME triples \in Inputs, NEW n \in 1..Len(triples)
    PROVE  Instances(n) = IF TypeOf[triples[n].subject] >= 2
                          THEN Instances(n - 1) \cup {triples[n]}
                          ELSE Instances(n - 1)
<1>1. Len(triples) \in Nat /\ n \in Nat
  BY InputLines
<1>2. 1..n = 1..(n - 1) \cup {n}
  BY <1>1
<1> QED BY <1>2 DEF Instances

LEMMA LoadTripleIInv ==
    ASSUME IInv, LoadTriple
    PROVE  IInv'
<1> USE DEF IInv
<1> DEFINE q == triples[next]
<1>1. /\ UNCHANGED <<triples, tripleTemplatesTypes, templates, phase>>
      /\ phase = "molecules" /\ next' = next + 1
      /\ ProvIdx' = [ProvIdx EXCEPT ![q.prov] = @ \cup {q.subject}]
      /\ contextTriples' = [contextTriples EXCEPT ![q.prov] = @ + 1]
  BY DEF LoadTriple
<1>2. \/ /\ TypeOf[q.subject] >= 2
         /\ molecules' = [molecules EXCEPT ![q.subject] = @ \cup {EntryOf(q)}]
         /\ inv_molecules' = [inv_molecules EXCEPT ![q.object] = @ \cup {q.subject}]
      \/ /\ ~(TypeOf[q.subject] >= 2)
         /\ UNCHANGED <<molecules, inv_molecules>>
  <2>1. next \in 1..Len(triples)
    BY InputLines DEF TypeOK, LoadTriple
  <2>2. q \in Quad
    BY <2>1, InputLines DEF TypeOK
  <2>3. q.subject \in Key /\ TypeOf[q.subject] \in Nat
    BY <2>2, KeyAssumption DEF Quad
  <2> QED BY <2>3 DEF LoadTriple, CreateMolecule
<1>3. /\ triples \in Inputs /\ Len(triples) \in Nat
      /\ next \in 1..Len(triples)
      /\ (next + 1) - 1 = next
  BY InputLines DEF TypeOK, LoadTriple
<1>4. /\ q \in Quad
      /\ q.subject \in Key /\ q.object \in Key /\ q.prov \in Key
  BY <1>3, InputLines DEF Quad
<1>5. Instances(next' - 1) = IF TypeOf[q.subject] >= 2
                             THEN Instances(next - 1) \cup {q}
                             ELSE Instances(next - 1)
  BY <1>1, <1>3, InstancesStep
<1>6. Instances(next - 1)' = Instances(next' - 1)
  BY <1>1 DEF Instances
<1>7. TypeOK'
  <2>1. ASSUME TypeOf[q.subject] >= 2
        PROVE  EntryOf(q) \in Entry
    <3>1. TripleOf(q) \in TriplesOf(triples)
      BY <1>3, InputLines DEF TriplesOf
    <3>2. PICK t \in templates[TypeOf[q.subject]] : EntryTmpl(q) = t.ID
      BY <1>1, <1>4, <2>1, <3>1, EntryTmplFound
    <3>3. TypeOf[q.subject] \in TypeId
      BY <1>4, KeyAssumption DEF TypeId
    <3>4. t.ID \in Nat
      BY <3>2, <3>3 DEF TypeOK, Template
    <3> QED BY <1>4, <3>2, <3>4 DEF EntryOf, Entry
  <2>2. molecules' \in [Key -> SUBSET Entry]
    BY <1>2, <1>4, <2>1 DEF TypeOK
  <2>3. inv_molecules' \in [Key -> SUBSET Key]
    BY <1>2, <1>4 DEF TypeOK
  <2>4. ProvIdx' \in [Key -> SUBSET Key] /\ contextTriples' \in [Key -> Nat]
    BY <1>1, <1>4 DEF TypeOK
  <2> QED BY <1>1, <1>3, <2>2, <2>3, <2>4 DEF TypeOK
<1>8. TemplatesWellFormed' /\ TemplatesCover' /\ TemplatesCounted'
  BY <1>1 DEF TemplatesWellFormed, TemplatesCover, TemplatesCounted
<1>9. PhaseOrder'
  BY <1>1 DEF PhaseOrder
<1>10. EntriesExact'
  <2> SUFFICES ASSUME NEW s \in Key
               PROVE  molecules'[s] =
                   {EntryOf(x) : x \in {r \in Instances(next' - 1) : r.subject = s}}
    BY <1>1, <1>6, EntryOfStable DEF EntriesExact
  <2>1. molecules[s] =
            {EntryOf(x) : x \in {r \in Instances(next - 1) : r.subject = s}}
    BY DEF EntriesExact
  <2> HIDE DEF q
  <2>2. CASE TypeOf[q.subject] >= 2 /\ s = q.subject
    <3>1. molecules'[s] = molecules[s] \cup {EntryOf(q)}
      BY <1>2, <1>4, <2>2 DEF TypeOK
    <3>2. {r \in Instances(next' - 1) : r.subject = s}
              = {r \in Instances(next - 1) : r.subject = s} \cup {q}
      BY <1>5, <2>2
    <3> QED BY <2>1, <3>1, <3>2
  <2>3. CASE TypeOf[q.subject] >= 2 /\ s # q.subject
    <3>1. molecules'[s] = molecules[s]
      BY <1>2, <1>4, <2>3 DEF TypeOK
    <3>2. {r \in Instances(next' - 1) : r.subject = s}
              = {r \in Instances(next - 1) : r.subject = s}
      BY <1>5, <2>3
    <3> QED BY <2>1, <3>1, <3>2
  <2>4. CASE ~(TypeOf[q.subject] >= 2)
    BY <1>2, <1>5, <2>1, <2>4
  <2> QED BY <2>2, <2>3, <2>4
<1>11. \A o \in Key : inv_molecules'[o] =
           {x.subject : x \in {r \in Instances(next' - 1) : r.object = o}}
  <2> TAKE o \in Key
  <2>1. inv_molecules[o] =
            {x.subject : x \in {r \in Instances(next - 1) : r.object = o}}
    BY DEF IndexesExact
  <2> HIDE DEF q
  <2>2. CASE TypeOf[q.subject] >= 2 /\ o = q.object
    <3>1. inv_molecules'[o] = inv_molecules[o] \cup {q.subject}
      BY <1>2, <1>4, <2>2 DEF TypeOK
    <3>2. {r \in Instances(next' - 1) : r.object = o}
              = {r \in Instances(next - 1) : r.object = o} \cup {q}
      BY <1>5, <2>2
    <3> QED BY <2>1, <3>1, <3>2
  <2>3. CASE TypeOf[q.subject] >= 2 /\ o # q.object
    <3>1. inv_molecules'[o] = inv_molecules[o]
      BY <1>2, <1>4, <2>3 DEF TypeOK
    <3>2. {r \in Instances(next' - 1) : r.object = o}
              = {r \in Instances(next - 1) : r.object = o}
      BY <1>5, <2>3
    <3> QED BY <2>1, <3>1, <3>2
  <2>4. CASE ~(TypeOf[q.subject] >= 2)
    BY <1>2, <1>5, <2>1, <2>4
  <2> QED BY <2>2, <2>3, <2>4
<1>12. \A p \in Key : ProvIdx'[p] =
           {triples[i].subject : i \in {j \in 1..next : triples[j].prov = p}}
  <2> TAKE p \in Key
  <2>1. ProvIdx[p] =
            {triples[i].subject : i \in {j \in 1..(next - 1) : triples[j].prov = p}}
    BY DEF IndexesExact
  <2>2. 1..next = 1..(next - 1) \cup {next}
    BY <1>3
  <2>3. CASE p = q.prov
    <3>1. ProvIdx'[p] = ProvIdx[p] \cup {q.subject}
      BY <1>1, <1>4, <2>3 DEF TypeOK
    <3>2. {j \in 1..next : triples[j].prov = p}
              = {j \in 1..(next - 1) : triples[j].prov = p} \cup {next}
      BY <2>2, <2>3
    <3> QED BY <2>1, <3>1, <3>2
  <2>4. CASE p # q.prov
    <3>1. ProvIdx'[p] = ProvIdx[p]
      BY <1>1, <1>4, <2>4 DEF TypeOK
    <3>2. {j \in 1..next : triples[j].prov = p}
              = {j \in 1..(next - 1) : triples[j].prov = p}
      BY <2>2, <2>4
    <3> QED BY <2>1, <3>1, <3>2
  <2> QED BY <2>3, <2>4
<1>13. IndexesExact'
  BY <1>1, <1>3, <1>6, <1>11, <1>12 DEF IndexesExact
<1> QED BY <1>7, <1>8, <1>9, <1>10, <1>13

LEMMA ServeIInv ==
    ASSUME IInv, Serve
    PROVE  IInv'
<1> USE DEF IInv
<1>1. /\ UNCHANGED <<triples, tripleTemplatesTypes, templates, next, molecules,
                     inv_molecules, ProvIdx, contextTriples>>
      /\ phase = "molecules" /\ phase' = "serving"
      /\ next = Len(triples) + 1
  BY InputLines DEF Serve, TypeOK
<1>2. TypeOK'
  BY <1>1 DEF TypeOK, Phase
<1>3. TemplatesWellFormed' /\ TemplatesCover' /\ TemplatesCounted' /\ PhaseOrder'
  BY <1>1 DEF TemplatesWellFormed, TemplatesCover, TemplatesCounted, PhaseOrder
<1>4. Instances(next - 1)' = Instances(next - 1)
  BY <1>1 DEF Instances
<1>5. EntriesExact' /\ IndexesExact'
  BY <1>1, <1>4, EntryOfStable DEF EntriesExact, IndexesExact
<1> QED BY <1>2, <1>3, <1>5

LEMMA StutterIInv ==
    ASSUME IInv, UNCHANGED vars
    PROVE  IInv'
<1>1. UNCHANGED <<triples, tripleTemplatesTypes, templates, phase, next,
                  molecules, inv_molecules, ProvIdx, contextTriples>>
  BY DEF vars
<1>2. Instances(next - 1)' = Instances(next - 1)
  BY <1>1 DEF Instances
<1> QED BY <1>1, <1>2, EntryOfStable
        DEF IInv, TypeOK, TemplatesWellFormed, TemplatesCover, TemplatesCounted,
            PhaseOrder, EntriesExact, IndexesExact

LEMMA NextIInv == IInv /\ [Next]_vars => IInv'
BY AddTemplateIInv, StartMoleculesIInv, LoadTripleIInv, ServeIInv, StutterIInv
   DEF Next

\* IInv holds in every state of the program.
LEMMA Invariance == Spec => []IInv
BY InitIInv, NextIInv, PTL DEF Spec

-----------------------------------------------------------------------------
(* What IInv implies *)

LEMMA IInvMoleculesExact == IInv => MoleculesExact
<1> SUFFICES ASSUME IInv PROVE Stored = Instances(next - 1)
  BY DEF MoleculesExact
<1> USE DEF IInv
<1>1. CASE phase = "templates"
  <2>1. Instances(next - 1) = {}
    BY <1>1 DEF PhaseOrder, Instances
  <2>2. \A s \in Key : molecules[s] = {}
    BY <2>1 DEF EntriesExact
  <2> QED BY <2>1, <2>2 DEF Stored, StoredOf
<1>2. CASE phase # "templates"
  <2>1. next - 1 \in 0..Len(triples) /\ triples \in Inputs
    BY InputLines DEF TypeOK
  <2>2. ASSUME NEW q \in Instances(next - 1)
        PROVE  /\ q.subject \in Key
               /\ EntryOf(q) \in molecules[q.subject]
               /\ q = [subject   |-> q.subject,
                       predicate |-> GetPredicate(TypeOf[q.subject], EntryOf(q).tmpl),
                       object    |-> EntryOf(q).obj,
                       prov      |-> EntryOf(q).prov]
    <3>1. /\ q \in Quad
          /\ TripleOf(q) \in TriplesOf(triples)
          /\ TypeOf[q.subject] >= 2
      BY <2>1, InstancesFacts
    <3>2. q.subject \in Key
      BY <3>1 DEF Quad
    <3>3. EntryOf(q) \in molecules[q.subject]
      BY <3>2 DEF EntriesExact
    <3>4. GetPredicate(TypeOf[q.subject], EntryOf(q).tmpl) = q.predicate
      BY <1>2, <3>1, PredicateReadBack DEF EntryOf
    <3> QED BY <3>1, <3>2, <3>3, <3>4 DEF EntryOf, Quad
  <2>3. Instances(next - 1) \subseteq Stored
    BY <2>2 DEF Stored, StoredOf
  <2>4. ASSUME NEW x \in Stored
        PROVE  x \in Instances(next - 1)
    <3>1. PICK s \in Key : x \in StoredOf(s)
      BY DEF Stored
    <3>2. PICK e \in molecules[s] :
              x = [subject   |-> s,
                   predicate |-> GetPredicate(TypeOf[s], e.tmpl),
                   object    |-> e.obj,
                   prov      |-> e.prov]
      BY <3>1 DEF StoredOf
    <3>3. PICK q \in Instances(next - 1) : q.subject = s /\ e = EntryOf(q)
      BY DEF EntriesExact
    <3> QED BY <2>2, <3>2, <3>3
  <2> QED BY <2>3, <2>4
<1> QED BY <1>1, <1>2

LEMMA IInvIndexes == IInv => TemplateIDsUnique /\ InvertedIndexExact /\ ProvIdxExact
<1> SUFFICES ASSUME IInv PROVE TemplateIDsUnique /\ InvertedIndexExact /\ ProvIdxExact
  OBVIOUS
<1> USE DEF IInv
<1>1. TemplateIDsUnique
  BY DEF TemplatesWellFormed, TemplateIDsUnique
<1>2. next - 1 \in 0..Len(triples) /\ triples \in Inputs
  BY InputLines DEF TypeOK
<1>3. InvertedIndexExact
  <2> SUFFICES ASSUME NEW s \in Key, NEW o \in Key
               PROVE  s \in inv_molecules[o] <=> \E e \in molecules[s] : e.obj = o
    BY DEF InvertedIndexExact
  <2>1. molecules[s] = {EntryOf(q) : q \in {r \in Instances(next - 1) : r.subject = s}}
    BY DEF EntriesExact
  <2>2. s \in inv_molecules[o] <=>
            \E q \in Instances(next - 1) : q.object = o /\ q.subject = s
    BY DEF IndexesExact
  <2>3. \A q : EntryOf(q).obj = q.object
    BY DEF EntryOf
  <2>4. (\E e \in molecules[s] : e.obj = o) <=>
            \E q \in Instances(next - 1) : q.subject = s /\ EntryOf(q).obj = o
    BY <2>1
  <2> QED BY <2>2, <2>3, <2>4
<1>4. ProvIdxExact
  <2> SUFFICES ASSUME NEW s \in Key, NEW p \in Key, TypeOf[s] >= 2
               PROVE  s \in ProvIdx[p] <=> \E e \in molecules[s] : e.prov = p
    BY DEF ProvIdxExact
  <2>1. molecules[s] = {EntryOf(q) : q \in {r \in Instances(next - 1) : r.subject = s}}
    BY DEF EntriesExact
  <2>2. ProvIdx[p] =
            {triples[i].subject : i \in {j \in 1..(next - 1) : triples[j].prov = p}}
    BY DEF IndexesExact
  <2>3. s \in ProvIdx[p] <=>
            \E q \in Instances(next - 1) : q.subject = s /\ q.prov = p
    BY <2>2 DEF Instances
  <2>4. \A q : EntryOf(q).prov = q.prov
    BY DEF EntryOf
  <2>5. (\E e \in molecules[s] : e.prov = p) <=>
            \E q \in Instances(next - 1) : q.subject = s /\ EntryOf(q).prov = p
    BY <2>1
  <2> QED BY <2>3, <2>4, <2>5
<1> QED BY <1>1, <1>3, <1>4

-----------------------------------------------------------------------------
(* The theorems *)

\* LoadData keeps every variable in its type: the loop never reads a line
\* that is not there, and no template ID of an entry is NoTemplate.
THEOREM TypeCorrect == Spec => []TypeOK
BY Invariance, PTL DEF IInv

\* For any data, CreateMolecule loses no quad and merges no two: a predicate
\* is always found again through the 16-bit template ID of its entry.
THEOREM StoreIsExact == Spec => []MoleculesExact
BY Invariance, IInvMoleculesExact, PTL

\* AddTemplate never gives the ID of a template of the type to another one.
THEOREM TemplateIDsAreUnique == Spec => []TemplateIDsUnique
BY Invariance, IInvIndexes, PTL

\* The inverted index agrees with the molecules.
THEOREM InvertedIndexAgrees == Spec => []InvertedIndexExact
BY Invariance, IInvIndexes, PTL

\* The provenance index agrees with the molecules.
THEOREM ProvIdxAgrees == Spec => []ProvIdxExact
BY Invariance, IInvIndexes, PTL

\* The initial states of the store are initial states of its promise.
LEMMA InitRefines == Init => Abstract!Init
<1> SUFFICES ASSUME Init PROVE Abstract!Init
  OBVIOUS
<1>1. Instances(Len(triples)) \subseteq Quad
  BY InputLines DEF Init, Instances
<1>2. Stored = {}
  BY DEF Init, Stored, StoredOf
<1>3. (phase = "serving") = FALSE
  BY DEF Init
<1> QED BY <1>1, <1>2, <1>3 DEF Abstract!Init

\* Every step of the store is a step of its promise or changes nothing of it.
LEMMA NextRefines ==
    ASSUME IInv, MoleculesExact, MoleculesExact', [Next]_vars
    PROVE  [Abstract!Next]_Abstract!vars
<1> USE DEF Abstract!Next, Abstract!vars, Abstract!Store, Abstract!Serve
<1>1. Stored = Instances(next - 1) /\ Stored' = Instances(next - 1)'
  BY DEF MoleculesExact
<1>2. UNCHANGED triples => Instances(Len(triples))' = Instances(Len(triples))
  BY DEF Instances
<1>3. UNCHANGED <<triples, next>> => Instances(next - 1)' = Instances(next - 1)
  BY DEF Instances
<1>4. CASE \E triple \in tripleTemplatesTypes : AddTemplate(triple)
  BY <1>1, <1>2, <1>3, <1>4 DEF AddTemplate
<1>5. CASE StartMolecules
  BY <1>1, <1>2, <1>3, <1>5 DEF StartMolecules
<1>6. CASE LoadTriple
  <2> DEFINE q == triples[next]
  <2>1. /\ UNCHANGED <<triples, phase>> /\ phase = "molecules" /\ next' = next + 1
        /\ next \in 1..Len(triples) /\ triples \in Inputs /\ Len(triples) \in Nat
    BY <1>6, InputLines DEF LoadTriple, IInv, TypeOK
  <2>2. Instances(next - 1)' = Instances(next)
    BY <2>1 DEF Instances
  <2>3. Instances(next) = IF TypeOf[q.subject] >= 2
                          THEN Instances(next - 1) \cup {q}
                          ELSE Instances(next - 1)
    BY <2>1, InstancesStep
  <2>4. TypeOf[q.subject] >= 2 => q \in Instances(Len(triples))
    BY <2>1 DEF Instances
  <2> HIDE DEF q
  <2> QED BY <1>1, <1>2, <2>1, <2>2, <2>3, <2>4
<1>7. CASE Serve
  <2>1. next - 1 = Len(triples)
    BY <1>7, InputLines DEF Serve, IInv, TypeOK
  <2>2. UNCHANGED <<triples, next>> /\ phase' = "serving"
    BY <1>7 DEF Serve
  <2> QED BY <1>1, <1>2, <1>3, <2>1, <2>2
<1>8. CASE UNCHANGED vars
  BY <1>1, <1>2, <1>3, <1>8 DEF vars
<1> QED BY <1>4, <1>5, <1>6, <1>7, <1>8 DEF Next

\* LoadData implements the promise of the store: every quad of an instance is
\* answerable, one after the other, before the first query is served.
THEOREM StoreImplementsQuadStore == Spec => ImplementsQuadStore
BY Invariance, StoreIsExact, InitRefines, NextRefines, PTL
   DEF Spec, ImplementsQuadStore, Abstract!Spec
-----------------------------------------------------------------------------
(* What the queries of API find in a loaded store *)

Loaded == IInv /\ phase = "serving"

\* The entries of a loaded store are those of the quads of the input.
LEMMA LoadedFacts ==
    ASSUME Loaded
    PROVE  /\ \A s \in Key : molecules[s] =
                  {EntryOf(q) : q \in {r \in Instances(Len(triples)) : r.subject = s}}
           /\ \A o \in Key : inv_molecules[o] =
                  {q.subject : q \in {r \in Instances(Len(triples)) : r.object = o}}
           /\ \A q \in Instances(Len(triples)) :
                  /\ q \in Quad
                  /\ q.subject \in Key /\ q.predicate \in Key
                  /\ q.object \in Key /\ q.prov \in Key
                  /\ TripleOf(q) \in TriplesOf(triples)
                  /\ TypeOf[q.subject] >= 2
<1>1. IInv /\ phase = "serving" /\ triples \in Inputs
  BY DEF Loaded, IInv, TypeOK
<1>2. next = Len(triples) + 1 /\ Len(triples) \in Nat
  BY <1>1, InputLines DEF IInv, PhaseOrder
<1>3. next - 1 = Len(triples) /\ Len(triples) \in 0..Len(triples)
  BY <1>2
<1>4. \A q \in Instances(Len(triples)) :
          /\ q \in Quad
          /\ TripleOf(q) \in TriplesOf(triples)
          /\ TypeOf[q.subject] >= 2
  BY <1>1, <1>3, InstancesFacts
<1> QED BY <1>1, <1>3, <1>4 DEF IInv, EntriesExact, IndexesExact, Quad

\* The templates of a pattern pick exactly the entries of its predicate and
\* type of object: a template ID means the same on both sides.
LEMMA TemplatesPick ==
    ASSUME Loaded, NEW q \in Instances(Len(triples)), NEW p, NEW oType
    PROVE  EntryTmpl(q) \in GetTemplates(TypeOf[q.subject], p, oType) <=>
               /\ p = Any \/ q.predicate = p
               /\ oType = Any \/ TypeOf[q.object] = oType
<1> DEFINE root == TypeOf[q.subject]
<1>1. /\ IInv /\ phase # "templates"
      /\ q \in Quad /\ TripleOf(q) \in TriplesOf(triples) /\ TypeOf[q.subject] >= 2
      /\ q.subject \in Key
  BY LoadedFacts DEF Loaded
<1>2. root \in TypeId
  BY <1>1 DEF TypeId
<1>3. PICK t \in templates[root] : t.triple = TripleOf(q) /\ EntryTmpl(q) = t.ID
  BY <1>1, EntryTmplFound
<1>4. \A u \in templates[root] : u.ID = t.ID => u = t
  BY <1>1, <1>2, <1>3 DEF IInv, TemplatesWellFormed
<1>5. t.triple.predicateID = q.predicate /\ t.triple.objectType = TypeOf[q.object]
  BY <1>3 DEF TripleOf
<1> QED BY <1>3, <1>4, <1>5 DEF GetTemplates

\* The quads of m with a predicate and a type of object.
QuadsOf(m, p, oType, filter) ==
    {r \in Quads(filter) : /\ r.subject = m
                           /\ p = Any \/ r.predicate = p
                           /\ oType = Any \/ TypeOf[r.object] = oType}

\* The entries shown under the templates of a pattern are those of its quads.
LEMMA ShownExact ==
    ASSUME Loaded, NEW m \in Key, NEW p, NEW oType, NEW filter
    PROVE  Shown(m, GetTemplates(TypeOf[m], p, oType), filter) =
               {EntryOf(q) : q \in QuadsOf(m, p, oType, filter)}
<1>1. molecules[m] =
          {EntryOf(q) : q \in {r \in Instances(Len(triples)) : r.subject = m}}
  BY LoadedFacts
<1>2. \A q : EntryOf(q).prov = q.prov /\ EntryOf(q).tmpl = EntryTmpl(q)
  BY DEF EntryOf
<1>3. \A q \in Instances(Len(triples)) : q.subject = m =>
          (EntryTmpl(q) \in GetTemplates(TypeOf[m], p, oType) <=>
               /\ p = Any \/ q.predicate = p
               /\ oType = Any \/ TypeOf[q.object] = oType)
  BY TemplatesPick
<1> QED BY <1>1, <1>2, <1>3 DEF Shown, Quads, QuadsOf

\* A subject with a quad has a molecule, which its object leads to.
LEMMA SubjectHasMolecule ==
    ASSUME Loaded, NEW filter, NEW q \in Quads(filter)
    PROVE  /\ q.subject \in GetPair(q.subject)
           /\ q.subject \in GetMoleculesFromInvertedIdx(q.object)
<1>1. q \in Instances(Len(triples)) /\ q.subject \in Key /\ q.object \in Key
  BY LoadedFacts DEF Quads
<1>2. EntryOf(q) \in molecules[q.subject]
  BY <1>1, LoadedFacts
<1>3. q.subject \in inv_molecules[q.object]
  BY <1>1, LoadedFacts
<1> QED BY <1>1, <1>2, <1>3 DEF GetPair, GetMoleculesFromInvertedIdx

LEMMA CandidatesAreKeys ==
    ASSUME Loaded, NEW c, NEW p, NEW m \in Candidates(c, p)
    PROVE  m \in Key
<1>1. \A s : GetPair(s) \subseteq Key
  BY DEF GetPair
<1>2. \A o : GetMoleculesFromInvertedIdx(o) \subseteq Key
  BY DEF GetMoleculesFromInvertedIdx, Loaded, IInv, TypeOK
<1> QED BY <1>1, <1>2 DEF Candidates

\* The subjects found through the index and the templates are those of the
\* quads with that object and predicate.
LEMMA SubjectsFound ==
    ASSUME Loaded, NEW o \in Key, NEW p, NEW filter
    PROVE  GetSubjects(o, p, filter) =
               {q.subject : q \in {x \in Quads(filter) :
                                     x.object = o /\ p \in {Any, x.predicate}}}
<1> DEFINE quads == {x \in Quads(filter) : x.object = o /\ p \in {Any, x.predicate}}
<1>1. GetType(o) = TypeOf[o] /\ o # Any
  BY AnyAssumption, KeyAssumption DEF GetType
<1>2. ASSUME NEW m \in Key
      PROVE  SubjectProv(m, o, p, filter) = {q.prov : q \in {x \in quads : x.subject = m}}
  <2> DEFINE shown == QuadsOf(m, p, TypeOf[o], filter)
  <2>1. Shown(m, GetTemplates(TypeOf[m], p, TypeOf[o]), filter) =
            {EntryOf(q) : q \in shown}
    BY ShownExact
  <2>2. \A q : EntryOf(q).prov = q.prov /\ EntryOf(q).obj = q.object
    BY DEF EntryOf
  <2>3. SubjectProv(m, o, p, filter) = {q.prov : q \in {r \in shown : r.object = o}}
    BY <1>1, <2>1, <2>2 DEF SubjectProv, CheckIfEntityExists
  <2>4. {r \in shown : r.object = o} = {x \in quads : x.subject = m}
    BY DEF QuadsOf
  <2> QED BY <2>3, <2>4
<1>3. /\ GetMoleculesFromInvertedIdx(o) \subseteq Key
      /\ \A x \in quads : x.subject \in Key /\ x.subject \in GetMoleculesFromInvertedIdx(o)
  <2>1. GetMoleculesFromInvertedIdx(o) = inv_molecules[o] /\ inv_molecules[o] \subseteq Key
    BY DEF GetMoleculesFromInvertedIdx, Loaded, IInv, TypeOK
  <2>2. \A x \in Quads(filter) : x.subject \in Key
    BY LoadedFacts DEF Quads
  <2> QED BY <2>1, <2>2, SubjectHasMolecule
<1> HIDE DEF quads
<1>4. GetSubjects(o, p, filter) = {q.subject : q \in quads}
  BY <1>2, <1>3 DEF GetSubjects
<1> QED BY <1>4 DEF quads
=============================================================================

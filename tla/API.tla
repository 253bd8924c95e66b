--------------------------------- MODULE API ---------------------------------
(***************************************************************************)
(* The query API over the store of MoleculeStore: every query of BTCprov   *)
(* and WatDivprov is put together from TriplePatern, GetSubjects and       *)
(* GetObjects.  They read the store and change nothing of it.              *)
(*                                                                         *)
(* A query that runs under a provenance filter sees only the entries whose *)
(* provenance the filter lets through, so each operator takes the filter   *)
(* as the set of these provenances (see ProvSession for the variables).    *)
(* ProvMolecules, which would narrow the candidates, is never filled.      *)
(* The extra empty set at the end of each result, the counters and the     *)
(* order of the answers are left out.                                      *)
(***************************************************************************)
EXTENDS MoleculeStore

CONSTANT Any    \* the wildcard: KEY_ID -1 and TYPE_ID -1

ASSUME AnyAssumption == Any \notin Key \cup {NoKey} \cup Nat

\* A TripleIDs used as a pattern: NoKey is a variable, or a URI the KeyManager
\* does not know; prov is 1 if an answer need not match the pattern.
Pattern == [subject: Key \cup {NoKey}, predicate: Key \cup {NoKey, Any},
            object: Key \cup {NoKey, Any}, prov: {0, 1}]

\* KeyManager::GetType, also of a pattern's object.
GetType(k) == IF k = Any THEN Any ELSE IF k = NoKey THEN 0 ELSE TypeOf[k]

\* The IDs of the templates of a root that fit; every caller knows the root.
GetTemplates(root, p, oType) ==
    {t.ID : t \in {u \in templates[root] :
                       /\ p = Any \/ u.triple.predicateID = p
                       /\ oType = Any \/ u.triple.objectType = oType}}

\* The entries of m that a filter shows under one of the templates.
Shown(m, tmpls, filter) ==
    {e \in molecules[m] : e.prov \in filter /\ e.tmpl \in tmpls}

\* The provenances of the entries with object o; the code's result is whether
\* there are any.
CheckIfEntityExists(m, tmpls, o, filter) ==
    {e.prov : e \in {x \in Shown(m, tmpls, filter) : o = Any \/ x.obj = o}}

\* The objects of the entries shown, and their provenances.
GetEntity(m, tmpls, filter) ==
    [result |-> {e.obj  : e \in Shown(m, tmpls, filter)},
     prov   |-> {e.prov : e \in Shown(m, tmpls, filter)}]

\* The quads a filter shows.
Quads(filter) == {q \in Instances(Len(triples)) : q.prov \in filter}

-----------------------------------------------------------------------------
(* TriplePatern: a star of patterns around one molecule *)

\* Molecules::GetPair, which finds nothing for a key without a molecule.
GetPair(s) == {m \in {s} \cap Key : molecules[m] # {}}

GetMoleculesFromInvertedIdx(o) == IF o \in Key THEN inv_molecules[o] ELSE {}

\* The molecules to look at, found from the first pattern alone.
Candidates(constrains, projections) ==
    IF constrains = <<>> THEN GetPair(projections[1].subject)
    ELSE LET c == constrains[1] IN
         IF c.subject # NoKey THEN GetPair(c.subject)
         ELSE IF c.object # Any THEN GetMoleculesFromInvertedIdx(c.object)
         ELSE {}

ConstrainProv(m, c, filter) ==
    CheckIfEntityExists(m, GetTemplates(TypeOf[m], c.predicate, GetType(c.object)),
                        c.object, filter)

Projection(m, p, filter) ==
    GetEntity(m, GetTemplates(TypeOf[m], p.predicate, Any), filter)

\* Slip: the first constraint is taken as met, the index having found it.
AnswersTrustingIndex(m, constrains, projections, filter) ==
    /\ \A i \in DOMAIN constrains \ {1} : constrains[i].prov = 1
           \/ ConstrainProv(m, constrains[i], filter) # {}
    /\ \A i \in DOMAIN projections : projections[i].prov = 1
           \/ Projection(m, projections[i], filter).result # {}

Answers(m, constrains, projections, filter) ==
    /\ \A i \in DOMAIN constrains : constrains[i].prov = 1
           \/ ConstrainProv(m, constrains[i], filter) # {}
    /\ \A i \in DOMAIN projections : projections[i].prov = 1
           \/ Projection(m, projections[i], filter).result # {}

\* Slip: the provenance of the projections is left out.
TriplePaternOfConstraints(constrains, projections, filter) ==
    [m \in {c \in Candidates(constrains, projections) :
                Answers(c, constrains, projections, filter)} |->
        [results |-> [i \in DOMAIN projections |->
                         Projection(m, projections[i], filter).result],
         prov    |-> [i \in DOMAIN constrains |->
                         ConstrainProv(m, constrains[i], filter)]
                     \o [i \in DOMAIN projections |-> {}]]]

\* One row for every molecule that answers: the objects of every projection,
\* and the provenances of every constraint, then of every projection.
TriplePatern(constrains, projections, filter) ==
    [m \in {c \in Candidates(constrains, projections) :
                Answers(c, constrains, projections, filter)} |->
        [results |-> [i \in DOMAIN projections |->
                         Projection(m, projections[i], filter).result],
         prov    |-> [i \in DOMAIN constrains |->
                         ConstrainProv(m, constrains[i], filter)]
                     \o [i \in DOMAIN projections |->
                            Projection(m, projections[i], filter).prov]]]

-----------------------------------------------------------------------------
(* GetSubjects and GetObjects: one pattern *)

\* The provenances under which m has object o for p.
SubjectProv(m, o, p, filter) ==
    CheckIfEntityExists(m, GetTemplates(TypeOf[m], p, GetType(o)), o, filter)

\* Slip: the index is trusted, whatever the predicate that it has o for.
GetSubjectsOfIndex(o, p, filter) == GetMoleculesFromInvertedIdx(o)

GetSubjects(o, p, filter) ==
    {m \in GetMoleculesFromInvertedIdx(o) : SubjectProv(m, o, p, filter) # {}}

GetObjects(s, p, filter) ==
    IF GetPair(s) = {} THEN [result |-> {}, prov |-> {}]
    ELSE GetEntity(s, GetTemplates(TypeOf[s], p, Any), filter)

=============================================================================

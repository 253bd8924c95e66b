------------------------------ MODULE PlanTexts ------------------------------
(***************************************************************************)
(* When the calls of a plan read what its SPARQL text says: conditions on  *)
(* the text of a plan alone, whatever store it runs on.  PlansProofs shows *)
(* that a plan with FollowsText prints solutions only, one with            *)
(* KeepsToText all of them, and one with ShowsAll what they are known by.  *)
(***************************************************************************)
EXTENDS Plans

\* The variables a call binds, and those it needs bound before.
Binds(c) ==
    CASE c.call \in {"type", "not in GetSubjects"} -> {}
      [] c.call = "TriplePatern" -> {c.v} \cup {c.projections[i][2] : i \in DOMAIN c.projections}
      [] OTHER -> {c.v}

Terms(pairs) == {pairs[i][1] : i \in DOMAIN pairs} \cup {pairs[i][2] : i \in DOMAIN pairs}

Needs(c) ==
    Variable \cap
        CASE c.call = "GetObjects" -> {c.s, c.p}
          [] c.call = "list" -> {}
          [] c.call = "type" -> {c.v}
          [] c.call = "not in GetSubjects" -> {c.v, c.p, c.o}
          [] c.call = "TriplePatern" ->
               Terms(c.constrains) \cup Terms(c.optional) \cup {c.projections[i][1] : i \in DOMAIN c.projections}
               \cup (IF "each" \in DOMAIN c THEN {c.each} ELSE {})
          [] OTHER -> {c.p, c.o}

\* The patterns every row of a call meets.
Reads(c) ==
    CASE c.call = "GetObjects" -> {<<c.s, c.p, c.v>>}
      [] c.call \in {"list", "type", "not in GetSubjects"} -> {}
      [] c.call = "TriplePatern" ->
           {<<c.v, c.constrains[i][1], c.constrains[i][2]>> : i \in DOMAIN c.constrains}
           \cup {<<c.v, c.projections[i][1], c.projections[i][2]>> : i \in DOMAIN c.projections}
           \cup (IF "each" \in DOMAIN c THEN {<<c.v, Anything, c.each>>} ELSE {})
      [] OTHER -> {<<c.v, c.p, c.o>>}

\* Without a row the call starts anew: of the variables only its own are bound.
Restarts(c) == "each" \in DOMAIN c /\ ~c.guarded

\* What every row of the first n calls has bound.
Bound(s, n) == UNION {Binds(s[i]) : i \in {k \in 1..n : \A j \in k+1..n : ~Restarts(s[j])}}

\* The calls of a plan use no variable before a call has bound it, and PlansOf
\* names plans of the catalogue.
ASSUME CatalogueAssumption ==
    /\ \A name \in DOMAIN Catalogue :
          /\ Catalogue[name] \in AnyPlan
          /\ \A s \in Catalogue[name].steps :
                /\ Catalogue[name].prints \subseteq Bound(s, Len(s))
                /\ \A i \in DOMAIN s :
                      /\ Needs(s[i]) \subseteq Bound(s, i - 1)
                      /\ s[i].call = "list" => IsFiniteSet(s[i].uris)
    /\ \A file \in Inputs : PlansOf(file) \subseteq DOMAIN Catalogue

VariablesOf(where) ==
    Variable \cap UNION {{where[k][1], where[k][2], where[k][3]} : k \in DOMAIN where}

DistinctVariables(pattern) ==
    \A i, j \in 1..3 : pattern[i] \in Variable /\ pattern[i] = pattern[j] => i = j

\* A pattern of the text that the calls of s read, or that gives a variable of
\* theirs the type they ask for.
Covered(s, pattern) ==
    \/ \E i \in DOMAIN s : \E q \in Reads(s[i]) : \A j \in 1..3 : pattern[j] \in {q[j], Anything}
    \/ /\ pattern[2] = "rdf:type" /\ pattern[3] \notin Variable
       /\ \E i \in DOMAIN s : \E q \in Reads(s[i]) : q[1] = pattern[1]
       /\ \E i \in DOMAIN s :
             /\ s[i].call = "type" /\ s[i].v = pattern[1]
             /\ Get(s[i].uri) # NoKey => /\ TypeOf[s[i].uri] \in DOMAIN ClassOf
                                         /\ ClassOf[TypeOf[s[i].uri]] = pattern[3]

\* The calls read all of the text: then what they print is a solution of it.
FollowsText(name) ==
    \A s \in Catalogue[name].steps :
        /\ \A i \in DOMAIN s : ~Restarts(s[i])
        /\ \E where \in Catalogue[name].where :
              /\ Catalogue[name].prints \subseteq VariablesOf(where)
              /\ \A k \in DOMAIN where :
                    DistinctVariables(where[k]) /\ Covered(s, where[k])

\* Calls that look up every row for itself, and have a key to look it up by.
IsPlain(s) ==
    \A i \in DOMAIN s :
          /\ s[i].call # "not in GetSubjects"
          /\ "each" \notin DOMAIN s[i]
          /\ s[i].call \in SubjectCalls => s[i].o # Anything
          /\ s[i].call = "GetObjects" => s[i].s # Anything
          /\ s[i].call = "TriplePatern" =>
                /\ s[i].constrains # <<>>
                /\ s[i].constrains[1][2] = Anything => s[i].v \in Bound(s, i - 1)

Classes == {ClassOf[t] : t \in DOMAIN ClassOf}

\* A pattern of the text that only quads can match, not the triples of rdf:type.
MetByQuads(where, k) ==
    /\ where[k][2] \notin Variable \cup {"rdf:type"}
    /\ where[k][2] = Anything =>
          \/ where[k][3] \notin Variable \cup Classes \cup {Anything}
          \/ /\ where[k][3] \in Variable /\ Classes \cap Key = {}
             /\ \E l \in DOMAIN where :
                   where[l][3] = where[k][3] /\ where[l][2] \notin Variable \cup {"rdf:type", Anything}

\* What a call asks for is in the text, its variables renamed.
Justified(name, where, c, rename) ==
    /\ \A q \in Reads(c) : \E k \in DOMAIN where :
          /\ MetByQuads(where, k)
          /\ \A j \in 1..3 :
                (IF q[j] \in Variable THEN rename[q[j]] ELSE q[j]) \in {where[k][j], Anything}
    /\ c.call = "list" =>
          \E k \in DOMAIN where :
              /\ MetByQuads(where, k) /\ where[k][2] # Anything /\ where[k][3] = rename[c.v]
              /\ \A file \in Inputs : name \in PlansOf(file) =>
                    \A j \in DOMAIN file :
                        file[j].predicate = where[k][2] => file[j].object \in c.uris
    /\ c.call = "type" =>
          /\ c.uri \in Key /\ "rdf:type" \notin Key
          /\ \E k \in DOMAIN where :
                /\ where[k][1] = rename[c.v] /\ where[k][2] = "rdf:type"
                /\ where[k][3] \notin Variable \cup {Anything}
                /\ \A t \in DOMAIN ClassOf : ClassOf[t] = where[k][3] => t = TypeOf[c.uri]

\* The calls read nothing but the text: then they print every solution of it.
KeepsToText(name, rename) ==
    \A where \in Catalogue[name].where :
        /\ \A k \in DOMAIN where : DistinctVariables(where[k])
        /\ \E s \in Catalogue[name].steps :
              /\ IsPlain(s)
              /\ \A x \in Bound(s, Len(s)) : rename[x] \in VariablesOf(where)
              /\ \A x \in Catalogue[name].prints : x \in Bound(s, Len(s)) /\ rename[x] = x
              /\ \A i \in DOMAIN s : Justified(name, where, s[i], rename)

\* No call hides the provenance of what it reads.
ShowsAll(name) ==
    \A s \in Catalogue[name].steps :
        /\ IsPlain(s)
        /\ \A i \in DOMAIN s : /\ s[i].call # "GetSubjects, prov[0]"
                               /\ s[i].call = "GetObjects" => s[i].shown
=============================================================================

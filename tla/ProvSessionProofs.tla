-------------------------- MODULE ProvSessionProofs --------------------------
(***************************************************************************)
(* ProvSession proved for every store, every set of well-posed queries and *)
(* every number of runs.  The work is in RunExact: over a loaded store,    *)
(* TriplePatern returns what the query means over the quads of the input,  *)
(* which rests on the invariant of MoleculeStore.                          *)
(***************************************************************************)
EXTENDS ProvSession, MoleculeStoreProofs, SequenceTheorems

-----------------------------------------------------------------------------
(* TriplePatern over a loaded store *)

\* The provenances of a constraint are those of the quads that match it.
LEMMA ConstrainExact ==
    ASSUME Loaded, NEW m \in Key, NEW c \in Pattern, NEW filter
    PROVE  ConstrainProv(m, c, filter) = {q.prov : q \in Matches(m, c, Quads(filter))}
<1> DEFINE oType == GetType(c.object)
           shown == QuadsOf(m, c.predicate, oType, filter)
<1>1. Shown(m, GetTemplates(TypeOf[m], c.predicate, oType), filter) =
          {EntryOf(q) : q \in shown}
  BY ShownExact
<1>2. \A q : EntryOf(q).prov = q.prov /\ EntryOf(q).obj = q.object
  BY DEF EntryOf
<1>3. ConstrainProv(m, c, filter) =
          {q.prov : q \in {r \in shown : c.object = Any \/ r.object = c.object}}
  BY <1>1, <1>2 DEF ConstrainProv, CheckIfEntityExists
<1>4. \A q \in Quads(filter) : q.object \in Key
  BY LoadedFacts DEF Quads
<1>5. \A q \in Quads(filter) : (c.object = Any \/ q.object = c.object) =>
          (oType = Any \/ TypeOf[q.object] = oType)
  BY <1>4, AnyAssumption, KeyAssumption DEF GetType
<1>6. {r \in shown : c.object = Any \/ r.object = c.object}
          = Matches(m, c, Quads(filter))
  BY <1>5 DEF Matches, QuadsOf
<1> QED BY <1>3, <1>6

LEMMA ProjectionExact ==
    ASSUME Loaded, NEW m \in Key, NEW p \in Pattern, NEW filter
    PROVE  /\ Projection(m, p, filter).result =
                 {q.object : q \in Matches(m, Open(p), Quads(filter))}
           /\ Projection(m, p, filter).prov =
                 {q.prov : q \in Matches(m, Open(p), Quads(filter))}
<1> DEFINE shown == QuadsOf(m, p.predicate, Any, filter)
<1>1. Shown(m, GetTemplates(TypeOf[m], p.predicate, Any), filter) =
          {EntryOf(q) : q \in shown}
  BY ShownExact
<1>2. \A q : EntryOf(q).prov = q.prov /\ EntryOf(q).obj = q.object
  BY DEF EntryOf
<1>3. Open(p).predicate = p.predicate /\ Open(p).object = Any
  BY DEF Open, Pattern
<1>4. shown = Matches(m, Open(p), Quads(filter))
  BY <1>3 DEF Matches, QuadsOf
<1> HIDE DEF shown
<1> QED BY <1>1, <1>2, <1>4 DEF Projection, GetEntity

LEMMA PatternsOf ==
    ASSUME NEW q, WellPosed(q)
    PROVE  /\ \A i \in DOMAIN q.constrains : q.constrains[i] \in Pattern
           /\ \A i \in DOMAIN q.projections : q.projections[i] \in Pattern
           /\ q.constrains = <<>> => /\ 1 \in DOMAIN q.projections
                                     /\ q.projections[1].prov = 0
           /\ q.constrains # <<>> =>
                 /\ 1 \in DOMAIN q.constrains
                 /\ q.constrains[1].prov = 0
                 /\ q.constrains[1].object # Any \/ q.constrains[1].subject # NoKey
<1>1. q.constrains \in Seq(Pattern) /\ q.projections \in Seq(Pattern)
  BY DEF WellPosed, QueryFile
<1> QED BY <1>1 DEF WellPosed

\* The molecules TriplePatern answers for are those the query means.
LEMMA AnsweringExact ==
    ASSUME Loaded, NEW q, WellPosed(q), NEW filter
    PROVE  {m \in Candidates(q.constrains, q.projections) :
                Answers(m, q.constrains, q.projections, filter)}
               = Star(q, Quads(filter))
<1> DEFINE c == q.constrains
           p == q.projections
           quads == Quads(filter)
           first == IF c = <<>> THEN p[1].subject ELSE c[1].subject
           Fits(m) == /\ \A i \in DOMAIN c : c[i].prov = 1 \/ Matches(m, c[i], quads) # {}
                      /\ \A i \in DOMAIN p : p[i].prov = 1 \/ Matches(m, Open(p[i]), quads) # {}
<1>1. ASSUME NEW m \in Key PROVE Answers(m, c, p, filter) <=> Fits(m)
  <2>1. ASSUME NEW i \in DOMAIN c
        PROVE  ConstrainProv(m, c[i], filter) # {} <=> Matches(m, c[i], quads) # {}
    <3>1. ConstrainProv(m, c[i], filter) = {r.prov : r \in Matches(m, c[i], quads)}
      BY PatternsOf, ConstrainExact
    <3> QED BY <3>1
  <2>2. ASSUME NEW i \in DOMAIN p
        PROVE  Projection(m, p[i], filter).result # {} <=>
                   Matches(m, Open(p[i]), quads) # {}
    <3>1. Projection(m, p[i], filter).result =
              {r.object : r \in Matches(m, Open(p[i]), quads)}
      BY PatternsOf, ProjectionExact
    <3> QED BY <3>1
  <2> QED BY <2>1, <2>2 DEF Answers
<1>2. Star(q, quads) = {m \in Key : (c = <<>> \/ first # NoKey => m = first) /\ Fits(m)}
  BY DEF Star
<1>3. ASSUME NEW m \in Candidates(c, p)
      PROVE  c = <<>> \/ first # NoKey => m = first
  BY DEF Candidates, GetPair
<1>4. ASSUME NEW m \in Key, c = <<>> \/ first # NoKey => m = first, Fits(m)
      PROVE  m \in Candidates(c, p)
  <2>1. CASE c = <<>>
    <3>1. Matches(m, Open(p[1]), quads) # {}
      BY <1>4, <2>1, PatternsOf
    <3>2. PICK x \in quads : x.subject = m
      BY <3>1 DEF Matches
    <3> QED BY <1>4, <2>1, <3>2, SubjectHasMolecule DEF Candidates
  <2>2. CASE c # <<>>
    <3>1. Matches(m, c[1], quads) # {}
      BY <1>4, <2>2, PatternsOf
    <3>2. PICK x \in quads : x.subject = m /\ c[1].object \in {Any, x.object}
      BY <3>1 DEF Matches
    <3>3. m \in GetPair(m) /\ m \in GetMoleculesFromInvertedIdx(x.object)
      BY <3>2, SubjectHasMolecule
    <3> QED BY <1>4, <2>2, <3>2, <3>3, PatternsOf DEF Candidates
  <2> QED BY <2>1, <2>2
<1> HIDE DEF c, p, quads, first, Fits
<1> QED BY <1>1, <1>2, <1>3, <1>4, CandidatesAreKeys DEF c, p, quads

\* TriplePatern returns what the query means over the quads it may see.
LEMMA RunExact ==
    ASSUME Loaded, NEW q, WellPosed(q), NEW filter
    PROVE  Run(q, filter) = StarAnswer(q, Quads(filter))
<1> DEFINE c == q.constrains
           p == q.projections
           quads == Quads(filter)
           prov(m, x) == {r.prov : r \in Matches(m, x, quads)}
           RowRun(m) ==
               [results |-> [i \in DOMAIN p |-> Projection(m, p[i], filter).result],
                prov    |-> [i \in DOMAIN c |-> ConstrainProv(m, c[i], filter)]
                            \o [i \in DOMAIN p |-> Projection(m, p[i], filter).prov]]
           RowStar(m) ==
               [results |-> [i \in DOMAIN p |->
                                {r.object : r \in Matches(m, Open(p[i]), quads)}],
                prov    |-> [i \in DOMAIN c |-> prov(m, c[i])]
                            \o [i \in DOMAIN p |-> prov(m, Open(p[i]))]]
<1>1. ASSUME NEW m \in Key PROVE RowRun(m) = RowStar(m)
  <2>1. [i \in DOMAIN p |-> Projection(m, p[i], filter).result]
            = [i \in DOMAIN p |-> {r.object : r \in Matches(m, Open(p[i]), quads)}]
    BY PatternsOf, ProjectionExact
  <2>2. [i \in DOMAIN p |-> Projection(m, p[i], filter).prov]
            = [i \in DOMAIN p |-> prov(m, Open(p[i]))]
    BY PatternsOf, ProjectionExact
  <2>3. [i \in DOMAIN c |-> ConstrainProv(m, c[i], filter)]
            = [i \in DOMAIN c |-> prov(m, c[i])]
    BY PatternsOf, ConstrainExact
  <2> HIDE DEF c, p, quads, prov
  <2> QED BY <2>1, <2>2, <2>3
<1>2. Run(q, filter) =
          [m \in {x \in Candidates(c, p) : Answers(x, c, p, filter)} |-> RowRun(m)]
  BY DEF Run, TriplePatern
<1>3. StarAnswer(q, quads) = [m \in Star(q, quads) |-> RowStar(m)]
  BY DEF StarAnswer
<1>4. {x \in Candidates(c, p) : Answers(x, c, p, filter)} = Star(q, quads)
  BY AnsweringExact
<1>5. Star(q, quads) \subseteq Key
  BY DEF Star
<1> HIDE DEF c, p, quads, prov, RowRun, RowStar
<1>6. [m \in Star(q, quads) |-> RowRun(m)] = [m \in Star(q, quads) |-> RowStar(m)]
  BY <1>1, <1>5
<1>7. Run(q, filter) = StarAnswer(q, quads)
  BY <1>2, <1>3, <1>4, <1>6
<1> QED BY <1>7 DEF quads

-----------------------------------------------------------------------------
(* GetSubjects and GetObjects over a loaded store *)

\* The objects read from a molecule are those of the quads of its subject; a key
\* without a molecule is the subject of no quad.
LEMMA ObjectsFound ==
    ASSUME Loaded, NEW s \in Key, NEW p, NEW filter
    PROVE  GetObjects(s, p, filter) =
               [result |-> {q.object : q \in Matches(s, [predicate |-> p, object |-> Any], Quads(filter))},
                prov   |-> {q.prov : q \in Matches(s, [predicate |-> p, object |-> Any], Quads(filter))}]
<1> DEFINE shown == QuadsOf(s, p, Any, filter)
           entries == Shown(s, GetTemplates(TypeOf[s], p, Any), filter)
<1>1. shown = Matches(s, [predicate |-> p, object |-> Any], Quads(filter))
  BY DEF Matches, QuadsOf
<1>2. entries = {EntryOf(q) : q \in shown}
  BY ShownExact
<1>3. \A q : EntryOf(q).prov = q.prov /\ EntryOf(q).obj = q.object
  BY DEF EntryOf
<1>4. CASE GetPair(s) = {}
  <2>1. molecules[s] = {}
    BY <1>4 DEF GetPair
  <2>2. entries = {}
    BY <2>1 DEF Shown
  <2>3. shown = {}
    BY <1>2, <2>2
  <2>4. GetObjects(s, p, filter) = [result |-> {}, prov |-> {}]
    BY <1>4 DEF GetObjects
  <2> QED BY <1>1, <2>3, <2>4
<1>5. CASE GetPair(s) # {}
  <2>1. GetObjects(s, p, filter) = [result |-> {e.obj : e \in entries},
                                    prov   |-> {e.prov : e \in entries}]
    BY <1>5 DEF GetObjects, GetEntity
  <2> DEFINE matching == Matches(s, [predicate |-> p, object |-> Any], Quads(filter))
  <2>2. shown = matching
    BY <1>1
  <2> HIDE DEF shown, entries, matching
  <2>3. {e.obj : e \in entries} = {q.object : q \in matching}
    BY <1>2, <1>3, <2>2
  <2>4. {e.prov : e \in entries} = {q.prov : q \in matching}
    BY <1>2, <1>3, <2>2
  <2> QED BY <2>1, <2>3, <2>4 DEF matching
<1> QED BY <1>4, <1>5

-----------------------------------------------------------------------------
(* What a query means: types and monotonicity *)

\* A key is returned when some molecule of the answer has it for a projection.
LEMMA UrisMember ==
    ASSUME NEW q, NEW s, NEW u
    PROVE  u \in UrisOf(StarAnswer(q, s)) <=>
               \E m \in Star(q, s) : \E i \in DOMAIN q.projections :
                   \E r \in Matches(m, Open(q.projections[i]), s) : u = r.object
<1> DEFINE p == q.projections
<1>1. \A m \in Star(q, s) :
          /\ DOMAIN StarAnswer(q, s)[m].results = DOMAIN p
          /\ \A i \in DOMAIN p : StarAnswer(q, s)[m].results[i] =
                 {r.object : r \in Matches(m, Open(p[i]), s)}
  BY DEF StarAnswer
<1>2. DOMAIN StarAnswer(q, s) = Star(q, s)
  BY DEF StarAnswer
<1> QED BY <1>1, <1>2 DEF UrisOf

\* A query never returns a key less when more quads are shown.
LEMMA UrisMonotone ==
    ASSUME NEW q, NEW quads, NEW more, quads \subseteq more
    PROVE  UrisOf(StarAnswer(q, quads)) \subseteq UrisOf(StarAnswer(q, more))
<1>1. \A m, x : Matches(m, x, quads) \subseteq Matches(m, x, more)
  BY DEF Matches
<1>2. Star(q, quads) \subseteq Star(q, more)
  BY <1>1 DEF Star
<1> QED BY <1>1, <1>2, UrisMember

LEMMA FunctionIsSeq ==
    ASSUME NEW S, NEW n \in Nat, NEW f \in [1..n -> S]
    PROVE  f \in Seq(S)
BY SeqDef

\* Whatever a query returns is a key of the input.
LEMMA AnswerType ==
    ASSUME Loaded, NEW q, WellPosed(q), NEW filter
    PROVE  /\ DOMAIN StarAnswer(q, Quads(filter)) \subseteq Key
           /\ \A m \in DOMAIN StarAnswer(q, Quads(filter)) :
                  StarAnswer(q, Quads(filter))[m] \in Row
           /\ UrisOf(StarAnswer(q, Quads(filter))) \subseteq Key
<1> DEFINE c == q.constrains
           p == q.projections
           quads == Quads(filter)
           res(m) == [i \in DOMAIN p |-> {r.object : r \in Matches(m, Open(p[i]), quads)}]
           pc(m) == [i \in DOMAIN c |-> {r.prov : r \in Matches(m, c[i], quads)}]
           pp(m) == [i \in DOMAIN p |-> {r.prov : r \in Matches(m, Open(p[i]), quads)}]
<1>1. \A m, x : \A r \in Matches(m, x, quads) : r.object \in Key /\ r.prov \in Key
  BY LoadedFacts DEF Matches, Quads
<1>2. c \in Seq(Pattern) /\ p \in Seq(Pattern)
  BY DEF WellPosed, QueryFile
<1>3. ASSUME NEW m
      PROVE  /\ res(m) \in Seq(SUBSET Key)
             /\ pc(m) \in Seq(SUBSET Key)
             /\ pp(m) \in Seq(SUBSET Key)
  <2>1. /\ DOMAIN c = 1..Len(c) /\ Len(c) \in Nat
        /\ DOMAIN p = 1..Len(p) /\ Len(p) \in Nat
    BY <1>2
  <2>2. /\ res(m) \in [1..Len(p) -> SUBSET Key]
        /\ pc(m) \in [1..Len(c) -> SUBSET Key]
        /\ pp(m) \in [1..Len(p) -> SUBSET Key]
    BY <1>1, <2>1
  <2> HIDE DEF res, pc, pp, c, p
  <2> QED BY <2>1, <2>2, FunctionIsSeq
<1>4. StarAnswer(q, quads) =
          [m \in Star(q, quads) |-> [results |-> res(m), prov |-> pc(m) \o pp(m)]]
  BY DEF StarAnswer
<1>5. Star(q, quads) \subseteq Key
  BY DEF Star
<1>6. ASSUME NEW m
      PROVE  [results |-> res(m), prov |-> pc(m) \o pp(m)] \in Row
  <2> HIDE DEF res, pc, pp
  <2>1. pc(m) \o pp(m) \in Seq(SUBSET Key)
    BY <1>3
  <2> QED BY <1>3, <2>1 DEF Row
<1>7. UrisOf(StarAnswer(q, quads)) \subseteq Key
  BY <1>1, UrisMember
<1> HIDE DEF res, pc, pp, quads
<1>8. \A m \in DOMAIN StarAnswer(q, quads) : StarAnswer(q, quads)[m] \in Row
  BY <1>4, <1>6
<1> QED BY <1>4, <1>5, <1>7, <1>8 DEF quads

-----------------------------------------------------------------------------
(* The invariant of a session *)

SessionInv ==
    /\ IInv
    /\ file_p \in ProvQueries \cup {NoFile}
    /\ file_q \in FileQueries \cup {NoFile}
    /\ query \in Queries \cup {NoFile}
    /\ query_id \in 0..QNum
    /\ repetition \in 0..Repetitions
    /\ ProvUris \subseteq Key
    /\ ProvTrigerON \in BOOLEAN
    /\ file_q # NoFile \/ query # NoFile \/ ProvTrigerON => phase = "serving"
    /\ ProvTrigerON => file_p # NoFile
    /\ ~ProvTrigerON => ProvUris = {}
    /\ file_q # NoFile /\ repetition \in 1..(Repetitions - 1) =>
          query = file_q /\ (file_p # NoFile => ProvTrigerON)
    /\ query = NoFile => answer = <<>>
    /\ AnswersExact
    /\ FilterExact

\* The quads of the input stay as they are.
LEMMA QuadsStable ==
    ASSUME UNCHANGED triples, NEW f
    PROVE  Quads(f)' = Quads(f)
BY DEF Quads, Instances

LEMMA SessionInitInv == SessionInit => SessionInv
<1> SUFFICES ASSUME SessionInit PROVE SessionInv
  OBVIOUS
<1>1. IInv
  BY InitIInv DEF SessionInit
<1>2. AnswersExact /\ FilterExact
  BY DEF SessionInit, AnswersExact, FilterExact
<1>3. query_id \in 0..QNum /\ repetition \in 0..Repetitions
      /\ ~(repetition \in 1..(Repetitions - 1))
  BY SessionAssumption DEF SessionInit
<1> QED BY <1>1, <1>2, <1>3 DEF SessionInit, SessionInv

LEMMA LoadInv ==
    ASSUME SessionInv, Load
    PROVE  SessionInv'
<1>1. Next /\ UNCHANGED session
  BY DEF Load
<1>2. IInv'
  BY <1>1, NextIInv DEF SessionInv
<1>3. phase # "serving"
  BY <1>1 DEF Next, AddTemplate, StartMolecules, LoadTriple, Serve
<1>4. file_q = NoFile /\ query = NoFile /\ ProvTrigerON = FALSE
  BY <1>3 DEF SessionInv
<1> QED BY <1>1, <1>2, <1>4 DEF session, SessionInv, AnswersExact, FilterExact

LEMMA OpenQueryInv ==
    ASSUME SessionInv, NEW q \in FileQueries, OpenQuery(q)
    PROVE  SessionInv'
<1>1. /\ UNCHANGED vars /\ UNCHANGED <<file_p, ProvUris, ProvTrigerON, query, answer>>
      /\ UNCHANGED <<triples, phase>>
      /\ query_id < QNum /\ query_id' = query_id + 1
      /\ file_q' = q /\ repetition' = 0 /\ phase = "serving"
  BY DEF OpenQuery, BetweenFiles, vars
<1>2. IInv'
  BY <1>1, StutterIInv DEF SessionInv
<1>3. AnswersExact'
  BY <1>1, QuadsStable DEF SessionInv, AnswersExact, Filter
<1>4. FilterExact'
  BY <1>1, QuadsStable DEF SessionInv, FilterExact
<1>5. query_id' \in 0..QNum /\ repetition' \in 0..Repetitions
      /\ ~(repetition' \in 1..(Repetitions - 1))
  BY <1>1, SessionAssumption DEF SessionInv
<1> QED BY <1>1, <1>2, <1>3, <1>4, <1>5 DEF SessionInv

\* A second run of the provenance query adds nothing to the filter.
LEMMA FilterStep ==
    ASSUME SessionInv, TPDemo, file_p # NoFile
    PROVE  ProvUris' = UrisOf(StarAnswer(file_p, Quads(Key)))
<1> DEFINE U == UrisOf(StarAnswer(file_p, Quads(Key)))
<1>1. Loaded /\ WellPosed(file_p)
  BY SessionAssumption DEF SessionInv, TPDemo, TPDemoWith, Loaded
<1>2. ProvUris' = ProvUris \cup UrisOf(StarAnswer(file_p, Quads(Filter)))
  BY <1>1, RunExact DEF TPDemo, TPDemoWith
<1>3. CASE ~ProvTrigerON
  BY <1>2, <1>3 DEF SessionInv, Filter
<1>4. CASE ProvTrigerON
  <2>1. ProvUris = U /\ ProvUris \subseteq Key /\ Filter = ProvUris
    BY <1>4 DEF SessionInv, FilterExact, Filter
  <2>2. Quads(Filter) \subseteq Quads(Key)
    BY <2>1 DEF Quads
  <2> QED BY <1>2, <2>1, <2>2, UrisMonotone
<1> QED BY <1>3, <1>4

LEMMA TPDemoInv ==
    ASSUME SessionInv, TPDemo
    PROVE  SessionInv'
<1>1. /\ UNCHANGED vars /\ UNCHANGED <<file_p, file_q, query_id>>
      /\ UNCHANGED <<triples, phase>>
      /\ file_q # NoFile /\ repetition < Repetitions /\ phase = "serving"
      /\ query' = file_q /\ repetition' = repetition + 1
      /\ \/ file_p # NoFile /\ ProvTrigerON' = TRUE
         \/ file_p = NoFile /\ UNCHANGED <<ProvUris, ProvTrigerON>>
      /\ answer' = Run(file_q, Filter')
  BY DEF TPDemo, TPDemoWith, vars, Filter
<1>2. Loaded /\ WellPosed(file_q) /\ (file_p # NoFile => WellPosed(file_p))
  BY <1>1, SessionAssumption DEF SessionInv, Loaded, Queries
<1>3. IInv'
  BY <1>1, StutterIInv DEF SessionInv
<1>4. answer' = StarAnswer(file_q, Quads(Filter'))
  BY <1>1, <1>2, RunExact
<1>5. AnswersExact'
  BY <1>1, <1>4, QuadsStable DEF AnswersExact
<1>6. FilterExact'
  BY <1>1, FilterStep, QuadsStable DEF SessionInv, FilterExact
<1>7. ProvUris' \subseteq Key
  BY <1>1, <1>2, FilterStep, AnswerType DEF SessionInv
<1>8. repetition' \in 0..Repetitions
  BY <1>1, SessionAssumption DEF SessionInv
<1>9. ProvTrigerON' \in BOOLEAN /\ (ProvTrigerON' => file_p' # NoFile)
      /\ (file_p # NoFile => ProvTrigerON') /\ (~ProvTrigerON' => ProvUris' = {})
  <2>1. file_p' = file_p
    BY <1>1
  <2>2. CASE file_p # NoFile /\ ProvTrigerON' = TRUE
    BY <2>1, <2>2
  <2>3. CASE file_p = NoFile /\ ProvUris' = ProvUris /\ ProvTrigerON' = ProvTrigerON
    <3>1. ProvTrigerON \in BOOLEAN /\ (ProvTrigerON => file_p # NoFile)
          /\ (~ProvTrigerON => ProvUris = {})
      BY DEF SessionInv
    <3> QED BY <2>1, <2>3, <3>1
  <2> QED BY <1>1, <2>2, <2>3
<1>10. query' # NoFile /\ query' \in Queries /\ query' = file_q'
  BY <1>1 DEF SessionInv, Queries
<1> QED BY <1>1, <1>3, <1>5, <1>6, <1>7, <1>8, <1>9, <1>10 DEF SessionInv

LEMMA RunFixedInv ==
    ASSUME SessionInv, NEW q \in FixedQueries, RunFixed(q)
    PROVE  SessionInv'
<1>1. /\ UNCHANGED vars
      /\ UNCHANGED <<file_p, file_q, query_id, repetition, ProvUris, ProvTrigerON>>
      /\ UNCHANGED <<triples, phase>>
      /\ phase = "serving" /\ (file_q = NoFile \/ repetition = Repetitions)
      /\ query' = q /\ answer' = Run(q, Filter)
  BY DEF RunFixed, BetweenFiles, vars
<1>2. Loaded /\ WellPosed(q) /\ q # NoFile
  BY <1>1, SessionAssumption DEF SessionInv, Loaded, Queries
<1>3. IInv'
  BY <1>1, StutterIInv DEF SessionInv
<1>4. answer' = StarAnswer(q, Quads(Filter))
  BY <1>1, <1>2, RunExact
<1>5. AnswersExact'
  BY <1>1, <1>4, QuadsStable DEF AnswersExact, Filter
<1>6. FilterExact'
  BY <1>1, QuadsStable DEF SessionInv, FilterExact
<1>7. file_q # NoFile => ~(repetition \in 1..(Repetitions - 1))
  BY <1>1, SessionAssumption
<1> QED BY <1>1, <1>2, <1>3, <1>5, <1>6, <1>7 DEF SessionInv, Queries

LEMMA SessionStutterInv ==
    ASSUME SessionInv, UNCHANGED sessionVars
    PROVE  SessionInv'
<1>1. UNCHANGED vars /\ UNCHANGED session /\ UNCHANGED <<triples, phase>>
  BY DEF sessionVars, vars
<1>2. IInv'
  BY <1>1, StutterIInv DEF SessionInv
<1>3. AnswersExact' /\ FilterExact'
  BY <1>1, QuadsStable DEF SessionInv, AnswersExact, FilterExact, Filter, session
<1> QED BY <1>1, <1>2, <1>3 DEF SessionInv, session

LEMMA SessionInvariance == SessionSpec => []SessionInv
<1>1. SessionInv /\ [SessionNext]_sessionVars => SessionInv'
  BY LoadInv, OpenQueryInv, TPDemoInv, RunFixedInv, SessionStutterInv DEF SessionNext
<1> QED BY <1>1, SessionInitInv, PTL DEF SessionSpec

-----------------------------------------------------------------------------
(* The theorems *)

\* Whatever the data, the queries and the filter, TriplePatern returns what the
\* query means over the quads the filter shows, with the provenance of each part.
THEOREM QueriesAreExact == SessionSpec => []AnswersExact
BY SessionInvariance, PTL DEF SessionInv

\* One pattern looked up through the index and the templates, or read from one
\* molecule, gives exactly the quads that match it, for every store and filter.
THEOREM LookupsAreExact == SessionSpec => []LookupsExact
<1>1. SessionInv => LookupsExact
  BY SubjectsFound, ObjectsFound DEF SessionInv, Loaded, LookupsExact
<1> QED BY <1>1, SessionInvariance, PTL

\* However often TPDemo runs it again under its own filter, the provenance query
\* leaves the filter that it means over the whole store.
THEOREM FilterIsExact == SessionSpec => []FilterExact
BY SessionInvariance, PTL DEF SessionInv

\* A session keeps every variable in its type.
THEOREM SessionTypeCorrect == SessionSpec => []SessionTypeOK
<1>1. SessionInv => SessionTypeOK
  <2> SUFFICES ASSUME SessionInv PROVE SessionTypeOK
    OBVIOUS
  <2>1. DOMAIN answer \subseteq Key /\ \A m \in DOMAIN answer : answer[m] \in Row
    <3>1. CASE query = NoFile
      BY <3>1 DEF SessionInv
    <3>2. CASE query # NoFile
      BY <3>2, SessionAssumption, AnswerType DEF SessionInv, AnswersExact, Loaded
    <3> QED BY <3>1, <3>2
  <2> QED BY <2>1 DEF SessionInv, SessionTypeOK, IInv
<1> QED BY <1>1, SessionInvariance, PTL

\* Two runs of one query file in a row give the same answer.
THEOREM RepetitionsGiveOneAnswer == SessionSpec => RepetitionsAgree
<1>1. ASSUME SessionInv, SessionInv', [SessionNext]_sessionVars,
             repetition > 0, repetition' > repetition
      PROVE  answer' = answer
  <2>1. TPDemo
    BY <1>1 DEF SessionNext, Load, session, OpenQuery, RunFixed, sessionVars, SessionInv
  <2>2. /\ file_q # NoFile /\ repetition < Repetitions
        /\ query' = file_q /\ query = file_q
        /\ UNCHANGED triples
    BY <1>1, <2>1, SessionAssumption DEF TPDemo, TPDemoWith, vars, SessionInv
  <2>3. Filter' = Filter
    <3>1. CASE file_p = NoFile
      BY <2>1, <3>1 DEF TPDemo, TPDemoWith, Filter
    <3>2. CASE file_p # NoFile
      <4>1. ProvTrigerON /\ ProvTrigerON'
        BY <1>1, <2>1, <2>2, <3>2, SessionAssumption DEF TPDemo, TPDemoWith, SessionInv
      <4>2. ProvUris' = ProvUris
        BY <1>1, <2>1, <3>2, <4>1, FilterStep DEF SessionInv, FilterExact
      <4> QED BY <4>1, <4>2 DEF Filter
    <3> QED BY <3>1, <3>2
  <2> QED BY <1>1, <2>2, <2>3, QuadsStable DEF SessionInv, AnswersExact
<1> QED BY <1>1, SessionInvariance, PTL DEF SessionSpec, RepetitionsAgree

\* Both parts of a row's provenance are in ProvOf.
LEMMA ConcatCovers ==
    ASSUME NEW a \in Seq(SUBSET Key), NEW b \in Seq(SUBSET Key)
    PROVE  /\ \A i \in DOMAIN a : a[i] \subseteq UNION {(a \o b)[j] : j \in DOMAIN (a \o b)}
           /\ \A i \in DOMAIN b : b[i] \subseteq UNION {(a \o b)[j] : j \in DOMAIN (a \o b)}
<1>1. /\ DOMAIN (a \o b) = 1..(Len(a) + Len(b))
      /\ DOMAIN a = 1..Len(a) /\ DOMAIN b = 1..Len(b)
      /\ Len(a) \in Nat /\ Len(b) \in Nat
  OBVIOUS
<1>2. \A i \in DOMAIN a : i \in DOMAIN (a \o b) /\ (a \o b)[i] = a[i]
  BY <1>1
<1>3. \A i \in DOMAIN b : Len(a) + i \in DOMAIN (a \o b) /\ (a \o b)[Len(a) + i] = b[i]
  BY <1>1
<1> QED BY <1>2, <1>3

\* Under a filter that keeps all the provenance of a row, every pattern of the
\* query matches the same quads of its molecule.
LEMMA RowUnderItsProvenance ==
    ASSUME NEW q, q.constrains \in Seq(Pattern), q.projections \in Seq(Pattern),
           NEW quads, NEW fewer, fewer \subseteq quads,
           NEW m \in Star(q, quads),
           \A r \in quads : r \in Quad,
           \A r \in quads : r.prov \in ProvOf(StarAnswer(q, quads)[m]) => r \in fewer
    PROVE  /\ m \in DOMAIN StarAnswer(q, fewer)
           /\ StarAnswer(q, fewer)[m] = StarAnswer(q, quads)[m]
<1> DEFINE c == q.constrains
           p == q.projections
           pc(s) == [i \in DOMAIN c |-> {r.prov : r \in Matches(m, c[i], s)}]
           pp(s) == [i \in DOMAIN p |-> {r.prov : r \in Matches(m, Open(p[i]), s)}]
           res(s) == [i \in DOMAIN p |-> {r.object : r \in Matches(m, Open(p[i]), s)}]
<1>1. \A s : m \in Star(q, s) =>
          StarAnswer(q, s)[m] = [results |-> res(s), prov |-> pc(s) \o pp(s)]
  BY DEF StarAnswer
<1>2. pc(quads) \in Seq(SUBSET Key) /\ pp(quads) \in Seq(SUBSET Key)
  <2>1. /\ DOMAIN c = 1..Len(c) /\ Len(c) \in Nat
        /\ DOMAIN p = 1..Len(p) /\ Len(p) \in Nat
    OBVIOUS
  <2>2. \A x : {r.prov : r \in Matches(m, x, quads)} \in SUBSET Key
    BY DEF Matches, Quad
  <2>3. pc(quads) \in [1..Len(c) -> SUBSET Key] /\ pp(quads) \in [1..Len(p) -> SUBSET Key]
    BY <2>1, <2>2
  <2> HIDE DEF c, p, pc, pp
  <2> QED BY <2>1, <2>3, FunctionIsSeq
<1>3. /\ \A i \in DOMAIN pc(quads) : pc(quads)[i] \subseteq ProvOf(StarAnswer(q, quads)[m])
      /\ \A i \in DOMAIN pp(quads) : pp(quads)[i] \subseteq ProvOf(StarAnswer(q, quads)[m])
  <2> DEFINE a == pc(quads)
             b == pp(quads)
             both == a \o b
  <2>1. StarAnswer(q, quads)[m] = [results |-> res(quads), prov |-> both]
    BY <1>1
  <2> HIDE DEF pc, pp, res
  <2>2. a \in Seq(SUBSET Key) /\ b \in Seq(SUBSET Key)
    BY <1>2
  <2> HIDE DEF a, b
  <2>3. /\ \A i \in DOMAIN a : a[i] \subseteq UNION {both[j] : j \in DOMAIN both}
        /\ \A i \in DOMAIN b : b[i] \subseteq UNION {both[j] : j \in DOMAIN both}
    BY <2>2, ConcatCovers
  <2> HIDE DEF both
  <2>4. StarAnswer(q, quads)[m].prov = both
    BY <2>1
  <2> QED BY <2>3, <2>4 DEF ProvOf, a, b
<1>4. \A i \in DOMAIN c : Matches(m, c[i], fewer) = Matches(m, c[i], quads)
  BY <1>3 DEF Matches
<1>5. \A i \in DOMAIN p : Matches(m, Open(p[i]), fewer) = Matches(m, Open(p[i]), quads)
  BY <1>3 DEF Matches
<1>6. m \in Star(q, fewer)
  BY <1>4, <1>5 DEF Star
<1>7. pc(fewer) = pc(quads) /\ pp(fewer) = pp(quads) /\ res(fewer) = res(quads)
  BY <1>4, <1>5
<1>8. DOMAIN StarAnswer(q, fewer) = Star(q, fewer)
  BY DEF StarAnswer
<1> HIDE DEF pc, pp, res
<1> QED BY <1>1, <1>6, <1>7, <1>8

\* Every row carries enough provenance: a run of its query under a filter of the
\* provenance of the row alone returns the row again.
THEOREM ProvenanceIsSufficient == SessionSpec => []ProvenanceSuffices
<1>1. SessionInv => ProvenanceSuffices
  <2> SUFFICES ASSUME SessionInv, NEW m \in DOMAIN answer
               PROVE  LET again == Run(query, ProvOf(answer[m]) \cap Filter)
                      IN  m \in DOMAIN again /\ again[m] = answer[m]
    BY DEF ProvenanceSuffices
  <2> DEFINE narrow == ProvOf(answer[m]) \cap Filter
  <2>1. query # NoFile
    BY DEF SessionInv
  <2>2. Loaded /\ WellPosed(query)
    BY <2>1, SessionAssumption DEF SessionInv, Loaded
  <2>3. answer = StarAnswer(query, Quads(Filter)) /\ m \in Star(query, Quads(Filter))
    BY <2>1 DEF SessionInv, AnswersExact, StarAnswer
  <2>4. Run(query, narrow) = StarAnswer(query, Quads(narrow))
    BY <2>2, RunExact
  <2>5. /\ Quads(narrow) \subseteq Quads(Filter)
        /\ \A r \in Quads(Filter) : r.prov \in ProvOf(answer[m]) => r \in Quads(narrow)
    BY DEF Quads
  <2>6. \A r \in Quads(Filter) : r \in Quad
    BY <2>2, LoadedFacts DEF Quads
  <2>7. query.constrains \in Seq(Pattern) /\ query.projections \in Seq(Pattern)
    BY <2>2 DEF WellPosed, QueryFile
  <2> HIDE DEF narrow
  <2>8. /\ m \in DOMAIN StarAnswer(query, Quads(narrow))
        /\ StarAnswer(query, Quads(narrow))[m] = StarAnswer(query, Quads(Filter))[m]
    BY <2>3, <2>5, <2>6, <2>7, RowUnderItsProvenance
  <2> QED BY <2>3, <2>4, <2>8 DEF narrow
<1> QED BY <1>1, SessionInvariance, PTL
=============================================================================

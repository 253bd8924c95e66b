---------------------------- MODULE PlansProofs ----------------------------
(***************************************************************************)
(* The plans proved for every catalogue, store, file, filter and order of  *)
(* the unordered containers; which plans a theorem is about is said by a   *)
(* condition of PlanTexts on the plan's text alone.                        *)
(*                                                                         *)
(* From what the calls of API find in a loaded store, as quads, follows    *)
(* what every row of a call has met (Sound, After), and that every binding *)
(* that meets the call has a row (Has); then the same of the calls of a    *)
(* plan in sequence (RunSound, RunHas) and of the join that the SPARQL     *)
(* text stands for (SolutionHas, SolutionMeets).  The invariant PInv is    *)
(* that of the store with RowsRight: the rows of the last run are right by *)
(* the store, which no longer changes.                                     *)
(***************************************************************************)
EXTENDS PlanTexts, MoleculeStoreProofs, Recursion, SequenceTheorems

-----------------------------------------------------------------------------
(* What the calls of API find, as quads *)

\* The quads of m that f shows, with a predicate and an object.
Found(m, p, o, f) ==
    {q \in Quads(f) : q.subject = m /\ p \in {Any, q.predicate} /\ o \in {Any, q.object}}

\* What a quad shown is made of.
LEMMA QuadKeys ==
    ASSUME Loaded, NEW f, NEW q \in Quads(f)
    PROVE  /\ q.subject \in Key /\ q.predicate \in Key /\ q.object \in Key /\ q.prov \in Key
           /\ q.prov \in f /\ TypeOf[q.subject] >= 2 /\ q \in Instances(Len(triples))
  BY LoadedFacts DEF Quads

\* The entries shown under a predicate and the type of an object.
LEMMA EntriesFound ==
    ASSUME Loaded, NEW m \in Key, NEW p, NEW o \in Key \cup {NoKey, Any}, NEW f
    PROVE  {e \in Shown(m, GetTemplates(TypeOf[m], p, GetType(o)), f) : o = Any \/ e.obj = o}
               = {EntryOf(q) : q \in Found(m, p, o, f)}
<1> DEFINE shown == QuadsOf(m, p, GetType(o), f)
<1>1. Shown(m, GetTemplates(TypeOf[m], p, GetType(o)), f) = {EntryOf(q) : q \in shown}
  BY ShownExact
<1>2. \A q : EntryOf(q).obj = q.object
  BY DEF EntryOf
<1>3. \A q \in Quads(f) : q.object \in Key
  BY QuadKeys
<1>4. \A q \in Quads(f) : (o = Any \/ q.object = o) =>
          (GetType(o) = Any \/ TypeOf[q.object] = GetType(o))
  BY <1>3, AnyAssumption, KeyAssumption DEF GetType
<1>5. {q \in shown : o = Any \/ q.object = o} = Found(m, p, o, f)
  BY <1>4 DEF QuadsOf, Found
<1> HIDE DEF shown
<1> QED BY <1>1, <1>2, <1>5

\* The provenance found for a subject is that of its quads.
LEMMA SubjectProvIs ==
    ASSUME Loaded, NEW m \in Key, NEW p, NEW o \in Key \cup {NoKey, Any}, NEW f
    PROVE  SubjectProv(m, o, p, f) = {q.prov : q \in Found(m, p, o, f)}
<1>1. \A q : EntryOf(q).prov = q.prov
  BY DEF EntryOf
<1> QED BY <1>1, EntriesFound DEF SubjectProv, CheckIfEntityExists

\* So is that found for a constraint of TriplePatern.
LEMMA ConstrainProvIs ==
    ASSUME Loaded, NEW m \in Key, NEW c, c.object \in Key \cup {NoKey, Any}, NEW f
    PROVE  ConstrainProv(m, c, f) = {q.prov : q \in Found(m, c.predicate, c.object, f)}
<1>1. \A q : EntryOf(q).prov = q.prov
  BY DEF EntryOf
<1> QED BY <1>1, EntriesFound DEF ConstrainProv, CheckIfEntityExists

\* A projection gives the objects of the quads, and their provenance.
LEMMA ProjectionIs ==
    ASSUME Loaded, NEW m \in Key, NEW c, NEW f
    PROVE  /\ Projection(m, c, f).result = {q.object : q \in Found(m, c.predicate, Any, f)}
           /\ Projection(m, c, f).prov = {q.prov : q \in Found(m, c.predicate, Any, f)}
<1>1. \A q : EntryOf(q).prov = q.prov /\ EntryOf(q).obj = q.object
  BY DEF EntryOf
<1>2. Shown(m, GetTemplates(TypeOf[m], c.predicate, Any), f)
          = {EntryOf(q) : q \in Found(m, c.predicate, Any, f)}
  BY EntriesFound DEF GetType
<1> QED BY <1>1, <1>2 DEF Projection, GetEntity

\* GetObjects, also of a subject without a molecule.
LEMMA ObjectsAre ==
    ASSUME Loaded, NEW s \in Key \cup {NoKey, Any}, NEW p, NEW f
    PROVE  /\ GetObjects(s, p, f).result = {q.object : q \in Found(s, p, Any, f)}
           /\ GetObjects(s, p, f).prov = {q.prov : q \in Found(s, p, Any, f)}
<1>1. CASE GetPair(s) = {}
  <2>1. \A q \in Quads(f) : q.subject # s
    BY <1>1, SubjectHasMolecule
  <2>2. Found(s, p, Any, f) = {}
    BY <2>1 DEF Found
  <2> QED BY <1>1, <2>2 DEF GetObjects
<1>2. CASE GetPair(s) # {}
  <2>1. s \in Key
    BY <1>2 DEF GetPair
  <2>2. GetObjects(s, p, f) = Projection(s, [predicate |-> p], f)
    BY <1>2 DEF GetObjects, Projection
  <2> QED BY <2>1, <2>2, ProjectionIs
<1> QED BY <1>1, <1>2

\* GetSubjects: all subjects with such a quad, unless any object will do.
LEMMA SubjectsAre ==
    ASSUME Loaded, NEW o \in Key \cup {NoKey, Any}, NEW p, NEW f
    PROVE  /\ GetSubjects(o, p, f) \subseteq Key
           /\ \A m \in GetSubjects(o, p, f) : Found(m, p, o, f) # {}
           /\ o # Any => \A m : Found(m, p, o, f) # {} => m \in GetSubjects(o, p, f)
<1>1. GetMoleculesFromInvertedIdx(o) \subseteq Key
  BY DEF GetMoleculesFromInvertedIdx, Loaded, IInv, TypeOK
<1>2. \A m \in Key : SubjectProv(m, o, p, f) = {q.prov : q \in Found(m, p, o, f)}
  BY SubjectProvIs
<1>3. ASSUME o # Any, NEW m, Found(m, p, o, f) # {} PROVE m \in GetSubjects(o, p, f)
  <2>1. PICK q \in Quads(f) : q \in Found(m, p, o, f) /\ q.subject = m /\ q.object = o
    BY <1>3 DEF Found
  <2>2. m \in GetMoleculesFromInvertedIdx(o)
    BY <2>1, SubjectHasMolecule
  <2> QED BY <1>1, <1>2, <2>1, <2>2 DEF GetSubjects
<1> QED BY <1>1, <1>2, <1>3 DEF GetSubjects

-----------------------------------------------------------------------------
(* Rows *)

IsRow(r, V, f) ==
    /\ r = [at |-> r.at, prov |-> r.prov]
    /\ r.at \in [DOMAIN r.at -> V]
    /\ DOMAIN r.at \subseteq Variable
    /\ r.prov \subseteq f

\* r2 binds the variables of r as r does, and those of vs.
Grew(r, r2, vs) ==
    /\ DOMAIN r2.at = DOMAIN r.at \cup vs
    /\ \A x \in DOMAIN r.at : r2.at[x] = r.at[x]
    /\ r.prov \subseteq r2.prov

\* r2 is r with v bound to one of keys.
Extended(V, f, r, v, keys, prov, r2) ==
    /\ IsRow(r, V, f) /\ v \in Variable /\ keys \subseteq V /\ prov \subseteq f
    /\ r2 \in Extend(r, v, keys, prov)

Extension(V, f, r, v, keys, prov, r2) ==
    /\ IsRow(r2, V, f) /\ Grew(r, r2, {v}) /\ r2.at[v] \in keys
    /\ r2.prov = r.prov \cup prov

\* What a row becomes when a variable is bound.
LEMMA ExtendRows ==
    ASSUME NEW V, NEW f, NEW r, NEW v, NEW keys, NEW prov, NEW r2,
           Extended(V, f, r, v, keys, prov, r2)
    PROVE  Extension(V, f, r, v, keys, prov, r2)
<1>1. PICK k \in keys : /\ v \in DOMAIN r.at => k = r.at[v]
                        /\ r2 = [at |-> [x \in DOMAIN r.at \cup {v} |-> IF x = v THEN k ELSE r.at[x]],
                                 prov |-> r.prov \cup prov]
  BY DEF Extend, Extended
<1>2. r2.at = [x \in DOMAIN r.at \cup {v} |-> IF x = v THEN k ELSE r.at[x]]
  BY <1>1
<1>3. r2.at \in [DOMAIN r.at \cup {v} -> V]
  BY <1>2 DEF IsRow, Extended
<1> QED BY <1>1, <1>2, <1>3 DEF IsRow, Grew, Extended, Extension

\* The bindings of b for the variables of D.
On(b, D) == [x \in D |-> b[x]]

\* S has a row that binds the variables of D, as b does.
HasRow(S, V, f, b, D) == \E x \in S : IsRow(x, V, f) /\ x.at = On(b, D)

Extensible(V, f, r, v, keys, prov, b, D) ==
    /\ IsRow(r, V, f) /\ v \in Variable /\ keys \subseteq V /\ prov \subseteq f
    /\ r.at = On(b, D) /\ b[v] \in keys

\* Bindings that a row follows are followed by one that binds v.
LEMMA ExtendHas ==
    ASSUME NEW V, NEW f, NEW r, NEW v, NEW keys, NEW prov, NEW b, NEW D,
           Extensible(V, f, r, v, keys, prov, b, D)
    PROVE  HasRow(Extend(r, v, keys, prov), V, f, b, D \cup {v})
<1> DEFINE r2 == [at |-> [x \in DOMAIN r.at \cup {v} |-> IF x = v THEN b[v] ELSE r.at[x]],
                  prov |-> r.prov \cup prov]
<1>1. DOMAIN r.at = D /\ \A x \in D : r.at[x] = b[x]
  BY DEF On, Extensible
<1>2. r2 \in Extend(r, v, keys, prov)
  BY <1>1 DEF Extend, Extensible
<1>3. r2.at = On(b, D \cup {v})
  BY <1>1 DEF On
<1>4. IsRow(r2, V, f)
  <2>1. Extended(V, f, r, v, keys, prov, r2)
    BY <1>2 DEF Extended, Extensible
  <2>2. Extension(V, f, r, v, keys, prov, r2)
    BY <2>1, ExtendRows
  <2> QED BY <2>2 DEF Extension
<1> HIDE DEF r2
<1> QED BY <1>2, <1>3, <1>4 DEF HasRow

\* Growth adds up.
LEMMA GrewTwice ==
    ASSUME NEW r, NEW r1, NEW r2, NEW A, NEW B, Grew(r, r1, A), Grew(r1, r2, B)
    PROVE  Grew(r, r2, A \cup B)
  BY DEF Grew

-----------------------------------------------------------------------------
(* Terms *)

\* The key a term of a pattern stands for under bindings b may be k.
Fits(b, x, k) == IF x \in Variable THEN b[x] = k ELSE x \in {k, Anything}

Meets(b, pattern, f) ==
    \E q \in Quads(f) : /\ Fits(b, pattern[1], q.subject)
                        /\ Fits(b, pattern[2], q.predicate)
                        /\ Fits(b, pattern[3], q.object)

\* A pattern's "[]" is a term of its own.
LEMMA AnythingIsNoVariable == Anything \notin Variable
  BY DEF Anything, Variable

Bindable == Key \cup {NoKey}

\* The value of a term is what the term can stand for.
LEMMA ValueIs ==
    ASSUME NEW V, V \subseteq Bindable, NEW f, NEW r, IsRow(r, V, f), NEW x,
           x \in Variable => x \in DOMAIN r.at
    PROVE  /\ Value(r, x) \in Key \cup {NoKey, Any}
           /\ Value(r, x) = Any <=> x = Anything
           /\ \A k \in Key : Value(r, x) \in {Any, k} <=> Fits(r.at, x, k)
<1>1. CASE x = Anything
  BY <1>1, AnythingIsNoVariable DEF Value, Fits
<1>2. CASE x # Anything /\ x \in Variable
  <2>1. Value(r, x) = r.at[x] /\ r.at[x] \in Key \cup {NoKey}
    BY <1>2 DEF Value, IsRow, Bindable
  <2> QED BY <1>2, <2>1, AnyAssumption DEF Fits
<1>3. CASE x # Anything /\ x \notin Variable
  <2>1. Value(r, x) = IF x \in Key THEN x ELSE NoKey
    BY <1>3 DEF Value, IsRow, Get
  <2> QED BY <1>3, <2>1, AnyAssumption, KeyAssumption DEF Fits
<1> QED BY <1>1, <1>2, <1>3

\* A term whose variable is bound stays what it is when more is bound.
LEMMA FitsGrown ==
    ASSUME NEW r, NEW r2, NEW vs, Grew(r, r2, vs), NEW x, x \in Variable => x \in DOMAIN r.at, NEW k
    PROVE  Fits(r2.at, x, k) <=> Fits(r.at, x, k)
  BY DEF Grew, Fits

-----------------------------------------------------------------------------
(* Each call gives rows that meet its patterns *)

\* The keys a plan can come across in the data.
Known == {q.subject : q \in Instances(Len(triples))} \cup {q.object : q \in Instances(Len(triples))}

\* The call prints the provenance of all it reads.
Shows(c) == c.call # "GetSubjects, prov[0]" /\ (c.call = "GetObjects" => c.shown)

\* What is read for a row, and the provenance it has of that.
Read(r2, c, f) ==
    \A q \in Reads(c) : /\ Meets(r2.at, q, f)
                        /\ Shows(c) => Meets(r2.at, q, f \cap r2.prov)

\* The value of a term is a key, or none, or any.
LEMMA ValueType ==
    ASSUME NEW V, V \subseteq Bindable, NEW f, NEW r, IsRow(r, V, f), NEW x
    PROVE  Value(r, x) \in Key \cup {NoKey, Any}
  BY DEF Value, IsRow, Bindable, Get

\* A quad found is in the data, with the terms asked for.
LEMMA FoundKnown ==
    ASSUME Loaded, NEW m, NEW p, NEW o, NEW f, NEW q \in Found(m, p, o, f)
    PROVE  /\ m \in Known /\ q.object \in Known /\ m \in Key
           /\ q.subject = m /\ p \in {Any, q.predicate} /\ o \in {Any, q.object}
           /\ q \in Quads(f) /\ q.prov \in f
<1>1. q \in Quads(f) /\ q.subject = m /\ p \in {Any, q.predicate} /\ o \in {Any, q.object}
  BY DEF Found
<1> QED BY <1>1, QuadKeys DEF Known

\* A quad found for m under the terms of a row meets their pattern.
LEMMA FoundMeets ==
    ASSUME Loaded, NEW V, V \subseteq Bindable, NEW f, NEW r, IsRow(r, V, f),
           NEW p, p \in Variable => p \in DOMAIN r.at,
           NEW o, o \in Variable => o \in DOMAIN r.at,
           NEW r2, NEW vs, Grew(r, r2, vs), NEW v \in Variable,
           NEW g, NEW q \in Found(r2.at[v], Value(r, p), Value(r, o), f), q.prov \in g
    PROVE  Meets(r2.at, <<v, p, o>>, g)
<1>1. /\ q \in Quads(f) /\ q.subject = r2.at[v]
      /\ Value(r, p) \in {Any, q.predicate} /\ Value(r, o) \in {Any, q.object}
  BY DEF Found
<1>2. q.predicate \in Key /\ q.object \in Key /\ q \in Quads(g)
  BY <1>1, QuadKeys DEF Quads
<1>3. Fits(r.at, p, q.predicate)
  BY <1>1, <1>2, ValueIs
<1>4. Fits(r.at, o, q.object)
  BY <1>1, <1>2, ValueIs
<1>5. Fits(r2.at, p, q.predicate) /\ Fits(r2.at, o, q.object)
  BY <1>3, <1>4, FitsGrown
<1>6. Fits(r2.at, v, q.subject)
  BY <1>1 DEF Fits
<1> QED BY <1>2, <1>5, <1>6 DEF Meets

\* The same of a quad found for the objects of a term.
LEMMA FoundObjectMeets ==
    ASSUME Loaded, NEW V, V \subseteq Bindable, NEW f, NEW r, IsRow(r, V, f),
           NEW s, s \in Variable => s \in DOMAIN r.at,
           NEW p, p \in Variable => p \in DOMAIN r.at,
           NEW r2, NEW vs, Grew(r, r2, vs), NEW v \in Variable,
           NEW g, NEW q \in Found(Value(r, s), Value(r, p), Any, f), q.object = r2.at[v], q.prov \in g
    PROVE  Meets(r2.at, <<s, p, v>>, g)
<1>1. /\ q \in Quads(f) /\ q.subject = Value(r, s) /\ Value(r, p) \in {Any, q.predicate}
  BY DEF Found
<1>2. q.predicate \in Key /\ q.subject \in Key /\ q \in Quads(g)
  BY <1>1, QuadKeys DEF Quads
<1>3. Fits(r.at, p, q.predicate)
  BY <1>1, <1>2, ValueIs
<1>4. Fits(r.at, s, q.subject)
  BY <1>1, <1>2, ValueIs
<1>5. Fits(r2.at, p, q.predicate) /\ Fits(r2.at, s, q.subject)
  BY <1>3, <1>4, FitsGrown
<1>6. Fits(r2.at, v, q.object)
  BY DEF Fits
<1> QED BY <1>2, <1>5, <1>6 DEF Meets

\* A row after GetSubjects met its pattern.
LEMMA SubjectsSound ==
    ASSUME Loaded, NEW V, V \subseteq Bindable, Known \subseteq V, NEW f,
           NEW r, IsRow(r, V, f), NEW c \in SubjectCall, NEW lead, NEW r2 \in SubjectsOf(r, c, f, lead)
    PROVE  /\ IsRow(r2, V, f) /\ Grew(r, r2, Binds(c))
           /\ Needs(c) \subseteq DOMAIN r.at => Read(r2, c, f)
<1> DEFINE o == Value(r, c.o)
           p == Value(r, c.p)
           found == GetSubjects(o, p, f)
           prov(m) == SubjectProv(m, o, p, f)
           Bound1(m, ps) == m \in found /\ ps \subseteq prov(m) /\ ps # {}
<1>1. o \in Key \cup {NoKey, Any} /\ c.v \in Variable /\ c.call \in SubjectCalls
  BY ValueType DEF SubjectCall
<1>2. \A m \in found : m \in Key /\ m \in V /\ Found(m, p, o, f) # {}
  BY <1>1, SubjectsAre, FoundKnown
<1>3. ASSUME NEW m \in found
      PROVE  prov(m) = {q.prov : q \in Found(m, p, o, f)} /\ prov(m) # {} /\ prov(m) \subseteq f
  <2>1. m \in Key /\ Found(m, p, o, f) # {}
    BY <1>2
  <2>2. prov(m) = {q.prov : q \in Found(m, p, o, f)}
    BY <1>1, <2>1, SubjectProvIs
  <2>3. \A q \in Found(m, p, o, f) : q.prov \in f
    BY FoundKnown
  <2> QED BY <2>1, <2>2, <2>3
<1>4. CASE c.call = "not in GetSubjects"
  <2>1. r2 = r
    BY <1>4 DEF SubjectsOf
  <2>2. Binds(c) = {} /\ Reads(c) = {}
    BY <1>4 DEF Binds, Reads
  <2> QED BY <2>1, <2>2 DEF Grew, Read
<1>5. CASE c.call # "not in GetSubjects"
  <2>1. Binds(c) = {c.v} /\ Reads(c) = {<<c.v, c.p, c.o>>} /\ Needs(c) = Variable \cap {c.p, c.o}
    <3>1. /\ c.call \notin {"type", "not in GetSubjects", "GetObjects", "list", "TriplePatern"}
          /\ c.call # "type" /\ c.call # "GetObjects" /\ c.call # "list" /\ c.call # "TriplePatern"
      BY <1>1, <1>5 DEF SubjectCalls
    <3>2. Binds(c) = {c.v}
      BY <3>1 DEF Binds
    <3>3. Reads(c) = {<<c.v, c.p, c.o>>}
      BY <3>1 DEF Reads
    <3>4. Needs(c) = Variable \cap {c.p, c.o}
      BY <3>1, <1>5 DEF Needs
    <3> QED BY <3>2, <3>3, <3>4
  <2>2. \E keys \in SUBSET found, ps \in SUBSET f :
           /\ r2 \in Extend(r, c.v, keys, ps)
           /\ c.call # "GetSubjects, prov[0]" => \A m \in keys : ps \cap prov(m) # {}
    <3>1. CASE c.call = "GetSubjects"
      <4>1. r2 \in Extend(r, c.v, found, UNION {prov(m) : m \in found})
        BY <3>1 DEF SubjectsOf
      <4>2. UNION {prov(m) : m \in found} \subseteq f
        BY <1>3
      <4>3. \A m \in found : (UNION {prov(n) : n \in found}) \cap prov(m) # {}
        BY <1>3
      <4> HIDE DEF found, prov
      <4> QED BY <4>1, <4>2, <4>3
    <3>2. CASE c.call = "GetSubjects, prov[0]"
      <4>0. r2 \in UNION {Extend(r, c.v, found, prov(m)) :
                              m \in First(found, lead)}
        BY <3>2 DEF SubjectsOf
      <4>1. PICK m \in First(found, lead) : r2 \in Extend(r, c.v, found, prov(m))
        <5> HIDE DEF found, prov
        <5> QED BY <4>0
      <4>2. m \in found
        BY <4>1 DEF First
      <4>3. prov(m) \subseteq f
        BY <4>2, <1>3
      <4> HIDE DEF found, prov
      <4> QED BY <4>1, <4>3, <3>2
    <3>3. CASE c.call = "GetSubjects, multimap"
      <4>0. r2 \in UNION {Extend(r, c.v, {m}, {Begin(prov(m), lead)}) : m \in found}
        BY <3>3 DEF SubjectsOf
      <4>1. PICK m \in found : r2 \in Extend(r, c.v, {m}, {Begin(prov(m), lead)})
        <5> HIDE DEF found, prov
        <5> QED BY <4>0
      <4>2. Begin(prov(m), lead) \in prov(m)
        BY <1>3 DEF Begin
      <4>3. {Begin(prov(m), lead)} \subseteq f /\ {m} \subseteq found
        BY <4>2, <1>3
      <4>4. \A n \in {m} : {Begin(prov(m), lead)} \cap prov(n) # {}
        BY <4>2
      <4> HIDE DEF found, prov
      <4>5. {m} \in SUBSET found /\ {Begin(prov(m), lead)} \in SUBSET f
        BY <4>3
      <4> QED BY <4>1, <4>4, <4>5
    <3> QED BY <1>5, <3>1, <3>2, <3>3 DEF SubjectCall, SubjectCalls
  <2>3. PICK keys \in SUBSET found, ps \in SUBSET f :
           /\ r2 \in Extend(r, c.v, keys, ps)
           /\ c.call # "GetSubjects, prov[0]" => \A m \in keys : ps \cap prov(m) # {}
    BY <2>2
  <2>4. keys \subseteq V
    BY <1>2
  <2>5. IsRow(r2, V, f) /\ Grew(r, r2, {c.v}) /\ r2.at[c.v] \in keys /\ r2.prov = r.prov \cup ps
    <3>1. Extended(V, f, r, c.v, keys, ps, r2)
      BY <1>1, <2>3, <2>4 DEF Extended
    <3>2. Extension(V, f, r, c.v, keys, ps, r2)
      BY <3>1, ExtendRows
    <3> QED BY <3>2 DEF Extension
  <2>6. ASSUME Needs(c) \subseteq DOMAIN r.at PROVE Read(r2, c, f)
    <3>1. /\ c.p \in Variable => c.p \in DOMAIN r.at
          /\ c.o \in Variable => c.o \in DOMAIN r.at
      BY <2>1, <2>6
    <3>2. PICK q \in Found(r2.at[c.v], p, o, f) : TRUE
      BY <1>2, <2>5
    <3>3. q.prov \in f
      BY <3>2, FoundKnown
    <3>4. Meets(r2.at, <<c.v, c.p, c.o>>, f)
      BY <1>1, <2>5, <3>1, <3>2, <3>3, FoundMeets
    <3>5. ASSUME c.call # "GetSubjects, prov[0]" PROVE Meets(r2.at, <<c.v, c.p, c.o>>, f \cap r2.prov)
      <4>0. ps \cap prov(r2.at[c.v]) # {} /\ r2.at[c.v] \in found
        BY <2>3, <2>5, <3>5
      <4>01. prov(r2.at[c.v]) = {q1.prov : q1 \in Found(r2.at[c.v], p, o, f)}
        BY <1>3, <4>0
      <4>1. PICK q1 \in Found(r2.at[c.v], p, o, f) : q1.prov \in ps
        <5> HIDE DEF found, prov
        <5> QED BY <4>0, <4>01
      <4>2. q1.prov \in f \cap r2.prov
        BY <4>1, <2>5
      <4> QED BY <1>1, <2>5, <3>1, <4>1, <4>2, FoundMeets
    <3> QED BY <2>1, <3>4, <3>5 DEF Read, Shows
  <2> QED BY <2>1, <2>5, <2>6
<1> QED BY <1>4, <1>5

\* A row after GetObjects met its pattern.
LEMMA ObjectsSound ==
    ASSUME Loaded, NEW V, V \subseteq Bindable, Known \subseteq V, NEW f,
           NEW r, IsRow(r, V, f), NEW c \in ObjectCall, NEW r2 \in ObjectsOf(r, c, f)
    PROVE  /\ IsRow(r2, V, f) /\ Grew(r, r2, Binds(c))
           /\ Needs(c) \subseteq DOMAIN r.at => Read(r2, c, f)
<1> DEFINE s == Value(r, c.s)
           p == Value(r, c.p)
           got == GetObjects(s, p, f)
           ps == IF c.shown THEN got.prov ELSE {}
<1>1. s \in Key \cup {NoKey, Any} /\ c.v \in Variable /\ c.call = "GetObjects"
  BY ValueType DEF ObjectCall
<1>2. /\ got.result = {q.object : q \in Found(s, p, Any, f)}
      /\ got.prov = {q.prov : q \in Found(s, p, Any, f)}
  BY <1>1, ObjectsAre
<1>3. got.result \subseteq V /\ ps \subseteq f
  BY <1>2, FoundKnown
<1>4. r2 \in Extend(r, c.v, got.result, ps)
  BY DEF ObjectsOf
<1>5. IsRow(r2, V, f) /\ Grew(r, r2, {c.v}) /\ r2.at[c.v] \in got.result /\ r2.prov = r.prov \cup ps
  <2>1. Extended(V, f, r, c.v, got.result, ps, r2)
    BY <1>1, <1>3, <1>4 DEF Extended
  <2> HIDE DEF got, ps
  <2>2. Extension(V, f, r, c.v, got.result, ps, r2)
    BY <2>1, ExtendRows
  <2> QED BY <2>2 DEF Extension
<1>6. Binds(c) = {c.v} /\ Reads(c) = {<<c.s, c.p, c.v>>} /\ Needs(c) = Variable \cap {c.s, c.p}
  BY <1>1 DEF Binds, Reads, Needs
<1>7. ASSUME Needs(c) \subseteq DOMAIN r.at PROVE Read(r2, c, f)
  <2>1. /\ c.s \in Variable => c.s \in DOMAIN r.at
        /\ c.p \in Variable => c.p \in DOMAIN r.at
    BY <1>6, <1>7
  <2>2. PICK q \in Found(s, p, Any, f) : q.object = r2.at[c.v]
    BY <1>2, <1>5
  <2>3. q.prov \in f /\ (c.shown => q.prov \in f \cap r2.prov)
    BY <1>2, <1>5, <2>2, FoundKnown
  <2>4. Meets(r2.at, <<c.s, c.p, c.v>>, f)
    BY <1>1, <1>5, <2>1, <2>2, <2>3, FoundObjectMeets
  <2>5. c.shown => Meets(r2.at, <<c.s, c.p, c.v>>, f \cap r2.prov)
    BY <1>1, <1>5, <2>1, <2>2, <2>3, FoundObjectMeets
  <2> QED BY <1>1, <1>6, <2>4, <2>5 DEF Read, Shows
<1> QED BY <1>5, <1>6, <1>7

-----------------------------------------------------------------------------
(* Combine *)

CombinedBy(row, projections, results, g) ==
    /\ g[0] = {row}
    /\ \A i \in 1..Len(projections) :
          g[i] = UNION {Extend(r, projections[i][2], results[i], {}) : r \in g[i - 1]}

\* What Combine binds, projection by projection.
LEMMA CombineIs ==
    ASSUME NEW row, NEW projections, Len(projections) \in Nat, NEW results
    PROVE  \E g : /\ CombinedBy(row, projections, results, g)
                  /\ Combine(row, projections, results) = g[Len(projections)]
<1> DEFINE Step(S, i) == UNION {Extend(r, projections[i][2], results[i], {}) : r \in S}
           Body(g, i) == IF i = 0 THEN {row} ELSE Step(g[i - 1], i)
           Solves(g, n) == g = [i \in 0..n |-> Body(g, i)]
           Good == {n \in Nat : \E g : Solves(g, n)}
<1> HIDE DEF Step
<1>1. 0 \in Good
  <2>1. Solves([i \in 0..0 |-> {row}], 0)
    OBVIOUS
  <2> QED BY <2>1
<1>2. ASSUME NEW n \in Nat, n \in Good PROVE n + 1 \in Good
  <2>1. PICK g : Solves(g, n)
    BY <1>2
  <2> DEFINE h == [i \in 0..(n + 1) |-> IF i = n + 1 THEN Step(g[n], n + 1) ELSE g[i]]
  <2>2. \A i \in 0..n : g[i] = Body(g, i)
    <3> HIDE DEF Body
    <3> QED BY <2>1
  <2>3. ASSUME NEW i \in 0..(n + 1) PROVE h[i] = Body(h, i)
    <3>1. CASE i = n + 1
      BY <3>1
    <3>2. CASE i # n + 1
      <4>1. i \in 0..n /\ (i # 0 => i - 1 \in 0..n /\ i - 1 # n + 1)
        BY <3>2
      <4>2. h[i] = g[i] /\ (i # 0 => h[i - 1] = g[i - 1])
        BY <4>1
      <4> HIDE DEF h
      <4> QED BY <4>1, <4>2, <2>2
    <3> QED BY <3>1, <3>2
  <2>4. Solves(h, n + 1)
    <3>1. h = [i \in 0..(n + 1) |-> h[i]]
      OBVIOUS
    <3> HIDE DEF h, Body
    <3> QED BY <2>3, <3>1
  <2> HIDE DEF Solves, h
  <2> QED BY <2>4
<1>3. Len(projections) \in Good
  <2> HIDE DEF Good
  <2> QED BY <1>1, <1>2, SetInduction
<1> DEFINE w == CHOOSE g : Solves(g, Len(projections))
<1>4. Solves(w, Len(projections))
  <2> HIDE DEF Solves
  <2> QED BY <1>3
<1>5. Combine(row, projections, results) = w[Len(projections)]
  BY DEF Combine, Step
<1> HIDE DEF w
<1>6. \A i \in 0..Len(projections) : w[i] = Body(w, i)
  <2> HIDE DEF Body
  <2> QED BY <1>4
<1>7. CombinedBy(row, projections, results, w)
  <2>1. w[0] = {row}
    BY <1>6
  <2>2. \A i \in 1..Len(projections) : w[i] = Step(w[i - 1], i)
    BY <1>6
  <2> QED BY <2>1, <2>2 DEF CombinedBy, Step
<1> QED BY <1>5, <1>7

\* What Combine makes of a row: it binds the variables to results of theirs.
Combined(V, f, row, projections, results, n, r) ==
    /\ IsRow(r, V, f) /\ Grew(row, r, {projections[i][2] : i \in 1..n}) /\ r.prov = row.prov
    /\ \A i \in 1..n : r.at[projections[i][2]] \in results[i]

\* A combination binds every projection to one of its results.
LEMMA CombineSound ==
    ASSUME NEW V, NEW f, NEW row, IsRow(row, V, f), NEW projections \in Seq(STRING \X Variable),
           NEW results, \A i \in 1..Len(projections) : results[i] \subseteq V,
           NEW r \in Combine(row, projections, results)
    PROVE  Combined(V, f, row, projections, results, Len(projections), r)
<1>1. PICK g : /\ CombinedBy(row, projections, results, g)
               /\ Combine(row, projections, results) = g[Len(projections)]
  BY CombineIs
<1> DEFINE Good == {n \in Nat : n <= Len(projections) =>
                        \A x \in g[n] : Combined(V, f, row, projections, results, n, x)}
<1>2. 0 \in Good
  <2>1. Combined(V, f, row, projections, results, 0, row)
    BY DEF Combined, Grew
  <2> QED BY <2>1, <1>1 DEF CombinedBy
<1>3. ASSUME NEW n \in Nat, n \in Good PROVE n + 1 \in Good
  <2> SUFFICES ASSUME n + 1 <= Len(projections), NEW x \in g[n + 1]
               PROVE  Combined(V, f, row, projections, results, n + 1, x)
    OBVIOUS
  <2>1. /\ n + 1 \in 1..Len(projections) /\ (n + 1) - 1 = n /\ projections[n + 1][2] \in Variable
        /\ 1..(n + 1) = (1..n) \cup {n + 1}
    OBVIOUS
  <2>2. PICK y \in g[n] : x \in Extend(y, projections[n + 1][2], results[n + 1], {})
    BY <1>1, <2>1 DEF CombinedBy
  <2>3. Combined(V, f, row, projections, results, n, y)
    BY <1>3, <2>2
  <2>4. Extended(V, f, y, projections[n + 1][2], results[n + 1], {}, x)
    BY <2>1, <2>2, <2>3 DEF Extended, Combined
  <2>5. Extension(V, f, y, projections[n + 1][2], results[n + 1], {}, x)
    BY <2>4, ExtendRows
  <2> DEFINE v == projections[n + 1][2]
             A == {projections[i][2] : i \in 1..n}
  <2>6. A \cup {v} = {projections[i][2] : i \in 1..(n + 1)}
    BY <2>1
  <2>7. /\ IsRow(x, V, f) /\ Grew(y, x, {v}) /\ x.at[v] \in results[n + 1]
        /\ x.prov = row.prov /\ Grew(row, y, A)
        /\ \A i \in 1..n : y.at[projections[i][2]] \in results[i]
    BY <2>3, <2>5 DEF Extension, Combined
  <2>8. \A i \in 1..n : projections[i][2] \in DOMAIN y.at
    BY <2>7 DEF Grew
  <2>9. \A i \in 1..n : x.at[projections[i][2]] = y.at[projections[i][2]]
    BY <2>7, <2>8 DEF Grew
  <2>10. \A i \in 1..(n + 1) : x.at[projections[i][2]] \in results[i]
    BY <2>1, <2>7, <2>9
  <2>11. Grew(row, x, A \cup {v})
    BY <2>7, GrewTwice
  <2> QED BY <2>6, <2>7, <2>10, <2>11 DEF Combined
<1>4. Len(projections) \in Good /\ Len(projections) \in Nat
  <2>1. Len(projections) \in Nat
    OBVIOUS
  <2> HIDE DEF Good
  <2> QED BY <1>2, <1>3, <2>1, SetInduction
<1> QED BY <1>1, <1>4

\* And it makes a row for every combination.
Combinable(V, f, row, projections, results, b, D) ==
    /\ IsRow(row, V, f) /\ row.at = On(b, D) /\ projections \in Seq(STRING \X Variable)
    /\ \A i \in 1..Len(projections) : results[i] \subseteq V /\ b[projections[i][2]] \in results[i]

\* Every choice of results has a combination.
LEMMA CombineHas ==
    ASSUME NEW V, NEW f, NEW row, NEW projections, NEW results, NEW b, NEW D,
           Combinable(V, f, row, projections, results, b, D)
    PROVE  HasRow(Combine(row, projections, results), V, f, b,
                  D \cup {projections[i][2] : i \in 1..Len(projections)})
<1>0. /\ IsRow(row, V, f) /\ row.at = On(b, D) /\ projections \in Seq(STRING \X Variable)
      /\ Len(projections) \in Nat
      /\ \A i \in 1..Len(projections) :
            results[i] \subseteq V /\ b[projections[i][2]] \in results[i] /\ projections[i][2] \in Variable
  BY DEF Combinable
<1>1. PICK g : /\ CombinedBy(row, projections, results, g)
               /\ Combine(row, projections, results) = g[Len(projections)]
  BY <1>0, CombineIs
<1> DEFINE A(n) == {projections[i][2] : i \in 1..n}
           Has(n) == HasRow(g[n], V, f, b, D \cup A(n))
           Good == {n \in Nat : n <= Len(projections) => Has(n)}
<1>2. 0 \in Good
  <2>1. D \cup A(0) = D
    OBVIOUS
  <2>2. row \in g[0]
    BY <1>1 DEF CombinedBy
  <2> HIDE DEF A
  <2>3. Has(0)
    BY <1>0, <2>1, <2>2 DEF HasRow
  <2> HIDE DEF Has
  <2> QED BY <2>3
<1>3. ASSUME NEW n \in Nat, n \in Good PROVE n + 1 \in Good
  <2> SUFFICES ASSUME n + 1 <= Len(projections)
               PROVE  Has(n + 1)
    <3> HIDE DEF Has
    <3> QED OBVIOUS
  <2> DEFINE v == projections[n + 1][2]
  <2>1. /\ n + 1 \in 1..Len(projections) /\ (n + 1) - 1 = n /\ v \in Variable
        /\ 1..(n + 1) = (1..n) \cup {n + 1} /\ n <= Len(projections)
    BY <1>0
  <2>2. Has(n)
    <3> HIDE DEF Has
    <3> QED BY <1>3, <2>1
  <2>3. PICK y \in g[n] : IsRow(y, V, f) /\ y.at = On(b, D \cup A(n))
    <3> HIDE DEF A
    <3> QED BY <2>2 DEF HasRow
  <2>4. (D \cup A(n)) \cup {v} = D \cup A(n + 1)
    BY <2>1
  <2> HIDE DEF A
  <2>5. Extensible(V, f, y, v, results[n + 1], {}, b, D \cup A(n))
    BY <1>0, <2>1, <2>3 DEF Extensible
  <2>6. HasRow(Extend(y, v, results[n + 1], {}), V, f, b, (D \cup A(n)) \cup {v})
    <3> HIDE DEF v
    <3> QED BY <2>5, ExtendHas
  <2>7. Extend(y, v, results[n + 1], {}) \subseteq g[n + 1]
    BY <1>1, <2>1, <2>3 DEF CombinedBy
  <2> HIDE DEF v
  <2> QED BY <2>4, <2>6, <2>7 DEF HasRow
<1>4. Len(projections) \in Good /\ Len(projections) \in Nat
  <2>1. Len(projections) \in Nat
    BY <1>0
  <2> HIDE DEF Good
  <2> QED BY <1>2, <1>3, <2>1, SetInduction
<1> QED BY <1>1, <1>4

-----------------------------------------------------------------------------
(* Sequences *)

\* A function of the first k naturals is a sequence.
LEMMA FunctionIsSeq ==
    ASSUME NEW S, NEW k \in Nat, NEW f \in [1..k -> S]
    PROVE  f \in Seq(S)
OBVIOUS

\* The list of a finite set has just its elements.
LEMMA ListOfSet ==
    ASSUME NEW S, IsFiniteSet(S)
    PROVE  /\ Seqs!SetToSeq(S) \in Seq(S)
           /\ \A x \in S : \E i \in DOMAIN Seqs!SetToSeq(S) : Seqs!SetToSeq(S)[i] = x
<1> DEFINE N == 1..Cardinality(S)
           Lists == [N -> S]
           Once(g) == Seqs!IsInjective(g)
           l == Seqs!SetToSeq(S)
<1>1. Cardinality(S) \in Nat /\ ExistsBijection(N, S)
  BY FS_CardinalityType
<1>2. PICK f \in Bijection(N, S) : TRUE
  BY <1>1 DEF ExistsBijection
<1>3. f \in Lists /\ \A i, j \in DOMAIN f : f[i] = f[j] => i = j
  BY <1>2 DEF Bijection, Injection, IsInjective
<1>4. l \in Lists /\ Once(l)
  <2>0. Seqs!Cardinality(S) = Cardinality(S)
    BY DEF Seqs!Cardinality, Cardinality
  <2>1. l = CHOOSE g \in Lists : Once(g)
    BY <2>0 DEF Seqs!SetToSeq
  <2>2. \E g \in Lists : Once(g)
    BY <1>3 DEF Seqs!IsInjective
  <2> HIDE DEF Lists, Once, l
  <2> QED BY <2>1, <2>2
<1> HIDE DEF l
<1>5. l \in Injection(N, S)
  BY <1>4 DEF Seqs!IsInjective, Injection, IsInjective
<1>6. Cardinality(N) = Cardinality(S)
  BY <1>1, FS_Interval
<1>7. l \in Surjection(N, S)
  BY <1>5, <1>6, FS_Injection
<1>8. l \in Seq(S) /\ DOMAIN l = N
  BY <1>1, <1>4
<1>9. \A x \in S : \E i \in DOMAIN l : l[i] = x
  BY <1>7, <1>8 DEF Surjection
<1> QED BY <1>8, <1>9 DEF l

\* e has the elements of three sequences, one after the other.
Joined(a, b, c, e) ==
    /\ \A i \in DOMAIN a : \E j \in DOMAIN e : e[j] = a[i]
    /\ \A i \in DOMAIN b : \E j \in DOMAIN e : e[j] = b[i]
    /\ \A j \in DOMAIN e : \/ \E i \in DOMAIN a : e[j] = a[i]
                           \/ \E i \in DOMAIN b : e[j] = b[i]
                           \/ \E i \in DOMAIN c : e[j] = c[i]
    /\ a # <<>> => e # <<>> /\ e[1] = a[1]
    /\ a = <<>> /\ b # <<>> => e # <<>> /\ e[1] = b[1]

\* The index of an element of three sequences in a row.
LEMMA InThree ==
    ASSUME NEW S, NEW a \in Seq(S), NEW b \in Seq(S), NEW c \in Seq(S)
    PROVE  /\ a \o b \o c \in Seq(S)
           /\ Joined(a, b, c, a \o b \o c)
<1> DEFINE d == a \o b
           e == d \o c
<1>1. /\ Len(a) \in Nat /\ Len(b) \in Nat /\ Len(c) \in Nat
      /\ DOMAIN a = 1..Len(a) /\ DOMAIN b = 1..Len(b) /\ DOMAIN c = 1..Len(c)
  OBVIOUS
<1>2. /\ d \in Seq(S) /\ Len(d) = Len(a) + Len(b) /\ DOMAIN d = 1..(Len(a) + Len(b))
      /\ \A i \in 1..(Len(a) + Len(b)) : d[i] = IF i <= Len(a) THEN a[i] ELSE b[i - Len(a)]
  BY ConcatProperties
<1> HIDE DEF d
<1>3. /\ e \in Seq(S) /\ Len(e) = Len(d) + Len(c) /\ DOMAIN e = 1..(Len(d) + Len(c))
      /\ \A i \in 1..(Len(d) + Len(c)) : e[i] = IF i <= Len(d) THEN d[i] ELSE c[i - Len(d)]
  <2>1. d \in Seq(S)
    BY <1>2
  <2>2. Len(e) \in Nat /\ DOMAIN e = 1..Len(e) /\ e \in Seq(S)
    BY <2>1, ConcatProperties
  <2> QED BY <2>1, <2>2, ConcatProperties
<1> HIDE DEF e
<1>4. \A i \in DOMAIN a : i \in DOMAIN e /\ e[i] = a[i]
  BY <1>1, <1>2, <1>3
<1>5. \A i \in DOMAIN b : i + Len(a) \in DOMAIN e /\ e[i + Len(a)] = b[i]
  BY <1>1, <1>2, <1>3
<1>6. ASSUME NEW j \in DOMAIN e
      PROVE  \/ \E i \in DOMAIN a : e[j] = a[i]
             \/ \E i \in DOMAIN b : e[j] = b[i]
             \/ \E i \in DOMAIN c : e[j] = c[i]
  <2>1. CASE j <= Len(a)
    BY <2>1, <1>1, <1>2, <1>3
  <2>2. CASE j > Len(a) /\ j <= Len(d)
    <3>1. j - Len(a) \in DOMAIN b /\ e[j] = b[j - Len(a)]
      BY <2>2, <1>1, <1>2, <1>3
    <3> QED BY <3>1
  <2>3. CASE j > Len(d)
    <3>1. j - Len(d) \in DOMAIN c /\ e[j] = c[j - Len(d)]
      BY <2>3, <1>1, <1>2, <1>3
    <3> QED BY <3>1
  <2> QED BY <2>1, <2>2, <2>3, <1>1, <1>2, <1>3
<1>7. a # <<>> => e # <<>> /\ e[1] = a[1]
  <2>1. a # <<>> => 1 \in DOMAIN a
    BY <1>1
  <2> QED BY <2>1, <1>4
<1>8. a = <<>> /\ b # <<>> => e # <<>> /\ e[1] = b[1]
  <2>1. b # <<>> => 1 \in DOMAIN b
    BY <1>1
  <2>2. a = <<>> => Len(a) = 0
    OBVIOUS
  <2> QED BY <2>1, <2>2, <1>1, <1>5
<1>9. /\ \A i \in DOMAIN a : \E j \in DOMAIN e : e[j] = a[i]
      /\ \A i \in DOMAIN b : \E j \in DOMAIN e : e[j] = b[i]
  BY <1>4, <1>5
<1>10. \A j \in DOMAIN e : \/ \E i \in DOMAIN a : e[j] = a[i]
                           \/ \E i \in DOMAIN b : e[j] = b[i]
                           \/ \E i \in DOMAIN c : e[j] = c[i]
  BY <1>6
<1>11. Joined(a, b, c, e)
  BY <1>7, <1>8, <1>9, <1>10 DEF Joined
<1> QED BY <1>3, <1>11 DEF e, d

-----------------------------------------------------------------------------
(* TriplePatern *)

\* Molecules that are looked at for a constraint have quads.
LEMMA CandidatesKnown ==
    ASSUME Loaded, NEW c, NEW p, NEW m \in Candidates(c, p)
    PROVE  m \in Key /\ m \in Known
<1>1. ASSUME NEW s, m \in GetPair(s) PROVE m \in Key /\ m \in Known
  <2>1. m \in Key /\ molecules[m] # {}
    BY <1>1 DEF GetPair
  <2>2. molecules[m] = {EntryOf(q) : q \in {x \in Instances(Len(triples)) : x.subject = m}}
    BY <2>1, LoadedFacts
  <2>3. PICK q \in Instances(Len(triples)) : q.subject = m
    BY <2>1, <2>2
  <2> QED BY <2>1, <2>3 DEF Known
<1>2. ASSUME NEW o, m \in GetMoleculesFromInvertedIdx(o) PROVE m \in Key /\ m \in Known
  <2>1. o \in Key /\ m \in inv_molecules[o]
    BY <1>2 DEF GetMoleculesFromInvertedIdx
  <2>2. inv_molecules[o] = {q.subject : q \in {x \in Instances(Len(triples)) : x.object = o}}
    BY <2>1, LoadedFacts
  <2>3. PICK q \in Instances(Len(triples)) : q.subject = m
    BY <2>1, <2>2
  <2> QED BY <2>3, LoadedFacts DEF Known
<1> QED BY <1>1, <1>2 DEF Candidates

\* The quads found for a constraint of m, and for a projection.
FoundFor(m, c, f) == Found(m, c.predicate, c.object, f)
FoundOf(m, p, f) == Found(m, p.predicate, Any, f)

\* What TriplePatern answers for m.
Answered(m, constrains, projections, f, a) ==
    /\ \A i \in DOMAIN constrains : constrains[i].prov = 0 => FoundFor(m, constrains[i], f) # {}
    /\ \A i \in DOMAIN projections : a.results[i] = {q.object : q \in FoundOf(m, projections[i], f)}
    /\ LET provs == UNION {a.prov[i] : i \in DOMAIN a.prov}
       IN  /\ provs \subseteq f
           /\ \A i \in DOMAIN constrains : \A q \in FoundFor(m, constrains[i], f) : q.prov \in provs
           /\ \A i \in DOMAIN projections : \A q \in FoundOf(m, projections[i], f) : q.prov \in provs

\* A molecule in the answer meets all constraints that are required.
LEMMA TriplePaternSound ==
    ASSUME Loaded, NEW constrains \in Seq(Pattern), NEW projections \in Seq(Pattern), NEW f,
           NEW m \in DOMAIN TriplePatern(constrains, projections, f)
    PROVE  /\ m \in Key /\ m \in Known
           /\ Answered(m, constrains, projections, f, TriplePatern(constrains, projections, f)[m])
<1> DEFINE cs == [i \in DOMAIN constrains |-> ConstrainProv(m, constrains[i], f)]
           ps == [i \in DOMAIN projections |-> Projection(m, projections[i], f).prov]
           rs == [i \in DOMAIN projections |-> Projection(m, projections[i], f).result]
           a == TriplePatern(constrains, projections, f)[m]
<1>1. m \in Candidates(constrains, projections) /\ Answers(m, constrains, projections, f)
  BY DEF TriplePatern
<1>2. m \in Key /\ m \in Known
  BY <1>1, CandidatesKnown
<1>3. a = [results |-> rs, prov |-> cs \o ps]
  BY <1>1 DEF TriplePatern
<1>4. ASSUME NEW i \in DOMAIN constrains
      PROVE  cs[i] = {q.prov : q \in FoundFor(m, constrains[i], f)}
  <2>0. constrains[i] \in Pattern
    OBVIOUS
  <2>1. constrains[i].object \in Key \cup {NoKey, Any}
    BY <2>0 DEF Pattern
  <2> QED BY <1>2, <2>1, ConstrainProvIs DEF FoundFor
<1>5. \A i \in DOMAIN projections :
         /\ rs[i] = {q.object : q \in FoundOf(m, projections[i], f)}
         /\ ps[i] = {q.prov : q \in FoundOf(m, projections[i], f)}
  BY <1>2, ProjectionIs DEF FoundOf
<1>6. \A i \in DOMAIN constrains : constrains[i].prov = 0 => FoundFor(m, constrains[i], f) # {}
  <2>1. \A i \in DOMAIN constrains : constrains[i].prov = 0 => cs[i] # {}
    BY <1>1 DEF Answers
  <2> HIDE DEF cs
  <2> QED BY <1>4, <2>1
<1>7. /\ \A i \in DOMAIN constrains : \A q \in FoundFor(m, constrains[i], f) : q.prov \in f
      /\ \A i \in DOMAIN projections : \A q \in FoundOf(m, projections[i], f) : q.prov \in f
  BY FoundKnown DEF FoundFor, FoundOf
<1>8. /\ cs \in Seq(SUBSET f) /\ ps \in Seq(SUBSET f)
      /\ DOMAIN cs = DOMAIN constrains /\ DOMAIN ps = DOMAIN projections
  <2>1. \A i \in DOMAIN constrains : cs[i] \in SUBSET f
    <3> HIDE DEF cs
    <3> QED BY <1>4, <1>7
  <2>2. \A i \in DOMAIN projections : ps[i] \in SUBSET f
    <3> HIDE DEF ps
    <3> QED BY <1>5, <1>7
  <2>3. /\ DOMAIN constrains = 1..Len(constrains) /\ Len(constrains) \in Nat
        /\ DOMAIN projections = 1..Len(projections) /\ Len(projections) \in Nat
    OBVIOUS
  <2>4. cs \in [1..Len(constrains) -> SUBSET f] /\ ps \in [1..Len(projections) -> SUBSET f]
    BY <2>1, <2>2, <2>3
  <2>5. DOMAIN cs = DOMAIN constrains /\ DOMAIN ps = DOMAIN projections
    OBVIOUS
  <2> HIDE DEF cs, ps
  <2>6. cs \in Seq(SUBSET f) /\ ps \in Seq(SUBSET f)
    BY <2>3, <2>4, FunctionIsSeq
  <2> QED BY <2>5, <2>6
<1> HIDE DEF cs, ps, rs, a
<1>9. /\ \A i \in DOMAIN cs : \E j \in DOMAIN (cs \o ps) : (cs \o ps)[j] = cs[i]
      /\ \A i \in DOMAIN ps : \E j \in DOMAIN (cs \o ps) : (cs \o ps)[j] = ps[i]
      /\ \A j \in DOMAIN (cs \o ps) : (cs \o ps)[j] \subseteq f
  <2> DEFINE e == cs \o ps
  <2>1. /\ e \in Seq(SUBSET f) /\ DOMAIN e = 1..(Len(cs) + Len(ps))
        /\ \A i \in 1..(Len(cs) + Len(ps)) : e[i] = IF i <= Len(cs) THEN cs[i] ELSE ps[i - Len(cs)]
    BY <1>8, ConcatProperties
  <2>2. /\ DOMAIN cs = 1..Len(cs) /\ Len(cs) \in Nat /\ DOMAIN ps = 1..Len(ps) /\ Len(ps) \in Nat
    BY <1>8
  <2> HIDE DEF e
  <2>3. \A i \in DOMAIN cs : i \in DOMAIN e /\ e[i] = cs[i]
    BY <2>1, <2>2
  <2>4. \A i \in DOMAIN ps : i + Len(cs) \in DOMAIN e /\ e[i + Len(cs)] = ps[i]
    BY <2>1, <2>2
  <2>5. \A j \in DOMAIN e : e[j] \subseteq f
    BY <2>1
  <2>6. /\ \A i \in DOMAIN cs : \E j \in DOMAIN e : e[j] = cs[i]
        /\ \A i \in DOMAIN ps : \E j \in DOMAIN e : e[j] = ps[i]
    BY <2>3, <2>4
  <2> QED BY <2>5, <2>6 DEF e
<1>10. a.prov = cs \o ps /\ a.results = rs
  BY <1>3
<1> DEFINE provs == UNION {a.prov[i] : i \in DOMAIN a.prov}
<1>11. /\ provs \subseteq f
       /\ \A i \in DOMAIN cs : cs[i] \subseteq provs
       /\ \A i \in DOMAIN ps : ps[i] \subseteq provs
  BY <1>9, <1>10
<1>12. /\ \A i \in DOMAIN constrains : \A q \in FoundFor(m, constrains[i], f) : q.prov \in provs
       /\ \A i \in DOMAIN projections : \A q \in FoundOf(m, projections[i], f) : q.prov \in provs
  <2> HIDE DEF provs
  <2> QED BY <1>4, <1>5, <1>8, <1>11
<1>13. \A i \in DOMAIN projections : a.results[i] = {q.object : q \in FoundOf(m, projections[i], f)}
  BY <1>5, <1>10
<1>14. Answered(m, constrains, projections, f, a)
  BY <1>6, <1>11, <1>12, <1>13 DEF Answered
<1> QED BY <1>2, <1>14 DEF a

\* A candidate with a quad for every pattern is answered.
LEMMA TriplePaternHas ==
    ASSUME Loaded, NEW constrains \in Seq(Pattern), NEW projections \in Seq(Pattern), NEW f,
           NEW m \in Candidates(constrains, projections),
           \A i \in DOMAIN constrains : constrains[i].prov = 0 => FoundFor(m, constrains[i], f) # {},
           \A i \in DOMAIN projections : FoundOf(m, projections[i], f) # {}
    PROVE  m \in DOMAIN TriplePatern(constrains, projections, f)
<1>1. m \in Key
  BY CandidatesKnown
<1>2. ASSUME NEW i \in DOMAIN constrains
      PROVE  constrains[i].prov = 1 \/ ConstrainProv(m, constrains[i], f) # {}
  <2>0. constrains[i] \in Pattern
    OBVIOUS
  <2>1. constrains[i].object \in Key \cup {NoKey, Any} /\ constrains[i].prov \in {0, 1}
    BY <2>0 DEF Pattern
  <2>2. ConstrainProv(m, constrains[i], f) = {q.prov : q \in FoundFor(m, constrains[i], f)}
    BY <1>1, <2>1, ConstrainProvIs DEF FoundFor
  <2> QED BY <2>1, <2>2
<1>3. ASSUME NEW i \in DOMAIN projections
      PROVE  Projection(m, projections[i], f).result # {}
  <2>1. Projection(m, projections[i], f).result = {q.object : q \in FoundOf(m, projections[i], f)}
    BY <1>1, ProjectionIs DEF FoundOf
  <2> QED BY <2>1
<1> QED BY <1>2, <1>3 DEF TriplePatern, Answers

-----------------------------------------------------------------------------
(* StarOf *)

IsStar(c) ==
    /\ c.call = "TriplePatern" /\ c.v \in Variable
    /\ c.constrains \in Seq(STRING \X STRING) /\ c.optional \in Seq(STRING \X STRING)
    /\ c.projections \in Seq(STRING \X Variable)

\* The terms of a row make a pattern of API.
LEMMA PatternType ==
    ASSUME NEW V, V \subseteq Bindable, NEW f, NEW r, IsRow(r, V, f), NEW v, NEW p,
           NEW o \in Key \cup {NoKey, Any}, NEW optional \in {0, 1}
    PROVE  PatternOf(r, v, p, o, optional) \in Pattern
<1>1. Value(r, p) \in Key \cup {NoKey, Any}
  BY ValueType
<1>2. v \in DOMAIN r.at => r.at[v] \in Key \cup {NoKey}
  BY DEF IsRow, Bindable
<1> QED BY <1>1, <1>2 DEF PatternOf, Pattern

ConstrainsOf(r, c) ==
    [i \in DOMAIN c.constrains |-> PatternOf(r, c.v, c.constrains[i][1], Value(r, c.constrains[i][2]), 0)]
OptionalsOf(r, c) ==
    [i \in DOMAIN c.optional |-> PatternOf(r, c.v, c.optional[i][1], Value(r, c.optional[i][2]), 1)]
ProjectionsOf(r, c) ==
    [i \in DOMAIN c.projections |-> PatternOf(r, c.v, c.projections[i][1], NoKey, 0)]
StarAnswers(r, c, linked, f) ==
    TriplePatern(linked \o ConstrainsOf(r, c) \o OptionalsOf(r, c), ProjectionsOf(r, c), f)
ProvsOf(a) == UNION {a.prov[i] : i \in DOMAIN a.prov}

\* StarOf by the names given to its parts.
LEMMA StarOfIs ==
    ASSUME NEW r, NEW c, NEW linked, NEW f
    PROVE  StarOf(r, c, linked, f) =
              UNION {UNION {Combine(r1, c.projections, StarAnswers(r, c, linked, f)[m].results) :
                            r1 \in Extend(r, c.v, {m}, ProvsOf(StarAnswers(r, c, linked, f)[m]))} :
                     m \in DOMAIN StarAnswers(r, c, linked, f)}
  BY DEF StarOf, StarAnswers, ProvsOf, ConstrainsOf, OptionalsOf, ProjectionsOf

\* The patterns of a star are patterns of API.
LEMMA StarPatterns ==
    ASSUME NEW V, V \subseteq Bindable, NEW f, NEW r, IsRow(r, V, f), NEW c, IsStar(c)
    PROVE  /\ ConstrainsOf(r, c) \in Seq(Pattern) /\ DOMAIN ConstrainsOf(r, c) = DOMAIN c.constrains
           /\ OptionalsOf(r, c) \in Seq(Pattern) /\ DOMAIN OptionalsOf(r, c) = DOMAIN c.optional
           /\ ProjectionsOf(r, c) \in Seq(Pattern) /\ DOMAIN ProjectionsOf(r, c) = DOMAIN c.projections
<1>1. /\ \A x : Value(r, x) \in Key \cup {NoKey, Any}
      /\ NoKey \in Key \cup {NoKey, Any} /\ 0 \in {0, 1} /\ 1 \in {0, 1}
  BY ValueType
<1>2. /\ DOMAIN c.constrains = 1..Len(c.constrains) /\ Len(c.constrains) \in Nat
      /\ DOMAIN c.optional = 1..Len(c.optional) /\ Len(c.optional) \in Nat
      /\ DOMAIN c.projections = 1..Len(c.projections) /\ Len(c.projections) \in Nat
  BY DEF IsStar
<1>3. \A p, o : PatternOf(r, c.v, p, Value(r, o), 0) \in Pattern
  BY <1>1, PatternType
<1>4. \A p, o : PatternOf(r, c.v, p, Value(r, o), 1) \in Pattern
  BY <1>1, PatternType
<1>5. \A p : PatternOf(r, c.v, p, NoKey, 0) \in Pattern
  BY <1>1, PatternType
<1>6. /\ ConstrainsOf(r, c) \in [1..Len(c.constrains) -> Pattern]
      /\ OptionalsOf(r, c) \in [1..Len(c.optional) -> Pattern]
      /\ ProjectionsOf(r, c) \in [1..Len(c.projections) -> Pattern]
  BY <1>2, <1>3, <1>4, <1>5 DEF ConstrainsOf, OptionalsOf, ProjectionsOf
<1> QED BY <1>2, <1>6, FunctionIsSeq

\* The variables a star call needs of a row.
StarNeeds(c) ==
    Variable \cap (Terms(c.constrains) \cup {c.projections[i][1] : i \in DOMAIN c.projections})

StarBinds(c) == {c.v} \cup {c.projections[i][2] : i \in DOMAIN c.projections}

\* What a row of a star call has met, under the provenance it carries.
StarRead(r2, c, f) ==
    /\ \A i \in DOMAIN c.constrains :
          Meets(r2.at, <<c.v, c.constrains[i][1], c.constrains[i][2]>>, f \cap r2.prov)
    /\ \A i \in DOMAIN c.projections :
          Meets(r2.at, <<c.v, c.projections[i][1], c.projections[i][2]>>, f \cap r2.prov)

StarLinked(r2, c, linked, f) ==
    \A i \in DOMAIN linked : linked[i].prov = 0 =>
        \E q \in FoundFor(r2.at[c.v], linked[i], f) : q.prov \in r2.prov

\* A row after TriplePatern met all the patterns of its star.
LEMMA StarSound ==
    ASSUME Loaded, NEW V, V \subseteq Bindable, Known \subseteq V, NEW f,
           NEW r, IsRow(r, V, f), NEW c, IsStar(c), NEW linked \in Seq(Pattern),
           NEW r2 \in StarOf(r, c, linked, f)
    PROVE  /\ IsRow(r2, V, f) /\ Grew(r, r2, StarBinds(c)) /\ StarLinked(r2, c, linked, f)
           /\ StarNeeds(c) \subseteq DOMAIN r.at => StarRead(r2, c, f)
<1> DEFINE cs == ConstrainsOf(r, c)
           os == OptionalsOf(r, c)
           ps == ProjectionsOf(r, c)
           all == linked \o cs \o os
<1>1. /\ cs \in Seq(Pattern) /\ DOMAIN cs = DOMAIN c.constrains /\ os \in Seq(Pattern)
      /\ ps \in Seq(Pattern) /\ DOMAIN ps = DOMAIN c.projections
  BY StarPatterns
<1>2. PICK m \in DOMAIN StarAnswers(r, c, linked, f) :
         r2 \in UNION {Combine(r1, c.projections, StarAnswers(r, c, linked, f)[m].results) :
                      r1 \in Extend(r, c.v, {m}, ProvsOf(StarAnswers(r, c, linked, f)[m]))}
  BY StarOfIs
<1> DEFINE answer == StarAnswers(r, c, linked, f)[m]
<1>3. PICK r1 \in Extend(r, c.v, {m}, ProvsOf(answer)) :
         r2 \in Combine(r1, c.projections, answer.results)
  BY <1>2
<1>4. all \in Seq(Pattern) /\ Joined(linked, cs, os, all)
  <2> HIDE DEF cs, os
  <2> QED BY <1>1, InThree
<1>5. m \in Key /\ m \in Known /\ Answered(m, all, ps, f, answer)
  <2>1. m \in DOMAIN TriplePatern(all, ps, f) /\ answer = TriplePatern(all, ps, f)[m]
    BY <1>2 DEF StarAnswers
  <2> HIDE DEF all, ps, answer
  <2> QED BY <1>1, <1>4, <2>1, TriplePaternSound
<1> HIDE DEF answer
<1>6. /\ \A i \in DOMAIN linked : linked[i].prov = 0 => FoundFor(m, linked[i], f) # {}
      /\ \A i \in DOMAIN linked : \A q \in FoundFor(m, linked[i], f) : q.prov \in ProvsOf(answer)
      /\ \A i \in DOMAIN cs : cs[i].prov = 0 => FoundFor(m, cs[i], f) # {}
      /\ \A i \in DOMAIN cs : \A q \in FoundFor(m, cs[i], f) : q.prov \in ProvsOf(answer)
  <2> HIDE DEF cs, os, ps, all
  <2>1. /\ \A i \in DOMAIN linked : \E j \in DOMAIN all : all[j] = linked[i]
        /\ \A i \in DOMAIN cs : \E j \in DOMAIN all : all[j] = cs[i]
    BY <1>4 DEF Joined
  <2>2. /\ \A j \in DOMAIN all : all[j].prov = 0 => FoundFor(m, all[j], f) # {}
        /\ \A j \in DOMAIN all : \A q \in FoundFor(m, all[j], f) : q.prov \in ProvsOf(answer)
    BY <1>5 DEF Answered, ProvsOf
  <2> QED BY <2>1, <2>2
<1>7. /\ ProvsOf(answer) \subseteq f
      /\ \A i \in DOMAIN ps : answer.results[i] = {q.object : q \in FoundOf(m, ps[i], f)}
      /\ \A i \in DOMAIN ps : \A q \in FoundOf(m, ps[i], f) : q.prov \in ProvsOf(answer)
  <2> HIDE DEF all, ps
  <2> QED BY <1>5 DEF Answered, ProvsOf
<1>8. IsRow(r1, V, f) /\ Grew(r, r1, {c.v}) /\ r1.at[c.v] = m /\ r1.prov = r.prov \cup ProvsOf(answer)
  <2>1. Extended(V, f, r, c.v, {m}, ProvsOf(answer), r1)
    BY <1>3, <1>5, <1>7 DEF Extended, IsStar
  <2>2. Extension(V, f, r, c.v, {m}, ProvsOf(answer), r1)
    BY <2>1, ExtendRows
  <2> QED BY <2>2 DEF Extension
<1>9. Len(c.projections) \in Nat /\ DOMAIN c.projections = 1..Len(c.projections)
      /\ \A i \in DOMAIN c.projections : answer.results[i] \subseteq V
  <2>1. Len(c.projections) \in Nat /\ DOMAIN c.projections = 1..Len(c.projections)
    BY DEF IsStar
  <2>2. \A i \in DOMAIN ps : answer.results[i] \subseteq V
    BY <1>7, FoundKnown DEF FoundOf
  <2> QED BY <1>1, <2>1, <2>2
<1>10. Combined(V, f, r1, c.projections, answer.results, Len(c.projections), r2)
  BY <1>3, <1>8, <1>9, CombineSound DEF IsStar
<1>11. /\ IsRow(r2, V, f) /\ Grew(r, r2, StarBinds(c)) /\ r2.prov = r.prov \cup ProvsOf(answer)
       /\ r2.at[c.v] = m
       /\ \A i \in DOMAIN c.projections : r2.at[c.projections[i][2]] \in answer.results[i]
  <2> DEFINE A == {c.projections[i][2] : i \in DOMAIN c.projections}
  <2>1. /\ IsRow(r2, V, f) /\ Grew(r1, r2, A) /\ r2.prov = r1.prov
        /\ \A i \in DOMAIN c.projections : r2.at[c.projections[i][2]] \in answer.results[i]
    BY <1>9, <1>10 DEF Combined
  <2> HIDE DEF A
  <2>2. Grew(r, r2, {c.v} \cup A)
    BY <1>8, <2>1, GrewTwice
  <2>3. r2.at[c.v] = m
    BY <1>8, <2>1 DEF Grew
  <2> QED BY <1>8, <2>1, <2>2, <2>3 DEF StarBinds, A
<1>12. ASSUME StarNeeds(c) \subseteq DOMAIN r.at PROVE StarRead(r2, c, f)
  <2>1. c.v \in Variable /\ Fits(r2.at, c.v, m)
    BY <1>11 DEF Fits, IsStar
  <2>2. ASSUME NEW x, x \in Variable => x \in DOMAIN r.at, NEW k \in Key, Value(r, x) \in {Any, k}
        PROVE  Fits(r2.at, x, k)
    <3>1. Fits(r.at, x, k)
      BY <2>2, ValueIs
    <3> QED BY <1>11, <2>2, <3>1, FitsGrown
  <2>3. ASSUME NEW i \in DOMAIN c.constrains
        PROVE  Meets(r2.at, <<c.v, c.constrains[i][1], c.constrains[i][2]>>, f \cap r2.prov)
    <3> DEFINE p == c.constrains[i][1]
               o == c.constrains[i][2]
    <3>1. (p \in Variable => p \in DOMAIN r.at) /\ (o \in Variable => o \in DOMAIN r.at)
      BY <1>12 DEF StarNeeds, Terms
    <3>2. cs[i].prov = 0 /\ cs[i].predicate = Value(r, p) /\ cs[i].object = Value(r, o)
      BY DEF ConstrainsOf, PatternOf
    <3>3. PICK q \in FoundFor(m, cs[i], f) : q.prov \in ProvsOf(answer)
      BY <1>1, <1>6, <3>2
    <3>4. /\ q.subject = m /\ Value(r, p) \in {Any, q.predicate} /\ Value(r, o) \in {Any, q.object}
          /\ q \in Quads(f)
      BY <3>2 DEF FoundFor, Found
    <3>5. q.predicate \in Key /\ q.object \in Key /\ q \in Quads(f \cap r2.prov)
      BY <1>11, <3>3, <3>4, QuadKeys DEF Quads
    <3> HIDE DEF p, o
    <3>6. Fits(r2.at, p, q.predicate) /\ Fits(r2.at, o, q.object)
      BY <2>2, <3>1, <3>4, <3>5
    <3>7. Meets(r2.at, <<c.v, p, o>>, f \cap r2.prov)
      BY <2>1, <3>4, <3>5, <3>6 DEF Meets
    <3> QED BY <3>7 DEF p, o
  <2>4. ASSUME NEW i \in DOMAIN c.projections
        PROVE  Meets(r2.at, <<c.v, c.projections[i][1], c.projections[i][2]>>, f \cap r2.prov)
    <3> DEFINE p == c.projections[i][1]
               x == c.projections[i][2]
    <3>1. (p \in Variable => p \in DOMAIN r.at) /\ x \in Variable
      BY <1>12 DEF StarNeeds, IsStar
    <3>2. ps[i].predicate = Value(r, p)
      BY DEF ProjectionsOf, PatternOf
    <3>2a. r2.at[x] \in answer.results[i] /\ answer.results[i] = {q.object : q \in FoundOf(m, ps[i], f)}
      BY <1>1, <1>7, <1>11
    <3>3. PICK q \in FoundOf(m, ps[i], f) : q.object = r2.at[x]
      <4> HIDE DEF x, ps
      <4> QED BY <3>2a
    <3>4. /\ q.subject = m /\ Value(r, p) \in {Any, q.predicate} /\ q \in Quads(f)
          /\ q.prov \in ProvsOf(answer)
      BY <1>1, <1>7, <3>2 DEF FoundOf, Found
    <3>5. q.predicate \in Key /\ q \in Quads(f \cap r2.prov)
      BY <1>11, <3>4, QuadKeys DEF Quads
    <3> HIDE DEF p, x
    <3>6. Fits(r2.at, p, q.predicate)
      BY <2>2, <3>1, <3>4, <3>5
    <3>7. Fits(r2.at, x, q.object)
      BY <3>1, <3>3 DEF Fits
    <3>8. Meets(r2.at, <<c.v, p, x>>, f \cap r2.prov)
      BY <2>1, <3>4, <3>5, <3>6, <3>7 DEF Meets
    <3> QED BY <3>8 DEF p, x
  <2> HIDE DEF cs, ps, os, all
  <2> QED BY <2>3, <2>4 DEF StarRead
<1> HIDE DEF cs, ps, os, all
<1>13. StarLinked(r2, c, linked, f)
  BY <1>6, <1>11 DEF StarLinked
<1> QED BY <1>11, <1>12, <1>13

-----------------------------------------------------------------------------
(* Each call gives a row for every binding that meets its patterns *)

\* What a quad must have to be found under the terms of a row.
LEMMA ValueOn ==
    ASSUME NEW V, V \subseteq Bindable, NEW f, NEW r, IsRow(r, V, f), NEW b, NEW D, r.at = On(b, D),
           NEW x, x \in Variable => x \in D, NEW k \in Key
    PROVE  Value(r, x) \in {Any, k} <=> Fits(b, x, k)
<1>1. DOMAIN r.at = D /\ \A y \in D : r.at[y] = b[y]
  BY DEF On
<1>2. Fits(r.at, x, k) <=> Fits(b, x, k)
  BY <1>1 DEF Fits
<1> QED BY <1>1, <1>2, ValueIs

\* b meets the patterns of a star.
StarMet(b, c, f) ==
    /\ \A i \in DOMAIN c.constrains : Meets(b, <<c.v, c.constrains[i][1], c.constrains[i][2]>>, f)
    /\ \A i \in DOMAIN c.projections : Meets(b, <<c.v, c.projections[i][1], c.projections[i][2]>>, f)

\* Bindings that meet a star have a row after it.
LEMMA StarHas ==
    ASSUME Loaded, NEW V, V \subseteq Bindable, Known \subseteq V, NEW f,
           NEW r, IsRow(r, V, f), NEW c, IsStar(c), NEW b, NEW D, r.at = On(b, D),
           StarNeeds(c) \subseteq D, c.constrains # <<>>,
           c.constrains[1][2] = Anything => c.v \in D, StarMet(b, c, f)
    PROVE  HasRow(StarOf(r, c, <<>>, f), V, f, b, D \cup StarBinds(c))
<1> DEFINE cs == ConstrainsOf(r, c)
           os == OptionalsOf(r, c)
           ps == ProjectionsOf(r, c)
           all == <<>> \o cs \o os
           m == b[c.v]
<1>1. /\ cs \in Seq(Pattern) /\ DOMAIN cs = DOMAIN c.constrains /\ os \in Seq(Pattern)
      /\ DOMAIN os = DOMAIN c.optional
      /\ ps \in Seq(Pattern) /\ DOMAIN ps = DOMAIN c.projections
  BY StarPatterns
<1>2. all \in Seq(Pattern) /\ Joined(<<>>, cs, os, all)
  <2>1. <<>> \in Seq(Pattern)
    OBVIOUS
  <2> HIDE DEF cs, os
  <2> QED BY <1>1, <2>1, InThree
<1>3. ASSUME NEW i \in DOMAIN c.constrains
      PROVE  \E q \in FoundFor(m, cs[i], f) : q \in Quads(f) /\ q.subject = m
  <2> DEFINE p == c.constrains[i][1]
             o == c.constrains[i][2]
  <2>1. (p \in Variable => p \in D) /\ (o \in Variable => o \in D)
    BY DEF StarNeeds, Terms
  <2>2. cs[i].predicate = Value(r, p) /\ cs[i].object = Value(r, o)
    BY DEF ConstrainsOf, PatternOf
  <2>3. Meets(b, <<c.v, p, o>>, f)
    BY DEF StarMet
  <2> HIDE DEF p, o
  <2>4. PICK q \in Quads(f) : Fits(b, c.v, q.subject) /\ Fits(b, p, q.predicate) /\ Fits(b, o, q.object)
    BY <2>3 DEF Meets
  <2>5. q.subject = m /\ q.predicate \in Key /\ q.object \in Key
    BY <2>4, QuadKeys DEF Fits, IsStar
  <2>6. Value(r, p) \in {Any, q.predicate}
    BY <2>1, <2>4, <2>5, ValueOn
  <2>7. Value(r, o) \in {Any, q.object}
    BY <2>1, <2>4, <2>5, ValueOn
  <2> QED BY <2>2, <2>5, <2>6, <2>7 DEF FoundFor, Found
<1>4. ASSUME NEW i \in DOMAIN c.projections
      PROVE  \E q \in FoundOf(m, ps[i], f) : q.object = b[c.projections[i][2]]
  <2> DEFINE p == c.projections[i][1]
             x == c.projections[i][2]
  <2>1. (p \in Variable => p \in D) /\ x \in Variable
    BY DEF StarNeeds, IsStar
  <2>2. ps[i].predicate = Value(r, p)
    BY DEF ProjectionsOf, PatternOf
  <2>3. Meets(b, <<c.v, p, x>>, f)
    BY DEF StarMet
  <2> HIDE DEF p, x
  <2>4. PICK q \in Quads(f) : Fits(b, c.v, q.subject) /\ Fits(b, p, q.predicate) /\ Fits(b, x, q.object)
    BY <2>3 DEF Meets
  <2>5. q.subject = m /\ q.predicate \in Key /\ q.object = b[x]
    BY <2>1, <2>4, QuadKeys DEF Fits, IsStar
  <2>6. Value(r, p) \in {Any, q.predicate}
    BY <2>1, <2>4, <2>5, ValueOn
  <2>7. q \in FoundOf(m, ps[i], f)
    BY <2>2, <2>5, <2>6 DEF FoundOf, Found
  <2> QED BY <2>5, <2>7 DEF x
<1>5. 1 \in DOMAIN c.constrains /\ all # <<>> /\ all[1] = cs[1]
  <2>1. 1 \in DOMAIN c.constrains
    BY DEF IsStar
  <2>2. cs # <<>>
    BY <1>1, <2>1
  <2> HIDE DEF cs, os, all
  <2> QED BY <1>2, <2>1, <2>2 DEF Joined
<1>6. PICK q1 \in FoundFor(m, cs[1], f) : q1 \in Quads(f) /\ q1.subject = m
  BY <1>3, <1>5
<1>7. m \in Candidates(all, ps)
  <2>0. m \in Key /\ q1.object \in Key /\ m # NoKey
    BY <1>6, QuadKeys, KeyAssumption
  <2>1. DOMAIN r.at = D /\ \A y \in D : r.at[y] = b[y]
    BY DEF On
  <2>2. cs[1].subject = (IF c.v \in D THEN m ELSE NoKey)
        /\ cs[1].object = Value(r, c.constrains[1][2])
    BY <1>5, <2>1 DEF ConstrainsOf, PatternOf
  <2>3. CASE c.v \in D
    <3>1. m \in GetPair(cs[1].subject)
      BY <2>2, <2>3, <1>6, SubjectHasMolecule
    <3> HIDE DEF cs, all, ps
    <3> QED BY <1>5, <2>0, <2>2, <2>3, <3>1 DEF Candidates
  <2>4. CASE c.v \notin D
    <3>1. c.constrains[1][2] # Anything
      BY <2>4
    <3>2. c.constrains[1][2] \in Variable => c.constrains[1][2] \in DOMAIN r.at
      BY <1>5, <2>1 DEF StarNeeds, Terms
    <3>3. Value(r, c.constrains[1][2]) # Any
      BY <3>1, <3>2, ValueIs
    <3>4. cs[1].object = q1.object
      BY <2>2, <3>3, <1>6 DEF FoundFor, Found
    <3>5. m \in GetMoleculesFromInvertedIdx(cs[1].object)
      BY <3>4, <1>6, SubjectHasMolecule
    <3>6. cs[1].object # Any
      BY <2>2, <3>3
    <3> HIDE DEF cs, all, ps
    <3> QED BY <1>5, <2>2, <2>4, <3>5, <3>6 DEF Candidates
  <2> QED BY <2>3, <2>4
<1>8. m \in DOMAIN TriplePatern(all, ps, f)
  <2>1. \A i \in DOMAIN ps : FoundOf(m, ps[i], f) # {}
    BY <1>1, <1>4
  <2>2. \A i \in DOMAIN os : os[i].prov = 1
    BY DEF OptionalsOf, PatternOf
  <2>3. \A i \in DOMAIN cs : FoundFor(m, cs[i], f) # {}
    BY <1>1, <1>3
  <2> HIDE DEF cs, os, ps, m
  <2>4. \A i \in DOMAIN <<>> : <<>>[i].prov = 1
    OBVIOUS
  <2>5. \A i \in DOMAIN all : all[i].prov = 0 => FoundFor(m, all[i], f) # {}
    <3> HIDE DEF all
    <3> QED BY <1>2, <2>2, <2>3, <2>4 DEF Joined
  <2> HIDE DEF all
  <2> QED BY <1>1, <1>2, <1>7, <2>1, <2>5, TriplePaternHas
<1> DEFINE answer == StarAnswers(r, c, <<>>, f)[m]
<1>9. /\ m \in DOMAIN StarAnswers(r, c, <<>>, f)
      /\ Answered(m, all, ps, f, answer) /\ m \in Known
  <2>1. StarAnswers(r, c, <<>>, f) = TriplePatern(all, ps, f)
    BY DEF StarAnswers
  <2> HIDE DEF all, ps, m
  <2> QED BY <1>1, <1>2, <1>8, <2>1, TriplePaternSound
<1>10. /\ ProvsOf(answer) \subseteq f
       /\ \A i \in DOMAIN c.projections :
             answer.results[i] = {q.object : q \in FoundOf(m, ps[i], f)}
  <2> HIDE DEF all, ps, answer, m
  <2> QED BY <1>1, <1>9 DEF Answered, ProvsOf
<1> HIDE DEF answer
<1>11. /\ Len(c.projections) \in Nat /\ DOMAIN c.projections = 1..Len(c.projections)
       /\ c.projections \in Seq(STRING \X Variable) /\ c.v \in Variable
  BY DEF IsStar
<1>12. \A i \in DOMAIN c.projections :
          answer.results[i] \subseteq V /\ b[c.projections[i][2]] \in answer.results[i]
  <2> HIDE DEF m, ps
  <2>1. \A i \in DOMAIN c.projections : answer.results[i] \subseteq V
    BY <1>10, FoundKnown DEF FoundOf
  <2>2. \A i \in DOMAIN c.projections : b[c.projections[i][2]] \in answer.results[i]
    BY <1>4, <1>10
  <2> QED BY <2>1, <2>2
<1>13. PICK r1 \in Extend(r, c.v, {m}, ProvsOf(answer)) : IsRow(r1, V, f) /\ r1.at = On(b, D \cup {c.v})
  <2>1. Extensible(V, f, r, c.v, {m}, ProvsOf(answer), b, D)
    BY <1>9, <1>10, <1>11 DEF Extensible
  <2> HIDE DEF m
  <2>2. HasRow(Extend(r, c.v, {m}, ProvsOf(answer)), V, f, b, D \cup {c.v})
    BY <2>1, ExtendHas
  <2> QED BY <2>2 DEF HasRow
<1>14. PICK r2 \in Combine(r1, c.projections, answer.results) :
          IsRow(r2, V, f) /\ r2.at = On(b, (D \cup {c.v}) \cup {c.projections[i][2] : i \in 1..Len(c.projections)})
  <2> DEFINE js == c.projections
             results == answer.results
             bound == D \cup {c.v}
  <2> HIDE DEF m
  <2>0. Combinable(V, f, r1, js, results, b, bound)
    BY <1>11, <1>12, <1>13 DEF Combinable
  <2> HIDE DEF js, results, bound
  <2>1. HasRow(Combine(r1, js, results), V, f, b, bound \cup {js[i][2] : i \in 1..Len(js)})
    BY <2>0, CombineHas
  <2> USE DEF js, results, bound
  <2> QED BY <2>1 DEF HasRow
<1>15. r2 \in StarOf(r, c, <<>>, f)
  <2> DEFINE Made(n) == UNION {Combine(r3, c.projections, StarAnswers(r, c, <<>>, f)[n].results) :
                               r3 \in Extend(r, c.v, {n}, ProvsOf(StarAnswers(r, c, <<>>, f)[n]))}
  <2>1. r2 \in Made(m)
    BY <1>13, <1>14 DEF answer
  <2>2. StarOf(r, c, <<>>, f) = UNION {Made(n) : n \in DOMAIN StarAnswers(r, c, <<>>, f)}
    BY StarOfIs
  <2> HIDE DEF Made, m
  <2> QED BY <1>9, <2>1, <2>2
<1>16. (D \cup {c.v}) \cup {c.projections[i][2] : i \in 1..Len(c.projections)} = D \cup StarBinds(c)
  BY <1>11 DEF StarBinds
<1> QED BY <1>14, <1>15, <1>16 DEF HasRow

\* Bindings that meet its pattern have a row after GetSubjects.
LEMMA SubjectsHas ==
    ASSUME Loaded, NEW V, V \subseteq Bindable, Known \subseteq V, NEW f,
           NEW r, IsRow(r, V, f), NEW c \in SubjectCall, c.call # "not in GetSubjects", c.o # Anything,
           NEW b, NEW D, r.at = On(b, D), Variable \cap {c.p, c.o} \subseteq D, NEW lead,
           Meets(b, <<c.v, c.p, c.o>>, f)
    PROVE  HasRow(SubjectsOf(r, c, f, lead), V, f, b, D \cup {c.v})
<1> DEFINE o == Value(r, c.o)
           p == Value(r, c.p)
           found == GetSubjects(o, p, f)
           prov(m) == SubjectProv(m, o, p, f)
           k == b[c.v]
<1>1. o \in Key \cup {NoKey, Any} /\ c.v \in Variable /\ c.call \in SubjectCalls
  BY ValueType DEF SubjectCall
<1>2. ASSUME NEW m \in found PROVE m \in Key /\ m \in V /\ Found(m, p, o, f) # {}
  <2>1. Found(m, p, o, f) # {}
    BY <1>1, SubjectsAre
  <2>2. PICK q \in Found(m, p, o, f) : TRUE
    BY <2>1
  <2>3. m \in Known /\ m \in Key
    BY <2>2, FoundKnown
  <2> QED BY <2>1, <2>3
<1>3. ASSUME NEW m \in found PROVE prov(m) \subseteq f /\ prov(m) # {}
  <2>1. m \in Key /\ Found(m, p, o, f) # {}
    BY <1>2
  <2>2. prov(m) = {q.prov : q \in Found(m, p, o, f)}
    BY <1>1, <2>1, SubjectProvIs
  <2>3. \A q \in Found(m, p, o, f) : q.prov \in f
    BY FoundKnown
  <2> QED BY <2>1, <2>2, <2>3
<1>4. k \in found
  <2>1. PICK q \in Quads(f) : Fits(b, c.v, q.subject) /\ Fits(b, c.p, q.predicate) /\ Fits(b, c.o, q.object)
    BY DEF Meets
  <2>2. q.subject = k /\ q.predicate \in Key /\ q.object \in Key
    BY <1>1, <2>1, QuadKeys DEF Fits
  <2>3. DOMAIN r.at = D /\ (c.p \in Variable => c.p \in D) /\ (c.o \in Variable => c.o \in D)
    BY DEF On
  <2>4. p \in {Any, q.predicate}
    BY <2>1, <2>2, <2>3, ValueOn
  <2>5. o \in {Any, q.object} /\ o # Any
    <3>1. o \in {Any, q.object}
      BY <2>1, <2>2, <2>3, ValueOn
    <3>2. o # Any
      BY <2>3, ValueIs
    <3> QED BY <3>1, <3>2
  <2>6. q \in Found(k, p, o, f)
    BY <2>2, <2>4, <2>5 DEF Found
  <2> HIDE DEF k, o, p
  <2> QED BY <1>1, <2>5, <2>6, SubjectsAre
<1>5. ASSUME NEW keys, keys \subseteq found, k \in keys, NEW ps, ps \subseteq f
      PROVE  HasRow(Extend(r, c.v, keys, ps), V, f, b, D \cup {c.v})
  <2>1. Extensible(V, f, r, c.v, keys, ps, b, D)
    BY <1>1, <1>2, <1>5 DEF Extensible
  <2> QED BY <2>1, ExtendHas
<1>6. CASE c.call = "GetSubjects"
  <2> DEFINE ps == UNION {prov(m) : m \in found}
  <2>1. SubjectsOf(r, c, f, lead) = Extend(r, c.v, found, ps)
    BY <1>6 DEF SubjectsOf
  <2>2. ps \subseteq f
    BY <1>3
  <2> HIDE DEF found, ps, k
  <2> QED BY <1>4, <1>5, <2>1, <2>2
<1>7. CASE c.call = "GetSubjects, prov[0]"
  <2>1. SubjectsOf(r, c, f, lead) = UNION {Extend(r, c.v, found, prov(m)) : m \in First(found, lead)}
    BY <1>7 DEF SubjectsOf
  <2> HIDE DEF found, prov, k
  <2>2. PICK m \in First(found, lead) : m \in found
    BY <1>4 DEF First, Begin
  <2>3. prov(m) \subseteq f
    BY <1>3, <2>2
  <2>4. HasRow(Extend(r, c.v, found, prov(m)), V, f, b, D \cup {c.v})
    BY <1>4, <1>5, <2>3
  <2> QED BY <2>1, <2>2, <2>4 DEF HasRow
<1>8. CASE c.call = "GetSubjects, multimap"
  <2>1. SubjectsOf(r, c, f, lead) = UNION {Extend(r, c.v, {m}, {Begin(prov(m), lead)}) : m \in found}
    BY <1>8 DEF SubjectsOf
  <2>2. {Begin(prov(k), lead)} \subseteq f
    BY <1>3, <1>4 DEF Begin
  <2> HIDE DEF found, prov, k
  <2>3. HasRow(Extend(r, c.v, {k}, {Begin(prov(k), lead)}), V, f, b, D \cup {c.v})
    BY <1>4, <1>5, <2>2
  <2> QED BY <1>4, <2>1, <2>3 DEF HasRow
<1> QED BY <1>1, <1>6, <1>7, <1>8 DEF SubjectCalls

\* Bindings that meet its pattern have a row after GetObjects.
LEMMA ObjectsHas ==
    ASSUME Loaded, NEW V, V \subseteq Bindable, Known \subseteq V, NEW f,
           NEW r, IsRow(r, V, f), NEW c \in ObjectCall, c.s # Anything,
           NEW b, NEW D, r.at = On(b, D), Variable \cap {c.s, c.p} \subseteq D,
           Meets(b, <<c.s, c.p, c.v>>, f)
    PROVE  HasRow(ObjectsOf(r, c, f), V, f, b, D \cup {c.v})
<1> DEFINE s == Value(r, c.s)
           p == Value(r, c.p)
           got == GetObjects(s, p, f)
           ps == IF c.shown THEN got.prov ELSE {}
<1>1. s \in Key \cup {NoKey, Any} /\ c.v \in Variable
  BY ValueType DEF ObjectCall
<1>2. /\ got.result = {q.object : q \in Found(s, p, Any, f)}
      /\ got.prov = {q.prov : q \in Found(s, p, Any, f)}
  BY <1>1, ObjectsAre
<1>3. got.result \subseteq V /\ ps \subseteq f
  BY <1>2, FoundKnown
<1>4. b[c.v] \in got.result
  <2>1. PICK q \in Quads(f) : Fits(b, c.s, q.subject) /\ Fits(b, c.p, q.predicate) /\ Fits(b, c.v, q.object)
    BY DEF Meets
  <2>2. q.subject \in Key /\ q.predicate \in Key /\ q.object = b[c.v]
    BY <1>1, <2>1, QuadKeys DEF Fits
  <2>3. DOMAIN r.at = D /\ (c.s \in Variable => c.s \in D) /\ (c.p \in Variable => c.p \in D)
    BY DEF On
  <2>4. p \in {Any, q.predicate}
    BY <2>1, <2>2, <2>3, ValueOn
  <2>5. s \in {Any, q.subject} /\ s # Any
    BY <2>1, <2>2, <2>3, ValueOn, ValueIs
  <2>6. q \in Found(s, p, Any, f)
    BY <2>4, <2>5 DEF Found
  <2> HIDE DEF got, s, p
  <2> QED BY <1>2, <2>2, <2>6
<1>5. Extensible(V, f, r, c.v, got.result, ps, b, D)
  BY <1>1, <1>3, <1>4 DEF Extensible
<1>6. ObjectsOf(r, c, f) = Extend(r, c.v, got.result, ps)
  BY DEF ObjectsOf
<1> HIDE DEF got, ps
<1> QED BY <1>5, <1>6, ExtendHas

-----------------------------------------------------------------------------
(* One call *)

\* The kinds of calls.
LEMMA CallKinds ==
    ASSUME NEW c \in Call
    PROVE  /\ c.v \in Variable
           /\ \/ c \in SubjectCall /\ c.call \in SubjectCalls /\ "each" \notin DOMAIN c
              \/ c \in ObjectCall /\ c.call = "GetObjects" /\ "each" \notin DOMAIN c
              \/ c.call = "list" /\ "each" \notin DOMAIN c
              \/ c.call = "type" /\ "each" \notin DOMAIN c
              \/ c.call = "TriplePatern" /\ IsStar(c) /\ "each" \notin DOMAIN c
              \/ c.call = "TriplePatern" /\ IsStar(c) /\ "each" \in DOMAIN c /\ c.each \in Variable
<1>1. CASE c \in SubjectCall
  BY <1>1 DEF SubjectCall
<1>2. CASE c \in ObjectCall
  BY <1>2 DEF ObjectCall
<1>3. CASE c \in ListCall
  BY <1>3 DEF ListCall
<1>4. CASE c \in TypeCall
  BY <1>4 DEF TypeCall
<1>5. CASE c \in StarCall
  BY <1>5 DEF StarCall, IsStar
<1>6. CASE c \in StarOfAllCall
  BY <1>6 DEF StarOfAllCall, IsStar
<1> QED BY <1>1, <1>2, <1>3, <1>4, <1>5, <1>6 DEF Call

\* The bindings meet what the call asks for.
Told(b, c, f) ==
    /\ \A q \in Reads(c) : Meets(b, q, f)
    /\ c.call = "list" => b[c.v] \in {Get(u) : u \in c.uris}
    /\ c.call = "type" => TypeOf[b[c.v]] = GetType(Get(c.uri))

\* So do those of a row, and what it read is in the provenance it carries.
RowTold(r, c, f) ==
    /\ Binds(c) \cup Needs(c) \subseteq DOMAIN r.at
    /\ Told(r.at, c, f)
    /\ Read(r, c, f)

\* The rows a call starts from.
Given(V, f, rs, c) ==
    /\ V \subseteq Bindable /\ Known \subseteq V /\ IsFiniteSet(V)
    /\ c.call = "list" => {Get(u) : u \in c.uris} \subseteq V
    /\ \A r \in rs : IsRow(r, V, f) /\ Needs(c) \subseteq DOMAIN r.at

After(V, f, rs, c, r2) ==
    /\ IsRow(r2, V, f) /\ Binds(c) \subseteq DOMAIN r2.at
    /\ ~Restarts(c) => \E r \in rs : Grew(r, r2, Binds(c)) /\ RowTold(r2, c, f)

\* GetSubjects as a call of a plan.
LEMMA SubjectsAfter ==
    ASSUME Loaded, NEW V, NEW f, NEW rs, NEW c \in SubjectCall, Given(V, f, rs, c), NEW lead,
           NEW r \in rs, NEW r2 \in SubjectsOf(r, c, f, lead)
    PROVE  After(V, f, rs, c, r2)
<1>0. V \subseteq Bindable /\ Known \subseteq V /\ IsRow(r, V, f) /\ Needs(c) \subseteq DOMAIN r.at
  BY DEF Given
<1>1. IsRow(r2, V, f) /\ Grew(r, r2, Binds(c)) /\ Read(r2, c, f)
  BY <1>0, SubjectsSound
<1>2. c.call # "list" /\ c.call # "type"
  BY DEF SubjectCall, SubjectCalls
<1>3. Told(r2.at, c, f)
  BY <1>1, <1>2 DEF Told, Read
<1>4. Binds(c) \subseteq DOMAIN r2.at /\ Binds(c) \cup Needs(c) \subseteq DOMAIN r2.at
  BY <1>0, <1>1 DEF Grew
<1> QED BY <1>1, <1>3, <1>4 DEF After, RowTold

\* GetObjects as a call of a plan.
LEMMA ObjectsAfter ==
    ASSUME Loaded, NEW V, NEW f, NEW rs, NEW c \in ObjectCall, Given(V, f, rs, c),
           NEW r \in rs, NEW r2 \in ObjectsOf(r, c, f)
    PROVE  After(V, f, rs, c, r2)
<1>0. V \subseteq Bindable /\ Known \subseteq V /\ IsRow(r, V, f) /\ Needs(c) \subseteq DOMAIN r.at
  BY DEF Given
<1>1. IsRow(r2, V, f) /\ Grew(r, r2, Binds(c)) /\ Read(r2, c, f)
  BY <1>0, ObjectsSound
<1>2. c.call # "list" /\ c.call # "type"
  BY DEF ObjectCall
<1>3. Told(r2.at, c, f)
  BY <1>1, <1>2 DEF Told, Read
<1>4. Binds(c) \subseteq DOMAIN r2.at /\ Binds(c) \cup Needs(c) \subseteq DOMAIN r2.at
  BY <1>0, <1>1 DEF Grew
<1> QED BY <1>1, <1>3, <1>4 DEF After, RowTold

\* A loop over a list of URIs as a call of a plan.
LEMMA ListAfter ==
    ASSUME NEW V, NEW f, NEW rs, NEW c, c.call = "list", c.v \in Variable, "each" \notin DOMAIN c,
           Given(V, f, rs, c), NEW r \in rs, NEW r2 \in Extend(r, c.v, {Get(u) : u \in c.uris}, {})
    PROVE  After(V, f, rs, c, r2)
<1> DEFINE keys == {Get(u) : u \in c.uris}
<1>1. IsRow(r, V, f) /\ keys \subseteq V /\ {} \subseteq f
  BY DEF Given
<1> HIDE DEF keys
<1>2. Extended(V, f, r, c.v, keys, {}, r2)
  BY <1>1 DEF Extended, keys
<1>3. Extension(V, f, r, c.v, keys, {}, r2)
  BY <1>2, ExtendRows
<1>4. IsRow(r2, V, f) /\ Grew(r, r2, {c.v}) /\ r2.at[c.v] \in keys
  BY <1>3 DEF Extension
<1>5. Binds(c) = {c.v} /\ Needs(c) = {} /\ Reads(c) = {}
  <2>1. c.call \notin {"type", "not in GetSubjects"} /\ c.call # "TriplePatern" /\ c.call # "GetObjects"
    OBVIOUS
  <2> QED BY <2>1 DEF Binds, Needs, Reads
<1>6. Told(r2.at, c, f) /\ Read(r2, c, f)
  BY <1>4, <1>5 DEF Told, Read, keys
<1> QED BY <1>4, <1>5, <1>6 DEF After, RowTold, Grew

\* A comparison of types as a call of a plan.
LEMMA TypeAfter ==
    ASSUME NEW V, NEW f, NEW rs, NEW c, c.call = "type", c.v \in Variable,
           Given(V, f, rs, c), NEW r2 \in rs, TypeOf[r2.at[c.v]] = GetType(Get(c.uri))
    PROVE  After(V, f, rs, c, r2)
<1>1. Binds(c) = {} /\ Reads(c) = {}
  <2>1. c.call \in {"type", "not in GetSubjects"} /\ c.call \in {"list", "type", "not in GetSubjects"}
        /\ c.call # "GetObjects"
    OBVIOUS
  <2> QED BY <2>1 DEF Binds, Reads
<1>2. IsRow(r2, V, f) /\ Needs(c) \subseteq DOMAIN r2.at
  BY DEF Given
<1>3. Grew(r2, r2, {})
  BY DEF Grew
<1>4. Told(r2.at, c, f) /\ Read(r2, c, f)
  BY <1>1 DEF Told, Read
<1> QED BY <1>1, <1>2, <1>3, <1>4 DEF After, RowTold

\* What a star reads, binds and needs.
LEMMA StarParts ==
    ASSUME NEW c, IsStar(c)
    PROVE  /\ Binds(c) = StarBinds(c) /\ StarNeeds(c) \subseteq Needs(c)
           /\ "each" \in DOMAIN c /\ c.each \in Variable => c.each \in Needs(c)
           /\ \A q \in Reads(c) :
                 \/ \E i \in DOMAIN c.constrains : q = <<c.v, c.constrains[i][1], c.constrains[i][2]>>
                 \/ \E i \in DOMAIN c.projections : q = <<c.v, c.projections[i][1], c.projections[i][2]>>
                 \/ "each" \in DOMAIN c /\ q = <<c.v, Anything, c.each>>
           /\ \A i \in DOMAIN c.constrains : <<c.v, c.constrains[i][1], c.constrains[i][2]>> \in Reads(c)
           /\ \A i \in DOMAIN c.projections : <<c.v, c.projections[i][1], c.projections[i][2]>> \in Reads(c)
<1>1. /\ c.call = "TriplePatern" /\ c.call \notin {"type", "not in GetSubjects"}
      /\ c.call \notin {"list", "type", "not in GetSubjects"}
      /\ c.call # "GetObjects" /\ c.call # "list" /\ c.call # "type" /\ c.call # "not in GetSubjects"
  BY DEF IsStar
<1>2. Binds(c) = StarBinds(c)
  BY <1>1 DEF Binds, StarBinds
<1>3. Needs(c) = Variable \cap
          (Terms(c.constrains) \cup Terms(c.optional) \cup {c.projections[i][1] : i \in DOMAIN c.projections}
           \cup (IF "each" \in DOMAIN c THEN {c.each} ELSE {}))
  BY <1>1 DEF Needs
<1>4. Reads(c) = {<<c.v, c.constrains[i][1], c.constrains[i][2]>> : i \in DOMAIN c.constrains}
           \cup {<<c.v, c.projections[i][1], c.projections[i][2]>> : i \in DOMAIN c.projections}
           \cup (IF "each" \in DOMAIN c THEN {<<c.v, Anything, c.each>>} ELSE {})
  BY <1>1 DEF Reads
<1>5. StarNeeds(c) \subseteq Needs(c) /\ ("each" \in DOMAIN c /\ c.each \in Variable => c.each \in Needs(c))
  BY <1>3 DEF StarNeeds
<1> QED BY <1>2, <1>4, <1>5

\* TriplePatern as a call of a plan.
LEMMA StarAfter ==
    ASSUME Loaded, NEW V, NEW f, NEW rs, NEW c, IsStar(c), "each" \notin DOMAIN c, Given(V, f, rs, c),
           NEW r \in rs, NEW r2 \in StarOf(r, c, <<>>, f)
    PROVE  After(V, f, rs, c, r2)
<1>0. V \subseteq Bindable /\ Known \subseteq V /\ IsRow(r, V, f) /\ Needs(c) \subseteq DOMAIN r.at
  BY DEF Given
<1>1. <<>> \in Seq(Pattern)
  OBVIOUS
<1>2. IsRow(r2, V, f) /\ Grew(r, r2, Binds(c)) /\ StarRead(r2, c, f)
  <2>1. Binds(c) = StarBinds(c) /\ StarNeeds(c) \subseteq Needs(c)
    BY StarParts
  <2>2. IsRow(r2, V, f) /\ Grew(r, r2, StarBinds(c))
    BY <1>0, <1>1, StarSound
  <2>3. StarRead(r2, c, f)
    BY <1>0, <1>1, <2>1, StarSound
  <2> QED BY <2>1, <2>2, <2>3
<1>3. ASSUME NEW q \in Reads(c) PROVE Meets(r2.at, q, f \cap r2.prov)
  <2>1. \/ \E i \in DOMAIN c.constrains : q = <<c.v, c.constrains[i][1], c.constrains[i][2]>>
        \/ \E i \in DOMAIN c.projections : q = <<c.v, c.projections[i][1], c.projections[i][2]>>
    BY StarParts
  <2> QED BY <1>2, <2>1 DEF StarRead
<1>4. \A q \in Reads(c) : Meets(r2.at, q, f)
  BY <1>3 DEF Meets, Quads
<1>5. c.call # "list" /\ c.call # "type"
  BY DEF IsStar
<1>6. Told(r2.at, c, f) /\ Read(r2, c, f)
  BY <1>3, <1>4, <1>5 DEF Told, Read
<1> QED BY <1>0, <1>2, <1>6 DEF After, RowTold, Grew

\* The constraints made of all rows: one for every value of call.each.
LEMMA LinkedIs ==
    ASSUME NEW V, NEW f, NEW rs, NEW c, Given(V, f, rs, c), IsStar(c), "each" \in DOMAIN c, c.each \in Variable
    PROVE  /\ Linked(rs, c) \in Seq(Pattern)
           /\ \A r \in rs : \E i \in DOMAIN Linked(rs, c) :
                 /\ Linked(rs, c)[i].prov = 0 /\ Linked(rs, c)[i].predicate = Any
                 /\ Linked(rs, c)[i].object = r.at[c.each]
           /\ rs = {} /\ c.guarded => \E i \in DOMAIN Linked(rs, c) :
                 Linked(rs, c)[i].prov = 0 /\ Linked(rs, c)[i].object = NoKey
<1> DEFINE S == {r.at[c.each] : r \in rs}
           values == Seqs!SetToSeq(S)
           each == [i \in DOMAIN values |-> PatternOf(StartRow, c.v, Anything, values[i], 0)]
           none == <<PatternOf(StartRow, c.v, NoKey, NoKey, 0)>>
<1>1. V \subseteq Bindable /\ IsFiniteSet(V) /\ S \subseteq V
  <2>1. c.each \in Needs(c)
    BY StarParts
  <2> QED BY <2>1 DEF Given, IsRow
<1>2. values \in Seq(S) /\ \A x \in S : \E i \in DOMAIN values : values[i] = x
  <2>1. IsFiniteSet(S)
    BY <1>1, FS_Subset
  <2> HIDE DEF S
  <2> QED BY <2>1, ListOfSet
<1>3. Linked(rs, c) = IF values = <<>> /\ c.guarded THEN none ELSE each
  BY DEF Linked
<1> HIDE DEF values
<1>4. IsRow(StartRow, V, f) /\ DOMAIN StartRow.at = {}
  BY DEF IsRow, StartRow
<1>5. \A p : \A o \in Key \cup {NoKey, Any} : PatternOf(StartRow, c.v, p, o, 0) \in Pattern
  BY <1>1, <1>4, PatternType
<1>6. \A i \in DOMAIN values : values[i] \in Key \cup {NoKey, Any}
  <2>1. \A i \in DOMAIN values : values[i] \in S
    BY <1>2
  <2> HIDE DEF S
  <2> QED BY <1>1, <2>1 DEF Bindable
<1>7. each \in Seq(Pattern) /\ DOMAIN each = DOMAIN values
  <2>1. Len(values) \in Nat /\ DOMAIN values = 1..Len(values)
    BY <1>2
  <2>2. each \in [1..Len(values) -> Pattern]
    BY <1>5, <1>6, <2>1
  <2> QED BY <2>1, <2>2, FunctionIsSeq
<1>8. none \in Seq(Pattern) /\ 1 \in DOMAIN none /\ none[1].prov = 0 /\ none[1].object = NoKey
  <2>1. PatternOf(StartRow, c.v, NoKey, NoKey, 0) \in Pattern
    BY <1>5
  <2>2. none[1] = PatternOf(StartRow, c.v, NoKey, NoKey, 0) /\ 1 \in DOMAIN none
    OBVIOUS
  <2> QED BY <2>1, <2>2 DEF PatternOf
<1>9. \A i \in DOMAIN each : each[i].prov = 0 /\ each[i].predicate = Any /\ each[i].object = values[i]
  <2>1. Value(StartRow, Anything) = Any
    BY DEF Value
  <2> QED BY <2>1 DEF PatternOf
<1>10. Linked(rs, c) \in Seq(Pattern)
  BY <1>3, <1>7, <1>8
<1>11. ASSUME NEW r \in rs
       PROVE  \E i \in DOMAIN Linked(rs, c) :
                 /\ Linked(rs, c)[i].prov = 0 /\ Linked(rs, c)[i].predicate = Any
                 /\ Linked(rs, c)[i].object = r.at[c.each]
  <2>1. PICK i \in DOMAIN values : values[i] = r.at[c.each]
    BY <1>2
  <2>2. values # <<>>
    BY <2>1
  <2>3. Linked(rs, c) = each
    BY <1>3, <2>2
  <2> HIDE DEF each
  <2> QED BY <1>7, <1>9, <2>1, <2>3
<1>12. ASSUME rs = {}, c.guarded
       PROVE  \E i \in DOMAIN Linked(rs, c) : Linked(rs, c)[i].prov = 0 /\ Linked(rs, c)[i].object = NoKey
  <2>1. S = {}
    BY <1>12
  <2>2. values = <<>>
    <3>1. values \in Seq({})
      BY <1>2, <2>1
    <3>2. Len(values) \in Nat /\ \A i \in 1..Len(values) : values[i] \in {}
      BY <3>1
    <3>3. Len(values) = 0
      BY <3>2
    <3> QED BY <3>1, <3>3
  <2>3. Linked(rs, c) = none
    BY <1>3, <1>12, <2>2
  <2> HIDE DEF none
  <2> QED BY <1>8, <2>3
<1> QED BY <1>10, <1>11, <1>12

\* TriplePatern for all the rows at once: each row met the value that is its own.
LEMMA StarOfAllAfter ==
    ASSUME Loaded, NEW V, NEW f, NEW rs, NEW c, Given(V, f, rs, c), IsStar(c),
           "each" \in DOMAIN c, c.each \in Variable,
           NEW r \in IF rs = {} THEN {StartRow} ELSE rs,
           NEW r2 \in StarOf(r, c, Linked(rs, c), f)
    PROVE  After(V, f, rs, c, r2)
<1> DEFINE linked == Linked(rs, c)
<1>1. V \subseteq Bindable /\ Known \subseteq V /\ \A x \in rs : IsRow(x, V, f) /\ Needs(c) \subseteq DOMAIN x.at
  BY DEF Given
<1>2. IsRow(StartRow, V, f)
  BY DEF IsRow, StartRow
<1>3. IsRow(r, V, f)
  BY <1>1, <1>2
<1>4. linked \in Seq(Pattern)
  BY LinkedIs
<1>5. Binds(c) = StarBinds(c) /\ StarNeeds(c) \subseteq Needs(c) /\ c.each \in Needs(c)
  BY StarParts
<1> HIDE DEF linked
<1>6. r2 \in StarOf(r, c, linked, f)
  BY DEF linked
<1>7. IsRow(r2, V, f) /\ Grew(r, r2, StarBinds(c)) /\ StarLinked(r2, c, linked, f)
  BY <1>1, <1>3, <1>4, <1>6, StarSound
<1>8. Binds(c) \subseteq DOMAIN r2.at
  BY <1>5, <1>7 DEF Grew
<1>9. ASSUME ~Restarts(c) PROVE \E x \in rs : Grew(x, r2, Binds(c)) /\ RowTold(r2, c, f)
  <2>1. c.guarded
    BY <1>9 DEF Restarts
  <2>2. rs # {}
    <3>1. SUFFICES ASSUME rs = {} PROVE FALSE
      OBVIOUS
    <3>2. PICK i \in DOMAIN linked : linked[i].prov = 0 /\ linked[i].object = NoKey
      BY <2>1, <3>1, LinkedIs DEF linked
    <3>3. PICK q \in FoundFor(r2.at[c.v], linked[i], f) : TRUE
      BY <1>7, <3>2 DEF StarLinked
    <3>4. q.object \in Key /\ NoKey \in {Any, q.object}
      BY <3>2, <3>3, QuadKeys DEF FoundFor, Found
    <3> QED BY <3>4, KeyAssumption, AnyAssumption
  <2>3. r \in rs /\ Needs(c) \subseteq DOMAIN r.at
    BY <1>1, <2>2
  <2>4. StarRead(r2, c, f)
    BY <1>1, <1>3, <1>4, <1>5, <1>6, <2>3, StarSound
  <2>5. Meets(r2.at, <<c.v, Anything, c.each>>, f \cap r2.prov)
    <3>1. PICK i \in DOMAIN linked : linked[i].prov = 0 /\ linked[i].object = r.at[c.each]
      BY <2>3, LinkedIs DEF linked
    <3>2. PICK q \in FoundFor(r2.at[c.v], linked[i], f) : q.prov \in r2.prov
      BY <1>7, <3>1 DEF StarLinked
    <3>3. q \in Quads(f) /\ q.subject = r2.at[c.v] /\ r.at[c.each] \in {Any, q.object}
      BY <3>1, <3>2 DEF FoundFor, Found
    <3>4. r.at[c.each] \in Bindable
      BY <1>1, <1>3, <1>5, <2>3 DEF IsRow
    <3>5. r2.at[c.each] = q.object
      BY <1>5, <1>7, <2>3, <3>3, <3>4, AnyAssumption DEF Bindable, Grew
    <3>6. q \in Quads(f \cap r2.prov)
      BY <3>2, <3>3 DEF Quads
    <3>7. /\ Fits(r2.at, c.v, q.subject) /\ Fits(r2.at, Anything, q.predicate)
          /\ Fits(r2.at, c.each, q.object)
      BY <3>3, <3>5, AnythingIsNoVariable DEF Fits, IsStar
    <3> QED BY <3>6, <3>7 DEF Meets
  <2>6. ASSUME NEW q \in Reads(c) PROVE Meets(r2.at, q, f \cap r2.prov)
    <3>1. \/ \E i \in DOMAIN c.constrains : q = <<c.v, c.constrains[i][1], c.constrains[i][2]>>
          \/ \E i \in DOMAIN c.projections : q = <<c.v, c.projections[i][1], c.projections[i][2]>>
          \/ q = <<c.v, Anything, c.each>>
      BY StarParts
    <3> QED BY <2>4, <2>5, <3>1 DEF StarRead
  <2>7. \A q \in Reads(c) : Meets(r2.at, q, f)
    BY <2>6 DEF Meets, Quads
  <2>8. c.call # "list" /\ c.call # "type"
    BY DEF IsStar
  <2>9. Told(r2.at, c, f) /\ Read(r2, c, f)
    BY <2>6, <2>7, <2>8 DEF Told, Read
  <2>10. Grew(r, r2, Binds(c)) /\ Binds(c) \cup Needs(c) \subseteq DOMAIN r2.at
    BY <1>5, <1>7, <2>3 DEF Grew
  <2> QED BY <2>3, <2>9, <2>10 DEF RowTold
<1> QED BY <1>7, <1>8, <1>9 DEF After

\* A row after any call met what the call asks for.
LEMMA CallSound ==
    ASSUME Loaded, NEW V, NEW f, NEW rs, NEW c \in Call, Given(V, f, rs, c), NEW lead,
           NEW r2 \in RowsAfter(rs, c, f, lead)
    PROVE  After(V, f, rs, c, r2)
<1>1. CASE c \in SubjectCall /\ c.call \in SubjectCalls
  <2>1. c.call # "GetObjects" /\ c.call # "list" /\ c.call # "type" /\ c.call # "TriplePatern"
    BY <1>1 DEF SubjectCalls
  <2>2. RowsAfter(rs, c, f, lead) = UNION {SubjectsOf(r, c, f, lead) : r \in rs}
    BY <2>1 DEF RowsAfter
  <2>3. PICK r \in rs : r2 \in SubjectsOf(r, c, f, lead)
    BY <2>2
  <2> QED BY <1>1, <2>3, SubjectsAfter
<1>2. CASE c \in ObjectCall /\ c.call = "GetObjects"
  <2>1. RowsAfter(rs, c, f, lead) = UNION {ObjectsOf(r, c, f) : r \in rs}
    BY <1>2 DEF RowsAfter
  <2>2. PICK r \in rs : r2 \in ObjectsOf(r, c, f)
    BY <2>1
  <2> QED BY <1>2, <2>2, ObjectsAfter
<1>3. CASE c.call = "list" /\ "each" \notin DOMAIN c
  <2>0. c.call # "GetObjects"
    BY <1>3
  <2>1. RowsAfter(rs, c, f, lead) = UNION {Extend(r, c.v, {Get(u) : u \in c.uris}, {}) : r \in rs}
    BY <1>3, <2>0 DEF RowsAfter
  <2>2. PICK r \in rs : r2 \in Extend(r, c.v, {Get(u) : u \in c.uris}, {})
    BY <2>1
  <2> QED BY <1>3, <2>2, ListAfter, CallKinds
<1>4. CASE c.call = "type"
  <2>0. c.call # "GetObjects" /\ c.call # "list"
    BY <1>4
  <2>1. RowsAfter(rs, c, f, lead) = {r \in rs : TypeOf[r.at[c.v]] = GetType(Get(c.uri))}
    BY <1>4, <2>0 DEF RowsAfter
  <2> QED BY <1>4, <2>1, TypeAfter, CallKinds
<1>5. ASSUME c.call = "TriplePatern"
      PROVE  RowsAfter(rs, c, f, lead) =
                UNION {StarOf(r, c, IF "each" \in DOMAIN c THEN Linked(rs, c) ELSE <<>>, f) :
                          r \in IF "each" \in DOMAIN c /\ rs = {} THEN {StartRow} ELSE rs}
  <2>1. c.call # "GetObjects" /\ c.call # "list" /\ c.call # "type"
    BY <1>5
  <2> QED BY <1>5, <2>1 DEF RowsAfter
<1>6. CASE c.call = "TriplePatern" /\ IsStar(c) /\ "each" \notin DOMAIN c
  <2>1. PICK r \in rs : r2 \in StarOf(r, c, <<>>, f)
    BY <1>5, <1>6
  <2> QED BY <1>6, <2>1, StarAfter
<1>7. CASE c.call = "TriplePatern" /\ IsStar(c) /\ "each" \in DOMAIN c /\ c.each \in Variable
  <2>1. PICK r \in IF rs = {} THEN {StartRow} ELSE rs : r2 \in StarOf(r, c, Linked(rs, c), f)
    BY <1>5, <1>7
  <2> QED BY <1>7, <2>1, StarOfAllAfter
<1> QED BY <1>1, <1>2, <1>3, <1>4, <1>6, <1>7, CallKinds

\* A call that looks up every row for itself, where the variables of D are bound.
IsPlainCall(c, D) ==
    /\ c.call # "not in GetSubjects" /\ "each" \notin DOMAIN c
    /\ c.call \in SubjectCalls => c.o # Anything
    /\ c.call = "GetObjects" => c.s # Anything
    /\ c.call = "TriplePatern" => /\ c.constrains # <<>>
                                  /\ c.constrains[1][2] = Anything => c.v \in D

\* Bindings that meet a plain call have a row after it.
LEMMA CallHas ==
    ASSUME Loaded, NEW V, NEW f, NEW rs, NEW c \in Call, Given(V, f, rs, c), NEW lead,
           NEW b, NEW D, HasRow(rs, V, f, b, D), IsPlainCall(c, D), Told(b, c, f)
    PROVE  HasRow(RowsAfter(rs, c, f, lead), V, f, b, D \cup Binds(c))
<1>1. PICK r \in rs : IsRow(r, V, f) /\ r.at = On(b, D)
  BY DEF HasRow
<1>2. V \subseteq Bindable /\ Known \subseteq V /\ Needs(c) \subseteq DOMAIN r.at /\ DOMAIN r.at = D
  BY <1>1 DEF Given, On
<1>3. CASE c \in SubjectCall /\ c.call \in SubjectCalls
  <2>1. /\ c.call # "GetObjects" /\ c.call # "list" /\ c.call # "type" /\ c.call # "TriplePatern"
        /\ c.call \notin {"type", "not in GetSubjects"} /\ c.call \notin {"list", "type", "not in GetSubjects"}
        /\ c.call # "not in GetSubjects"
    BY <1>3 DEF SubjectCalls, IsPlainCall
  <2>2. RowsAfter(rs, c, f, lead) = UNION {SubjectsOf(x, c, f, lead) : x \in rs}
    BY <2>1 DEF RowsAfter
  <2>3. Binds(c) = {c.v} /\ Needs(c) = Variable \cap {c.p, c.o} /\ Reads(c) = {<<c.v, c.p, c.o>>}
    <3>1. Binds(c) = {c.v}
      BY <2>1 DEF Binds
    <3>2. Needs(c) = Variable \cap {c.p, c.o}
      BY <2>1 DEF Needs
    <3>3. Reads(c) = {<<c.v, c.p, c.o>>}
      BY <2>1 DEF Reads
    <3> QED BY <3>1, <3>2, <3>3
  <2>4. c.o # Anything /\ Meets(b, <<c.v, c.p, c.o>>, f)
    BY <1>3, <2>3 DEF IsPlainCall, Told
  <2>5. HasRow(SubjectsOf(r, c, f, lead), V, f, b, D \cup {c.v})
    BY <1>1, <1>2, <1>3, <2>1, <2>3, <2>4, SubjectsHas
  <2> QED BY <2>2, <2>3, <2>5 DEF HasRow
<1>4. CASE c \in ObjectCall /\ c.call = "GetObjects"
  <2>1. RowsAfter(rs, c, f, lead) = UNION {ObjectsOf(x, c, f) : x \in rs}
    BY <1>4 DEF RowsAfter
  <2>2. Binds(c) = {c.v} /\ Needs(c) = Variable \cap {c.s, c.p} /\ Reads(c) = {<<c.s, c.p, c.v>>}
    BY <1>4 DEF Binds, Reads, Needs
  <2>3. c.s # Anything /\ Meets(b, <<c.s, c.p, c.v>>, f)
    BY <1>4, <2>2 DEF IsPlainCall, Told
  <2>4. HasRow(ObjectsOf(r, c, f), V, f, b, D \cup {c.v})
    BY <1>1, <1>2, <1>4, <2>2, <2>3, ObjectsHas
  <2> QED BY <2>1, <2>2, <2>4 DEF HasRow
<1>5. CASE c.call = "list"
  <2>0. c.call # "GetObjects" /\ c.call \notin {"type", "not in GetSubjects"} /\ c.call # "TriplePatern"
    BY <1>5
  <2> DEFINE keys == {Get(u) : u \in c.uris}
  <2>1. RowsAfter(rs, c, f, lead) = UNION {Extend(x, c.v, keys, {}) : x \in rs}
    BY <1>5, <2>0 DEF RowsAfter
  <2>2. Binds(c) = {c.v}
    BY <2>0 DEF Binds
  <2>3. Extensible(V, f, r, c.v, keys, {}, b, D)
    BY <1>1, <1>5, CallKinds DEF Extensible, Given, Told
  <2> HIDE DEF keys
  <2>4. HasRow(Extend(r, c.v, keys, {}), V, f, b, D \cup {c.v})
    BY <2>3, ExtendHas
  <2> QED BY <1>1, <2>1, <2>2, <2>4 DEF HasRow
<1>6. CASE c.call = "type"
  <2>0. c.call # "GetObjects" /\ c.call # "list" /\ c.call \in {"type", "not in GetSubjects"}
    BY <1>6
  <2>1. RowsAfter(rs, c, f, lead) = {x \in rs : TypeOf[x.at[c.v]] = GetType(Get(c.uri))}
    BY <1>6, <2>0 DEF RowsAfter
  <2>2. Binds(c) = {} /\ c.v \in D
    BY <1>2, <1>6, <2>0, CallKinds DEF Binds, Needs
  <2>3. r.at[c.v] = b[c.v]
    BY <1>1, <2>2 DEF On
  <2>4. r \in RowsAfter(rs, c, f, lead)
    BY <1>1, <1>6, <2>1, <2>3 DEF Told
  <2>5. D \cup Binds(c) = D
    BY <2>2
  <2> QED BY <1>1, <2>4, <2>5 DEF HasRow
<1>7. CASE c.call = "TriplePatern" /\ IsStar(c)
  <2>0. c.call # "GetObjects" /\ c.call # "list" /\ c.call # "type" /\ "each" \notin DOMAIN c
    BY <1>7 DEF IsPlainCall
  <2>1. RowsAfter(rs, c, f, lead) = UNION {StarOf(x, c, <<>>, f) : x \in rs}
    BY <1>7, <2>0 DEF RowsAfter
  <2>2. Binds(c) = StarBinds(c) /\ StarNeeds(c) \subseteq D
    BY <1>2, <1>7, StarParts
  <2>3. StarMet(b, c, f)
    <3>1. /\ \A i \in DOMAIN c.constrains : <<c.v, c.constrains[i][1], c.constrains[i][2]>> \in Reads(c)
          /\ \A i \in DOMAIN c.projections : <<c.v, c.projections[i][1], c.projections[i][2]>> \in Reads(c)
      BY <1>7, StarParts
    <3> QED BY <3>1 DEF StarMet, Told
  <2>4. c.constrains # <<>> /\ (c.constrains[1][2] = Anything => c.v \in D)
    BY <1>7 DEF IsPlainCall
  <2>5. HasRow(StarOf(r, c, <<>>, f), V, f, b, D \cup StarBinds(c))
    BY <1>1, <1>2, <1>7, <2>2, <2>3, <2>4, StarHas
  <2> QED BY <1>1, <2>1, <2>2, <2>5 DEF HasRow
<1> QED BY <1>3, <1>4, <1>5, <1>6, <1>7, CallKinds

-----------------------------------------------------------------------------
(* The calls of a plan, one after the other *)

\* Every variable of what a call reads is one it binds, or needs bound.
LEMMA ReadVariables ==
    ASSUME NEW c \in Call, NEW q \in Reads(c), NEW j \in 1..3, q[j] \in Variable
    PROVE  q[j] \in Binds(c) \cup Needs(c)
<1>0. j = 1 \/ j = 2 \/ j = 3
  OBVIOUS
<1>1. CASE c \in SubjectCall /\ c.call \in SubjectCalls
  <2>1. CASE c.call = "not in GetSubjects"
    BY <2>1 DEF Reads
  <2>2. CASE c.call # "not in GetSubjects"
    <3>1. /\ c.call # "GetObjects" /\ c.call # "list" /\ c.call # "type" /\ c.call # "TriplePatern"
          /\ c.call \notin {"type", "not in GetSubjects"} /\ c.call \notin {"list", "type", "not in GetSubjects"}
      BY <1>1, <2>2 DEF SubjectCalls
    <3>2. Binds(c) = {c.v}
      BY <3>1 DEF Binds
    <3>3. Needs(c) = Variable \cap {c.p, c.o}
      BY <3>1, <2>2 DEF Needs
    <3>4. q = <<c.v, c.p, c.o>>
      BY <3>1 DEF Reads
    <3>5. q[1] = c.v /\ q[2] = c.p /\ q[3] = c.o
      BY <3>4
    <3> QED BY <1>0, <3>2, <3>3, <3>5
  <2> QED BY <2>1, <2>2
<1>2. CASE c \in ObjectCall /\ c.call = "GetObjects"
  <2>1. Binds(c) = {c.v} /\ Needs(c) = Variable \cap {c.s, c.p} /\ q = <<c.s, c.p, c.v>>
    BY <1>2 DEF Binds, Reads, Needs
  <2>2. q[1] = c.s /\ q[2] = c.p /\ q[3] = c.v
    BY <2>1
  <2> QED BY <1>0, <2>1, <2>2
<1>3. CASE c.call = "list" \/ c.call = "type"
  <2>1. c.call # "GetObjects" /\ c.call \in {"list", "type", "not in GetSubjects"}
    BY <1>3
  <2> QED BY <2>1 DEF Reads
<1>4. CASE c.call = "TriplePatern" /\ IsStar(c) /\ ("each" \in DOMAIN c => c.each \in Variable)
  <2>1. Binds(c) = StarBinds(c) /\ StarNeeds(c) \subseteq Needs(c)
        /\ ("each" \in DOMAIN c => c.each \in Needs(c))
    BY <1>4, StarParts
  <2>2. CASE \E i \in DOMAIN c.constrains : q = <<c.v, c.constrains[i][1], c.constrains[i][2]>>
    <3>1. PICK i \in DOMAIN c.constrains : q = <<c.v, c.constrains[i][1], c.constrains[i][2]>>
      BY <2>2
    <3>2. q[1] = c.v /\ q[2] = c.constrains[i][1] /\ q[3] = c.constrains[i][2]
      BY <3>1
    <3>3. c.constrains[i][1] \in Terms(c.constrains) /\ c.constrains[i][2] \in Terms(c.constrains)
      BY DEF Terms
    <3> QED BY <1>0, <2>1, <3>2, <3>3 DEF StarBinds, StarNeeds
  <2>3. CASE \E i \in DOMAIN c.projections : q = <<c.v, c.projections[i][1], c.projections[i][2]>>
    <3>1. PICK i \in DOMAIN c.projections : q = <<c.v, c.projections[i][1], c.projections[i][2]>>
      BY <2>3
    <3>2. q[1] = c.v /\ q[2] = c.projections[i][1] /\ q[3] = c.projections[i][2]
      BY <3>1
    <3> QED BY <1>0, <2>1, <3>2 DEF StarBinds, StarNeeds
  <2>4. CASE "each" \in DOMAIN c /\ q = <<c.v, Anything, c.each>>
    <3>1. q[1] = c.v /\ q[2] = Anything /\ q[3] = c.each
      BY <2>4
    <3> QED BY <1>0, <2>1, <2>4, <3>1, AnythingIsNoVariable DEF StarBinds
  <2> QED BY <1>4, <2>2, <2>3, <2>4, StarParts
<1> QED BY <1>1, <1>2, <1>3, <1>4, CallKinds

\* What was met stays met as the row grows.
LEMMA MeetsGrown ==
    ASSUME NEW r, NEW r2, NEW vs, Grew(r, r2, vs), NEW q, NEW f, NEW g, f \subseteq g,
           \A j \in 1..3 : q[j] \in Variable => q[j] \in DOMAIN r.at, Meets(r.at, q, f)
    PROVE  Meets(r2.at, q, g)
<1>1. PICK d \in Quads(f) : /\ Fits(r.at, q[1], d.subject) /\ Fits(r.at, q[2], d.predicate)
                            /\ Fits(r.at, q[3], d.object)
  BY DEF Meets
<1>2. d \in Quads(g)
  BY <1>1 DEF Quads
<1>3. /\ q[1] \in Variable => q[1] \in DOMAIN r.at
      /\ q[2] \in Variable => q[2] \in DOMAIN r.at
      /\ q[3] \in Variable => q[3] \in DOMAIN r.at
  OBVIOUS
<1>4. Fits(r2.at, q[1], d.subject)
  BY <1>1, <1>3, FitsGrown
<1>5. Fits(r2.at, q[2], d.predicate)
  BY <1>1, <1>3, FitsGrown
<1>6. Fits(r2.at, q[3], d.object)
  BY <1>1, <1>3, FitsGrown
<1> QED BY <1>2, <1>4, <1>5, <1>6 DEF Meets

\* What a row was told stays true as it grows.
LEMMA ToldGrown ==
    ASSUME NEW r, NEW r2, NEW vs, Grew(r, r2, vs), NEW c \in Call, NEW f, RowTold(r, c, f)
    PROVE  RowTold(r2, c, f)
<1>1. \A q \in Reads(c) : \A j \in 1..3 : q[j] \in Variable => q[j] \in DOMAIN r.at
  BY ReadVariables DEF RowTold
<1>2. ASSUME NEW q \in Reads(c)
      PROVE  Meets(r2.at, q, f) /\ (Shows(c) => Meets(r2.at, q, f \cap r2.prov))
  <2>1. \A j \in 1..3 : q[j] \in Variable => q[j] \in DOMAIN r.at
    BY <1>1
  <2>2. Meets(r.at, q, f) /\ (Shows(c) => Meets(r.at, q, f \cap r.prov))
    BY DEF RowTold, Read
  <2>3. f \subseteq f /\ f \cap r.prov \subseteq f \cap r2.prov
    BY DEF Grew
  <2>4. Meets(r2.at, q, f)
    BY <2>1, <2>2, <2>3, MeetsGrown
  <2>5. ASSUME Shows(c) PROVE Meets(r2.at, q, f \cap r2.prov)
    BY <2>1, <2>2, <2>3, <2>5, MeetsGrown
  <2> QED BY <2>4, <2>5
<1>3. Binds(c) \cup Needs(c) \subseteq DOMAIN r.at /\ Binds(c) \cup Needs(c) \subseteq DOMAIN r2.at
  BY DEF RowTold, Grew
<1>4. c.call = "list" => r2.at[c.v] \in {Get(u) : u \in c.uris}
  <2>1. ASSUME c.call = "list" PROVE c.v \in DOMAIN r.at
    <3>1. c.call \notin {"type", "not in GetSubjects"} /\ c.call # "TriplePatern"
      BY <2>1
    <3> QED BY <1>3, <3>1 DEF Binds
  <2> QED BY <2>1 DEF RowTold, Told, Grew
<1>5. c.call = "type" => TypeOf[r2.at[c.v]] = GetType(Get(c.uri))
  <2>1. ASSUME c.call = "type" PROVE c.v \in DOMAIN r.at
    <3>1. c.call # "GetObjects" /\ c.call # "list" /\ c.v \in Variable
      BY <2>1, CallKinds
    <3> QED BY <1>3, <2>1, <3>1 DEF Needs
  <2> QED BY <2>1 DEF RowTold, Told, Grew
<1> QED BY <1>2, <1>3, <1>4, <1>5 DEF RowTold, Told, Read

-----------------------------------------------------------------------------
(* RunSteps *)

RanBy(steps, f, lead, g) ==
    /\ g[0] = {StartRow}
    /\ \A i \in 1..Len(steps) : g[i] = RowsAfter(g[i - 1], steps[i], f, lead)

\* The rows after the first n calls, for every n.
LEMMA RunStepsIs ==
    ASSUME NEW steps, Len(steps) \in Nat, NEW f, NEW lead
    PROVE  \E g : RanBy(steps, f, lead, g) /\ RunSteps(steps, f, lead) = g[Len(steps)]
<1> DEFINE Step(S, i) == RowsAfter(S, steps[i], f, lead)
           Body(g, i) == IF i = 0 THEN {StartRow} ELSE Step(g[i - 1], i)
           Solves(g, n) == g = [i \in 0..n |-> Body(g, i)]
           Good == {n \in Nat : \E g : Solves(g, n)}
<1> HIDE DEF Step
<1>1. 0 \in Good
  <2>1. Solves([i \in 0..0 |-> {StartRow}], 0)
    OBVIOUS
  <2> QED BY <2>1
<1>2. ASSUME NEW n \in Nat, n \in Good PROVE n + 1 \in Good
  <2>1. PICK g : Solves(g, n)
    BY <1>2
  <2> DEFINE h == [i \in 0..(n + 1) |-> IF i = n + 1 THEN Step(g[n], n + 1) ELSE g[i]]
  <2>2. \A i \in 0..n : g[i] = Body(g, i)
    <3> HIDE DEF Body
    <3> QED BY <2>1
  <2>3. ASSUME NEW i \in 0..(n + 1) PROVE h[i] = Body(h, i)
    <3>1. CASE i = n + 1
      BY <3>1
    <3>2. CASE i # n + 1
      <4>1. i \in 0..n /\ (i # 0 => i - 1 \in 0..n /\ i - 1 # n + 1)
        BY <3>2
      <4>2. h[i] = g[i] /\ (i # 0 => h[i - 1] = g[i - 1])
        BY <4>1
      <4> HIDE DEF h
      <4> QED BY <4>1, <4>2, <2>2
    <3> QED BY <3>1, <3>2
  <2>4. Solves(h, n + 1)
    <3>1. h = [i \in 0..(n + 1) |-> h[i]]
      OBVIOUS
    <3> HIDE DEF h, Body
    <3> QED BY <2>3, <3>1
  <2> HIDE DEF Solves, h
  <2> QED BY <2>4
<1>3. Len(steps) \in Good
  <2> HIDE DEF Good
  <2> QED BY <1>1, <1>2, SetInduction
<1> DEFINE w == CHOOSE g : Solves(g, Len(steps))
<1>4. Solves(w, Len(steps))
  <2> HIDE DEF Solves
  <2> QED BY <1>3
<1>5. RunSteps(steps, f, lead) = w[Len(steps)]
  BY DEF RunSteps, Step
<1> HIDE DEF w
<1>6. \A i \in 0..Len(steps) : w[i] = Body(w, i)
  <2> HIDE DEF Body
  <2> QED BY <1>4
<1>7. RanBy(steps, f, lead, w)
  <2>1. w[0] = {StartRow}
    BY <1>6
  <2>2. \A i \in 1..Len(steps) : w[i] = Step(w[i - 1], i)
    BY <1>6
  <2> QED BY <2>1, <2>2 DEF RanBy, Step
<1> QED BY <1>5, <1>7

\* The keys the rows of a plan can hold.
UrisOf(c) == IF c.call = "list" THEN c.uris ELSE {}

Held(s) == Known \cup {NoKey} \cup (Key \cap UNION {UrisOf(s[i]) : i \in DOMAIN s})

\* A plan's calls, as CatalogueAssumption has them.
IsSteps(s) ==
    /\ s \in Seq(Call)
    /\ \A i \in DOMAIN s : /\ Needs(s[i]) \subseteq Bound(s, i - 1)
                           /\ s[i].call = "list" => IsFiniteSet(s[i].uris)

\* A set with a value for each element of a finite set is finite.
LEMMA FiniteRange ==
    ASSUME NEW f, IsFiniteSet(DOMAIN f), f = [x \in DOMAIN f |-> f[x]]
    PROVE  IsFiniteSet({f[x] : x \in DOMAIN f})
<1> DEFINE T == {f[x] : x \in DOMAIN f}
<1>1. f \in [DOMAIN f -> T] /\ \A t \in T : \E x \in DOMAIN f : f[x] = t
  OBVIOUS
<1> HIDE DEF T
<1>2. f \in Surjection(DOMAIN f, T)
  BY <1>1 DEF Surjection
<1>3. IsFiniteSet(T)
  BY <1>2, FS_Surjection
<1> QED BY <1>3 DEF T

\* A file has finitely many keys.
LEMMA KnownFinite == ASSUME Loaded PROVE IsFiniteSet(Known) /\ Known \subseteq Key
<1> DEFINE I == Instances(Len(triples))
           subjects == [q \in I |-> q.subject]
           objects == [q \in I |-> q.object]
<1>1. IsFiniteSet(I)
  <2> DEFINE lines == {i \in 1..Len(triples) : TypeOf[triples[i].subject] >= 2}
             at == [i \in lines |-> triples[i]]
  <2>1. IsFiniteSet(1..Len(triples))
    <3>1. Len(triples) \in Nat
      BY InputLines DEF Loaded, IInv, TypeOK
    <3> QED BY <3>1, FS_Interval
  <2>2. IsFiniteSet(lines)
    BY <2>1, FS_Subset
  <2>3. IsFiniteSet({at[i] : i \in DOMAIN at})
    BY <2>2, FiniteRange
  <2>4. I = {at[i] : i \in DOMAIN at}
    BY DEF Instances
  <2> QED BY <2>3, <2>4
<1>2. IsFiniteSet({subjects[q] : q \in DOMAIN subjects})
  BY <1>1, FiniteRange
<1>3. IsFiniteSet({objects[q] : q \in DOMAIN objects})
  BY <1>1, FiniteRange
<1>4. Known = {subjects[q] : q \in DOMAIN subjects} \cup {objects[q] : q \in DOMAIN objects}
  BY DEF Known
<1>5. Known \subseteq Key
  BY LoadedFacts DEF Known
<1> HIDE DEF subjects, objects
<1> QED BY <1>2, <1>3, <1>4, <1>5, FS_Union

\* The rows of a plan hold finitely many keys.
LEMMA HeldIs ==
    ASSUME Loaded, NEW s, IsSteps(s)
    PROVE  /\ Held(s) \subseteq Bindable /\ Known \subseteq Held(s) /\ IsFiniteSet(Held(s))
           /\ \A i \in DOMAIN s : s[i].call = "list" => {Get(u) : u \in s[i].uris} \subseteq Held(s)
<1> DEFINE uris == [i \in DOMAIN s |-> UrisOf(s[i])]
           all == UNION {uris[i] : i \in DOMAIN uris}
<1>1. IsFiniteSet(DOMAIN s)
  <2>1. Len(s) \in Nat /\ DOMAIN s = 1..Len(s)
    BY DEF IsSteps
  <2> QED BY <2>1, FS_Interval
<1>2. IsFiniteSet({uris[i] : i \in DOMAIN uris})
  BY <1>1, FiniteRange
<1>3. \A x \in {uris[i] : i \in DOMAIN uris} : IsFiniteSet(x)
  BY FS_EmptySet DEF UrisOf, IsSteps
<1>4. IsFiniteSet(all)
  <2> HIDE DEF uris
  <2> QED BY <1>2, <1>3, FS_UNION
<1>5. Held(s) = Known \cup {NoKey} \cup (Key \cap all)
  BY DEF Held
<1>6. IsFiniteSet(Key \cap all) /\ IsFiniteSet({NoKey})
  BY <1>4, FS_Subset, FS_Singleton
<1> HIDE DEF all
<1>7. IsFiniteSet(Known \cup {NoKey})
  BY <1>6, KnownFinite, FS_Union
<1>8. IsFiniteSet(Held(s))
  BY <1>5, <1>6, <1>7, FS_Union
<1>9. \A i \in DOMAIN s : s[i].call = "list" => {Get(u) : u \in s[i].uris} \subseteq Held(s)
  BY <1>5 DEF all, UrisOf, Get
<1> QED BY <1>5, <1>8, <1>9, KnownFinite DEF Bindable

\* The variables bound after one more call.
LEMMA BoundStep ==
    ASSUME NEW s, NEW n \in Nat
    PROVE  /\ Bound(s, n + 1) \subseteq Binds(s[n + 1]) \cup (IF Restarts(s[n + 1]) THEN {} ELSE Bound(s, n))
           /\ ~Restarts(s[n + 1]) => Bound(s, n + 1) = Binds(s[n + 1]) \cup Bound(s, n)
<1> DEFINE Last(m) == {k \in 1..m : \A j \in k+1..m : ~Restarts(s[j])}
<1>1. n + 1 \in Last(n + 1)
  OBVIOUS
<1>2. \A k \in Last(n + 1) : k = n + 1 \/ (k \in Last(n) /\ ~Restarts(s[n + 1]))
  OBVIOUS
<1>3. ~Restarts(s[n + 1]) => Last(n) \subseteq Last(n + 1)
  <2> SUFFICES ASSUME ~Restarts(s[n + 1]), NEW k \in Last(n) PROVE k \in Last(n + 1)
    OBVIOUS
  <2>1. \A j \in k+1..n+1 : j = n + 1 \/ j \in k+1..n
    OBVIOUS
  <2> QED BY <2>1
<1>4. Bound(s, n) = UNION {Binds(s[i]) : i \in Last(n)} /\ Bound(s, n + 1) = UNION {Binds(s[i]) : i \in Last(n + 1)}
  BY DEF Bound
<1> HIDE DEF Last
<1> QED BY <1>1, <1>2, <1>3, <1>4

\* What holds of every row after the first n calls.
RowSound(V, f, s, n, r) ==
    /\ IsRow(r, V, f) /\ Bound(s, n) \subseteq DOMAIN r.at
    /\ (\A i \in 1..n : ~Restarts(s[i])) => \A i \in 1..n : RowTold(r, s[i], f)

\* The rows after n calls are what the next one needs.
LEMMA GivenAfter ==
    ASSUME Loaded, NEW s, IsSteps(s), NEW f, NEW n \in Nat, n + 1 <= Len(s),
           NEW rs, \A r \in rs : RowSound(Held(s), f, s, n, r)
    PROVE  Given(Held(s), f, rs, s[n + 1])
<1>1. n + 1 \in DOMAIN s /\ (n + 1) - 1 = n
  BY DEF IsSteps
<1>2. Needs(s[n + 1]) \subseteq Bound(s, n)
  BY <1>1 DEF IsSteps
<1>3. \A r \in rs : IsRow(r, Held(s), f) /\ Needs(s[n + 1]) \subseteq DOMAIN r.at
  BY <1>2 DEF RowSound
<1> QED BY <1>1, <1>3, HeldIs DEF Given

\* Rows after n calls met all n of them.
LEMMA RanSound ==
    ASSUME Loaded, NEW s, IsSteps(s), NEW f, NEW lead, NEW g, RanBy(s, f, lead, g)
    PROVE  \A n \in 0..Len(s) : \A r \in g[n] : RowSound(Held(s), f, s, n, r)
<1>0. Len(s) \in Nat /\ DOMAIN s = 1..Len(s)
  BY DEF IsSteps
<1> DEFINE Sound(n) == \A r \in g[n] : RowSound(Held(s), f, s, n, r)
           Good == {n \in Nat : n <= Len(s) => Sound(n)}
<1>2. 0 \in Good
  <2>1. Bound(s, 0) = {}
    BY DEF Bound
  <2>2. RowSound(Held(s), f, s, 0, StartRow)
    BY <2>1 DEF RowSound, IsRow, StartRow
  <2> QED BY <2>2 DEF RanBy
<1>3. ASSUME NEW n \in Nat, n \in Good PROVE n + 1 \in Good
  <2> SUFFICES ASSUME n + 1 <= Len(s), NEW r2 \in g[n + 1] PROVE RowSound(Held(s), f, s, n + 1, r2)
    OBVIOUS
  <2>1. n + 1 \in 1..Len(s) /\ (n + 1) - 1 = n /\ n <= Len(s)
    BY <1>0
  <2>2. Sound(n)
    BY <1>3, <2>1
  <2> DEFINE c == s[n + 1]
  <2>3. r2 \in RowsAfter(g[n], c, f, lead) /\ c \in Call
    BY <1>0, <2>1 DEF RanBy, IsSteps
  <2>4. Given(Held(s), f, g[n], c)
    BY <2>1, <2>2, GivenAfter
  <2> HIDE DEF c
  <2>5. After(Held(s), f, g[n], c, r2)
    BY <2>3, <2>4, CallSound
  <2>6. IsRow(r2, Held(s), f) /\ Binds(c) \subseteq DOMAIN r2.at
    BY <2>5 DEF After
  <2>7. ASSUME ~Restarts(c)
        PROVE  \E r \in g[n] : RowSound(Held(s), f, s, n, r) /\ Grew(r, r2, Binds(c)) /\ RowTold(r2, c, f)
    BY <2>2, <2>5, <2>7 DEF After
  <2>8. Bound(s, n + 1) \subseteq DOMAIN r2.at
    <3>1. CASE Restarts(c)
      <4>1. Bound(s, n + 1) \subseteq Binds(c)
        BY <3>1, BoundStep DEF c
      <4> QED BY <2>6, <4>1
    <3>2. CASE ~Restarts(c)
      <4>1. Bound(s, n + 1) = Binds(c) \cup Bound(s, n)
        BY <3>2, BoundStep DEF c
      <4> QED BY <2>6, <2>7, <3>2, <4>1 DEF RowSound, Grew
    <3> QED BY <3>1, <3>2
  <2>9. ASSUME \A i \in 1..(n + 1) : ~Restarts(s[i]), NEW i \in 1..(n + 1)
        PROVE  RowTold(r2, s[i], f)
    <3>1. ~Restarts(c) /\ \A j \in 1..n : ~Restarts(s[j])
      BY <2>9 DEF c
    <3>2. PICK r \in g[n] : RowSound(Held(s), f, s, n, r) /\ Grew(r, r2, Binds(c)) /\ RowTold(r2, c, f)
      BY <2>7, <3>1
    <3>3. CASE i = n + 1
      BY <3>2, <3>3 DEF c
    <3>4. CASE i # n + 1
      <4>1. i \in 1..n /\ i \in 1..Len(s)
        BY <2>1, <3>4
      <4>2. RowTold(r, s[i], f)
        BY <3>1, <3>2, <4>1 DEF RowSound
      <4>3. s[i] \in Call
        BY <1>0, <4>1 DEF IsSteps
      <4> QED BY <3>2, <4>2, <4>3, ToldGrown
    <3> QED BY <3>3, <3>4
  <2> QED BY <2>6, <2>8, <2>9 DEF RowSound
<1>4. \A n \in 0..Len(s) : n \in Good
  <2> HIDE DEF Good
  <2> QED BY <1>0, <1>2, <1>3, SetInduction
<1>5. \A n \in 0..Len(s) : Sound(n)
  <2> HIDE DEF Sound
  <2> QED BY <1>0, <1>4
<1> QED BY <1>5

\* The rows at the end met all calls.
LEMMA RunSound ==
    ASSUME Loaded, NEW s, IsSteps(s), NEW f, NEW lead
    PROVE  \A r \in RunSteps(s, f, lead) : RowSound(Held(s), f, s, Len(s), r)
<1>0. Len(s) \in Nat /\ Len(s) \in 0..Len(s)
  BY DEF IsSteps
<1>1. PICK g : RanBy(s, f, lead, g) /\ RunSteps(s, f, lead) = g[Len(s)]
  BY <1>0, RunStepsIs
<1> QED BY <1>0, <1>1, RanSound

\* The bindings of b meet every call.
AllTold(b, s, f) == \A i \in DOMAIN s : Told(b, s[i], f)

\* Bindings that meet all calls have a row at the end.
LEMMA RunHas ==
    ASSUME Loaded, NEW s, IsSteps(s), IsPlain(s), NEW f, NEW lead, NEW b, AllTold(b, s, f)
    PROVE  \E r \in RunSteps(s, f, lead) : r.at = On(b, Bound(s, Len(s)))
<1>0. Len(s) \in Nat /\ DOMAIN s = 1..Len(s)
  BY DEF IsSteps
<1>1. PICK g : RanBy(s, f, lead, g) /\ RunSteps(s, f, lead) = g[Len(s)]
  BY <1>0, RunStepsIs
<1> DEFINE V == Held(s)
           Has(n) == HasRow(g[n], V, f, b, Bound(s, n))
           Good == {n \in Nat : n <= Len(s) => Has(n)}
<1>2. 0 \in Good
  <2>1. Bound(s, 0) = {}
    BY DEF Bound
  <2>2. RowSound(V, f, s, 0, StartRow)
    BY <2>1 DEF RowSound, IsRow, StartRow
  <2>3. g[0] = {StartRow}
    BY <1>1 DEF RanBy
  <2>4. StartRow.at = On(b, {})
    BY DEF StartRow, On
  <2> HIDE DEF V
  <2>5. Has(0)
    BY <2>1, <2>2, <2>3, <2>4 DEF HasRow, RowSound
  <2> HIDE DEF Has
  <2> QED BY <2>5
<1>3. ASSUME NEW n \in Nat, n \in Good PROVE n + 1 \in Good
  <2> SUFFICES ASSUME n + 1 <= Len(s) PROVE Has(n + 1)
    <3> HIDE DEF Has
    <3> QED OBVIOUS
  <2>1. n + 1 \in 1..Len(s) /\ (n + 1) - 1 = n /\ n <= Len(s)
    BY <1>0
  <2>2. Has(n)
    <3> HIDE DEF Has
    <3> QED BY <1>3, <2>1
  <2> DEFINE c == s[n + 1]
  <2>3. g[n + 1] = RowsAfter(g[n], c, f, lead) /\ c \in Call
    BY <1>0, <1>1, <2>1 DEF RanBy, IsSteps
  <2>4. Given(V, f, g[n], c)
    <3>1. \A r \in g[n] : RowSound(V, f, s, n, r)
      BY <1>0, <1>1, <2>1, RanSound
    <3> QED BY <2>1, <3>1, GivenAfter
  <2>5. Told(b, c, f)
    BY <1>0, <2>1 DEF AllTold
  <2>6. IsPlainCall(c, Bound(s, n)) /\ ~Restarts(c)
    BY <1>0, <2>1 DEF IsPlain, IsPlainCall, Restarts
  <2> HIDE DEF c, V
  <2>7. HasRow(RowsAfter(g[n], c, f, lead), V, f, b, Bound(s, n) \cup Binds(c))
    BY <2>2, <2>3, <2>4, <2>5, <2>6, CallHas
  <2>8. Bound(s, n + 1) = Binds(c) \cup Bound(s, n)
    BY <2>6, BoundStep DEF c
  <2>9. Bound(s, n) \cup Binds(c) = Bound(s, n + 1)
    BY <2>8
  <2> QED BY <2>3, <2>7, <2>9
<1>4. Len(s) \in Good
  <2> HIDE DEF Good
  <2> QED BY <1>0, <1>2, <1>3, SetInduction
<1>5. Has(Len(s))
  <2> HIDE DEF Has
  <2> QED BY <1>0, <1>4
<1> QED BY <1>1, <1>5 DEF HasRow

-----------------------------------------------------------------------------
(* The solutions of the text *)

\* The pattern is that triple under b.
FactFits(b, pattern, t) == \A i \in 1..3 : Fits(b, pattern[i], t[i])

VarsOf(pattern) == {pattern[i] : i \in {j \in 1..3 : pattern[j] \in Variable}}

\* Unified bindings make the pattern the triple, and keep what they had.
LEMMA UnifiedSound ==
    ASSUME NEW b, NEW pattern, DistinctVariables(pattern), NEW t, NEW b2 \in Unified(b, pattern, t)
    PROVE  /\ b2 = On(b2, DOMAIN b \cup VarsOf(pattern)) /\ \A x \in DOMAIN b : b2[x] = b[x]
           /\ FactFits(b2, pattern, t)
<1> DEFINE vars3 == {i \in 1..3 : pattern[i] \in Variable}
           D == DOMAIN b \cup {pattern[i] : i \in vars3}
           first(v) == CHOOSE i \in vars3 : pattern[i] = v
           e == [v \in D |-> IF v \in DOMAIN b THEN b[v] ELSE t[first(v)]]
           same == \A i \in 1..3 : IF i \in vars3
                    THEN pattern[i] \in DOMAIN b => b[pattern[i]] = t[i]
                    ELSE pattern[i] \in {t[i], Anything}
<1>1. same /\ b2 = e
  BY DEF Unified
<1>2. D = DOMAIN b \cup VarsOf(pattern)
  BY DEF VarsOf
<1>3. b2 = On(b2, D) /\ \A x \in DOMAIN b : b2[x] = b[x]
  BY <1>1 DEF On
<1>4. ASSUME NEW i \in 1..3 PROVE Fits(b2, pattern[i], t[i])
  <2>1. CASE i \notin vars3
    BY <1>1, <2>1 DEF Fits
  <2>2. CASE i \in vars3 /\ pattern[i] \in DOMAIN b
    BY <1>1, <2>2 DEF Fits
  <2>3. CASE i \in vars3 /\ pattern[i] \notin DOMAIN b
    <3>1. first(pattern[i]) = i
      <4>1. \A j \in vars3 : pattern[j] = pattern[i] => j = i
        BY <2>3 DEF DistinctVariables
      <4> QED BY <2>3, <4>1
    <3> HIDE DEF first
    <3>2. b2[pattern[i]] = t[i]
      BY <1>1, <2>3, <3>1
    <3> QED BY <2>3, <3>2 DEF Fits
  <2> QED BY <2>1, <2>2, <2>3
<1> HIDE DEF D
<1> QED BY <1>2, <1>3, <1>4 DEF FactFits

\* Bindings that make the pattern the triple are found by unification.
LEMMA UnifiedHas ==
    ASSUME NEW b, NEW D, NEW pattern, DistinctVariables(pattern), NEW t, FactFits(b, pattern, t)
    PROVE  On(b, D \cup VarsOf(pattern)) \in Unified(On(b, D), pattern, t)
<1> DEFINE d == On(b, D)
           vars3 == {i \in 1..3 : pattern[i] \in Variable}
           first(v) == CHOOSE i \in vars3 : pattern[i] = v
           e == [v \in D \cup {pattern[i] : i \in vars3} |-> IF v \in D THEN d[v] ELSE t[first(v)]]
           same == \A i \in 1..3 : IF i \in vars3
                    THEN pattern[i] \in D => d[pattern[i]] = t[i]
                    ELSE pattern[i] \in {t[i], Anything}
<1>1. DOMAIN d = D /\ \A x \in D : d[x] = b[x]
  BY DEF On
<1>2. same
  BY <1>1 DEF FactFits, Fits
<1>3. ASSUME NEW v \in D \cup {pattern[i] : i \in vars3}, v \notin D PROVE t[first(v)] = b[v]
  <2>1. first(v) \in vars3 /\ pattern[first(v)] = v
    BY <1>3
  <2> HIDE DEF first
  <2> QED BY <2>1 DEF FactFits, Fits
<1>4. e = On(b, D \cup VarsOf(pattern))
  <2>1. D \cup VarsOf(pattern) = D \cup {pattern[i] : i \in vars3}
    BY DEF VarsOf
  <2> HIDE DEF first, d, vars3
  <2> QED BY <1>1, <1>3, <2>1 DEF On
<1>5. Unified(d, pattern, t) = {e}
  BY <1>1, <1>2 DEF Unified
<1> QED BY <1>4, <1>5

\* What a join makes of the first patterns.
JoinOf(where, facts, g) ==
    /\ g[0] = {<<>>}
    /\ \A i \in 1..Len(where) : g[i] = UNION {UNION {Unified(b, where[i], t) : t \in facts} : b \in g[i - 1]}

\* The join of the first n patterns, for every n.
LEMMA SolutionsAre ==
    ASSUME NEW where, Len(where) \in Nat, NEW facts
    PROVE  \E g : JoinOf(where, facts, g) /\ Solutions(where, facts) = g[Len(where)]
<1> DEFINE Step(S, i) == UNION {UNION {Unified(b, where[i], t) : t \in facts} : b \in S}
           Body(g, i) == IF i = 0 THEN {<<>>} ELSE Step(g[i - 1], i)
           Solves(g, n) == g = [i \in 0..n |-> Body(g, i)]
           Good == {n \in Nat : \E g : Solves(g, n)}
<1> HIDE DEF Step
<1>1. 0 \in Good
  <2>1. Solves([i \in 0..0 |-> {<<>>}], 0)
    OBVIOUS
  <2> QED BY <2>1
<1>2. ASSUME NEW n \in Nat, n \in Good PROVE n + 1 \in Good
  <2>1. PICK g : Solves(g, n)
    BY <1>2
  <2> DEFINE h == [i \in 0..(n + 1) |-> IF i = n + 1 THEN Step(g[n], n + 1) ELSE g[i]]
  <2>2. \A i \in 0..n : g[i] = Body(g, i)
    <3> HIDE DEF Body
    <3> QED BY <2>1
  <2>3. ASSUME NEW i \in 0..(n + 1) PROVE h[i] = Body(h, i)
    <3>1. CASE i = n + 1
      BY <3>1
    <3>2. CASE i # n + 1
      <4>1. i \in 0..n /\ (i # 0 => i - 1 \in 0..n /\ i - 1 # n + 1)
        BY <3>2
      <4>2. h[i] = g[i] /\ (i # 0 => h[i - 1] = g[i - 1])
        BY <4>1
      <4> HIDE DEF h
      <4> QED BY <4>1, <4>2, <2>2
    <3> QED BY <3>1, <3>2
  <2>4. Solves(h, n + 1)
    <3>1. h = [i \in 0..(n + 1) |-> h[i]]
      OBVIOUS
    <3> HIDE DEF h, Body
    <3> QED BY <2>3, <3>1
  <2> HIDE DEF Solves, h
  <2> QED BY <2>4
<1>3. Len(where) \in Good
  <2> HIDE DEF Good
  <2> QED BY <1>1, <1>2, SetInduction
<1> DEFINE w == CHOOSE g : Solves(g, Len(where))
<1>4. Solves(w, Len(where))
  <2> HIDE DEF Solves
  <2> QED BY <1>3
<1>5. Solutions(where, facts) = w[Len(where)]
  BY DEF Solutions, Step
<1> HIDE DEF w
<1>6. \A i \in 0..Len(where) : w[i] = Body(w, i)
  <2> HIDE DEF Body
  <2> QED BY <1>4
<1>7. JoinOf(where, facts, w)
  <2>1. w[0] = {<<>>}
    BY <1>6
  <2>2. \A i \in 1..Len(where) : w[i] = Step(w[i - 1], i)
    BY <1>6
  <2> QED BY <2>1, <2>2 DEF JoinOf, Step
<1> QED BY <1>5, <1>7

VarsTo(where, n) == UNION {VarsOf(where[k]) : k \in 1..n}

\* The variables of all the patterns.
LEMMA VarsToIs ==
    ASSUME NEW where \in Seq(TriplePattern)
    PROVE  VarsTo(where, Len(where)) = VariablesOf(where)
<1>1. DOMAIN where = 1..Len(where)
  OBVIOUS
<1>2. \A k \in DOMAIN where : VarsOf(where[k]) = Variable \cap {where[k][1], where[k][2], where[k][3]}
  <2> TAKE k \in DOMAIN where
  <2>1. \A j \in 1..3 : j = 1 \/ j = 2 \/ j = 3
    OBVIOUS
  <2>2. 1 \in 1..3 /\ 2 \in 1..3 /\ 3 \in 1..3
    OBVIOUS
  <2> QED BY <2>1, <2>2 DEF VarsOf
<1>3. VariablesOf(where) = UNION {Variable \cap {where[k][1], where[k][2], where[k][3]} : k \in DOMAIN where}
  BY DEF VariablesOf
<1> QED BY <1>1, <1>2, <1>3 DEF VarsTo

IsWhere(where) ==
    where \in Seq(TriplePattern) /\ \A k \in DOMAIN where : DistinctVariables(where[k])

\* Bindings under which every pattern is a triple of facts.
IsSolution(b, where, facts) == \A k \in DOMAIN where : \E t \in facts : FactFits(b, where[k], t)

\* Bindings under which all patterns are triples are in the join.
LEMMA SolutionHas ==
    ASSUME NEW where, IsWhere(where), NEW facts, NEW b, IsSolution(b, where, facts)
    PROVE  On(b, VariablesOf(where)) \in Solutions(where, facts)
<1>0. Len(where) \in Nat /\ DOMAIN where = 1..Len(where)
  BY DEF IsWhere
<1>1. PICK g : JoinOf(where, facts, g) /\ Solutions(where, facts) = g[Len(where)]
  BY <1>0, SolutionsAre
<1> DEFINE Has(n) == On(b, VarsTo(where, n)) \in g[n]
           Good == {n \in Nat : n <= Len(where) => Has(n)}
<1>2. 0 \in Good
  <2>1. VarsTo(where, 0) = {}
    BY DEF VarsTo
  <2>2. On(b, {}) = <<>>
    BY DEF On
  <2> QED BY <1>1, <2>1, <2>2 DEF JoinOf
<1>3. ASSUME NEW n \in Nat, n \in Good PROVE n + 1 \in Good
  <2> SUFFICES ASSUME n + 1 <= Len(where) PROVE Has(n + 1)
    <3> HIDE DEF Has
    <3> QED OBVIOUS
  <2>1. n + 1 \in 1..Len(where) /\ (n + 1) - 1 = n /\ n <= Len(where)
        /\ 1..(n + 1) = (1..n) \cup {n + 1}
    BY <1>0
  <2>2. Has(n)
    <3> HIDE DEF Has
    <3> QED BY <1>3, <2>1
  <2>3. PICK t \in facts : FactFits(b, where[n + 1], t)
    BY <1>0, <2>1 DEF IsSolution
  <2>4. DistinctVariables(where[n + 1])
    BY <1>0, <2>1 DEF IsWhere
  <2>5. On(b, VarsTo(where, n) \cup VarsOf(where[n + 1])) \in Unified(On(b, VarsTo(where, n)), where[n + 1], t)
    BY <2>3, <2>4, UnifiedHas
  <2>6. VarsTo(where, n) \cup VarsOf(where[n + 1]) = VarsTo(where, n + 1)
    BY <2>1 DEF VarsTo
  <2>7. g[n + 1] = UNION {UNION {Unified(d, where[n + 1], u) : u \in facts} : d \in g[n]}
    BY <1>1, <2>1 DEF JoinOf
  <2> DEFINE old == On(b, VarsTo(where, n))
             new == On(b, VarsTo(where, n + 1))
  <2>8. old \in g[n] /\ new \in Unified(old, where[n + 1], t)
    BY <2>2, <2>5, <2>6
  <2> HIDE DEF old, new
  <2>9. new \in g[n + 1]
    BY <2>3, <2>7, <2>8
  <2> QED BY <2>9 DEF new
<1>4. Len(where) \in Good
  <2> HIDE DEF Good
  <2> QED BY <1>0, <1>2, <1>3, SetInduction
<1> QED BY <1>0, <1>1, <1>4, VarsToIs DEF IsWhere

\* The join has no others.
LEMMA SolutionMeets ==
    ASSUME NEW where, IsWhere(where), NEW facts, NEW b \in Solutions(where, facts)
    PROVE  IsSolution(b, where, facts) /\ b = On(b, VariablesOf(where))
<1>0. Len(where) \in Nat /\ DOMAIN where = 1..Len(where)
  BY DEF IsWhere
<1>1. PICK g : JoinOf(where, facts, g) /\ Solutions(where, facts) = g[Len(where)]
  BY <1>0, SolutionsAre
<1> DEFINE Fit(d, n) == /\ d = On(d, VarsTo(where, n))
                        /\ \A k \in 1..n : \E t \in facts : FactFits(d, where[k], t)
           All(n) == \A d \in g[n] : Fit(d, n)
           Good == {n \in Nat : n <= Len(where) => All(n)}
<1>2. 0 \in Good
  <2>1. VarsTo(where, 0) = {}
    BY DEF VarsTo
  <2>2. <<>> = On(<<>>, {})
    BY DEF On
  <2> QED BY <1>1, <2>1, <2>2 DEF JoinOf
<1>3. ASSUME NEW n \in Nat, n \in Good PROVE n + 1 \in Good
  <2> SUFFICES ASSUME n + 1 <= Len(where), NEW d2 \in g[n + 1] PROVE Fit(d2, n + 1)
    <3> HIDE DEF Fit
    <3> QED OBVIOUS
  <2>1. n + 1 \in 1..Len(where) /\ (n + 1) - 1 = n /\ n <= Len(where)
        /\ 1..(n + 1) = (1..n) \cup {n + 1}
    BY <1>0
  <2>2. All(n)
    <3> HIDE DEF Fit
    <3> QED BY <1>3, <2>1
  <2>3. g[n + 1] = UNION {UNION {Unified(d, where[n + 1], u) : u \in facts} : d \in g[n]}
    BY <1>1, <2>1 DEF JoinOf
  <2>4. PICK d \in g[n] : \E t \in facts : d2 \in Unified(d, where[n + 1], t)
    BY <2>3
  <2>5. PICK t \in facts : d2 \in Unified(d, where[n + 1], t)
    BY <2>4
  <2>6. DistinctVariables(where[n + 1])
    BY <1>0, <2>1 DEF IsWhere
  <2>7. /\ d2 = On(d2, DOMAIN d \cup VarsOf(where[n + 1])) /\ \A x \in DOMAIN d : d2[x] = d[x]
        /\ FactFits(d2, where[n + 1], t)
    BY <2>5, <2>6, UnifiedSound
  <2>8. Fit(d, n)
    <3> HIDE DEF Fit
    <3> QED BY <2>2, <2>4
  <2>9. DOMAIN d = VarsTo(where, n)
    BY <2>8 DEF On
  <2>10. VarsTo(where, n) \cup VarsOf(where[n + 1]) = VarsTo(where, n + 1)
    BY <2>1 DEF VarsTo
  <2>11. ASSUME NEW k \in 1..n, NEW u \in facts, FactFits(d, where[k], u) PROVE FactFits(d2, where[k], u)
    <3>1. \A i \in 1..3 : where[k][i] \in Variable => where[k][i] \in DOMAIN d
      BY <2>9 DEF VarsTo, VarsOf
    <3> QED BY <2>7, <2>11, <3>1 DEF FactFits, Fits
  <2>12. \A k \in 1..n : \E u \in facts : FactFits(d2, where[k], u)
    BY <2>8, <2>11
  <2> QED BY <2>1, <2>5, <2>7, <2>9, <2>10, <2>12
<1>4. Len(where) \in Good
  <2> HIDE DEF Good
  <2> QED BY <1>0, <1>2, <1>3, SetInduction
<1>5. Fit(b, Len(where))
  <2> HIDE DEF Fit
  <2> QED BY <1>0, <1>1, <1>4
<1> QED BY <1>0, <1>5, VarsToIs DEF IsWhere, IsSolution

-----------------------------------------------------------------------------
(* The rows of a plan *)

\* What CatalogueAssumption says of one plan.
LEMMA PlanOfCatalogue ==
    ASSUME NEW name \in DOMAIN Catalogue
    PROVE  /\ Catalogue[name].prints \subseteq Variable
           /\ \A where \in Catalogue[name].where : where \in Seq(TriplePattern)
           /\ \A s \in Catalogue[name].steps :
                 IsSteps(s) /\ Catalogue[name].prints \subseteq Bound(s, Len(s))
<1>1. Catalogue[name] \in AnyPlan
  BY CatalogueAssumption
<1>2. /\ Catalogue[name].prints \in SUBSET Variable
      /\ Catalogue[name].steps \in SUBSET Seq(Call)
      /\ Catalogue[name].where \in SUBSET Seq(TriplePattern)
  BY <1>1 DEF AnyPlan
<1>3. ASSUME NEW s \in Catalogue[name].steps
      PROVE  IsSteps(s) /\ Catalogue[name].prints \subseteq Bound(s, Len(s))
  <2>1. s \in Seq(Call)
    BY <1>2
  <2> QED BY <2>1, CatalogueAssumption DEF IsSteps
<1> QED BY <1>2, <1>3

\* r prints of the row r0 what the plan prints.
PrintedOf(name, r, r0) ==
    r.at = Restrict(r0.at, Catalogue[name].prints) /\ r.prov = r0.prov

\* Every row of R met all the calls of a part of the plan.
EachSound(name, f, R) ==
    \A r \in R : \E s \in Catalogue[name].steps :
        \E r0 : RowSound(Held(s), f, s, Len(s), r0) /\ PrintedOf(name, r, r0)

\* Bindings that meet all the calls of a plain part of it have a row in R.
EachFound(name, f, R) ==
    \A s \in Catalogue[name].steps : IsPlain(s) =>
        \A b : AllTold(b, s, f) =>
            \E r \in R : r.at = Restrict(On(b, Bound(s, Len(s))), Catalogue[name].prints)

\* The rows of a run are right, whatever the containers' order.
LEMMA RunRight ==
    ASSUME Loaded, NEW name \in DOMAIN Catalogue, NEW f, NEW lead
    PROVE  EachSound(name, f, Run(name, f, lead)) /\ EachFound(name, f, Run(name, f, lead))
<1> DEFINE prints == Catalogue[name].prints
           all == UNION {RunSteps(s, f, lead) : s \in Catalogue[name].steps}
           cut(r) == [r EXCEPT !.at = Restrict(@, prints)]
<1>1. Run(name, f, lead) = {cut(r) : r \in all}
  BY DEF Run
<1>2. \A s \in Catalogue[name].steps : IsSteps(s)
  BY PlanOfCatalogue
<1>3. ASSUME NEW s \in Catalogue[name].steps, NEW r0 \in RunSteps(s, f, lead)
      PROVE  RowSound(Held(s), f, s, Len(s), r0) /\ PrintedOf(name, cut(r0), r0)
  <2>1. RowSound(Held(s), f, s, Len(s), r0)
    BY <1>2, RunSound
  <2>2. r0 = [at |-> r0.at, prov |-> r0.prov]
    BY <2>1 DEF RowSound, IsRow
  <2>3. cut(r0).at = Restrict(r0.at, prints) /\ cut(r0).prov = r0.prov
    BY <2>2
  <2> HIDE DEF cut
  <2> QED BY <2>1, <2>3 DEF PrintedOf
<1> HIDE DEF cut
<1>4. EachSound(name, f, Run(name, f, lead))
  BY <1>1, <1>3 DEF EachSound
<1>5. EachFound(name, f, Run(name, f, lead))
  <2> SUFFICES ASSUME NEW s \in Catalogue[name].steps, IsPlain(s), NEW b, AllTold(b, s, f)
               PROVE  \E r \in Run(name, f, lead) : r.at = Restrict(On(b, Bound(s, Len(s))), prints)
    BY DEF EachFound
  <2>1. PICK r0 \in RunSteps(s, f, lead) : r0.at = On(b, Bound(s, Len(s)))
    BY <1>2, RunHas
  <2>2. cut(r0) \in Run(name, f, lead)
    BY <1>1, <2>1
  <2>3. cut(r0).at = Restrict(r0.at, prints)
    BY <1>3, <2>1 DEF PrintedOf
  <2> QED BY <2>1, <2>2, <2>3
<1> QED BY <1>4, <1>5

-----------------------------------------------------------------------------
(* They stay right while the store does not change *)

\* What is shown of a file depends on the file alone.
LEMMA QuadsStay == ASSUME triples' = triples, NEW f PROVE Quads(f)' = Quads(f)
  BY DEF Quads, Instances

\* So does what a binding meets,
LEMMA MeetsStay ==
    ASSUME triples' = triples, NEW b, NEW q, NEW f
    PROVE  Meets(b, q, f)' <=> Meets(b, q, f)
  BY QuadsStay DEF Meets

\* what a call is told,
LEMMA ToldStay ==
    ASSUME triples' = triples, NEW b, NEW c, NEW f
    PROVE  Told(b, c, f)' <=> Told(b, c, f)
  BY MeetsStay DEF Told

\* what a row was told,
LEMMA RowToldStay ==
    ASSUME triples' = triples, NEW r, NEW c, NEW f
    PROVE  RowTold(r, c, f)' <=> RowTold(r, c, f)
<1>1. Read(r, c, f)' <=> Read(r, c, f)
  BY MeetsStay DEF Read
<1> QED BY <1>1, ToldStay DEF RowTold

\* what a row can hold,
LEMMA HeldStay == ASSUME triples' = triples, NEW s PROVE Held(s)' = Held(s)
  BY DEF Held, Known, Instances

\* and with them that rows are sound
LEMMA RowSoundStay ==
    ASSUME triples' = triples, NEW f, NEW s, NEW n, NEW r
    PROVE  RowSound(Held(s), f, s, n, r)' <=> RowSound(Held(s), f, s, n, r)
<1>1. Held(s)' = Held(s)
  BY HeldStay
<1> QED BY <1>1, RowToldStay DEF RowSound

\* and those of a plan all right
LEMMA SoundStay ==
    ASSUME triples' = triples, NEW name, NEW f, NEW R
    PROVE  EachSound(name, f, R)' <=> EachSound(name, f, R)
  BY RowSoundStay DEF EachSound

\* and none of them left out.
LEMMA FoundStay ==
    ASSUME triples' = triples, NEW name, NEW f, NEW R
    PROVE  EachFound(name, f, R)' <=> EachFound(name, f, R)
<1>1. \A b, s : AllTold(b, s, f)' <=> AllTold(b, s, f)
  BY ToldStay DEF AllTold
<1> QED BY <1>1 DEF EachFound

-----------------------------------------------------------------------------
(* The invariant *)

\* Nothing was run yet, or the rows are right by the loaded store.
RowsRight ==
    \/ plan = NoPlan /\ filter = {} /\ rows = {}
    \/ /\ phase = "serving"
       /\ plan \in PlansOf(triples) /\ plan \in DOMAIN Catalogue /\ filter \in Filters
       /\ EachSound(plan, filter, rows) /\ EachFound(plan, filter, rows)

PInv == IInv /\ RowsRight

\* Nothing is run at first.
LEMMA InitPInv == PlanInit => PInv
  BY InitIInv DEF PlanInit, PInv, RowsRight

\* A run leaves rows that are right.
LEMMA RunPlanPInv ==
    ASSUME PInv, NEW name \in PlansOf(triples), RunPlan(name)
    PROVE  PInv'
<1>0. IInv /\ phase = "serving" /\ Loaded
  BY DEF PInv, RunPlan, Loaded
<1>1. PICK f \in Filters, lead \in Leads : filter' = f /\ rows' = Run(name, f, lead)
  BY DEF RunPlan
<1>2. plan' = name /\ UNCHANGED vars
  BY DEF RunPlan
<1>3. triples' = triples /\ phase' = phase
  BY <1>2 DEF vars
<1>4. IInv'
  BY <1>0, <1>2, StutterIInv
<1>5. name \in DOMAIN Catalogue
  <2>1. triples \in Inputs
    BY <1>0 DEF IInv, TypeOK
  <2> QED BY <2>1, CatalogueAssumption
<1> DEFINE R == Run(name, f, lead)
<1>6. EachSound(name, f, R) /\ EachFound(name, f, R)
  BY <1>0, <1>5, RunRight
<1>7. rows' = R
  BY <1>1
<1> HIDE DEF R
<1>8. PICK R0 : R0 = R
  OBVIOUS
<1>9. EachSound(name, f, R0)' /\ EachFound(name, f, R0)'
  BY <1>3, <1>6, <1>8, SoundStay, FoundStay
<1>10. EachSound(plan, filter, rows)' /\ EachFound(plan, filter, rows)'
  BY <1>1, <1>2, <1>7, <1>8, <1>9
<1>11. plan' \in PlansOf(triples') /\ filter' \in Filters /\ phase' = "serving"
  BY <1>0, <1>1, <1>2, <1>3
<1> QED BY <1>2, <1>4, <1>5, <1>10, <1>11 DEF PInv, RowsRight

\* Loading ends before the first run.
LEMMA LoadPInv ==
    ASSUME PInv, Load
    PROVE  PInv'
<1>1. IInv'
  BY NextIInv DEF PInv, Load
<1>2. phase # "serving"
  BY DEF Load, Next, AddTemplate, StartMolecules, LoadTriple, Serve
<1>3. plan = NoPlan /\ filter = {} /\ rows = {}
  BY <1>2 DEF PInv, RowsRight
<1>4. plan' = NoPlan /\ filter' = {} /\ rows' = {}
  BY <1>3 DEF Load, planVars
<1> QED BY <1>1, <1>4 DEF PInv, RowsRight

\* A step of others changes neither the store nor the rows.
LEMMA StutterPInv ==
    ASSUME PInv, UNCHANGED <<vars, planVars>>
    PROVE  PInv'
<1>1. IInv'
  BY StutterIInv DEF PInv
<1>2. triples' = triples /\ phase' = phase /\ plan' = plan /\ filter' = filter /\ rows' = rows
  BY DEF vars, planVars
<1>3. CASE plan = NoPlan /\ filter = {} /\ rows = {}
  BY <1>1, <1>2, <1>3 DEF PInv, RowsRight
<1>4. CASE /\ phase = "serving"
           /\ plan \in PlansOf(triples) /\ plan \in DOMAIN Catalogue /\ filter \in Filters
           /\ EachSound(plan, filter, rows) /\ EachFound(plan, filter, rows)
  <2>1. PICK name, f, R : name = plan /\ f = filter /\ R = rows
    OBVIOUS
  <2>2. EachSound(name, f, R) /\ EachFound(name, f, R)
    BY <1>4, <2>1
  <2>3. EachSound(name, f, R)' /\ EachFound(name, f, R)'
    BY <1>2, <2>2, SoundStay, FoundStay
  <2>4. EachSound(plan, filter, rows)' /\ EachFound(plan, filter, rows)'
    BY <1>2, <2>1, <2>3
  <2>5. plan' \in PlansOf(triples') /\ plan' \in DOMAIN Catalogue /\ filter' \in Filters /\ phase' = "serving"
    BY <1>2, <1>4
  <2> QED BY <1>1, <2>4, <2>5 DEF PInv, RowsRight
<1> QED BY <1>3, <1>4 DEF PInv, RowsRight

\* PInv is inductive.
LEMMA NextPInv == PInv /\ [PlanNext]_<<vars, planVars>> => PInv'
  BY LoadPInv, RunPlanPInv, StutterPInv DEF PlanNext

\* PInv holds in every state of the program.
LEMMA PlanInvariance == PlanSpec => []PInv
  BY InitPInv, NextPInv, PTL DEF PlanSpec

-----------------------------------------------------------------------------
(* What is printed follows the text *)

\* The state after a plan was run.
Ran == PInv /\ (plan # NoPlan \/ rows # {})

\* What PInv says after a run.
LEMMA RanFacts ==
    ASSUME Ran
    PROVE  /\ Loaded /\ triples \in Inputs /\ plan \in PlansOf(triples) /\ plan \in DOMAIN Catalogue
           /\ filter \in Filters /\ filter \subseteq Key
           /\ EachSound(plan, filter, rows) /\ EachFound(plan, filter, rows)
<1>1. IInv /\ RowsRight /\ (plan # NoPlan \/ rows # {})
  BY DEF Ran, PInv
<1> QED BY <1>1, PlanAssumption DEF RowsRight, Loaded, IInv, TypeOK

\* Restrict, element by element.
LEMMA RestrictIs ==
    ASSUME NEW b, NEW S
    PROVE  Restrict(b, S) = [x \in S |-> b[x]]
  BY DEF Restrict

\* A part of the bindings of a part.
LEMMA OfOn ==
    ASSUME NEW b, NEW D, NEW S, S \subseteq D
    PROVE  Restrict(On(b, D), S) = Restrict(b, S)
  BY RestrictIs DEF On

\* The types of keys, and of none.
LEMMA TypeOfType == ASSUME NEW k \in Key PROVE GetType(k) = TypeOf[k] /\ GetType(NoKey) = 0
  BY AnyAssumption, KeyAssumption DEF GetType

\* A pattern read by a call is a triple shown.
LEMMA ReadIsFact ==
    ASSUME Loaded, NEW b, NEW q, NEW f, Meets(b, q, f), NEW pattern,
           \A j \in 1..3 : pattern[j] \in {q[j], Anything}
    PROVE  \E t \in Facts(f) : FactFits(b, pattern, t)
<1>1. PICK d \in Quads(f) : /\ Fits(b, q[1], d.subject) /\ Fits(b, q[2], d.predicate)
                            /\ Fits(b, q[3], d.object)
  BY DEF Meets
<1> DEFINE t == <<d.subject, d.predicate, d.object>>
<1>2. t \in Facts(f)
  BY DEF Facts
<1>3. \A x, y, k : Fits(b, x, k) /\ y \in {x, Anything} => Fits(b, y, k)
  BY AnythingIsNoVariable DEF Fits
<1>4. t[1] = d.subject /\ t[2] = d.predicate /\ t[3] = d.object
  OBVIOUS
<1>5. Fits(b, pattern[1], t[1]) /\ Fits(b, pattern[2], t[2]) /\ Fits(b, pattern[3], t[3])
  BY <1>1, <1>3, <1>4
<1> HIDE DEF t
<1>6. \A j \in 1..3 : j = 1 \/ j = 2 \/ j = 3
  OBVIOUS
<1> QED BY <1>2, <1>5, <1>6 DEF FactFits

\* So is one of rdf:type, whose type a call asked for.
LEMMA TypeIsFact ==
    ASSUME Loaded, NEW b, NEW f, f \subseteq Key, NEW q, Meets(b, q, f),
           NEW pattern, q[1] = pattern[1], pattern[2] = "rdf:type", pattern[3] \notin Variable,
           NEW c \in Call, c.call = "type", c.v = pattern[1], Told(b, c, f),
           Get(c.uri) # NoKey => TypeOf[c.uri] \in DOMAIN ClassOf /\ ClassOf[TypeOf[c.uri]] = pattern[3]
    PROVE  \E t \in Facts(f) : FactFits(b, pattern, t)
<1>1. PICK d \in Quads(f) : Fits(b, q[1], d.subject)
  BY DEF Meets
<1>2. c.v \in Variable
  BY CallKinds
<1>3. b[c.v] = d.subject /\ d.subject \in Key /\ TypeOf[d.subject] >= 2 /\ d \in Quads(Key)
  BY <1>1, <1>2, QuadKeys DEF Fits, Quads
<1>4. TypeOf[d.subject] = GetType(Get(c.uri))
  BY <1>3 DEF Told
<1>5. Get(c.uri) # NoKey
  BY <1>3, <1>4, TypeOfType
<1>6. c.uri \in Key /\ GetType(Get(c.uri)) = TypeOf[c.uri]
  BY <1>5, TypeOfType DEF Get
<1> DEFINE t == <<d.subject, "rdf:type", pattern[3]>>
<1>7. TypeOf[d.subject] \in DOMAIN ClassOf /\ ClassOf[TypeOf[d.subject]] = pattern[3]
  BY <1>4, <1>5, <1>6
<1>8. t \in Facts(f)
  <2>1. d.subject \in {x.subject : x \in {y \in Quads(Key) : TypeOf[y.subject] \in DOMAIN ClassOf}}
    BY <1>3, <1>7
  <2> QED BY <1>7, <2>1 DEF Facts
<1>9. t[1] = d.subject /\ t[2] = "rdf:type" /\ t[3] = pattern[3]
  OBVIOUS
<1> HIDE DEF t
<1>10. "rdf:type" \notin Variable
  BY DEF Variable
<1>11. Fits(b, pattern[1], t[1]) /\ Fits(b, pattern[2], t[2]) /\ Fits(b, pattern[3], t[3])
  BY <1>2, <1>3, <1>9, <1>10 DEF Fits
<1>12. \A j \in 1..3 : j = 1 \/ j = 2 \/ j = 3
  OBVIOUS
<1> QED BY <1>8, <1>11, <1>12 DEF FactFits

\* A plan that follows its text prints solutions only.
LEMMA InventsNothing ==
    ASSUME Ran, FollowsText(plan)
    PROVE  Printed \subseteq Expected
<1> DEFINE prints == Catalogue[plan].prints
<1>1. Loaded /\ plan \in DOMAIN Catalogue /\ filter \subseteq Key /\ EachSound(plan, filter, rows)
  BY RanFacts
<1> SUFFICES ASSUME NEW r \in rows PROVE r.at \in Expected
  BY DEF Printed
<1>2. PICK s \in Catalogue[plan].steps :
          \E r0 : RowSound(Held(s), filter, s, Len(s), r0) /\ PrintedOf(plan, r, r0)
  BY <1>1 DEF EachSound
<1>3. PICK r0 : RowSound(Held(s), filter, s, Len(s), r0) /\ PrintedOf(plan, r, r0)
  BY <1>2
<1> DEFINE b == r0.at
<1>4. IsSteps(s)
  BY <1>1, PlanOfCatalogue
<1>5. DOMAIN s = 1..Len(s) /\ \A i \in DOMAIN s : s[i] \in Call
  BY <1>4 DEF IsSteps
<1>6. \A i \in DOMAIN s : ~Restarts(s[i])
  BY DEF FollowsText
<1>7. \A i \in DOMAIN s : Told(b, s[i], filter)
  BY <1>3, <1>5, <1>6 DEF RowSound, RowTold
<1>8. PICK where \in Catalogue[plan].where :
          /\ prints \subseteq VariablesOf(where)
          /\ \A k \in DOMAIN where : DistinctVariables(where[k]) /\ Covered(s, where[k])
  BY DEF FollowsText
<1>9. IsWhere(where)
  BY <1>1, <1>8, PlanOfCatalogue DEF IsWhere
<1>10. ASSUME NEW k \in DOMAIN where
       PROVE  \E t \in Facts(filter) : FactFits(b, where[k], t)
  <2> DEFINE pattern == where[k]
  <2>1. Covered(s, pattern)
    BY <1>8
  <2> HIDE DEF pattern, b
  <2>2. CASE \E i \in DOMAIN s : \E q \in Reads(s[i]) : \A j \in 1..3 : pattern[j] \in {q[j], Anything}
    <3>0. PICK i \in DOMAIN s : \E q \in Reads(s[i]) : \A j \in 1..3 : pattern[j] \in {q[j], Anything}
      BY <2>2
    <3>1. PICK q \in Reads(s[i]) : \A j \in 1..3 : pattern[j] \in {q[j], Anything}
      BY <3>0
    <3>2. Meets(b, q, filter)
      BY <1>7 DEF Told
    <3> QED BY <1>1, <3>1, <3>2, ReadIsFact DEF pattern
  <2>3. CASE ~ \E i \in DOMAIN s : \E q \in Reads(s[i]) : \A j \in 1..3 : pattern[j] \in {q[j], Anything}
    <3>1. /\ pattern[2] = "rdf:type" /\ pattern[3] \notin Variable
          /\ \E i \in DOMAIN s : \E q \in Reads(s[i]) : q[1] = pattern[1]
          /\ \E i \in DOMAIN s :
                /\ s[i].call = "type" /\ s[i].v = pattern[1]
                /\ Get(s[i].uri) # NoKey => /\ TypeOf[s[i].uri] \in DOMAIN ClassOf
                                            /\ ClassOf[TypeOf[s[i].uri]] = pattern[3]
      BY <2>1, <2>3 DEF Covered
    <3>0. PICK i \in DOMAIN s : \E q \in Reads(s[i]) : q[1] = pattern[1]
      BY <3>1
    <3>2. PICK q \in Reads(s[i]) : q[1] = pattern[1]
      BY <3>0
    <3>3. Meets(b, q, filter)
      BY <1>7 DEF Told
    <3>4. PICK l \in DOMAIN s :
              /\ s[l].call = "type" /\ s[l].v = pattern[1]
              /\ Get(s[l].uri) # NoKey => /\ TypeOf[s[l].uri] \in DOMAIN ClassOf
                                          /\ ClassOf[TypeOf[s[l].uri]] = pattern[3]
      BY <3>1
    <3>5. Told(b, s[l], filter) /\ s[l] \in Call
      BY <1>5, <1>7
    <3> QED BY <1>1, <3>1, <3>2, <3>3, <3>4, <3>5, TypeIsFact DEF pattern
  <2> QED BY <2>2, <2>3
<1>11. On(b, VariablesOf(where)) \in Solutions(where, Facts(filter))
  <2>1. IsSolution(b, where, Facts(filter))
    BY <1>10 DEF IsSolution
  <2> HIDE DEF b
  <2> QED BY <1>9, <2>1, SolutionHas
<1>12. r.at = Restrict(On(b, VariablesOf(where)), prints)
  BY <1>3, <1>8, OfOn DEF PrintedOf
<1> HIDE DEF b, prints
<1>13. On(b, VariablesOf(where)) \in UNION {Solutions(w, Facts(filter)) : w \in Catalogue[plan].where}
  BY <1>8, <1>11
<1> QED BY <1>12, <1>13 DEF Expected, prints

-----------------------------------------------------------------------------
(* What the text says is printed *)

\* Calls that never start anew bind all their variables for good.
LEMMA PlainBound ==
    ASSUME NEW s, IsSteps(s), IsPlain(s)
    PROVE  \A i \in DOMAIN s : /\ Binds(s[i]) \subseteq Bound(s, Len(s))
                               /\ Needs(s[i]) \subseteq Bound(s, Len(s))
<1>1. DOMAIN s = 1..Len(s) /\ Len(s) \in Nat
  BY DEF IsSteps
<1>2. \A i \in 1..Len(s) : ~Restarts(s[i])
  BY <1>1 DEF IsPlain, Restarts
<1>3. \A i \in 1..Len(s) : Binds(s[i]) \subseteq Bound(s, Len(s))
  <2> TAKE i \in 1..Len(s)
  <2>1. \A j \in i+1..Len(s) : ~Restarts(s[j])
    BY <1>1, <1>2
  <2>2. i \in {k \in 1..Len(s) : \A j \in k+1..Len(s) : ~Restarts(s[j])}
    BY <2>1
  <2> QED BY <2>2 DEF Bound
<1>4. ASSUME NEW i \in 1..Len(s), NEW x \in Bound(s, i - 1) PROVE x \in Bound(s, Len(s))
  <2>1. PICK k \in 1..(i - 1) : x \in Binds(s[k])
    BY DEF Bound
  <2>2. k \in 1..Len(s)
    BY <1>1
  <2> QED BY <1>3, <2>1, <2>2
<1> QED BY <1>1, <1>3, <1>4 DEF IsSteps

\* A triple a pattern can match only as a quad is a quad shown.
LEMMA FactIsQuad ==
    ASSUME Loaded, NEW f, NEW b, NEW where \in Seq(TriplePattern), IsSolution(b, where, Facts(f)),
           NEW k \in DOMAIN where, MetByQuads(where, k)
    PROVE  \E d \in Quads(f) : FactFits(b, where[k], <<d.subject, d.predicate, d.object>>)
<1> DEFINE types == {<<m, "rdf:type", ClassOf[TypeOf[m]]>> :
                        m \in {q.subject : q \in {x \in Quads(Key) : TypeOf[x.subject] \in DOMAIN ClassOf}}}
           quads == {<<q.subject, q.predicate, q.object>> : q \in Quads(f)}
<1>1. Facts(f) = quads \cup types
  BY DEF Facts
<1>2. \A t \in types : t[2] = "rdf:type" /\ t[3] \in Classes
  BY DEF Classes
<1>3. \A t \in quads : t[3] \in Key
  BY QuadKeys
<1> HIDE DEF types, quads
<1>4. \A l \in DOMAIN where : \E t \in Facts(f) : FactFits(b, where[l], t)
  BY DEF IsSolution
<1>5. PICK t \in Facts(f) : FactFits(b, where[k], t)
  BY <1>4
<1>6. \A l \in DOMAIN where : \A u : FactFits(b, where[l], u) =>
          /\ Fits(b, where[l][2], u[2]) /\ Fits(b, where[l][3], u[3])
  BY DEF FactFits
<1>7. t \in quads
  <2>1. CASE where[k][2] # Anything
    <3>1. where[k][2] = t[2]
      BY <1>5, <1>6, <2>1 DEF Fits, MetByQuads
    <3>2. where[k][2] # "rdf:type"
      BY DEF MetByQuads
    <3> QED BY <1>1, <1>2, <3>1, <3>2
  <2>2. CASE where[k][2] = Anything /\ where[k][3] \notin Variable \cup Classes \cup {Anything}
    <3>1. where[k][3] = t[3]
      BY <1>5, <1>6, <2>2 DEF Fits
    <3> QED BY <1>1, <1>2, <2>2, <3>1
  <2>3. CASE /\ where[k][2] = Anything
             /\ where[k][3] \in Variable /\ Classes \cap Key = {}
             /\ \E l \in DOMAIN where :
                   where[l][3] = where[k][3] /\ where[l][2] \notin Variable \cup {"rdf:type", Anything}
    <3>1. PICK l \in DOMAIN where :
              where[l][3] = where[k][3] /\ where[l][2] \notin Variable \cup {"rdf:type", Anything}
      BY <2>3
    <3>2. PICK u \in Facts(f) : FactFits(b, where[l], u)
      BY <1>4
    <3>3. u[2] = where[l][2] /\ u[3] = b[where[k][3]]
      BY <1>6, <2>3, <3>1, <3>2 DEF Fits
    <3>4. u \in quads
      BY <1>1, <1>2, <3>1, <3>3
    <3>5. t[3] = b[where[k][3]]
      BY <1>5, <1>6, <2>3 DEF Fits
    <3> QED BY <1>1, <1>2, <1>3, <2>3, <3>3, <3>4, <3>5
  <2> QED BY <2>1, <2>2, <2>3 DEF MetByQuads
<1>8. PICK d \in Quads(f) : t = <<d.subject, d.predicate, d.object>>
  BY <1>7 DEF quads
<1> QED BY <1>5, <1>8

\* A solution of the text meets a call that asks for nothing else.
LEMMA SolutionTells ==
    ASSUME Loaded, NEW name, name \in PlansOf(triples), NEW f,
           NEW b, NEW where \in Seq(TriplePattern), IsSolution(b, where, Facts(f)),
           NEW c \in Call, NEW rename, Justified(name, where, c, rename),
           \A x \in Binds(c) \cup Needs(c) : rename[x] \in VariablesOf(where)
    PROVE  Told([x \in Variable |-> b[rename[x]]], c, f)
<1> DEFINE b0 == [x \in Variable |-> b[rename[x]]]
<1>0. \A x \in Variable : b0[x] = b[rename[x]]
  OBVIOUS
<1> HIDE DEF b0
<1>1. VariablesOf(where) \subseteq Variable /\ c.v \in Variable
  BY CallKinds DEF VariablesOf
<1>2. ASSUME NEW q \in Reads(c) PROVE Meets(b0, q, f)
  <2>1. PICK k \in DOMAIN where :
          /\ MetByQuads(where, k)
          /\ \A j \in 1..3 :
                (IF q[j] \in Variable THEN rename[q[j]] ELSE q[j]) \in {where[k][j], Anything}
    BY DEF Justified
  <2>2. PICK d \in Quads(f) : FactFits(b, where[k], <<d.subject, d.predicate, d.object>>)
    BY <2>1, FactIsQuad
  <2>3. ASSUME NEW j \in 1..3, NEW v, Fits(b, where[k][j], v) PROVE Fits(b0, q[j], v)
    <3>1. CASE q[j] \in Variable
      <4>1. rename[q[j]] \in Variable
        BY <1>1, <3>1, ReadVariables
      <4>2. rename[q[j]] = where[k][j]
        BY <2>1, <3>1, <4>1, AnythingIsNoVariable
      <4> QED BY <1>0, <2>3, <3>1, <4>1, <4>2 DEF Fits
    <3>2. CASE q[j] \notin Variable
      <4>1. q[j] \in {where[k][j], Anything}
        BY <2>1, <3>2
      <4> QED BY <2>3, <3>2, <4>1 DEF Fits
    <3> QED BY <3>1, <3>2
  <2>4. /\ Fits(b, where[k][1], d.subject) /\ Fits(b, where[k][2], d.predicate)
        /\ Fits(b, where[k][3], d.object)
    BY <2>2 DEF FactFits
  <2>5. Fits(b0, q[1], d.subject)
    BY <2>3, <2>4
  <2>6. Fits(b0, q[2], d.predicate)
    BY <2>3, <2>4
  <2>7. Fits(b0, q[3], d.object)
    BY <2>3, <2>4
  <2> QED BY <2>2, <2>5, <2>6, <2>7 DEF Meets
<1>3. ASSUME c.call = "list" PROVE b0[c.v] \in {Get(u) : u \in c.uris}
  <2>1. PICK k \in DOMAIN where :
              /\ MetByQuads(where, k) /\ where[k][2] # Anything /\ where[k][3] = rename[c.v]
              /\ \A file \in Inputs : name \in PlansOf(file) =>
                    \A j \in DOMAIN file :
                        file[j].predicate = where[k][2] => file[j].object \in c.uris
    BY <1>3 DEF Justified
  <2>2. PICK d \in Quads(f) : FactFits(b, where[k], <<d.subject, d.predicate, d.object>>)
    BY <2>1, FactIsQuad
  <2>3. Fits(b, where[k][2], d.predicate) /\ Fits(b, where[k][3], d.object)
    BY <2>2 DEF FactFits
  <2>4. where[k][2] \notin Variable
    BY <2>1 DEF MetByQuads
  <2>5. where[k][2] = d.predicate
    BY <2>1, <2>3, <2>4 DEF Fits
  <2>6. rename[c.v] \in Variable
    <3>1. c.call \notin {"type", "not in GetSubjects"} /\ c.call # "TriplePatern"
      BY <1>3
    <3>2. c.v \in Binds(c)
      BY <3>1 DEF Binds
    <3> QED BY <1>1, <3>2
  <2>7. b0[c.v] = d.object
    BY <1>0, <1>1, <2>1, <2>3, <2>6 DEF Fits
  <2>8. PICK j \in DOMAIN triples : d = triples[j]
    <3>1. d \in Instances(Len(triples))
      BY <2>2, QuadKeys
    <3>2. triples \in Inputs
      BY DEF Loaded, IInv, TypeOK
    <3>3. DOMAIN triples = 1..Len(triples)
      BY <3>2, InputAssumption
    <3> QED BY <3>1, <3>3 DEF Instances
  <2>9. triples \in Inputs
    BY DEF Loaded, IInv, TypeOK
  <2>10. d.object \in c.uris
    BY <2>1, <2>5, <2>8, <2>9
  <2>11. Get(d.object) = d.object
    BY <2>2, QuadKeys DEF Get
  <2> QED BY <2>7, <2>10, <2>11
<1>4. ASSUME c.call = "type" PROVE TypeOf[b0[c.v]] = GetType(Get(c.uri))
  <2>1. c.uri \in Key /\ "rdf:type" \notin Key
    BY <1>4 DEF Justified
  <2>2. PICK k \in DOMAIN where :
                /\ where[k][1] = rename[c.v] /\ where[k][2] = "rdf:type"
                /\ where[k][3] \notin Variable \cup {Anything}
                /\ \A t \in DOMAIN ClassOf : ClassOf[t] = where[k][3] => t = TypeOf[c.uri]
    BY <1>4 DEF Justified
  <2>3. PICK t \in Facts(f) : FactFits(b, where[k], t)
    BY DEF IsSolution
  <2>4. Fits(b, where[k][1], t[1]) /\ Fits(b, where[k][2], t[2]) /\ Fits(b, where[k][3], t[3])
    BY <2>3 DEF FactFits
  <2>5. t[2] = "rdf:type" /\ t[3] = where[k][3]
    <3>1. "rdf:type" \notin Variable /\ "rdf:type" # Anything
      BY DEF Variable, Anything
    <3> QED BY <2>2, <2>4, <3>1 DEF Fits
  <2>6. ~ \E q \in Quads(f) : t = <<q.subject, q.predicate, q.object>>
    BY <2>1, <2>5, QuadKeys
  <2>7. PICK m \in {q.subject : q \in {x \in Quads(Key) : TypeOf[x.subject] \in DOMAIN ClassOf}} :
            t = <<m, "rdf:type", ClassOf[TypeOf[m]]>>
    BY <2>6 DEF Facts
  <2>8. t[1] = m /\ t[3] = ClassOf[TypeOf[m]] /\ TypeOf[m] \in DOMAIN ClassOf
    BY <2>7
  <2>9. TypeOf[m] = TypeOf[c.uri]
    BY <2>2, <2>5, <2>8
  <2>10. rename[c.v] \in Variable
    <3>1. c.call # "GetObjects" /\ c.call # "list"
      BY <1>4
    <3>2. c.v \in Needs(c)
      BY <1>1, <1>4, <3>1 DEF Needs
    <3> QED BY <1>1, <3>2
  <2>11. b0[c.v] = m
    BY <1>0, <1>1, <2>2, <2>4, <2>8, <2>10 DEF Fits
  <2>12. GetType(Get(c.uri)) = TypeOf[c.uri]
    BY <2>1, TypeOfType DEF Get
  <2> QED BY <2>9, <2>11, <2>12
<1>5. Told(b0, c, f)
  BY <1>2, <1>3, <1>4 DEF Told
<1> QED BY <1>5 DEF b0

\* A plan that keeps to its text prints every solution.
LEMMA LosesNothing ==
    ASSUME Ran, NEW rename, KeepsToText(plan, rename)
    PROVE  Expected \subseteq Printed
<1> DEFINE prints == Catalogue[plan].prints
           facts == Facts(filter)
<1>1. /\ Loaded /\ plan \in DOMAIN Catalogue /\ plan \in PlansOf(triples)
      /\ EachFound(plan, filter, rows)
  BY RanFacts
<1> SUFFICES ASSUME NEW where \in Catalogue[plan].where, NEW b \in Solutions(where, facts)
             PROVE  Restrict(b, prints) \in Printed
  BY DEF Expected
<1>2. /\ \A k \in DOMAIN where : DistinctVariables(where[k])
      /\ \E s \in Catalogue[plan].steps :
              /\ IsPlain(s)
              /\ \A x \in Bound(s, Len(s)) : rename[x] \in VariablesOf(where)
              /\ \A x \in prints : x \in Bound(s, Len(s)) /\ rename[x] = x
              /\ \A i \in DOMAIN s : Justified(plan, where, s[i], rename)
  BY DEF KeepsToText
<1>3. PICK s \in Catalogue[plan].steps :
              /\ IsPlain(s)
              /\ \A x \in Bound(s, Len(s)) : rename[x] \in VariablesOf(where)
              /\ \A x \in prints : x \in Bound(s, Len(s)) /\ rename[x] = x
              /\ \A i \in DOMAIN s : Justified(plan, where, s[i], rename)
  BY <1>2
<1>4. where \in Seq(TriplePattern) /\ IsSteps(s) /\ prints \subseteq Variable
  BY <1>1, PlanOfCatalogue
<1>5. IsSolution(b, where, facts)
  BY <1>2, <1>4, SolutionMeets DEF IsWhere
<1> DEFINE b0 == [x \in Variable |-> b[rename[x]]]
<1>6. ASSUME NEW i \in DOMAIN s PROVE Told(b0, s[i], filter)
  <2>1. s[i] \in Call
    BY <1>4 DEF IsSteps
  <2>2. \A x \in Binds(s[i]) \cup Needs(s[i]) : rename[x] \in VariablesOf(where)
    BY <1>3, <1>4, PlainBound
  <2>3. Justified(plan, where, s[i], rename)
    BY <1>3
  <2>4. PICK c : c = s[i]
    OBVIOUS
  <2>5. Told(b0, c, filter)
    BY <1>1, <1>4, <1>5, <2>1, <2>2, <2>3, <2>4, SolutionTells
  <2> QED BY <2>4, <2>5
<1>7. \A x \in prints : b0[x] = b[x]
  BY <1>3, <1>4
<1> HIDE DEF b0
<1>8. PICK r \in rows : r.at = Restrict(On(b0, Bound(s, Len(s))), prints)
  BY <1>1, <1>3, <1>6 DEF EachFound, AllTold
<1>9. r.at = Restrict(b0, prints)
  BY <1>3, <1>8, OfOn
<1>10. Restrict(b0, prints) = Restrict(b, prints)
  BY <1>7, RestrictIs
<1> QED BY <1>9, <1>10 DEF Printed

-----------------------------------------------------------------------------
(* The provenance printed for a row suffices for it *)

\* A plan that hides no provenance prints a row again from what it printed for it.
LEMMA ExplainsRow ==
    ASSUME Ran, ShowsAll(plan), NEW r \in rows
    PROVE  \E again \in Run(plan, r.prov, NoPlan) : again.at = r.at
<1> DEFINE prints == Catalogue[plan].prints
<1>1. Loaded /\ plan \in DOMAIN Catalogue /\ EachSound(plan, filter, rows)
  BY RanFacts
<1>2. PICK s \in Catalogue[plan].steps :
          \E r0 : RowSound(Held(s), filter, s, Len(s), r0) /\ PrintedOf(plan, r, r0)
  BY <1>1 DEF EachSound
<1>3. PICK r0 : RowSound(Held(s), filter, s, Len(s), r0) /\ PrintedOf(plan, r, r0)
  BY <1>2
<1>4. IsSteps(s) /\ IsPlain(s) /\ prints \subseteq Bound(s, Len(s))
  BY <1>1, PlanOfCatalogue DEF ShowsAll
<1>5. DOMAIN s = 1..Len(s)
  BY <1>4 DEF IsSteps
<1>6. \A i \in DOMAIN s : ~Restarts(s[i]) /\ Shows(s[i])
  BY <1>4 DEF ShowsAll, IsPlain, Restarts, Shows
<1>7. r0.prov \subseteq filter /\ r.prov = r0.prov /\ r.at = Restrict(r0.at, prints)
  BY <1>3 DEF RowSound, IsRow, PrintedOf
<1>8. filter \cap r0.prov = r.prov
  BY <1>7
<1>9. ASSUME NEW i \in DOMAIN s PROVE Told(r0.at, s[i], r.prov)
  <2>1. Told(r0.at, s[i], filter) /\ Read(r0, s[i], filter)
    BY <1>3, <1>5, <1>6 DEF RowSound, RowTold
  <2>2. \A q \in Reads(s[i]) : Meets(r0.at, q, r.prov)
    BY <1>6, <1>8, <2>1 DEF Read
  <2> QED BY <2>1, <2>2 DEF Told
<1>10. EachFound(plan, r.prov, Run(plan, r.prov, NoPlan))
  BY <1>1, RunRight
<1>11. AllTold(r0.at, s, r.prov)
  BY <1>9 DEF AllTold
<1>12. PICK again \in Run(plan, r.prov, NoPlan) :
           again.at = Restrict(On(r0.at, Bound(s, Len(s))), prints)
  BY <1>4, <1>10, <1>11 DEF EachFound
<1>13. again.at = Restrict(r0.at, prints)
  BY <1>4, <1>12, OfOn
<1> QED BY <1>7, <1>13

-----------------------------------------------------------------------------
(* The theorems *)

\* Rows that are right have the types they should.
LEMMA RightTypes ==
    ASSUME PInv
    PROVE  PlanTypeOK
<1>1. CASE plan = NoPlan /\ filter = {} /\ rows = {}
  BY <1>1 DEF PlanTypeOK
<1>2. CASE ~(plan = NoPlan /\ filter = {} /\ rows = {})
  <2>1. /\ IInv /\ phase = "serving" /\ plan \in DOMAIN Catalogue /\ filter \in Filters
        /\ EachSound(plan, filter, rows)
    BY <1>2 DEF PInv, RowsRight
  <2>2. ASSUME NEW r \in rows
        PROVE  r.prov \subseteq filter /\ \A v \in DOMAIN r.at : r.at[v] \in Key \cup {NoKey}
    <3>1. PICK s \in Catalogue[plan].steps :
              \E r0 : RowSound(Held(s), filter, s, Len(s), r0) /\ PrintedOf(plan, r, r0)
      BY <2>1 DEF EachSound
    <3>2. PICK r0 : RowSound(Held(s), filter, s, Len(s), r0) /\ PrintedOf(plan, r, r0)
      BY <3>1
    <3>3. IsSteps(s) /\ Catalogue[plan].prints \subseteq Bound(s, Len(s))
      BY <2>1, PlanOfCatalogue
    <3>4. Held(s) \subseteq Key \cup {NoKey}
      BY <2>1, <3>3, HeldIs DEF Bindable, Loaded
    <3>5. r0.prov \subseteq filter /\ r0.at \in [DOMAIN r0.at -> Held(s)]
          /\ Catalogue[plan].prints \subseteq DOMAIN r0.at
      BY <3>2, <3>3 DEF RowSound, IsRow
    <3>6. r.at = [x \in Catalogue[plan].prints |-> r0.at[x]] /\ r.prov = r0.prov
      BY <3>2, RestrictIs DEF PrintedOf
    <3> QED BY <3>4, <3>5, <3>6
  <2>3. filter \subseteq Key
    BY <2>1, PlanAssumption
  <2> QED BY <2>1, <2>2, <2>3 DEF PlanTypeOK
<1> QED BY <1>1, <1>2

\* PlanTypeOK: a row holds keys or 0, and no provenance that the filter does
\* not show, whatever plan was run (runthemall of the three query sets).
THEOREM PlanTypeCorrect == PlanSpec => []PlanTypeOK
  BY PlanInvariance, RightTypes, PTL

\* NothingInvented: the calls of a plan that reads all of its text, as all but
\* those of MayInvent do, leave no row that is not a solution of it, on any file.
THEOREM PlansInventNothing ==
    ASSUME \A name \in DOMAIN Catalogue \ MayInvent : FollowsText(name)
    PROVE  PlanSpec => []NothingInvented
<1>1. PInv => NothingInvented
  <2> SUFFICES ASSUME PInv, plan \notin MayInvent \cup {NoPlan} PROVE Printed \subseteq Expected
    BY DEF NothingInvented
  <2>1. Ran
    BY DEF Ran
  <2>2. FollowsText(plan)
    BY <2>1, RanFacts
  <2> QED BY <2>1, <2>2, InventsNothing
<1> QED BY <1>1, PlanInvariance, PTL

\* NothingLost: the calls of a plan that reads nothing but its text, variables
\* renamed, as all but those of MayLose do, leave a row for every solution.
THEOREM PlansLoseNothing ==
    ASSUME \A name \in DOMAIN Catalogue \ MayLose : \E rename : KeepsToText(name, rename)
    PROVE  PlanSpec => []NothingLost
<1>1. PInv => NothingLost
  <2> SUFFICES ASSUME PInv, plan \notin MayLose \cup {NoPlan} PROVE Expected \subseteq Printed
    BY DEF NothingLost
  <2>1. Ran
    BY DEF Ran
  <2>2. PICK rename : KeepsToText(plan, rename)
    BY <2>1, RanFacts
  <2> QED BY <2>1, <2>2, LosesNothing
<1> QED BY <1>1, PlanInvariance, PTL

\* RowsExplained: under a filter of the provenance printed for a row, a plan
\* whose calls look up each row for itself and hide nothing prints it again.
THEOREM PlansExplainRows ==
    PlanSpec => [](plan \in {name \in DOMAIN Catalogue : ShowsAll(name)} => RowsExplained)
<1>1. PInv => (plan \in {name \in DOMAIN Catalogue : ShowsAll(name)} => RowsExplained)
  <2> SUFFICES ASSUME PInv, plan \in DOMAIN Catalogue, ShowsAll(plan),
                      NEW r \in rows
               PROVE  \E again \in Run(plan, r.prov, NoPlan) : again.at = r.at
    BY DEF RowsExplained
  <2>1. Ran
    BY DEF Ran
  <2> QED BY <2>1, ExplainsRow
<1> QED BY <1>1, PlanInvariance, PTL
============================================================================

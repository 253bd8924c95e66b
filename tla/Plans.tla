-------------------------------- MODULE Plans --------------------------------
(***************************************************************************)
(* The hand-written query plans of WatDivprov, BTCprov and WDCqueries: C++ *)
(* functions of nested loops over the answers of API, each with the SPARQL *)
(* text it is to answer in the comment above it.                           *)
(*                                                                         *)
(* A plan is the sequence of its calls (PlanSteps).  What the loops have   *)
(* bound so far is a row, a function from variables to keys, and a call    *)
(* extends every row.  The printed vectors are sets of rows: their order   *)
(* and repeated rows are left out, as are counters and stop watches.  The  *)
(* plans only read the store, in one thread: a run is one step.            *)
(***************************************************************************)
EXTENDS API, PlanSteps, Functions

Seqs == INSTANCE SequencesExt

CONSTANTS Catalogue,    \* the plans, by the name of their function
          Filters,      \* the provenance filters a plan may be run under
          Leads,        \* what an unordered container may hold first
          PlansOf(_),   \* the plans run on a file
          ClassOf,      \* the class a type stands for
          MayInvent,    \* plans not held to printing solutions only,
          MayLose,      \* to printing every solution,
          MayHide       \* to printing the provenance of every row

ASSUME PlanAssumption ==
    /\ \A f \in Filters : f \subseteq Key
    /\ MayInvent \cup MayLose \cup MayHide \subseteq DOMAIN Catalogue

VARIABLES plan,       \* the plan run last
          filter,     \* the filter it ran under; Key if ProvTrigerON is off
          rows        \* what it printed

planVars == <<plan, filter, rows>>

NoPlan == "none"

\* KeyManager::Get: 0 if the data does not have the URI or literal.
Get(uri) == IF uri \in Key THEN uri ELSE NoKey

-----------------------------------------------------------------------------
(* Running a plan: a row holds its bindings, and the provenances printed for it *)

Value(row, x) == IF x = Anything THEN Any
                 ELSE IF x \in DOMAIN row.at THEN row.at[x] ELSE Get(x)

\* row with v bound to one of the keys, and with their provenance.
Extend(row, v, keys, prov) ==
    {[at   |-> [x \in DOMAIN row.at \cup {v} |-> IF x = v THEN k ELSE row.at[x]],
      prov |-> row.prov \cup prov] :
        k \in {x \in keys : v \in DOMAIN row.at => x = row.at[v]}}

\* What begin() of an unordered container yields: any element may be the lead.
Begin(S, lead) == IF lead \in S THEN lead ELSE CHOOSE x \in S : TRUE

First(S, lead) == {x \in S : x = Begin(S, lead)}

\* GetSubjects never clears the provenances of one molecule before the next:
\* prov[i] is that of the first i + 1 subjects, in no known order.
SubjectsOf(row, call, f, lead) ==
    LET prov(m) == SubjectProv(m, Value(row, call.o), Value(row, call.p), f)
        rowsOf(found) ==
            CASE call.call = "GetSubjects" ->
                   Extend(row, call.v, found, UNION {prov(m) : m \in found})
              [] call.call = "GetSubjects, prov[0]" ->
                   UNION {Extend(row, call.v, found, prov(m)) :
                          m \in First(found, lead)}
              [] call.call = "GetSubjects, multimap" ->
                   UNION {Extend(row, call.v, {m}, {Begin(prov(m), lead)}) : m \in found}
              [] call.call = "not in GetSubjects" ->
                   IF row.at[call.v] \in found THEN {} ELSE {row}
    IN  UNION {rowsOf(found) : found \in {GetSubjects(Value(row, call.o), Value(row, call.p), f)}}

\* Slip: the first object instead of all.
ObjectsOfFirst(row, call, f) ==
    LET got == GetObjects(Value(row, call.s), Value(row, call.p), f)
    IN  Extend(row, call.v, First(got.result, NoPlan), IF call.shown THEN got.prov ELSE {})

ObjectsOf(row, call, f) ==
    LET got == GetObjects(Value(row, call.s), Value(row, call.p), f)
    IN  Extend(row, call.v, got.result, IF call.shown THEN got.prov ELSE {})

\* Every combination of the projected objects of a molecule.
Combine(row, projections, results) ==
    LET bound[i \in 0..Len(projections)] ==
            IF i = 0 THEN {row}
            ELSE UNION {Extend(r, projections[i][2], results[i], {}) : r \in bound[i - 1]}
    IN  bound[Len(projections)]

\* Slip: prov is 1 for the constraints that are required.
PatternOfSwapped(row, v, p, o, optional) ==
    [subject   |-> IF v \in DOMAIN row.at THEN row.at[v] ELSE NoKey,
     predicate |-> Value(row, p), object |-> o, prov |-> 1 - optional]

\* The TripleIDs of a call; the subject is 0 unless v is bound.
PatternOf(row, v, p, o, optional) ==
    [subject   |-> IF v \in DOMAIN row.at THEN row.at[v] ELSE NoKey,
     predicate |-> Value(row, p), object |-> o, prov |-> optional]

StarOf(row, call, linked, f) ==
    LET pattern(c, optional) == PatternOf(row, call.v, c[1], Value(row, c[2]), optional)
        constrains == linked
            \o [i \in DOMAIN call.constrains |-> pattern(call.constrains[i], 0)]
            \o [i \in DOMAIN call.optional |-> pattern(call.optional[i], 1)]
        projections == [i \in DOMAIN call.projections |->
            PatternOf(row, call.v, call.projections[i][1], NoKey, 0)]
        rowsOf(m, answer) ==
            UNION {Combine(r, call.projections, answer.results) :
                   r \in Extend(row, call.v, {m}, UNION {answer.prov[i] : i \in DOMAIN answer.prov})}
    IN  UNION {UNION {rowsOf(m, found[m]) : m \in DOMAIN found} :
            found \in {TriplePatern(constrains, projections, f)}}

StartRow == [at |-> <<>>, prov |-> {}]

\* Slip: the loop over the values stops before the last.
LinkedButLast(rs, call) ==
    [i \in 1..(Cardinality({r.at[call.each] : r \in rs}) - 1) |->
        PatternOf(StartRow, call.v, Anything,
                  Seqs!SetToSeq({r.at[call.each] : r \in rs})[i], 0)]

\* The constraints made of the values of call.each, for all rows at once.
Linked(rs, call) ==
    LET linkedTo(values) ==
            IF values = <<>> /\ call.guarded
            THEN <<PatternOf(StartRow, call.v, NoKey, NoKey, 0)>>
            ELSE [i \in DOMAIN values |-> PatternOf(StartRow, call.v, Anything, values[i], 0)]
    IN  linkedTo(Seqs!SetToSeq({r.at[call.each] : r \in rs}))

RowsAfter(rs, call, f, lead) ==
    CASE call.call = "GetObjects" -> UNION {ObjectsOf(r, call, f) : r \in rs}
      [] call.call = "list" -> UNION {Extend(r, call.v, {Get(u) : u \in call.uris}, {}) : r \in rs}
      [] call.call = "type" -> {r \in rs : TypeOf[r.at[call.v]] = GetType(Get(call.uri))}
      [] call.call = "TriplePatern" ->
           LET ofAll == "each" \in DOMAIN call
               linked == IF ofAll THEN Linked(rs, call) ELSE <<>>
           IN  UNION {StarOf(r, call, linked, f) : r \in IF ofAll /\ rs = {} THEN {StartRow} ELSE rs}
      [] OTHER -> UNION {SubjectsOf(r, call, f, lead) : r \in rs}

RunSteps(steps, f, lead) ==
    LET after[i \in 0..Len(steps)] ==
            IF i = 0 THEN {StartRow} ELSE RowsAfter(after[i - 1], steps[i], f, lead)
    IN  after[Len(steps)]

\* A plan is a set of sequences of calls, whose answers are put together.
Run(name, f, lead) ==
    {[r EXCEPT !.at = Restrict(@, Catalogue[name].prints)] :
        r \in UNION {RunSteps(s, f, lead) : s \in Catalogue[name].steps}}

-----------------------------------------------------------------------------
(* A process that loads a file and runs plans, one after the other *)

PlanInit ==
    /\ Init
    /\ plan = NoPlan /\ filter = {} /\ rows = {}

Load == Next /\ UNCHANGED planVars

\* Slip: the filter is read, but not switched on.
RunPlanUnfiltered(name) ==
    /\ phase = "serving"
    /\ \E f \in Filters, lead \in Leads :
          filter' = f /\ rows' = Run(name, Key, lead)
    /\ plan' = name
    /\ UNCHANGED vars

RunPlan(name) ==
    /\ phase = "serving"
    /\ \E f \in Filters, lead \in Leads :
          filter' = f /\ rows' = Run(name, f, lead)
    /\ plan' = name
    /\ UNCHANGED vars

PlanNext == Load \/ \E name \in PlansOf(triples) : RunPlan(name)

PlanSpec == PlanInit /\ [][PlanNext]_<<vars, planVars>>

-----------------------------------------------------------------------------
(* What the SPARQL text of a plan means *)

\* The triples shown, with those of rdf:type, which LoadData keeps as the types
\* of the keys and not as quads.
Facts(f) ==
    {<<q.subject, q.predicate, q.object>> : q \in Quads(f)}
    \cup {<<s, "rdf:type", ClassOf[TypeOf[s]]>> :
             s \in {q.subject : q \in {x \in Quads(Key) : TypeOf[x.subject] \in DOMAIN ClassOf}}}

\* The bindings that make a pattern the triple.
Unified(b, pattern, fact) ==
    LET vars3 == {i \in 1..3 : pattern[i] \in Variable}
        same == \A i \in 1..3 : IF i \in vars3
                    THEN pattern[i] \in DOMAIN b => b[pattern[i]] = fact[i]
                    ELSE pattern[i] \in {fact[i], Anything}
    IN  IF same THEN {[v \in DOMAIN b \cup {pattern[i] : i \in vars3} |->
                          IF v \in DOMAIN b THEN b[v]
                          ELSE fact[CHOOSE i \in vars3 : pattern[i] = v]]}
        ELSE {}

\* The solutions of a group of patterns: their join.
Solutions(where, facts) ==
    LET join[i \in 0..Len(where)] ==
            IF i = 0 THEN {<<>>}
            ELSE UNION {UNION {Unified(b, where[i], t) : t \in facts} : b \in join[i - 1]}
    IN  join[Len(where)]

Expected ==
    {Restrict(b, Catalogue[plan].prints) :
        b \in UNION {Solutions(w, Facts(filter)) : w \in Catalogue[plan].where}}

Printed == {r.at : r \in rows}

-----------------------------------------------------------------------------
(* Properties *)

PlanTypeOK ==
    /\ plan \in DOMAIN Catalogue \cup {NoPlan}
    /\ filter \subseteq Key
    /\ \A r \in rows : r.prov \subseteq filter
           /\ \A v \in DOMAIN r.at : r.at[v] \in Key \cup {NoKey}

\* Every row a plan prints is a solution of the SPARQL query above it: the
\* intersections and loops written by hand leave out no pattern, and no value
\* of one row ends up in another.
NothingInvented == plan \notin MayInvent \cup {NoPlan} => Printed \subseteq Expected

\* Every solution of the SPARQL query is printed: no call that comes back empty,
\* no constant and no inner loop cuts off the rest.
NothingLost == plan \notin MayLose \cup {NoPlan} => Expected \subseteq Printed

\* The provenances printed for a row suffice for it: under a filter of these
\* alone the plan prints the row again.
RowsExplained ==
    plan \in {n \in DOMAIN Catalogue : Catalogue[n].shows} \ MayHide =>
        \A r \in rows : \E again \in Run(plan, r.prov, NoPlan) : again.at = r.at

\* A plan that looks for all linked keys at once is exact if there is just one.
OneLinkExact ==
    plan # NoPlan =>
        \A s \in Catalogue[plan].steps :
            /\ Len(s) = 2 /\ "each" \in DOMAIN s[2]
            /\ Cardinality({r.at[s[2].each] : r \in RunSteps(<<s[1]>>, filter, NoPlan)}) = 1
            => Printed = Expected
=============================================================================

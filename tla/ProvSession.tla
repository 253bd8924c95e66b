----------------------------- MODULE ProvSession -----------------------------
(***************************************************************************)
(* A session of run_queries over the loaded store.  Every query file is    *)
(* run a number of times by TPDemo, which first runs the provenance query  *)
(* of file_p, if there is one, and from then on shows only the entries     *)
(* whose provenance that query has returned.                               *)
(*                                                                         *)
(* ProvUris and ProvTrigerON are globals that nothing resets: the second   *)
(* time, the provenance query itself runs under the filter it has built.   *)
(***************************************************************************)
EXTENDS API

CONSTANTS FileQueries,   \* the query files: constrains and projections
          FixedQueries,  \* the patterns written down in BTCprov::q01, q02, ...
          ProvQueries,   \* the query files that may be given as file_p
          NoFile,        \* an empty file name
          Repetitions,   \* 5: the times run_queries runs a query file
          QNum           \* q_num: the query files of a session

Queries == FileQueries \cup FixedQueries

QueryFile == [constrains: Seq(Pattern), projections: Seq(Pattern)]

\* What the callers guarantee: some pattern to start from, whose object is
\* known unless its subject is, and which is not optional.
WellPosed(q) ==
    LET c == q.constrains IN
    /\ q \in QueryFile
    /\ IF c = <<>> THEN q.projections # <<>> /\ q.projections[1].prov = 0
       ELSE c[1].prov = 0 /\ (c[1].object # Any \/ c[1].subject # NoKey)

ASSUME SessionAssumption ==
    /\ \A q \in Queries \cup ProvQueries : WellPosed(q)
    /\ NoFile \notin Queries \cup ProvQueries
    /\ Repetitions \in Nat \ {0} /\ QNum \in Nat

VARIABLES
    file_p,         \* the provenance query, set once
    file_q,         \* the query file run now
    query_id,       \* how many query files have been opened
    repetition,     \* how often file_q has been run
    ProvUris,       \* what the provenance query has returned
    ProvTrigerON,   \* TRUE once the filter is on
    query,          \* the last query run
    answer          \* its rows, by molecule

session == <<file_p, file_q, query_id, repetition, ProvUris, ProvTrigerON,
             query, answer>>

\* The provenances that provenanceTriger lets through.
Filter == IF ProvTrigerON THEN ProvUris ELSE Key

Row == [results: Seq(SUBSET Key), prov: Seq(SUBSET Key)]

SessionTypeOK ==
    /\ TypeOK
    /\ file_p \in ProvQueries \cup {NoFile}
    /\ file_q \in FileQueries \cup {NoFile}
    /\ query_id \in 0..QNum
    /\ repetition \in 0..Repetitions
    /\ ProvUris \subseteq Key
    /\ ProvTrigerON \in BOOLEAN
    /\ query \in Queries \cup {NoFile}
    /\ DOMAIN answer \subseteq Key /\ \A m \in DOMAIN answer : answer[m] \in Row

SessionInit ==
    /\ Init
    /\ file_p \in ProvQueries \cup {NoFile}
    /\ file_q = NoFile
    /\ query_id = 0
    /\ repetition = 0
    /\ ProvUris = {}
    /\ ProvTrigerON = FALSE
    /\ query = NoFile
    /\ answer = <<>>

\* LoadData, which knows nothing of the session.
Load == Next /\ UNCHANGED session

\* No query file is being run.
BetweenFiles == phase = "serving" /\ (file_q = NoFile \/ repetition = Repetitions)

\* Slip: query_id <= q_num in the loop over the files.
OpenQueryOneMore(q) ==
    /\ BetweenFiles /\ query_id <= QNum
    /\ query_id' = query_id + 1
    /\ file_q' = q /\ repetition' = 0
    /\ UNCHANGED <<vars, file_p, ProvUris, ProvTrigerON, query, answer>>

\* The next file of run_queries.
OpenQuery(q) ==
    /\ BetweenFiles /\ query_id < QNum
    /\ query_id' = query_id + 1
    /\ file_q' = q /\ repetition' = 0
    /\ UNCHANGED <<vars, file_p, ProvUris, ProvTrigerON, query, answer>>

Run(q, filter) == TriplePatern(q.constrains, q.projections, filter)

\* Every key of every projection of every row.
UrisOf(rows) == UNION {UNION {rows[m].results[i] : i \in DOMAIN rows[m].results}
                       : m \in DOMAIN rows}

\* A run of file_q, where uris is what the run of file_p makes of ProvUris.
TPDemoWith(uris) ==
    /\ phase = "serving" /\ file_q # NoFile /\ repetition < Repetitions
    /\ \/ file_p # NoFile /\ ProvUris' = uris /\ ProvTrigerON' = TRUE
       \/ file_p = NoFile /\ UNCHANGED <<ProvUris, ProvTrigerON>>
    /\ answer' = Run(file_q, IF ProvTrigerON' THEN ProvUris' ELSE Key)
    /\ query' = file_q /\ repetition' = repetition + 1
    /\ UNCHANGED <<vars, file_p, file_q, query_id>>

\* Slip: ProvUris is cleared before the provenance query is run again.
TPDemoClearing ==
    TPDemoWith(UrisOf(Run(file_p, IF ProvTrigerON THEN {} ELSE Key)))

\* Slip: the filter is switched on before the provenance query is run.
TPDemoFilterFirst == TPDemoWith(ProvUris \cup UrisOf(Run(file_p, ProvUris)))

\* One run of TPDemo: the provenance query under the filter as it stands, then
\* the query under the filter it leaves.
TPDemo == TPDemoWith(ProvUris \cup UrisOf(Run(file_p, Filter)))

\* A query of BTCprov that is one call of TriplePatern.
RunFixed(q) ==
    /\ BetweenFiles
    /\ answer' = Run(q, Filter) /\ query' = q
    /\ UNCHANGED <<vars, file_p, file_q, query_id, repetition, ProvUris, ProvTrigerON>>

SessionNext ==
    \/ Load
    \/ \E q \in FileQueries : OpenQuery(q)
    \/ TPDemo
    \/ \E q \in FixedQueries : RunFixed(q)

sessionVars == <<vars, session>>

SessionSpec == SessionInit /\ [][SessionNext]_sessionVars

-----------------------------------------------------------------------------
(* What a star query means: read from the lines of the input alone *)

\* The quads of m that match a pattern; a projection leaves the object open.
Matches(m, c, quads) ==
    {q \in quads : /\ q.subject = m
                   /\ c.predicate \in {Any, q.predicate}
                   /\ c.object \in {Any, q.object}}

Open(p) == [p EXCEPT !.object = Any]

\* The molecules that match every pattern that is not optional, the first one
\* with its subject if it names one.
Star(qr, quads) ==
    LET c == qr.constrains
        p == qr.projections
        first == IF c = <<>> THEN p[1].subject ELSE c[1].subject
    IN  {m \in Key :
            /\ c = <<>> \/ first # NoKey => m = first
            /\ \A i \in DOMAIN c : c[i].prov = 1 \/ Matches(m, c[i], quads) # {}
            /\ \A i \in DOMAIN p : p[i].prov = 1 \/ Matches(m, Open(p[i]), quads) # {}}

StarAnswer(qr, quads) ==
    LET c == qr.constrains
        p == qr.projections
        prov(m, x) == {q.prov : q \in Matches(m, x, quads)}
    IN  [m \in Star(qr, quads) |->
            [results |-> [i \in DOMAIN p |-> {q.object : q \in Matches(m, Open(p[i]), quads)}],
             prov    |-> [i \in DOMAIN c |-> prov(m, c[i])]
                         \o [i \in DOMAIN p |-> prov(m, Open(p[i]))]]]

\* The answer of a run, with the provenance of every part of it, is what the
\* query means over the quads the filter shows: nothing is lost because the
\* candidates come from one index and one pattern only, predicates are stored
\* as template IDs, or wildcards go through the templates.
AnswersExact == query # NoFile => answer = StarAnswer(query, Quads(Filter))

\* GetSubjects and GetObjects, which every other query is a nest of, mean their
\* pattern over the quads the filter shows: neither the detour through the index
\* and the templates of each candidate's type nor a key without a molecule loses
\* a subject or an object, or adds one whose predicate is another.
LookupsExact ==
    phase = "serving" =>
        /\ \A o \in Key, p \in Key \cup {Any} :
               GetSubjects(o, p, Filter) =
                   {q.subject : q \in {x \in Quads(Filter) :
                                         x.object = o /\ p \in {Any, x.predicate}}}
        /\ \A s \in Key, p \in Key \cup {Any} :
               GetObjects(s, p, Filter) =
                   [result |-> {q.object : q \in Matches(s, [predicate |-> p, object |-> Any], Quads(Filter))},
                    prov   |-> {q.prov : q \in Matches(s, [predicate |-> p, object |-> Any], Quads(Filter))}]

\* The filter is what the provenance query means over the whole store, however
\* often it has been run again under its own filter.
FilterExact ==
    ProvTrigerON => ProvUris = UrisOf(StarAnswer(file_p, Quads(Key)))

\* The provenance of a row suffices for it: under a filter of these values
\* alone the query returns the same row.
ProvOf(row) == UNION {row.prov[i] : i \in DOMAIN row.prov}

ProvenanceSuffices ==
    \A m \in DOMAIN answer :
        LET again == Run(query, ProvOf(answer[m]) \cap Filter)
        IN  m \in DOMAIN again /\ again[m] = answer[m]

\* The repetitions of a query measure the same work: they give one answer.
RepetitionsAgree ==
    [][repetition > 0 /\ repetition' > repetition => answer' = answer]_sessionVars
=============================================================================

------------------------------- MODULE MCPlans -------------------------------
(***************************************************************************)
(* Plans with the catalogues of the three query sets.  The files of a plan *)
(* are made from the patterns of its SPARQL text: one solution, the same   *)
(* without one of its lines or with one of them from a second graph, and   *)
(* with a second value of some variables, all lines of it or all but one.  *)
(* Each plan is run once on each of its files.                             *)
(***************************************************************************)
EXTENDS Plans

LOCAL D == INSTANCE WatDiv
LOCAL B == INSTANCE BTC
LOCAL W == INSTANCE WDC

AllPlans ==
    [l1 |-> D!l1, l2 |-> D!l2, l4 |-> D!l4, l5 |-> D!l5, s1 |-> D!s1, s4 |-> D!s4,
     s7 |-> D!s7, f1 |-> D!f1, f2 |-> D!f2, f3 |-> D!f3, f4 |-> D!f4, f5 |-> D!f5, c1 |-> D!c1, c2 |-> D!c2, c3 |-> D!c3,
     btc_q01 |-> B!q01, btc_q02 |-> B!q02, btc_q03 |-> B!q03, btc_q04 |-> B!q04,
     btc_q05 |-> B!q05, btc_q06 |-> B!q06, btc_q08 |-> B!q08, btc_q09 |-> B!q09,
     btc_q10 |-> B!q10,
     wdc_q01 |-> W!q01, wdc_q02 |-> W!q02, wdc_q03 |-> W!q03, wdc_q04 |-> W!q04,
     wdc_q05 |-> W!q05, wdc_q06 |-> W!q06, wdc_q07 |-> W!q07]

MCCatalogue == AllPlans

\* A single plan, held to everything.
JoinCatalogue == [s4 |-> D!s4]
NoPlans == {}

\* Those that ask for rdf:type under another URI neither read what their text says
\* nor find what it asks for.
MCMayInvent == {"s4", "s7", "f1", "f2", "f4", "f5", "wdc_q04"}
MCMayLose   == {"s7", "f1", "f2", "f4", "f5", "btc_q04", "wdc_q04"}
MCMayHide   == {"l1", "s1"}

Politicians == 3
Products == 4
MCClassOf ==
    [t \in {Politicians, Products, 5} |->
        CASE t = Politicians -> "yago:Politician" [] t = Products -> "wsdbm:ProductCategory2" [] t = 5 -> "a class"]

\* Two values for every variable; a second ?a is no politician.
Values(name, v) ==
    CASE name = "c1" /\ v = "?v3" -> <<"8", "9">>
      [] name = "c3" /\ v = "?v5" -> <<"wsdbm:Gender0", "wsdbm:Gender1">>
      [] OTHER -> <<v \o "1", v \o "2">>

Typed(k) ==
    CASE k \in {"dbr:Paul_Boateng", "?a1"} -> Politicians
      [] k = "?v31" -> Products
      [] k \in {"?v01", "?v11"} -> 5
      [] OTHER -> 2

Line(s, p, o, g) == [subject |-> s, predicate |-> p, object |-> o, prov |-> g]

\* The line for a pattern, where second is the set of variables with their
\* second value.
LineFor(name, pattern, second, g) ==
    LET term(x) == IF x = Anything THEN "some predicate"
                   ELSE IF x \in Variable THEN Values(name, x)[IF x \in second THEN 2 ELSE 1]
                   ELSE x
    IN  Line(term(pattern[1]), term(pattern[2]), term(pattern[3]), g)

\* The patterns that lines of the file can match.
Patterns(where) ==
    SelectSeq(Seqs!FlattenSeq(Seqs!SetToSeq(where)), LAMBDA pattern : pattern[2] # "rdf:type")

Mentioned(patterns) ==
    {v \in Variable : \E i \in DOMAIN patterns, j \in 1..3 : patterns[i][j] = v}

Graph(i) == IF i % 2 = 0 THEN "G1" ELSE "G2"

MoreLines(name) ==
    CASE name = "btc_q08" -> <<Line("dbr:Paul_Boateng", "foaf:name", "Paul", "G1")>>
      [] name = "btc_q10" -> <<Line("?a1", "dbp:wikilink", "dbr:Middle_Ages", "G1")>>
      [] OTHER -> <<>>

FilesOf(name, patterns) ==
    LET line(i) == LineFor(name, patterns[i], {}, Graph(i))
        again(V) == LET touched == SelectSeq(patterns, LAMBDA p : \E j \in 1..3 : p[j] \in V)
                    IN  [i \in DOMAIN touched |->
                            LineFor(name, touched[i], V, IF i % 2 = 0 THEN "G1" ELSE "G3")]
        changed(lines) ==
            {Seqs!RemoveAt(lines, i) : i \in DOMAIN lines}
            \cup {Append(lines, [lines[i] EXCEPT !.prov = "G3"]) : i \in DOMAIN lines}
        more(lines, v, others) ==
            {lines \o again({v}), lines \o again(others)}
            \cup {lines \o Seqs!RemoveAt(again({v}), i) : i \in DOMAIN again({v})}
        files(lines, variables) ==
            {lines} \cup changed(lines) \cup UNION {more(lines, v, variables \ {v}) : v \in variables}
    IN  UNION {{f \o MoreLines(name) : f \in files(lines, Mentioned(patterns))} :
                 lines \in {[i \in DOMAIN patterns |-> line(i)]}}

\* Singletons bind what would otherwise be evaluated again at every use.
Cases ==
    UNION {UNION {UNION {{<<name, f>> : f \in FilesOf(name, patterns)} :
                            patterns \in {Patterns(plans[name].where)}} :
                    name \in DOMAIN plans} : plans \in {Catalogue}}

Files == {case[2] : case \in Cases}

Keys == {"G1", "G2", "G3"}
    \cup UNION {UNION {{l.subject, l.predicate, l.object} : l \in {f[i] : i \in DOMAIN f}} : f \in Files}

\* TLC evaluates an operator without parameters once, but one that a constant
\* stands for every time: these have names of their own.
MCInputs == Files
MCKey == Keys

MCTypeOf == [k \in Keys |-> Typed(k)]

Views == {Keys, {"G1", "G2"}, {"G2", "G3"}}
MCFilters == Views
MCLeads == {"G1", "G3"}
MCPlansOf(file) == {case[1] : case \in {c \in Cases : c[2] = file}}

\* Templates in one order, and one plan for each load.
OneRun ==
    /\ tripleTemplatesTypes' # tripleTemplatesTypes =>
           tripleTemplatesTypes' = tripleTemplatesTypes \ {CHOOSE t \in tripleTemplatesTypes : TRUE}
    /\ plan' # NoPlan => plan = NoPlan
=============================================================================

--------------------------- MODULE MCMoleculeStore ---------------------------
(***************************************************************************)
(* MoleculeStore on every file of at most MaxLines lines drawn from eight  *)
(* quads: Q1 and Q2 are instances of one type, Q3 has no type, C is itself *)
(* a class; one triple comes from two graphs, one predicate has objects of *)
(* two types, one object has two subjects, and one subject is an object.   *)
(***************************************************************************)
EXTENDS MoleculeStore

CONSTANT MaxLines

MCKey == {"Q1", "Q2", "Q3", "C", "P1", "P2", "R", "G1", "G2"}

\* 1: the classes, 2: everything without an rdf:type, 3: the first class
MCTypeOf == [k \in MCKey |-> CASE k \in {"Q1", "Q2"} -> 3
                               [] k = "C" -> 1
                               [] OTHER -> 2]

Line(s, p, o, g) == [subject |-> s, predicate |-> p, object |-> o, prov |-> g]

Lines == { Line("Q1", "P1", "R",  "G1"), Line("Q1", "P1", "R",  "G2"),
           Line("Q1", "P1", "Q2", "G1"), Line("Q1", "P2", "R",  "G2"),
           Line("Q2", "P1", "R",  "G2"), Line("Q2", "P2", "C",  "G1"),
           Line("Q3", "P1", "Q1", "G1"), Line("C",  "P1", "R",  "G1") }

MCInputs == UNION {[1..n -> Lines] : n \in 0..MaxLines}
=============================================================================

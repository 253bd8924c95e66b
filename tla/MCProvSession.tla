---------------------------- MODULE MCProvSession ----------------------------
(***************************************************************************)
(* Sessions over four files.  G1 and G2 are the graphs of the data; the    *)
(* activity A generated one of them, which the graph GM says.  Q1 and Q2   *)
(* are of one type, R1 and R2 of two types, so that a predicate has two    *)
(* templates.                                                              *)
(***************************************************************************)
EXTENDS ProvSession

MCKey == {"Q1", "Q2", "A", "P1", "P2", "gen", "R1", "R2", "G1", "G2", "GM"}

MCTypeOf == [k \in MCKey |-> CASE k \in {"Q1", "Q2"} -> 3
                               [] k = "R1" -> 4
                               [] OTHER -> 2]

Line(s, p, o, g) == [subject |-> s, predicate |-> p, object |-> o, prov |-> g]

Generated(g) == Line("A", "gen", g, "GM")

MCInputs == {
    << Line("Q1", "P1", "R1", "G1"), Line("Q1", "P1", "R1", "G2"),
       Line("Q1", "P2", "R1", "G1"), Line("Q2", "P1", "R1", "G2"),
       Line("Q2", "P2", "R2", "G1"), Generated("G1") >>,
    << Line("Q1", "P1", "R1", "G1"), Line("Q1", "P2", "R1", "G1"),
       Line("Q1", "P1", "R2", "G2"), Line("Q2", "P1", "R2", "G1"), Generated("G2") >>,
    << Line("Q1", "P1", "R1", "G1"), Line("Q1", "P2", "R2", "G2"),
       Line("Q2", "P2", "R1", "G2"), Generated("G1"), Generated("GM") >>,
    << Line("Q1", "P1", "R1", "G1"), Line("Q1", "P2", "R1", "G2"),
       Line("Q1", "P2", "R2", "G1"), Line("A", "P1", "R1", "GM"),
       Line("A", "P1", "G2", "G1") >> }

Of(s, p, o) == [subject |-> s, predicate |-> p, object |-> o, prov |-> 0]
Var(p, o)   == Of(NoKey, p, o)
Optional(c) == [c EXCEPT !.prov = 1]
Star2(c, p) == [constrains |-> c, projections |-> p]

\* Query files: unknown URIs are NoKey, a subject variable too.
MCFileQueries == {
    Star2(<<Var("P1", "R1")>>, <<Var("P1", NoKey), Var("P2", NoKey)>>),
    Star2(<<Var("P1", "R1")>>, <<Var("P1", NoKey)>>),
    Star2(<<Var("P1", "R1"), Var("P2", "R2")>>, <<Var("P2", NoKey)>>),
    Star2(<<Of("Q1", "P2", "R1")>>, <<Var("P1", NoKey)>>),
    Star2(<<>>, <<Of("Q1", "P1", NoKey), Var("P2", NoKey)>>),
    Star2(<<Var(NoKey, "R1")>>, <<Var("P1", NoKey)>>) }

\* The shapes of BTCprov: [] in q01 and q02, both bound in q05, q10.
MCFixedQueries == {
    Star2(<<Var(Any, "R1"), Var("P1", "R1")>>, <<Var("P2", NoKey)>>),
    Star2(<<Of("Q1", "P2", Any)>>, <<Of("Q1", "P2", NoKey)>>),
    Star2(<<Var("P1", "R1"), Optional(Var("P2", "R2"))>>, <<Var("P1", NoKey)>>) }

MCProvQueries == {
    Star2(<<>>, <<Of("A", "gen", NoKey)>>),
    Star2(<<Var("P1", "R1")>>, <<Var("P1", NoKey)>>) }
=============================================================================

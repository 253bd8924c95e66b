------------------------------ MODULE MCCluster ------------------------------
(***************************************************************************)
(* Two nodes, runs of two, and two datasets: one of three molecules, with  *)
(* a class that has a property and a type more than the other, and one of  *)
(* two molecules that shares a molecule, with other templates.             *)
(***************************************************************************)
EXTENDS Cluster, TLC

CONSTANTS A, B, s1, s2, s3, class, p, p2, o, g

MCData == {A, B}
MCMolecule == {s1, s2, s3}

Quad(s, predicate, object) ==
    [subject |-> s, predicate |-> predicate, object |-> object, prov |-> g]

MCQuadsOf == (A :> {Quad(s1, p, o), Quad(s2, p2, o), Quad(s3, p, s1), Quad(class, p, o)})
             @@ (B :> {Quad(s1, p, s2), Quad(s2, p, o)})

MCTypeOf == [k \in {s1, s2, s3, class, p, p2, o, g} |->
                CASE k = s3 -> 3 [] k = class -> 1 [] OTHER -> 2]

Template(root, predicate, ID) ==
    [root |-> root, predicateID |-> predicate, objectType |-> 2, ID |-> ID]

MCTemplatesOf == (A :> {Template(2, p2, 1), Template(2, p, 2), Template(3, p, 1)})
                 @@ (B :> {Template(2, p, 1)})

MCTypesOf == (A :> 4) @@ (B :> 3)

MCOrders == {(A :> <<s3, s1, s2>>) @@ (B :> <<s2, s1>>)}
=============================================================================

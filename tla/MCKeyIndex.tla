----------------------------- MODULE MCKeyIndex -----------------------------
(***************************************************************************)
(* KeyIndex on every file of at most MaxLines lines drawn from Lines.  The *)
(* URIs share prefixes of every length and end in a character that occurs  *)
(* nowhere else, as an IRI does: none is a prefix of another.              *)
(***************************************************************************)
EXTENDS KeyIndex

CONSTANTS MaxLines, Lines

\* The classes
A   == <<"a", ".">>
AB  == <<"a", "b", ".">>
Z   == <<"z", ".">>
\* Instances and values
ABC == <<"a", "b", "c", ".">>
AC  == <<"a", "c", ".">>
B   == <<"b", ".">>
\* A predicate, a graph, and the predicates the loader knows
P   == <<"p", ".">>
G   == <<"g", ".">>
MCRdfType    == <<"t", ".">>
MCSubClassOf == <<"s", ".">>

MCUri == {A, AB, Z, ABC, AC, B, P, G, MCRdfType, MCSubClassOf}

Data(s, p, o) == [subject |-> s, predicate |-> p, object |-> o, prov |-> G]

MCLines == { Data(ABC, MCRdfType, A), Data(ABC, MCRdfType, AB), Data(ABC, MCRdfType, Z),
             Data(AC, MCRdfType, AB), Data(AB, MCSubClassOf, A), Data(Z, MCSubClassOf, A),
             Data(B, P, ABC), Data(ABC, P, AC), Data(AC, P, A), Data(AB, P, B) }

\* A plain literal is a prefix of the same literal with a language tag.
Eight   == <<"q", "8", "q">>
EightEn == <<"q", "8", "q", "@">>

LiteralUri == MCUri \cup {Eight, EightEn}

LiteralLines == { Data(B, P, EightEn), Data(ABC, P, Eight), Data(AC, P, EightEn) }

\* An instance of a class and of a subclass of it, said in either order.
SubclassLines == { Data(AB, MCSubClassOf, A), Data(ABC, MCRdfType, A), Data(ABC, MCRdfType, AB) }

MCInputs == UNION {[1..n -> Lines] : n \in 0..MaxLines}
=============================================================================

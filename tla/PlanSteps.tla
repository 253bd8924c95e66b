------------------------------ MODULE PlanSteps ------------------------------
(***************************************************************************)
(* What the hand-written query plans are made of: calls of API and loops   *)
(* over their answers.  URIs and variables are strings; a variable starts  *)
(* with a question mark, and "[]" stands for anything.                     *)
(***************************************************************************)
EXTENDS Sequences

Anything == "[]"

Variable == {"?v0", "?v1", "?v2", "?v3", "?v4", "?v5", "?v6", "?v7", "?v8", "?v9", "?u3",
             "?a", "?b", "?bn", "?c", "?d", "?desc", "?j", "?l", "?lat", "?long", "?n",
             "?p", "?page", "?s", "?t", "?title", "?x", "?y"}

\* A plan: its calls, one sequence for each part of a union; the variables it
\* prints; whether it prints provenance; and the patterns of its SPARQL text.
Plan(steps, prints, shows, where) ==
    [steps |-> steps, prints |-> prints, shows |-> shows, where |-> where]

\* for (v in GetSubjects(o, p)), or the v bound before that are in it; the
\* provenances of all of them are printed together.
Sub(v, p, o) == [call |-> "GetSubjects", v |-> v, p |-> p, o |-> o]

\* The same; what is printed is prov[0].
SubFirst(v, p, o) == [call |-> "GetSubjects, prov[0]", v |-> v, p |-> p, o |-> o]

\* GetSubjects into a multimap: each subject with one of its provenances.
SubMap(v, p, o) == [call |-> "GetSubjects, multimap", v |-> v, p |-> p, o |-> o]

\* The values of v that are not in GetSubjects(o, p).
NotSub(v, p, o) == [call |-> "not in GetSubjects", v |-> v, p |-> p, o |-> o]

\* for (v in GetObjects(s, p)), with its provenance printed, or not.
Obj(s, p, v) == [call |-> "GetObjects", s |-> s, p |-> p, v |-> v, shown |-> TRUE]
ObjHidden(s, p, v) == [Obj(s, p, v) EXCEPT !.shown = FALSE]

\* for (v in {the keys of a list of URIs})
OneOf(v, uris) == [call |-> "list", v |-> v, uris |-> uris]

\* The values of v that have the type of a known instance.
TypeAs(v, uri) == [call |-> "type", v |-> v, uri |-> uri]

\* TriplePatern around v, with pairs <<predicate, object>> as constraints and
\* <<predicate, variable>> as projections.
Star(v, constrains, projections) ==
    [call |-> "TriplePatern", v |-> v, constrains |-> constrains,
     optional |-> <<>>, projections |-> projections]

\* With constraints a row need not meet (prov = 1), after the others.
StarOptional(v, constrains, optional, projections) ==
    [Star(v, constrains, projections) EXCEPT !.optional = optional]

\* One TriplePatern for all the rows so far: its first constraints are that v
\* has some predicate with every value of each; guarded if a pattern no molecule
\* meets takes their place when there is none.
StarOfAll(v, each, guarded, constrains, projections) ==
    [call |-> "TriplePatern", v |-> v, constrains |-> constrains, optional |-> <<>>,
     projections |-> projections, each |-> each, guarded |-> guarded]

SubjectCalls == {"GetSubjects", "GetSubjects, prov[0]", "GetSubjects, multimap",
                 "not in GetSubjects"}

\* All calls there may be.
SubjectCall == [call: SubjectCalls, v: Variable, p: STRING, o: STRING]

ObjectCall == [call: {"GetObjects"}, s: STRING, p: STRING, v: Variable, shown: BOOLEAN]

ListCall == [call: {"list"}, v: Variable, uris: SUBSET STRING]

TypeCall == [call: {"type"}, v: Variable, uri: STRING]

StarCall == [call: {"TriplePatern"}, v: Variable, constrains: Seq(STRING \X STRING),
             optional: Seq(STRING \X STRING), projections: Seq(STRING \X Variable)]

StarOfAllCall == [call: {"TriplePatern"}, v: Variable, constrains: Seq(STRING \X STRING),
                  optional: Seq(STRING \X STRING), projections: Seq(STRING \X Variable),
                  each: Variable, guarded: BOOLEAN]

Call == SubjectCall \cup ObjectCall \cup ListCall \cup TypeCall \cup StarCall \cup StarOfAllCall

TriplePattern == STRING \X STRING \X STRING

AnyPlan == [steps: SUBSET Seq(Call), prints: SUBSET Variable, shows: BOOLEAN,
            where: SUBSET Seq(TriplePattern)]
=============================================================================

------------------------------ MODULE MCNetwork ------------------------------
(***************************************************************************)
(* Two nodes, every query asked twice of a few molecules: some that are    *)
(* solutions, alone and together with others, and some that miss one by a  *)
(* predicate, a type or an object.  They are dealt to the nodes in every   *)
(* way.  As in LUBM's data a student has one advisor, department, degree   *)
(* and e-mail address, and a course one teacher.                           *)
(***************************************************************************)
EXTENDS Gathering

TA == "GraduateStudent and TeachingAssistant"    \* a composite type
Mail == "UndergraduateStudent0@Department0"

MCTypeOf ==
    [k \in {"g1", "g2", "u1", "u2", "prof", "AssistantProfessor0", "AssociateProfessor0", "GraduateCourse0",
            "Course0", "Course1", "Department0", "Department1", "University0", "University1", "group0",
            "group1", "pub0", "pub1", "a", "b", Mail} |->
       CASE k = "g1" -> "GraduateStudent" [] k = "g2" -> TA [] k \in {"u1", "u2"} -> "UndergraduateStudent"
         [] k = "prof" -> "FullProfessor" [] k = "AssistantProfessor0" -> "AssistantProfessor"
         [] k = "AssociateProfessor0" -> "AssociateProfessor" [] k = "GraduateCourse0" -> "GraduateCourse"
         [] k \in {"Course0", "Course1"} -> "Course" [] k \in {"Department0", "Department1"} -> "Department"
         [] k \in {"University0", "University1"} -> "University"
         [] k \in {"group0", "group1"} -> "ResearchGroup" [] k \in {"pub0", "pub1"} -> "Publication"
         [] OTHER -> Literal]

Students == {"UndergraduateStudent", "GraduateStudent", TA}
Professors == {"FullProfessor", "AssistantProfessor", "AssociateProfessor"}

MCHierarchy == [Person |-> Students \cup Professors, Student |-> Students, Professor |-> Professors,
                Faculty |-> Professors, Course |-> {"Course", "GraduateCourse"},
                ResearchGroup |-> {"ResearchGroup"}]

MCComposites == [GraduateStudent |-> {"GraduateStudent", TA}, Publication |-> {"Publication"},
                 UndergraduateStudent |-> {"UndergraduateStudent"}, University |-> {"University"},
                 Department |-> {"Department"}]

\* In the order of LUBM's files, in which professors come before students
MCKeyOf ==
    LET order == <<"name", "teacherOf", "undergraduateDegreeFrom", "worksFor", "emailAddress", "telephone",
                   "takesCourse", "memberOf", "advisor", "subOrganizationOf",
                   Literal, "University", "Department", "ResearchGroup", "GraduateCourse", "Course", "Publication",
                   "FullProfessor", "AssociateProfessor", "AssistantProfessor",
                   "UndergraduateStudent", "GraduateStudent", TA>>
    IN  [x \in AsSet(order) |-> CHOOSE i \in DOMAIN order : order[i] = x]

Courses == {<<"g1", "takesCourse", "GraduateCourse0">>, <<"g2", "takesCourse", "GraduateCourse0">>,
            <<"u1", "takesCourse", "Course0">>, <<"AssistantProfessor0", "teacherOf", "GraduateCourse0">>}

Names == {<<"g1", "name", "a">>, <<"g2", "name", "b">>, <<"u1", "name", "a">>, <<"prof", "name", "b">>}

Organisations == {<<"Department0", "subOrganizationOf", "University0">>,
                  <<"Department1", "subOrganizationOf", "University1">>}

Degrees == Organisations \cup
    {<<"g1", "memberOf", "Department0">>, <<"g1", "undergraduateDegreeFrom", "University0">>,
     <<"g2", "memberOf", "Department1">>, <<"g2", "undergraduateDegreeFrom", "University0">>}

Mails == Organisations \cup
    {<<"g1", "memberOf", "Department0">>, <<"g1", "emailAddress", "a">>,
     <<"u1", "memberOf", "Department1">>, <<"u1", "emailAddress", Mail>>}

Teachers ==
    {<<"AssistantProfessor0", "teacherOf", "GraduateCourse0">>, <<"AssociateProfessor0", "teacherOf", "Course0">>,
     <<"g1", "advisor", "AssistantProfessor0">>, <<"g1", "takesCourse", "GraduateCourse0">>,
     <<"u1", "advisor", "AssistantProfessor0">>, <<"u1", "takesCourse", "Course0">>}

Groups == Organisations \cup
    {<<"group0", "subOrganizationOf", "Department0">>, <<"group1", "subOrganizationOf", "Department1">>}

Professor0 == {<<"AssistantProfessor0", "worksFor", "Department0">>, <<"AssistantProfessor0", "name", "a">>,
               <<"AssistantProfessor0", "emailAddress", "b">>}

Neighbours == {<<"u1", "emailAddress", Mail>>, <<"u1", "memberOf", "Department0">>,
               <<"Department0", "subOrganizationOf", "University0">>, <<"Department0", "name", "a">>,
               <<"University0", "name", "b">>}

MCStored ==
    [q01 |-> {Courses}, q10 |-> {Courses}, q06 |-> {Names}, q14 |-> {Names}, q17 |-> {Names},
     q02s1 |-> {Degrees, Degrees \ Organisations}, q02s2 |-> {Degrees}, q08s1 |-> {Mails}, q08s2 |-> {Mails},
     q09s1 |-> {Teachers}, q09s2 |-> {Teachers}, q11s1 |-> {Groups}, q11s2 |-> {Groups},
     q16s1 |-> {Neighbours}, q16s2 |-> {Neighbours},
     q03 |-> {{<<"pub0", "publicationAuthor", "AssistantProfessor0">>, <<"pub1", "publicationAuthor", "prof">>,
               <<"pub1", "publicationAuthor", "AssistantProfessor0">>, <<"g1", "advisor", "AssistantProfessor0">>}},
     q04 |-> {Professor0, Professor0 \cup
              {<<"AssistantProfessor0", "telephone", "a">>, <<"g1", "memberOf", "Department0">>,
               <<"prof", "worksFor", "Department0">>, <<"prof", "name", "b">>,
               <<"prof", "emailAddress", "a">>, <<"prof", "telephone", "b">>}},
     q05 |-> {{<<"g1", "memberOf", "Department0">>, <<"u1", "memberOf", "Department0">>,
               <<"g2", "memberOf", "Department1">>, <<"prof", "worksFor", "Department0">>}},
     q07 |-> {{<<"AssociateProfessor0", "teacherOf", "Course0">>,
               <<"AssociateProfessor0", "teacherOf", "GraduateCourse0">>, <<"u1", "takesCourse", "Course0">>,
               <<"g1", "takesCourse", "GraduateCourse0">>, <<"u2", "takesCourse", "Course1">>}},
     q12 |-> {Organisations \cup
              {<<"prof", "headOf", "Department0">>, <<"prof", "worksFor", "Department0">>,
               <<"AssistantProfessor0", "headOf", "Department1">>, <<"AssistantProfessor0", "worksFor", "Department1">>}},
     q13 |-> {{<<"g1", "mastersDegreeFrom", "University0">>, <<"prof", "doctoralDegreeFrom", "University0">>,
               <<"prof", "undergraduateDegreeFrom", "University0">>, <<"g2", "mastersDegreeFrom", "University1">>,
               <<"Department0", "subOrganizationOf", "University0">>}},
     q15 |-> {{<<"g1", "advisor", "AssistantProfessor0">>, <<"g2", "advisor", "AssistantProfessor0">>,
               <<"u1", "advisor", "AssociateProfessor0">>, <<"prof", "headOf", "Department0">>}}]

\* On these stores the node and the master sides of every query fit each other, however
\* the molecules are dealt out: what AnswersAreExact and ResetsOnlyLose take for granted of most of them.
\* For q08s2 that is so because its students have the same templates; see MailStored.
ASSUME QueriesFit ==
    \A q \in DOMAIN MCStored : \A store \in MCStored[q] : \A to \in Dealings(store) :
        GathersExactly(q, store, to) /\ LosesOnly(q, store, to)

-----------------------------------------------------------------------------
(* Where the rows are not what the texts ask for *)

CountStored == [q15 |-> MCStored["q15"]]

\* As in LUBM's data only graduate students have a degree, which shifts the IDs of
\* their other templates.
MailStored == [q08s2 |-> {Mails \cup {<<"g1", "undergraduateDegreeFrom", "University1">>}}]
=============================================================================

----------------------------- MODULE LUBMnetwork -----------------------------
(***************************************************************************)
(* The queries of LUBM_network: what a node computes from the molecules it *)
(* has (q.._n), which lists it sends, and what the master makes of them    *)
(* (q.._m).  A master that only appends the lists it gets has no operator  *)
(* here; it is part of the query's definition.                             *)
(*                                                                         *)
(* A node's db is its triples mine, <<subject, predicate, object>>; all of *)
(* them, whose templates it has read; and maxScope.  The keys and types a  *)
(* query is sent with are those of its text.                               *)
(*                                                                         *)
(* begin() of an unordered_set and what a map keeps of several values are  *)
(* any of them: an operator gives the set of answers there may be.  There  *)
(* is none if begin() of an empty set is read, which the process does not  *)
(* survive.                                                                *)
(***************************************************************************)
EXTENDS Naturals, Sequences, FiniteSets

Seqs == INSTANCE SequencesExt

CONSTANTS TypeOf,       \* KeyManager::GetType
          Hierarchy,    \* TypesHierarchy::GetHierarchyForType
          Composites,   \* TypesHierarchy::GetCompositesForTypes
          KeyOf         \* the keys of predicates and types, of which only the order matters

Literal == "literal"    \* the type of what is no URI

List(S) == Seqs!SetToSeq(S)
AsSet(list) == Seqs!ToSet(list)

\* The functions that have one of Val(x) for every x.
Choices(S, Val(_)) == {f \in [S -> UNION {Val(x) : x \in S}] : \A x \in S : f[x] \in Val(x)}

-----------------------------------------------------------------------------
(* The node's store *)

\* IsItMyObject, M.Get # NULL
Mine(db) == {t[1] : t \in db.mine}

\* GetElementsOfType, for types
Elements(db, types) == {k \in Mine(db) \cup {t[3] : t \in db.mine} : TypeOf[k] \in types}

\* GetEntity in scope 0, with the templates of all object types in types
Objects(db, s, p, types) ==
    {t[3] : t \in {t \in db.mine : t[1] = s /\ t[2] = p /\ TypeOf[t[3]] \in types}}

\* The objects of s in the molecule of root (scope 1): AddTriple has put the
\* triples of the objects of every molecule into it.
ObjectsInScope(db, root, s, p, types) ==
    {t[3] : t \in {t \in db.all : /\ t[1] = s /\ t[2] = p /\ TypeOf[t[3]] \in types
                                  /\ \E u \in db.mine : u[1] = root /\ u[3] = s}}

\* GetMoleculesFromInvertedIdx: of objects in any scope.
Inverted(db, o) ==
    {t[1] : t \in {t \in db.mine : t[3] = o \/ (db.maxScope = 1 /\ \E u \in db.all : u[1] = t[3] /\ u[3] = o)}}

\* find in a multimap of templates by the type of their subject, or a template
\* with object type 0, which stands for any: one of the object types there are.
OneTemplate(db, p, subjects, objects) ==
    LET found(s) == {o \in objects : \E t \in db.all : t[2] = p /\ TypeOf[t[1]] = s /\ TypeOf[t[3]] = o}
    IN  Choices({s \in subjects : found(s) # {}}, found)

AnyType == {TypeOf[k] : k \in DOMAIN TypeOf}

\* As OneTemplate, in scope 1: of one of the types of subjects there are under a root.
OneTemplateInScope(db, p, roots, subjects, o) ==
    LET found(r) == {s \in subjects : /\ \E t \in db.all : t[2] = p /\ TypeOf[t[1]] = s /\ TypeOf[t[3]] = o
                                      /\ \E u \in db.all : TypeOf[u[1]] = r /\ TypeOf[u[3]] = s}
    IN  Choices({r \in roots : found(r) # {}}, found)

\* The templates of a root in scope 0, in the order in which they are added
Templates(db, root) == {<<t[2], TypeOf[t[3]]>> : t \in {t \in db.all : TypeOf[t[1]] = root}}

AddedBefore(x, y) == KeyOf[x[1]] < KeyOf[y[1]] \/ (x[1] = y[1] /\ KeyOf[x[2]] < KeyOf[y[2]])

\* The IDs, which start anew under every root, of those of one predicate
IDs(db, root, p, objects) ==
    {Cardinality({x \in Templates(db, root) : ~AddedBefore(y, x)}) :
        y \in {y \in Templates(db, root) : y[1] = p /\ y[2] \in objects}}

\* GetEntity in scope 0: it compares IDs.
Entity(db, s, ids) ==
    {t[3] : t \in {t \in db.mine : t[1] = s /\ IDs(db, TypeOf[s], t[2], {TypeOf[t[3]]}) \subseteq ids}}

\* An answer of one list.
Ready(S) == {<<List(S)>>}

\* The subjects of triples, each as often as it is one
Subjects(S) == LET list == List(S) IN [i \in DOMAIN list |-> <<list[i][1]>>]

-----------------------------------------------------------------------------
(* Molecules around one object *)

\* The molecules with o as an object, of one of the types, that are p of it.
Around(db, o, p, types) ==
    {s \in Inverted(db, o) : TypeOf[s] \in types /\ <<s, p, o>> \in db.mine}

q01(db) == Ready({<<s>> : s \in Around(db, "GraduateCourse0", "takesCourse", Composites["GraduateStudent"])})

q03(db) == Ready({<<s>> : s \in Around(db, "AssistantProfessor0", "publicationAuthor", Composites["Publication"])})

q05(db) == Ready({<<s>> : s \in Around(db, "Department0", "memberOf", Hierarchy["Person"])})

q10(db) == Ready({<<s>> : s \in Around(db, "GraduateCourse0", "takesCourse", Hierarchy["Person"])})

\* One value of each of three properties.
q04(db) ==
    LET found == Around(db, "Department0", "worksFor", Hierarchy["Professor"])
        begin(p, tmpl) == Choices(found, LAMBDA s : IF TypeOf[s] \in DOMAIN tmpl
                                     THEN Objects(db, s, p, {tmpl[TypeOf[s]]}) ELSE {})
        some(p) == UNION {begin(p, tmpl) : tmpl \in OneTemplate(db, p, Hierarchy["Professor"], AnyType)}
    IN  {<<List({<<s, y1[s], y2[s], y3[s]>> : s \in found})>> :
            y1 \in some("name"), y2 \in some("emailAddress"), y3 \in some("telephone")}

q06(db) == Ready({<<k>> : k \in Elements(db, Hierarchy["Student"]) \cap Mine(db)})

q14(db) == Ready({<<k>> : k \in Elements(db, Composites["UndergraduateStudent"]) \cap Mine(db)})

\* Three predicates; a molecule is listed once for each that it has.
q13(db) ==
    LET found == {t \in db.mine : /\ t[1] \in Inverted(db, "University0") /\ t[3] = "University0"
                                  /\ t[2] \in {"doctoralDegreeFrom", "mastersDegreeFrom", "undergraduateDegreeFrom"}}
    IN  {<<Subjects(found)>>}

\* The set that takes the names is the same for all students of a type, and
\* nothing takes the last one's out.
q17(db) ==
    LET students == Elements(db, Composites["GraduateStudent"]) \cap Mine(db)
        sofar(order, s) == {o \in DOMAIN order : order[o] <= order[s] /\ TypeOf[o] = TypeOf[s]}
        names(order, tmpl) ==
            Choices(students, LAMBDA s : UNION {Objects(db, o, "name", {tmpl[TypeOf[o]]}) :
                                          o \in {o \in sofar(order, s) : TypeOf[o] \in DOMAIN tmpl}})
        orders == {f \in [students -> 1..Cardinality(students)] : \A s, t \in students : f[s] = f[t] => s = t}
    IN  UNION {UNION {{<<List({<<s, n[s]>> : s \in students})>> : n \in names(order, tmpl)} :
            order \in orders} : tmpl \in OneTemplate(db, "name", Composites["GraduateStudent"], AnyType)}

\* For every faculty how many of the node's students it advises.
q15_n(db) ==
    LET advised(f) == Around(db, f, "advisor", Hierarchy["Student"])
    IN  Ready({<<f, Cardinality(advised(f))>> :
                  f \in {f \in Elements(db, Hierarchy["Faculty"]) : advised(f) # {}}})

\* Every row is added to what is there for its key, and the first one is there
\* before it is added: it counts twice.
q15_m(lists) ==
    LET rows == lists[1]
        counts(f) == [i \in DOMAIN rows |-> IF rows[i][1] = f THEN rows[i][2] ELSE 0]
        first(f) == rows[CHOOSE i \in DOMAIN rows : /\ rows[i][1] = f
                                                   /\ \A j \in 1..(i - 1) : rows[j][1] # f]
    IN  Ready({<<f, first(f)[2] + Seqs!FoldSeq(LAMBDA a, b : a + b, 0, counts(f))>> : f \in {row[1] : row \in AsSet(rows)}})

-----------------------------------------------------------------------------
(* Joins on the master *)

\* What an unordered_map may keep of pairs: one of each key.
Kept(pairs) == Choices({x[1] : x \in pairs}, LAMBDA k : {x[2] : x \in {x \in pairs : x[1] = k}})

\* The departments of the node's molecules with their universities; students
\* whose department has one of theirs; and for every other department of a
\* student its first university and its first department, in two lists.
q02s1_n(db) ==
    LET universities(s) == Objects(db, s, "undergraduateDegreeFrom", Composites["University"])
        departments(s) == Objects(db, s, "memberOf", Composites["Department"])
        DepartmentUniversity ==
            UNION {{<<d, u>> : d \in Around(db, u, "subOrganizationOf", Composites["Department"])} :
                     u \in Elements(db, Composites["University"])}
        students == Elements(db, Composites["GraduateStudent"]) \cap Mine(db)
        member == UNION {{<<s, d>> : d \in departments(s)} : s \in students}
        joined(map) == {m \in member : m[2] \in DOMAIN map /\ map[m[2]] \in universities(m[1])}
        answers(map, u, d) ==
            LET others == List(member \ joined(map))
            IN  <<List({<<m[1], m[2], map[m[2]]>> : m \in joined(map)}), List(DepartmentUniversity),
                  [i \in DOMAIN others |-> <<others[i][1], u[others[i][1]]>>],
                  [i \in DOMAIN others |-> <<others[i][1], d[others[i][1]]>>]>>
    IN  UNION {LET asked == {m[1] : m \in member \ joined(map)}
               IN  {answers(map, u, d) : u \in Choices(asked, universities),
                                         d \in Choices(asked, departments)} :
                 map \in Kept(DepartmentUniversity)}

\* find() of a department that no node has a university for gives end(), which
\* is read.
q02s1_m(lists) ==
    LET StudentUniversity == lists[3]
        StudentDepartment == lists[4]
        inStep == {i \in DOMAIN StudentDepartment : \A j \in 1..i :
                      StudentDepartment[j][1] = StudentUniversity[j][1]}
        row(i) == <<StudentDepartment[i][1], StudentDepartment[i][2], StudentUniversity[i][2]>>
    IN  {lists[1] \o List({row(i) : i \in {i \in inStep : map[row(i)[2]] = row(i)[3]}}) :
            map \in {map \in Kept(AsSet(lists[2])) : \A i \in inStep : row(i)[2] \in DOMAIN map}}

\* As q02s1, with the faculty of every course: for every other course of a
\* student the student's first advisor and that course.
q09s1_n(db) ==
    LET advisors(s) == Objects(db, s, "advisor", Hierarchy["Faculty"])
        courses(s) == Objects(db, s, "takesCourse", Hierarchy["Course"])
        CourseFaculty ==
            UNION {{<<c, f>> : f \in Around(db, c, "teacherOf", Hierarchy["Faculty"])} :
                     c \in Elements(db, Hierarchy["Course"])}
        students == {s \in Elements(db, Hierarchy["Student"]) \cap Mine(db) : advisors(s) # {}}
        takes == UNION {{<<s, c>> : c \in courses(s)} : s \in students}
        joined(map) == {t \in takes : t[2] \in DOMAIN map /\ map[t[2]] \in advisors(t[1])}
        answers(map, f) ==
            LET others == List(takes \ joined(map))
            IN  <<List({<<t[1], map[t[2]], t[2]>> : t \in joined(map)}), List(CourseFaculty),
                  [i \in DOMAIN others |-> <<others[i][1], f[others[i][1]]>>], others>>
    IN  UNION {{answers(map, f) : f \in Choices(students, advisors)} : map \in Kept(CourseFaculty)}

q09s1_m(lists) ==
    LET StudentFaculty == lists[3]
        StudentCourse == lists[4]
        inStep == {i \in DOMAIN StudentCourse : \A j \in 1..i :
                      StudentCourse[j][1] = StudentFaculty[j][1]}
        row(i) == <<StudentCourse[i][1], StudentFaculty[i][2], StudentCourse[i][2]>>
    IN  {lists[1] \o List({row(i) : i \in {i \in inStep : map[row(i)[3]] = row(i)[2]}}) :
            map \in {map \in Kept(AsSet(lists[2])) : \A i \in inStep : row(i)[3] \in DOMAIN map}}

\* Of a research group's organisations only the first; with those of the node
\* that belong to the university.
q11s1_n(db) ==
    LET ofUniversity == {s \in Inverted(db, "University0") :
                            <<s, "subOrganizationOf", "University0">> \in db.mine}
        groups == Elements(db, Hierarchy["ResearchGroup"]) \cap Mine(db)
        firsts == UNION {Choices(groups, LAMBDA g : IF TypeOf[g] \in DOMAIN tmpl
                            THEN Objects(db, g, "subOrganizationOf", {tmpl[TypeOf[g]]}) ELSE {}) :
                    tmpl \in OneTemplate(db, "subOrganizationOf", Hierarchy["ResearchGroup"], AnyType)}
    IN  {<<List({<<g>> : g \in {g \in groups : o[g] \in ofUniversity}}),
           List({<<x>> : x \in ofUniversity}),
           List({<<o[g], g>> : g \in {g \in groups : o[g] \notin ofUniversity}})>> : o \in firsts}

q11s1_m(lists) ==
    {lists[1] \o List({<<x[2]>> : x \in {x \in AsSet(lists[3]) : <<x[1]>> \in AsSet(lists[2])}})}

\* Heads of departments who work for them; the departments that have the
\* university as an object, whatever the predicate.
q12_n(db) ==
    LET headed == {<<t[1], t[3]>> : t \in {t \in db.mine : /\ t[2] = "headOf" /\ TypeOf[t[3]] = "Department"
                                                        /\ <<t[1], "worksFor", t[3]>> \in db.mine}}
        departments == {d \in Inverted(db, "University0") : TypeOf[d] = "Department"}
    IN  {<<List({h \in headed : h[2] \in departments}), List({<<d>> : d \in departments}),
           List({<<h[2], h[1]>> : h \in {h \in headed : h[2] \notin departments}})>>}

\* One head of a department only.
q12_m(lists) ==
    {lists[1] \o List({<<map[d[1]], d[1]>> : d \in {d \in AsSet(lists[2]) : d[1] \in DOMAIN map}}) :
        map \in Kept(AsSet(lists[3]))}

-----------------------------------------------------------------------------
(* Two rounds: the master sends every node what all of them have found *)

q07_n(db) ==
    Ready({<<c>> : c \in Objects(db, "AssociateProfessor0", "teacherOf", Hierarchy["Course"])})

\* find: one type of course for every type of student.
q07_again(db, rows) ==
    {<<List({<<t[1], t[3]>> : t \in {t \in db.mine :
                /\ t[2] = "takesCourse" /\ <<t[3]>> \in AsSet(rows)
                /\ TypeOf[t[1]] \in DOMAIN tmpl /\ TypeOf[t[3]] = tmpl[TypeOf[t[1]]]}})>> :
        tmpl \in OneTemplate(db, "takesCourse", Hierarchy["Student"], Hierarchy["Course"])}

q08s1_n(db) ==
    Ready({<<d>> : d \in Around(db, "University0", "subOrganizationOf", {"Department"})})

\* The first e-mail address of students of these departments.
q08s1_again(db, rows) ==
    LET found == {t \in db.mine : /\ t[2] = "memberOf" /\ <<t[3]>> \in AsSet(rows)
                                  /\ TypeOf[t[1]] \in Hierarchy["Student"]
                                  /\ TypeOf[t[3]] \in Composites["Department"]}
        emails(s, tmpl) == IF TypeOf[s] \in DOMAIN tmpl
                           THEN Objects(db, s, "emailAddress", {tmpl[TypeOf[s]]}) ELSE {}
    IN  UNION {LET mailed == {t \in found : emails(t[1], tmpl) # {}}
               IN  {<<List({<<t[1], t[3], e[t[1]]>> : t \in mailed})>> :
                      e \in Choices({t[1] : t \in mailed}, LAMBDA s : emails(s, tmpl))} :
                 tmpl \in OneTemplate(db, "emailAddress", Hierarchy["Student"], AnyType)}

\* All of the molecules that have v as an object, whatever the predicate.
q16s1_n(db) ==
    LET v == "UndergraduateStudent0@Department0"
    IN  Ready({t \in db.mine : t[1] \in Inverted(db, v)})

q16s1_again(db, rows) ==
    Ready({x[1] \o <<x[2][2], x[2][3]>> : x \in {x \in AsSet(rows) \X db.mine : x[2][1] = x[1][3]}})

-----------------------------------------------------------------------------
(* With scope 1 *)

\* The first department and the first university of each student.
q02s2(db) ==
    LET students == Elements(db, Composites["GraduateStudent"]) \cap Mine(db)
        universities == Choices(students, LAMBDA s :
            Objects(db, s, "undergraduateDegreeFrom", Composites["University"]))
        departments == Choices(students, LAMBDA s : Objects(db, s, "memberOf", Composites["Department"]))
        itsUniversities(d) == Choices(students, LAMBDA s :
            ObjectsInScope(db, s, d[s], "subOrganizationOf", Composites["University"]))
    IN  UNION {UNION {{<<List({<<s, d[s], u[s]>> : s \in {s \in students : u[s] = of[s]}})>> :
            of \in itsUniversities(d)} : d \in departments} : u \in universities}

\* The first department of students of whom some department is the university's. The
\* IDs of the templates of all types of students are in one set.
q08s2(db) ==
    LET types == Hierarchy["Student"]
        departmentIDs == UNION {IDs(db, r, "memberOf", Composites["Department"]) : r \in types}
        emailIDs(tmpl) == UNION {IDs(db, r, "emailAddress", {tmpl[r]}) : r \in DOMAIN tmpl}
        ofUniversity(s, dept) == \E t \in db.mine :
            /\ t[1] = s /\ TypeOf[t[3]] = dept[TypeOf[s]]
            /\ "University0" \in ObjectsInScope(db, s, t[3], "subOrganizationOf", {TypeOf["University0"]})
        answers(ids, dept) ==
            LET found == {s \in Inverted(db, "University0") :
                            /\ TypeOf[s] \in DOMAIN dept /\ ofUniversity(s, dept)
                            /\ Entity(db, s, departmentIDs) # {} /\ Entity(db, s, ids) # {}}
            IN  {<<List({<<s, d[s], e[s]>> : s \in found})>> :
                    d \in Choices(found, LAMBDA s : Entity(db, s, departmentIDs)),
                    e \in Choices(found, LAMBDA s : Entity(db, s, ids))}
    IN  UNION {answers(emailIDs(tmpl), dept) :
            tmpl \in OneTemplate(db, "emailAddress", types, AnyType),
            dept \in OneTemplateInScope(db, "subOrganizationOf", types, Composites["Department"],
                                        TypeOf["University0"])}

\* What is sent for the faculty is the course again.
q09s2(db) ==
    LET advisors(s) == Objects(db, s, "advisor", Hierarchy["Faculty"])
        courses(s) == Objects(db, s, "takesCourse", Hierarchy["Course"])
        students == {s \in Elements(db, Hierarchy["Student"]) \cap Mine(db) : advisors(s) # {} /\ courses(s) # {}}
    IN  {<<List(UNION {{<<s, c, c>> : c \in courses(s) \cap
                           ObjectsInScope(db, s, f[s], "teacherOf", Hierarchy["Course"])} : s \in students})>> :
            f \in Choices(students, advisors)}

\* Groups of organisations that are part of the university and of nothing else of its
\* type; a group is listed once for each of these.
q11s2(db) ==
    LET types == Hierarchy["ResearchGroup"]
        groups == Elements(db, types) \cap Mine(db)
        onlyUniversity(g, x, in) ==
            /\ TypeOf[g] \in DOMAIN in /\ TypeOf[x] = in[TypeOf[g]]
            /\ ObjectsInScope(db, g, x, "subOrganizationOf", {TypeOf["University0"]}) = {"University0"}
        found(tmpl, in) == {t \in db.mine :
            /\ t[1] \in groups /\ t[2] = "subOrganizationOf" /\ onlyUniversity(t[1], t[3], in)
            /\ TypeOf[t[1]] \in DOMAIN tmpl /\ TypeOf[t[3]] = tmpl[TypeOf[t[1]]]}
    IN  {<<Subjects(found(tmpl, in))>> :
            tmpl \in OneTemplate(db, "subOrganizationOf", types, AnyType),
            in \in OneTemplateInScope(db, "subOrganizationOf", types, AnyType, TypeOf["University0"])}

q16s2(db) ==
    LET v == "UndergraduateStudent0@Department0"
    IN  Ready(UNION {{<<t[1], t[2], t[3], u[2], u[3]>> : u \in {u \in db.all : u[1] = t[3]}} :
                 t \in {t \in db.mine : t[1] \in Inverted(db, v)}})

-----------------------------------------------------------------------------
(* By name *)

Queries == {"q01", "q02s1", "q02s2", "q03", "q04", "q05", "q06", "q07", "q08s1", "q08s2", "q09s1",
            "q09s2", "q10", "q11s1", "q11s2", "q12", "q13", "q14", "q15", "q16s1", "q16s2", "q17"}

\* Two rounds
Again == {"q07", "q08s1", "q16s1"}

\* Slip: a list too few is received.
NbOfListsLess(q) == CASE q \in {"q02s1", "q09s1"} -> 4
                      [] q \in {"q11s1", "q12"} -> 2
                      [] OTHER -> 1

NbOfLists(q) == CASE q \in {"q02s1", "q09s1"} -> 4
                  [] q \in {"q11s1", "q12"} -> 3
                  [] OTHER -> 1

Answers(q, db) ==
    CASE q = "q01" -> q01(db) [] q = "q02s1" -> q02s1_n(db) [] q = "q02s2" -> q02s2(db)
      [] q = "q03" -> q03(db) [] q = "q04" -> q04(db) [] q = "q05" -> q05(db)
      [] q = "q06" -> q06(db) [] q = "q07" -> q07_n(db) [] q = "q08s1" -> q08s1_n(db)
      [] q = "q08s2" -> q08s2(db) [] q = "q09s1" -> q09s1_n(db) [] q = "q09s2" -> q09s2(db)
      [] q = "q10" -> q10(db) [] q = "q11s1" -> q11s1_n(db) [] q = "q11s2" -> q11s2(db)
      [] q = "q12" -> q12_n(db) [] q = "q13" -> q13(db) [] q = "q14" -> q14(db)
      [] q = "q15" -> q15_n(db) [] q = "q16s1" -> q16s1_n(db) [] q = "q16s2" -> q16s2(db)
      [] q = "q17" -> q17(db)

AnswersAgain(q, db, rows) ==
    CASE q = "q07" -> q07_again(db, rows)
      [] q = "q08s1" -> q08s1_again(db, rows)
      [] q = "q16s1" -> q16s1_again(db, rows)

\* What the master may make of the lists; none if it does not survive it.
Combine(q, lists) ==
    CASE q = "q02s1" -> q02s1_m(lists)
      [] q = "q09s1" -> q09s1_m(lists)
      [] q = "q11s1" -> q11s1_m(lists)
      [] q = "q12" -> q12_m(lists)
      [] q = "q15" -> {list[1] : list \in q15_m(lists)}
      [] OTHER -> {lists[1]}
=============================================================================

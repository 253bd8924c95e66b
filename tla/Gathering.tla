------------------------------ MODULE Gathering ------------------------------
(***************************************************************************)
(* What the master gathers of its nodes' answers if it takes them one      *)
(* after the other, without connections, interleavings and deaths; and     *)
(* conditions on the queries alone.  NetworkProofs shows that over any     *)
(* network the master gathers just that, so that a query for which         *)
(* GathersExactly holds is answered exactly, and one with LosesOnly never  *)
(* makes a solution up when an error on a connection has been read.        *)
(***************************************************************************)
EXTENDS Network

\* What each node may answer to the query, and to the rows of all of them.
FirstAnswers(q, store, to) == [n \in Node |-> Answers(q, DbOf(q, store, to, n))]

NextAnswers(q, store, to, rows) == [n \in Node |-> AnswersAgain(q, DbOf(q, store, to, n), rows)]

NoLists == [i \in 1..4 |-> <<>>]

\* The first k lists of answer a, each appended to that of L
Adding(L, a, k) == [i \in 1..4 |-> IF i <= k THEN L[i] \o a[i] ELSE L[i]]

\* The lists there may be after the first i nodes of order, all of whose answers have
\* been received, unless some may be lost.
Gathered(answers, order, lossy) ==
    LET g[i \in 0..Len(order)] ==
          IF i = 0 THEN {NoLists}
          ELSE {Adding(L, a, Len(a)) : L \in g[i - 1], a \in answers[order[i]]}
               \cup (IF lossy THEN g[i - 1] ELSE {})
    IN  g

\* The lists of the last round of a query
AllGathered(q, store, to, order, lossy) ==
    LET first == Gathered(FirstAnswers(q, store, to), order, lossy)[Len(order)]
    IN  IF q \notin Again THEN first
        ELSE UNION {Gathered(NextAnswers(q, store, to, L[1]), order, lossy)[Len(order)] : L \in first}

Orders == {s \in [1..Cardinality(Node) -> Node] : \A i, j \in DOMAIN s : s[i] = s[j] => i = j}

Dealings(store) == [{t[1] : t \in store} -> Node]

\* Whatever the nodes answer and in whichever order they have connected, what the
\* master makes of it are the solutions.
GathersExactly(q, store, to) ==
    \A order \in Orders : \A L \in AllGathered(q, store, to, order, FALSE) :
        \A rows \in Combine(q, L) : Solves(q, store, rows)

\* Without the answers of some nodes, they are some of them. (With several lists the
\* master does not survive the loss of one.)
LosesOnly(q, store, to) ==
    NbOfLists(q) = 1 =>
        \A order \in Orders : \A L \in AllGathered(q, store, to, order, TRUE) :
            \A rows \in Combine(q, L) : SolvesPartly(q, store, rows)

-----------------------------------------------------------------------------
(* Properties *)

\* However master and nodes interleave, and whoever dies, what is printed is made of the
\* lists of the nodes in the order they have connected, each as often as it was sent:
\* once, or not at all if an error was read in its place.
GatheredInTurn ==
    Finished => \E L \in AllGathered(query, all, owner, nodes, spoilt) : results \in Combine(query, L)
=============================================================================

------------------------------- MODULE Network -------------------------------
(***************************************************************************)
(* The master and its nodes answer a query over TCP.                       *)
(*                                                                         *)
(* The master accepts the nodes, sends a query to each in turn and then    *)
(* takes from each in turn its lists: the size of a list, and its rows     *)
(* unless it is empty, for which nothing is sent.  Some queries go on with *)
(* a second round, in which every node gets the list of all of them.       *)
(*                                                                         *)
(* Connections are FIFO and hold a number of messages; one that is read in *)
(* pieces is read by who does nothing else, so that it comes as one.       *)
(*                                                                         *)
(* A process may die.  What it has sent can still be read.  Then read()    *)
(* gives 0, on which Receive exits, but if the process had not read all    *)
(* that was sent to it, the connection is reset: one read() or write()     *)
(* gives -1, which Receive and Send take for a very long length, and       *)
(* return with nothing read or written.                                    *)
(***************************************************************************)
EXTENDS LUBMnetwork

CONSTANTS Node,
          Stored,       \* query -> the stores it is asked of, sets of triples
          MayDie,       \* queries in which a process may die
          MaxTries,     \* of a node to connect: 51
          Capacity,     \* messages a connection holds
          MaxAsked,     \* bound on how often the query is asked
          MaxDeaths     \* bound on the processes that are killed

ASSUME NetworkAssumption ==
    /\ IsFiniteSet(Node) /\ Node # {} /\ DOMAIN Stored \subseteq Queries /\ MayDie \subseteq Queries
    /\ \A q \in DOMAIN Stored : \A S \in Stored[q] :
          IsFiniteSet(S) /\ \A t \in S : t = <<t[1], t[2], t[3]>>
    /\ {Capacity, MaxAsked, MaxTries} \subseteq Nat \ {0} /\ MaxDeaths \in Nat

\* Every key has a type (KeyManager::GetType).
ASSUME TypeAssumption ==
    \A q \in DOMAIN Stored : \A S \in Stored[q] : \A t \in S : {t[1], t[3]} \subseteq DOMAIN TypeOf

Zero == <<0, 0, 0, 0, 0>>

VARIABLES
    query,      \* what is asked
    all,        \* the store, all of it
    owner,      \* subject -> the node whose molecule it is
    asked,      \* how often the query has been asked
    pc,         \* where the master is
    nodes,      \* Server::nodes
    at,         \* which of them it is at
    list,       \* which list of it is next
    size,       \* the size of that list, as last read
    again,      \* whether it is the second round
    out,        \* what the master has still to send to the one it is at
    lists,      \* what it has received
    results,    \* what it has made of it
    reset,      \* connections on which an error waits to be read
    spoilt,     \* whether such an error has been taken for data since the query was asked
    state,      \* where each node is
    sending,    \* what each node has still to send
    tries,      \* how often each has failed to connect
    up, down,   \* the connections
    deaths      \* how many processes have been killed

master == <<pc, nodes, at, list, size, again, out, lists, results, asked>>
vars == <<query, all, owner, master, reset, spoilt, state, sending, tries, up, down, deaths>>

\* What a node has of store when its molecules are dealt out as to says
DbOf(q, store, to, n) ==
    [mine |-> {t \in store : to[t[1]] = n},
     all |-> store,
     maxScope |-> IF q \in {"q02s2", "q08s2", "q09s2", "q11s2", "q16s2"} THEN 1 ELSE 0]

db(n) == DbOf(query, all, owner, n)

\* Slip: only lists that are not empty are sent.
MessagesOfRows(rows) ==
    IF rows = <<>> THEN <<>> ELSE <<[size |-> Len(rows)], [rows |-> rows]>>

\* A list as it is sent
Messages(rows) ==
    IF rows = <<>> THEN <<[size |-> 0]>> ELSE <<[size |-> Len(rows)], [rows |-> rows]>>

NetInit ==
    /\ query \in DOMAIN Stored /\ all \in Stored[query]
    /\ owner \in [{t[1] : t \in all} -> Node]
    /\ pc = "start" /\ nodes = <<>> /\ at = 1 /\ list = 1 /\ size = 0 /\ again = FALSE
    /\ out = <<>> /\ lists = <<>> /\ results = <<>> /\ asked = 0
    /\ reset = {} /\ spoilt = FALSE /\ deaths = 0
    /\ state = [n \in Node |-> "connect"] /\ tries = [n \in Node |-> 0]
    /\ sending = [n \in Node |-> <<>>] /\ up = [n \in Node |-> <<>>] /\ down = [n \in Node |-> <<>>]

-----------------------------------------------------------------------------
(* The master *)

\* Server::Start: from here on nodes can connect.
Listen ==
    /\ pc = "start" /\ pc' = "accept"
    /\ UNCHANGED <<query, all, owner, nodes, at, list, size, again, out, lists, results, asked,
                   reset, spoilt, state, sending, tries, up, down, deaths>>

\* What the master starts to send to every node
Tell(messages) == at' = 1 /\ out' = messages

\* A query's _m begins, the next one after the last has ended.
Ask ==
    /\ \/ pc = "accept" /\ Len(nodes) = Cardinality(Node)
       \/ pc = "idle" /\ asked < MaxAsked
    /\ asked' = asked + 1 /\ pc' = "send" /\ again' = FALSE /\ Tell(<<[query |-> query]>>)
    /\ lists' = [i \in 1..4 |-> <<>>] /\ results' = <<>> /\ spoilt' = FALSE
    /\ UNCHANGED <<query, all, owner, nodes, list, size, reset, state, sending, tries, up, down, deaths>>

\* Slip: the last node is sent to twice.
SentTwice ==
    IF Len(out) > 1 THEN out' = Tail(out) /\ UNCHANGED <<at, pc, list, size, lists>>
    ELSE IF at <= Len(nodes) THEN
         /\ at' = at + 1 /\ UNCHANGED <<pc, list, size, lists>>
         /\ out' = IF again THEN Messages(lists[1]) ELSE <<[query |-> query]>>
    ELSE /\ at' = 1 /\ list' = 1 /\ size' = 0 /\ out' = <<>> /\ pc' = "receive"
         /\ lists' = [i \in 1..4 |-> <<>>]

\* One message is sent, or goes nowhere; then the next, to this node or to the next
\* one, and when all have theirs the master receives, into empty lists.
Sent ==
    IF Len(out) > 1 THEN out' = Tail(out) /\ UNCHANGED <<at, pc, list, size, lists>>
    ELSE IF at < Len(nodes) THEN
         /\ at' = at + 1 /\ UNCHANGED <<pc, list, size, lists>>
         /\ out' = IF again THEN Messages(lists[1]) ELSE <<[query |-> query]>>
    ELSE /\ at' = 1 /\ list' = 1 /\ size' = 0 /\ out' = <<>> /\ pc' = "receive"
         /\ lists' = [i \in 1..4 |-> <<>>]

Send ==
    /\ pc = "send" /\ state[nodes[at]] # "gone" /\ Len(down[nodes[at]]) < Capacity
    /\ down' = [down EXCEPT ![nodes[at]] = Append(@, Head(out))]
    /\ Sent
    /\ UNCHANGED <<query, all, owner, nodes, again, results, asked, reset, spoilt, state, sending, tries,
                   up, deaths>>

\* To a node that is gone: the error on the connection is consumed; without one
\* the write may still go well.
SendNowhere ==
    /\ pc = "send" /\ state[nodes[at]] = "gone"
    /\ reset' = reset \ {nodes[at]} /\ Sent
    /\ UNCHANGED <<query, all, owner, nodes, again, results, asked, spoilt, state, sending, tries,
                   up, down, deaths>>

MasterGone ==
    /\ pc' = "gone" /\ out' = <<>>
    /\ UNCHANGED <<query, all, owner, nodes, at, list, size, again, lists, results, asked, reset, spoilt,
                   state, sending, tries, up, down>>

\* SIGPIPE
BrokenPipe ==
    /\ pc = "send" /\ state[nodes[at]] = "gone" /\ nodes[at] \notin reset
    /\ MasterGone /\ UNCHANGED <<spoilt, deaths>>

\* A list has been received: on to the next of this node, to the next node, to
\* the second round, or to the end.  The size is set to 0 for every node.
Received(rows) ==
    /\ lists' = [lists EXCEPT ![list] = @ \o rows]
    /\ IF list < NbOfLists(query)
       THEN list' = list + 1 /\ size' = Len(rows) /\ pc' = "receive" /\ UNCHANGED <<at, again, out>>
       ELSE /\ list' = 1 /\ size' = 0
            /\ IF at < Len(nodes) THEN at' = at + 1 /\ pc' = "receive" /\ UNCHANGED <<again, out>>
               ELSE IF query \in Again /\ ~again
               THEN Tell(Messages(lists'[1])) /\ again' = TRUE /\ pc' = "send"
               ELSE pc' = "combine" /\ UNCHANGED <<at, again, out>>

ReceiveSize ==
    /\ pc = "receive" /\ up[nodes[at]] # <<>>
    /\ up' = [up EXCEPT ![nodes[at]] = Tail(@)]
    /\ LET s == Head(up[nodes[at]]).size
       IN  IF s = 0 THEN Received(<<>>)
           ELSE pc' = "rows" /\ size' = s /\ UNCHANGED <<at, list, again, out, lists>>
    /\ UNCHANGED <<query, all, owner, nodes, results, asked, reset, spoilt, state, sending, tries, down, deaths>>

ReceiveRows ==
    /\ pc = "rows" /\ up[nodes[at]] # <<>>
    /\ up' = [up EXCEPT ![nodes[at]] = Tail(@)]
    /\ Received(Head(up[nodes[at]]).rows)
    /\ UNCHANGED <<query, all, owner, nodes, results, asked, reset, spoilt, state, sending, tries, down, deaths>>

\* Slip: a row is made room for before it is known that there is one.
UnreadOne(s) == <<Zero>>

\* Rows that have been made room for and not read
Unread(s) == [i \in 1..s |-> Zero]

Silent == state[nodes[at]] = "gone" /\ up[nodes[at]] = <<>>

\* The error is taken for what was to be read: the size stays, the rows are what
\* resize() has made them.
ReceiveError ==
    /\ pc \in {"receive", "rows"} /\ Silent /\ nodes[at] \in reset
    /\ reset' = reset \ {nodes[at]} /\ spoilt' = TRUE
    /\ IF pc = "receive" /\ size > 0
       THEN pc' = "rows" /\ UNCHANGED <<at, list, size, again, out, lists>>
       ELSE Received(Unread(size))
    /\ UNCHANGED <<query, all, owner, nodes, results, asked, state, sending, tries, up, down, deaths>>

\* Without one the connection has ended.
EndOfNode ==
    /\ pc \in {"receive", "rows"} /\ Silent /\ nodes[at] \notin reset
    /\ MasterGone /\ UNCHANGED <<spoilt, deaths>>

Finish ==
    /\ pc = "combine" /\ pc' = "idle"
    /\ results' \in Combine(query, lists)
    /\ UNCHANGED <<query, all, owner, nodes, at, list, size, again, out, lists, asked, reset, spoilt, state,
                   sending, tries, up, down, deaths>>

\* The lists are not what it can join; or it has asked all there was to ask.
Stop ==
    /\ \/ pc = "combine" /\ Combine(query, lists) = {}
       \/ pc = "idle" /\ asked = MaxAsked
    /\ MasterGone /\ UNCHANGED <<spoilt, deaths>>

MasterStep ==
    Listen \/ Ask \/ Send \/ SendNowhere \/ BrokenPipe \/ ReceiveSize \/ ReceiveRows \/ ReceiveError
    \/ EndOfNode \/ Finish \/ Stop

-----------------------------------------------------------------------------
(* A node *)

\* Client::Start
Connect(n) ==
    /\ state[n] = "connect"
    /\ IF pc \in {"start", "gone"}
       THEN /\ tries' = [tries EXCEPT ![n] = @ + 1] /\ UNCHANGED nodes
            /\ state' = [state EXCEPT ![n] = IF tries[n] + 1 = MaxTries THEN "gone" ELSE @]
       ELSE /\ nodes' = Append(nodes, n) /\ tries' = [tries EXCEPT ![n] = 0]
            /\ state' = [state EXCEPT ![n] = "wait"]
    /\ UNCHANGED <<query, all, owner, pc, at, list, size, again, out, lists, results, asked, reset, spoilt,
                   sending, up, down, deaths>>

\* Slip: the list that is complete last is sent first.
AnswerMessagesBackwards(answer) ==
    Seqs!FlattenSeq([i \in 1..Len(answer) |-> Messages(answer[Len(answer) + 1 - i])])

\* All the lists of an answer
AnswerMessages(answer) == Seqs!FlattenSeq([i \in 1..Len(answer) |-> Messages(answer[i])])

\* What n has read makes it answer with one of the answers.
Answer(n, answers) ==
    /\ sending' \in {[sending EXCEPT ![n] = AnswerMessages(a)] : a \in answers}
    /\ state' = [state EXCEPT ![n] = IF @ = "wait" /\ query \in Again THEN "first" ELSE "last"]

NodeUnchanged == UNCHANGED <<query, all, owner, master, spoilt, tries>>

ReceiveQuery(n) ==
    /\ state[n] = "wait" /\ down[n] # <<>>
    /\ down' = [down EXCEPT ![n] = Tail(@)]
    /\ Answer(n, Answers(query, db(n)))
    /\ NodeUnchanged /\ UNCHANGED <<reset, up, deaths>>

\* begin() of an empty set
Crash(n) ==
    /\ state[n] = "wait" /\ down[n] # <<>> /\ Answers(query, db(n)) = {}
    /\ state' = [state EXCEPT ![n] = "gone"] /\ down' = [down EXCEPT ![n] = <<>>]
    /\ NodeUnchanged /\ UNCHANGED <<reset, sending, up, deaths>>

\* The second round: the size of the list, then its rows.
ReceiveList(n) ==
    /\ state[n] \in {"again", "rows"} /\ down[n] # <<>>
    /\ down' = [down EXCEPT ![n] = Tail(@)]
    /\ IF state[n] = "again" /\ Head(down[n]).size > 0
       THEN state' = [state EXCEPT ![n] = "rows"] /\ UNCHANGED sending
       ELSE Answer(n, AnswersAgain(query, db(n), IF state[n] = "rows" THEN Head(down[n]).rows ELSE <<>>))
    /\ NodeUnchanged /\ UNCHANGED <<reset, up, deaths>>

SendList(n) ==
    /\ sending[n] # <<>> /\ pc # "gone" /\ Len(up[n]) < Capacity
    /\ up' = [up EXCEPT ![n] = Append(@, Head(sending[n]))]
    /\ sending' = [sending EXCEPT ![n] = Tail(@)]
    /\ state' = IF Len(sending[n]) > 1 THEN state
                ELSE [state EXCEPT ![n] = IF @ = "first" THEN "again" ELSE "wait"]
    /\ NodeUnchanged /\ UNCHANGED <<reset, down, deaths>>

\* The master is gone: a node ends when it has read what there is, or when it
\* sends, sooner or later.
EndOfMaster(n) ==
    /\ pc = "gone" /\ state[n] \notin {"connect", "gone"}
    /\ sending[n] # <<>> \/ down[n] = <<>>
    /\ state' = [state EXCEPT ![n] = "gone"] /\ sending' = [sending EXCEPT ![n] = <<>>]
    /\ NodeUnchanged /\ UNCHANGED <<reset, up, down, deaths>>

NodeStep(n) ==
    Connect(n) \/ ReceiveQuery(n) \/ Crash(n) \/ ReceiveList(n) \/ SendList(n) \/ EndOfMaster(n)

-----------------------------------------------------------------------------
(* Faults *)

DieNode(n) ==
    /\ query \in MayDie /\ deaths < MaxDeaths /\ asked > 0 /\ pc # "gone" /\ state[n] # "gone"
    /\ deaths' = deaths + 1 /\ state' = [state EXCEPT ![n] = "gone"]
    /\ reset' = IF down[n] # <<>> THEN reset \cup {n} ELSE reset
    /\ sending' = [sending EXCEPT ![n] = <<>>] /\ down' = [down EXCEPT ![n] = <<>>]
    /\ NodeUnchanged /\ UNCHANGED up

DieMaster ==
    /\ query \in MayDie /\ deaths < MaxDeaths /\ asked > 0 /\ pc # "gone"
    /\ deaths' = deaths + 1 /\ MasterGone /\ UNCHANGED spoilt

\* Nothing is left to go on: who has not been connected, or accepted all, waits.
Terminated ==
    /\ \A n \in Node : state[n] \in {"wait", "gone"}
    /\ pc = "gone" => \A n \in Node : state[n] = "gone"
    /\ pc \in {"accept", "gone"} /\ (pc = "accept" => Len(nodes) < Cardinality(Node))
    /\ UNCHANGED vars

NetNext ==
    \/ MasterStep
    \/ \E n \in Node : NodeStep(n) \/ DieNode(n)
    \/ DieMaster
    \/ Terminated

\* A process that can go on does; nothing makes one die.
NetSpec ==
    NetInit /\ [][NetNext]_vars /\ WF_vars(MasterStep) /\ \A n \in Node : WF_vars(NodeStep(n))

-----------------------------------------------------------------------------
(* Properties *)

Of(types) == {k \in DOMAIN TypeOf : TypeOf[k] \in types}

\* The solutions of the SPARQL text of a query, over a store
Meaning(q, store) ==
    LET Has(s, p, o) == <<s, p, o>> \in store
        Value(p) == {t[3] : t \in {t \in store : t[2] = p}}
        Subject == {t[1] : t \in store}
        Student == Of(Hierarchy["Student"])
        Grad == Of(Composites["GraduateStudent"])
        Dept == Of({"Department"})
    IN
    CASE q = "q01" -> {<<x>> : x \in {x \in Grad : Has(x, "takesCourse", "GraduateCourse0")}}
      [] q \in {"q02s1", "q02s2"} ->
            {r \in Grad \X Dept \X Of({"University"}) :
                /\ Has(r[2], "subOrganizationOf", r[3])
                /\ Has(r[1], "undergraduateDegreeFrom", r[3]) /\ Has(r[1], "memberOf", r[2])}
      [] q = "q03" -> {<<x>> : x \in {x \in Of(Composites["Publication"]) :
                                            Has(x, "publicationAuthor", "AssistantProfessor0")}}
      [] q = "q04" ->
            {r \in Of(Hierarchy["Professor"]) \X Value("name") \X Value("emailAddress") \X Value("telephone") :
                /\ Has(r[1], "worksFor", "Department0") /\ Has(r[1], "name", r[2])
                /\ Has(r[1], "emailAddress", r[3]) /\ Has(r[1], "telephone", r[4])}
      [] q = "q05" -> {<<x>> : x \in {x \in Of(Hierarchy["Person"]) : Has(x, "memberOf", "Department0")}}
      [] q = "q06" -> {<<x>> : x \in Student \cap Subject}
      [] q = "q07" ->
            {r \in Student \X Of(Hierarchy["Course"]) :
                Has("AssociateProfessor0", "teacherOf", r[2]) /\ Has(r[1], "takesCourse", r[2])}
      [] q \in {"q08s1", "q08s2"} ->
            {r \in Student \X Dept \X Value("emailAddress") :
                /\ Has(r[2], "subOrganizationOf", "University0")
                /\ Has(r[1], "memberOf", r[2]) /\ Has(r[1], "emailAddress", r[3])}
      [] q \in {"q09s1", "q09s2"} ->
            {r \in Student \X Of(Hierarchy["Faculty"]) \X Of(Hierarchy["Course"]) :
                /\ Has(r[1], "advisor", r[2]) /\ Has(r[1], "takesCourse", r[3])
                /\ Has(r[2], "teacherOf", r[3])}
      [] q = "q10" -> {<<x>> : x \in {x \in Of(Hierarchy["Person"]) :
                                            Has(x, "takesCourse", "GraduateCourse0")}}
      [] q \in {"q11s1", "q11s2"} ->
            {<<x>> : x \in {x \in Of({"ResearchGroup"}) : \E y \in Value("subOrganizationOf") :
                /\ Has(x, "subOrganizationOf", y) /\ Has(y, "subOrganizationOf", "University0")}}
      [] q = "q12" ->
            {r \in Subject \X Dept :
                /\ Has(r[2], "subOrganizationOf", "University0")
                /\ Has(r[1], "worksFor", r[2]) /\ Has(r[1], "headOf", r[2])}
      [] q = "q13" ->    \* with what ?a is
            {r \in Subject \X {"doctoralDegreeFrom", "mastersDegreeFrom", "undergraduateDegreeFrom"} :
                Has(r[1], r[2], "University0")}
      [] q = "q14" -> {<<x>> : x \in Of(Composites["UndergraduateStudent"]) \cap Subject}
      [] q = "q15" ->
            {<<y, Cardinality({x \in Student : Has(x, "advisor", y)})>> :
                y \in {y \in Of(Hierarchy["Faculty"]) : \E x \in Student : Has(x, "advisor", y)}}
      [] q \in {"q16s1", "q16s2"} ->
            {<<x[1][1], x[1][2], x[1][3], x[2][2], x[2][3]>> :
                x \in {x \in store \X store : /\ x[1][3] = x[2][1]
                    /\ Has(x[1][1], "emailAddress", "UndergraduateStudent0@Department0")}}
      [] q = "q17" -> {r \in Grad \X Value("name") : Has(r[1], "name", r[2])}

\* What is compared of a row: ?X, which is what q13 selects; and of three queries the
\* variables they get right, which the count of q15, the name of q17 and the faculty of
\* q09s2 are not. RowsExact is about all of them.
Right(q, row) ==
    CASE q \in {"q13", "q15", "q17"} -> <<row[1]>>
      [] q = "q09s2" -> <<row[1], row[3]>>
      [] OTHER -> row

\* Rows that are the solutions, each once; and rows that are some of them
Solves(q, store, rows) ==
    /\ {Right(q, row) : row \in AsSet(rows)} = {Right(q, row) : row \in Meaning(q, store)}
    /\ Len(rows) = Cardinality(Meaning(q, store))

SolvesPartly(q, store, rows) ==
    {Right(q, row) : row \in AsSet(rows)} \subseteq {Right(q, row) : row \in Meaning(q, store)}

Finished == pc = "idle" /\ asked > 0

NetTypeOK ==
    /\ query \in Queries /\ DOMAIN owner = {t[1] : t \in all}
    /\ pc \in {"start", "accept", "idle", "send", "receive", "rows", "combine", "gone"}
    /\ Len(nodes) = Cardinality(AsSet(nodes)) /\ at \in 1..Cardinality(Node)
    /\ list \in 1..NbOfLists(query) /\ size \in Nat /\ asked \in 0..MaxAsked
    /\ reset \subseteq {n \in Node : state[n] = "gone"} /\ deaths \in 0..MaxDeaths
    /\ \A n \in Node :
          /\ state[n] \in {"connect", "wait", "first", "again", "rows", "last", "gone"}
          /\ tries[n] \in 0..MaxTries
          /\ Len(up[n]) <= Capacity /\ Len(down[n]) <= Capacity
    /\ pc = "send" <=> out # <<>>

\* The nodes together find what the query means over the whole store, each
\* solution once, however the molecules are dealt out, unless an error on a
\* connection has been read for data (q.._n and q.._m).
AnswerExact ==
    Finished /\ ~spoilt => Solves(query, all, results)

\* Then there are solutions missing, and no others (NetworkNode::Receive, which
\* does not see that read() has failed).
ResetOnlyLoses ==
    Finished /\ spoilt => SolvesPartly(query, all, results)

\* A query leaves nothing on the connections that the next one would read for its
\* own, whoever dies (the lists that a node sends are those that the master receives).
NothingLeft ==
    Finished => \A n \in Node : up[n] = <<>> /\ down[n] = <<>> /\ sending[n] = <<>>

\* Nobody waits for ever: once all nodes are connected every query comes to its end,
\* whoever dies, and so do the nodes when the master has.
AllEnd ==
    asked > 0 ~> pc = "gone" /\ \A n \in Node : state[n] = "gone"

\* The nodes together print what the SPARQL text above the query asks for, all of its
\* variables: of q15 "select ?Y (count(?X) as ?ns)", of q08s2 "?X :emailAddress ?Z".
RowsExact ==
    Finished => AsSet(results) = Meaning(query, all)
=============================================================================

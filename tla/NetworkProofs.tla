---------------------------- MODULE NetworkProofs ----------------------------
(***************************************************************************)
(* Theorems about Network, for any number of nodes, any stores and any     *)
(* capacity of a connection, however often a query is asked and whoever    *)
(* dies: no message is ever read for what it is not, a query that ends     *)
(* leaves none to the next, and what is printed is made of the nodes'      *)
(* lists, one node after the other.                                        *)
(***************************************************************************)
EXTENDS Gathering, Recursion, FiniteSetTheorems, SequenceTheorems

-----------------------------------------------------------------------------
(* What is sent *)

\* What the stores are about
Names == UNION {UNION {{t[1], t[2], t[3]} : t \in S} : S \in UNION {Stored[q] : q \in DOMAIN Stored}}

Row == Seq(Names \cup Nat)

Msg == [query : Queries] \cup [size : Nat] \cup [rows : Seq(Row)]

\* Messages that begin with m, with the rows of a list, or with a list, and go on as
\* T says
Then(m, t) == <<m>> \o t

SizeOf(k) == [size |-> k]
ThoseOf(r) == [rows |-> r]

RowsThen(T) == {Then(ThoseOf(r), t) : r \in Seq(Row), t \in T}

ListThen(T) == {Then(SizeOf(0), t) : t \in T} \cup
               {Then(SizeOf(k), t) : k \in Nat \ {0}, t \in RowsThen(T)}

\* The messages of any number of lists
Streams == CHOOSE f \in [Nat -> SUBSET Seq(Msg)] :
               f[0] = {<<>>} /\ \A k \in Nat : f[k + 1] = ListThen(f[k])

-----------------------------------------------------------------------------
(* A node and its connection *)

conns == [n \in Node |-> [state |-> state[n], up |-> up[n], down |-> down[n], sending |-> sending[n]]]

\* Where a node is when it sends the lists of a query's round, and after them
Sends(q, twice) == IF q \in Again /\ ~twice THEN "first" ELSE "last"
After(q, twice) == IF q \in Again /\ ~twice THEN "again" ELSE "wait"

\* Nothing is under way between it and the master.
Quiet(c) == c.up = <<>> /\ c.down = <<>> /\ c.sending = <<>>
IsIdle(c, st) == c.state \in {st, "gone"} /\ Quiet(c)

\* It has not read all that the master has sent it for this round, or will: rest.
Waits(c, rest, q, twice) ==
    /\ c.up = <<>> /\ c.sending = <<>>
    /\ \/ c.state = "gone" /\ c.down = <<>>
       \/ ~twice /\ c.state = "wait" /\ c.down \o rest = <<[query |-> q]>>
       \/ twice /\ c.state = "again" /\ c.down \o rest \in Streams[1]
       \/ twice /\ c.state = "rows" /\ c.down \o rest \in RowsThen(Streams[0])

\* The master has still to read T of it, or what a node that is gone has sent of it.
Owes(c, T, q, twice) ==
    /\ c.down = <<>> /\ c.sending \in Seq(Msg)
    /\ \/ c.state = "gone" /\ c.sending = <<>> /\ \E r \in Seq(Msg) : c.up \o r \in T
       \/ /\ c.up \o c.sending \in T
          /\ c.state = IF c.sending # <<>> THEN Sends(q, twice) ELSE After(q, twice)

\* The master has sent it all of a round and has not begun to read its answer.
Told(c, q, twice) == Waits(c, <<>>, q, twice) \/ Owes(c, Streams[NbOfLists(q)], q, twice)

-----------------------------------------------------------------------------
(* The invariant *)

NodeStates == {"connect", "wait", "first", "again", "rows", "last", "gone"}

Shapes ==
    /\ query \in DOMAIN Stored /\ all \in Stored[query] /\ DOMAIN owner = {t[1] : t \in all}
    /\ pc \in {"start", "accept", "idle", "send", "receive", "rows", "combine", "gone"}
    /\ asked \in 0..MaxAsked /\ deaths \in 0..MaxDeaths
    /\ state \in [Node -> NodeStates] /\ tries \in [Node -> 0..MaxTries]
    /\ up \in [Node -> Seq(Msg)] /\ down \in [Node -> Seq(Msg)] /\ DOMAIN sending = Node
    /\ \A n \in Node : Len(up[n]) <= Capacity /\ Len(down[n]) <= Capacity
    /\ reset \subseteq {n \in Node : state[n] = "gone"}

\* Each node is connected once; no query is asked before all are.
Connected ==
    /\ nodes \in Seq(Node) /\ \A i, j \in 1..Len(nodes) : nodes[i] = nodes[j] => i = j
    /\ \A n \in Node : state[n] = "connect" =>
          tries[n] < MaxTries /\ \A i \in 1..Len(nodes) : nodes[i] # n
    /\ asked = 0 <=> pc \in {"start", "accept"}
    /\ asked > 0 => \A n \in Node : \E i \in 1..Len(nodes) : nodes[i] = n
    /\ asked = 0 => \A n \in Node : state[n] \in {"connect", "wait", "gone"} /\ Quiet(conns[n])

\* What the master is at
Place ==
    /\ at \in 1..Cardinality(Node) /\ list \in 1..NbOfLists(query) /\ size \in Nat
    /\ again \in BOOLEAN /\ (again => query \in Again)
    /\ pc = "send" <=> out # <<>>
    /\ asked > 0 => lists \in [1..4 -> Seq(Row)]
    /\ pc \in {"combine", "idle"} => (query \in Again => again)

\* Who has been sent to, is, and will be
Telling ==
    pc = "send" =>
        /\ out \in Seq(Msg)
        /\ \A i \in 1..Len(nodes) :
              /\ i < at => Told(conns[nodes[i]], query, again)
              /\ i = at => Waits(conns[nodes[i]], out, query, again)
              /\ i > at => IsIdle(conns[nodes[i]], IF again THEN "again" ELSE "wait")

\* Who has been read from, is, and will be
Reading ==
    pc \in {"receive", "rows"} =>
        \A i \in 1..Len(nodes) :
            /\ i < at => IsIdle(conns[nodes[i]], After(query, again))
            /\ i = at =>
                  \/ pc = "receive" /\ list = 1 /\ Waits(conns[nodes[i]], <<>>, query, again)
                  \/ pc = "receive" /\ Owes(conns[nodes[i]], Streams[NbOfLists(query) - list + 1], query, again)
                  \/ pc = "rows" /\ Owes(conns[nodes[i]], RowsThen(Streams[NbOfLists(query) - list]), query, again)
            /\ i > at => Told(conns[nodes[i]], query, again)

Ended == pc \in {"combine", "idle"} => \A i \in 1..Len(nodes) : IsIdle(conns[nodes[i]], "wait")

IInv == Shapes /\ Connected /\ Place /\ Telling /\ Reading /\ Ended

-----------------------------------------------------------------------------
(* Streams *)

\* The message that is to be read first
LEMMA FirstMessage ==
    ASSUME NEW m \in Msg, NEW t \in Seq(Msg)
    PROVE  /\ Then(m, t) \in Seq(Msg) /\ Then(m, t) # <<>>
           /\ Head(Then(m, t)) = m /\ Tail(Then(m, t)) = t
<1>1. /\ Then(m, t) \in Seq(Msg) /\ Len(Then(m, t)) = 1 + Len(t)
      /\ \A i \in 1..(1 + Len(t)) : Then(m, t)[i] = IF i <= 1 THEN m ELSE t[i - 1]
  <2>1. <<m>> \in Seq(Msg) /\ Len(<<m>>) = 1 /\ <<m>>[1] = m /\ Len(t) \in Nat
    OBVIOUS
  <2> QED BY <2>1, ConcatProperties DEF Then
<1> DEFINE s == Then(m, t)
<1> HIDE DEF s
<1>2. /\ s \in Seq(Msg) /\ Len(s) = 1 + Len(t) /\ Len(t) \in Nat
      /\ s[1] = m /\ \A i \in 1..Len(t) : s[i + 1] = t[i]
  BY <1>1 DEF s
<1>3. s # <<>> /\ Head(s) = m
  BY <1>2
<1>4. Tail(s) = t
  <2>1. /\ Tail(s) \in Seq(Msg) /\ Len(Tail(s)) = Len(t)
        /\ \A i \in 1..Len(Tail(s)) : Tail(s)[i] = s[i + 1]
    BY <1>2, <1>3, HeadTailProperties
  <2> QED BY <1>2, <2>1, SeqEqual
<1> QED BY <1>2, <1>3, <1>4 DEF s

\* The messages of a list
LEMMA MessagesOfList ==
    /\ \A k \in Nat : SizeOf(k) \in Msg /\ SizeOf(k).size = k
    /\ \A r \in Seq(Row) : ThoseOf(r) \in Msg /\ ThoseOf(r).rows = r
BY DEF SizeOf, ThoseOf, Msg

\* What begins with a list is made of messages if the rest is.
LEMMA ListThenType ==
    ASSUME NEW T \in SUBSET Seq(Msg)
    PROVE  RowsThen(T) \in SUBSET Seq(Msg) /\ ListThen(T) \in SUBSET Seq(Msg)
<1>1. ASSUME NEW s \in RowsThen(T) PROVE s \in Seq(Msg)
  <2>1. PICK r \in Seq(Row), t \in T : s = Then(ThoseOf(r), t)
    BY DEF RowsThen
  <2> QED BY <2>1, MessagesOfList, FirstMessage
<1>2. ASSUME NEW s \in ListThen(T) PROVE s \in Seq(Msg)
  <2>1. \/ \E t \in T : s = Then(SizeOf(0), t)
        \/ \E k \in Nat \ {0} : \E t \in RowsThen(T) : s = Then(SizeOf(k), t)
    BY DEF ListThen
  <2>2. PICK k \in Nat, t \in Seq(Msg) : s = Then(SizeOf(k), t)
    BY <1>1, <2>1
  <2> QED BY <2>2, MessagesOfList, FirstMessage
<1> QED BY <1>1, <1>2

\* One list after the other
LEMMA StreamsFollow ==
    /\ Streams \in [Nat -> SUBSET Seq(Msg)] /\ Streams[0] = {<<>>}
    /\ \A k \in Nat : Streams[k + 1] = ListThen(Streams[k])
<1> DEFINE S == SUBSET Seq(Msg)
           first == {<<>>}
           step == [T \in S |-> ListThen(T)]
<1>1. first \in S
  BY EmptySeq
<1>2. \A T \in S : ListThen(T) \in S
  BY ListThenType
<1>3. step \in [S -> S]
  <2> HIDE DEF S
  <2> QED BY <1>2
<1> HIDE DEF step, first, S
<1>4. PICK f \in [Nat -> S] : f[0] = first /\ \A n \in Nat : f[n + 1] = step[f[n]]
  BY <1>1, <1>3, RecursionExists
<1>5. \A n \in Nat : f[n + 1] = ListThen(f[n])
  BY <1>4 DEF step
<1>6. /\ f \in [Nat -> SUBSET Seq(Msg)] /\ f[0] = {<<>>}
      /\ \A n \in Nat : f[n + 1] = ListThen(f[n])
  BY <1>4, <1>5 DEF first, S
<1> QED BY <1>6 DEF Streams

\* A message at the head of a concatenation
LEMMA HeadOfConcat ==
    ASSUME NEW S, NEW u \in Seq(S), NEW v \in Seq(S)
    PROVE  /\ u \o v \in Seq(S)
           /\ u # <<>> => /\ u \o v # <<>> /\ Tail(u) \in Seq(S)
                          /\ Head(u) = Head(u \o v) /\ Tail(u) \o v = Tail(u \o v)
           /\ v # <<>> => /\ Tail(v) \in Seq(S) /\ Head(v) \in S /\ Append(u, Head(v)) \in Seq(S)
                          /\ Append(u, Head(v)) \o Tail(v) = u \o v
           /\ u \o <<>> = u /\ <<>> \o v = v
           /\ u \o v = <<>> => u = <<>> /\ v = <<>>
<1>1. /\ u \o v \in Seq(S) /\ Len(u \o v) = Len(u) + Len(v)
      /\ \A i \in 1..Len(u) + Len(v) : (u \o v)[i] = IF i <= Len(u) THEN u[i] ELSE v[i - Len(u)]
      /\ Len(u) \in Nat /\ Len(v) \in Nat
  BY ConcatProperties
<1>2. ASSUME u # <<>>
      PROVE  /\ u \o v # <<>> /\ Tail(u) \in Seq(S)
             /\ Head(u) = Head(u \o v) /\ Tail(u) \o v = Tail(u \o v)
  <2>1. Len(u) > 0 /\ Tail(u) \in Seq(S) /\ Len(Tail(u)) = Len(u) - 1
        /\ \A i \in 1..Len(Tail(u)) : Tail(u)[i] = u[i + 1]
    BY <1>2, HeadTailProperties, EmptySeq
  <2>2. u \o v # <<>>
    BY <1>1, <2>1
  <2>3. Head(u) = Head(u \o v)
    BY <1>1, <2>1, <2>2
  <2> DEFINE l == Tail(u) \o v
             r == Tail(u \o v)
  <2>4. /\ l \in Seq(S) /\ Len(l) = Len(u) - 1 + Len(v)
        /\ \A i \in 1..Len(l) : l[i] = IF i <= Len(u) - 1 THEN Tail(u)[i] ELSE v[i - (Len(u) - 1)]
    BY <2>1, ConcatProperties
  <2>5. /\ r \in Seq(S) /\ Len(r) = Len(u) + Len(v) - 1
        /\ \A i \in 1..Len(r) : r[i] = (u \o v)[i + 1]
    BY <1>1, <2>2, HeadTailProperties
  <2> HIDE DEF l, r
  <2>6. \A i \in 1..Len(l) : l[i] = r[i]
    BY <1>1, <2>1, <2>4, <2>5
  <2>7. l = r
    BY <2>4, <2>5, <2>6, SeqEqual
  <2> QED BY <2>1, <2>2, <2>3, <2>7 DEF l, r
<1>3. ASSUME v # <<>>
      PROVE  /\ Tail(v) \in Seq(S) /\ Head(v) \in S /\ Append(u, Head(v)) \in Seq(S)
             /\ Append(u, Head(v)) \o Tail(v) = u \o v
  <2>1. /\ Tail(v) \in Seq(S) /\ Head(v) \in S /\ Len(Tail(v)) = Len(v) - 1 /\ Len(v) > 0
        /\ \A i \in 1..Len(Tail(v)) : Tail(v)[i] = v[i + 1]
    BY <1>3, HeadTailProperties, EmptySeq
  <2> DEFINE a == Append(u, Head(v))
  <2>2. /\ a \in Seq(S) /\ Len(a) = Len(u) + 1
        /\ \A i \in 1..Len(u) : a[i] = u[i]
        /\ a[Len(u) + 1] = Head(v)
    BY <2>1, AppendProperties
  <2>3. Head(v) = v[1]
    BY <2>1
  <2> HIDE DEF a
  <2> DEFINE l == a \o Tail(v)
             r == u \o v
  <2>4. /\ l \in Seq(S) /\ Len(l) = Len(u) + Len(v)
        /\ \A i \in 1..Len(l) : l[i] = IF i <= Len(u) + 1 THEN a[i] ELSE Tail(v)[i - (Len(u) + 1)]
    <3>1. /\ a \o Tail(v) \in Seq(S) /\ Len(a \o Tail(v)) = Len(a) + Len(Tail(v))
          /\ \A i \in 1..Len(a) + Len(Tail(v)) :
                (a \o Tail(v))[i] = IF i <= Len(a) THEN a[i] ELSE Tail(v)[i - Len(a)]
      BY <2>1, <2>2, ConcatProperties
    <3>2. Len(a) + Len(Tail(v)) = Len(u) + Len(v)
      BY <1>1, <2>1, <2>2
    <3> QED BY <2>2, <3>1, <3>2
  <2> HIDE DEF l
  <2>5. \A i \in 1..Len(l) : l[i] = r[i]
    <3> SUFFICES ASSUME NEW i \in 1..Len(l) PROVE l[i] = r[i]
      OBVIOUS
    <3>1. CASE i <= Len(u)
      BY <1>1, <2>2, <2>4, <3>1
    <3>2. CASE i = Len(u) + 1
      BY <1>1, <2>1, <2>2, <2>3, <2>4, <3>2
    <3>3. CASE i > Len(u) + 1
      <4>1. i - (Len(u) + 1) \in 1..Len(Tail(v)) /\ i - (Len(u) + 1) + 1 = i - Len(u)
        BY <1>1, <2>1, <2>4, <3>3
      <4> QED BY <1>1, <2>1, <2>4, <3>3, <4>1
    <3>4. Len(u) \in Int /\ i \in Int
      BY <2>4
    <3>5. i <= Len(u) \/ i = Len(u) + 1 \/ i > Len(u) + 1
      BY <3>4
    <3> QED BY <3>1, <3>2, <3>3, <3>5
  <2>6. l = r
    BY <1>1, <2>4, <2>5, SeqEqual
  <2> QED BY <2>1, <2>2, <2>6 DEF l, a
<1>4. u \o <<>> = u /\ <<>> \o v = v
  BY ConcatEmptySeq
<1>5. u \o v = <<>> => u = <<>> /\ v = <<>>
  BY <1>1
<1> QED BY <1>1, <1>2, <1>3, <1>4, <1>5

\* What is to be read of a list
LEMMA NextOfList ==
    ASSUME NEW T \in SUBSET Seq(Msg), NEW s \in ListThen(T)
    PROVE  /\ s # <<>> /\ Head(s).size \in Nat
           /\ Head(s).size = 0 => Tail(s) \in T
           /\ Head(s).size > 0 => Tail(s) \in RowsThen(T)
<1>1. CASE \E t \in T : s = Then(SizeOf(0), t)
  <2>1. PICK t \in T : s = Then(SizeOf(0), t)
    BY <1>1
  <2>2. s # <<>> /\ Head(s) = SizeOf(0) /\ Tail(s) = t
    BY <2>1, MessagesOfList, FirstMessage
  <2>3. Head(s).size = 0
    BY <2>2, MessagesOfList
  <2>4. 0 \in Nat /\ ~ (0 > 0)
    OBVIOUS
  <2> QED BY <2>2, <2>3, <2>4, Zenon
<1>2. CASE \E k \in Nat \ {0} : \E t \in RowsThen(T) : s = Then(SizeOf(k), t)
  <2>1. PICK k \in Nat \ {0}, t \in RowsThen(T) : s = Then(SizeOf(k), t)
    BY <1>2
  <2>2. s # <<>> /\ Head(s) = SizeOf(k) /\ Tail(s) = t
    BY <2>1, MessagesOfList, FirstMessage, ListThenType
  <2>3. Head(s).size = k
    BY <2>2, MessagesOfList
  <2> QED BY <2>2, <2>3
<1> QED BY <1>1, <1>2 DEF ListThen

\* What is to be read of the rows of one
LEMMA NextOfRows ==
    ASSUME NEW T \in SUBSET Seq(Msg), NEW s \in RowsThen(T)
    PROVE  s # <<>> /\ Head(s).rows \in Seq(Row) /\ Tail(s) \in T
<1>1. PICK r \in Seq(Row), t \in T : s = Then(ThoseOf(r), t)
  BY DEF RowsThen
<1>2. s # <<>> /\ Head(s) = ThoseOf(r) /\ Tail(s) = t
  BY <1>1, MessagesOfList, FirstMessage
<1> QED BY <1>2, MessagesOfList

\* A list as it is sent begins what goes on with others.
LEMMA MessagesThen ==
    ASSUME NEW T \in SUBSET Seq(Msg), NEW r \in Seq(Row), NEW t \in T
    PROVE  Messages(r) \o t \in ListThen(T) /\ Messages(r) \in Seq(Msg)
<1>1. CASE r = <<>>
  <2>1. Messages(r) = <<SizeOf(0)>> /\ SizeOf(0) \in Msg
    BY <1>1, MessagesOfList DEF Messages, SizeOf
  <2> QED BY <2>1 DEF ListThen, Then
<1>2. CASE r # <<>>
  <2>1. Len(r) \in Nat \ {0}
    BY <1>2, EmptySeq
  <2> DEFINE a == SizeOf(Len(r))
             b == ThoseOf(r)
  <2>2. a \in Msg /\ b \in Msg
    BY <2>1, MessagesOfList
  <2>3. Then(b, t) \in RowsThen(T)
    BY DEF RowsThen
  <2>4. Then(a, Then(b, t)) \in ListThen(T)
    BY <2>1, <2>3 DEF ListThen
  <2>8. Messages(r) = <<a, b>>
    BY <1>2 DEF Messages, SizeOf, ThoseOf
  <2> HIDE DEF a, b
  <2>5. <<a>> \in Seq(Msg) /\ <<b>> \in Seq(Msg) /\ t \in Seq(Msg) /\ <<a, b>> \in Seq(Msg)
    BY <2>2
  <2>6. <<a, b>> = <<a>> \o <<b>>
    <3>1. /\ Len(<<a>>) = 1 /\ Len(<<b>>) = 1 /\ <<a>>[1] = a /\ <<b>>[1] = b
          /\ Len(<<a, b>>) = 2 /\ <<a, b>>[1] = a /\ <<a, b>>[2] = b
      OBVIOUS
    <3>2. <<a>> \o <<b>> \in Seq(Msg) /\ Len(<<a>> \o <<b>>) = 2
          /\ \A i \in 1..2 : (<<a>> \o <<b>>)[i] = IF i <= 1 THEN a ELSE b
      BY <2>5, <3>1, ConcatProperties
    <3>3. \A i \in 1..2 : <<a, b>>[i] = (<<a>> \o <<b>>)[i]
      BY <3>1, <3>2
    <3> QED BY <2>5, <3>1, <3>2, <3>3, SeqEqual
  <2>7. (<<a>> \o <<b>>) \o t = <<a>> \o (<<b>> \o t)
    BY <2>5, ConcatAssociative
  <2> QED BY <2>4, <2>5, <2>6, <2>7, <2>8 DEF Then
<1> QED BY <1>1, <1>2

\* There is a stream of any number of lists.
LEMMA StreamExists ==
    ASSUME NEW k \in Nat
    PROVE  /\ Streams[k] # {} /\ RowsThen(Streams[k]) # {}
           /\ Streams[k] \in SUBSET Seq(Msg) /\ RowsThen(Streams[k]) \in SUBSET Seq(Msg)
<1> DEFINE S == {n \in Nat : Streams[n] # {}}
<1>1. 0 \in S
  BY StreamsFollow
<1>2. \A n \in Nat : n \in S => n + 1 \in S
  <2> SUFFICES ASSUME NEW n \in Nat, n \in S PROVE n + 1 \in S
    OBVIOUS
  <2>1. PICK t \in Streams[n] : TRUE
    OBVIOUS
  <2>2. Then(SizeOf(0), t) \in ListThen(Streams[n])
    BY <2>1 DEF ListThen
  <2> QED BY <2>2, StreamsFollow
<1>3. k \in S
  <2> HIDE DEF S
  <2> QED BY <1>1, <1>2, SetInduction
<1>4. RowsThen(Streams[k]) # {}
  <2>1. PICK t \in Streams[k] : TRUE
    BY <1>3
  <2>2. PICK r \in Seq(Row) : TRUE
    BY EmptySeq
  <2>3. Then(ThoseOf(r), t) \in RowsThen(Streams[k])
    BY <2>1, <2>2 DEF RowsThen
  <2> QED BY <2>3
<1>5. Streams[k] \in SUBSET Seq(Msg)
  BY StreamsFollow
<1> QED BY <1>3, <1>4, <1>5, ListThenType

-----------------------------------------------------------------------------
(* What a node's steps make of its connection *)

IsConn(c) == c.up \in Seq(Msg) /\ c.down \in Seq(Msg)

SendsOne(c, d) ==
    /\ c.sending # <<>> /\ d.down = c.down
    /\ d.up = Append(c.up, Head(c.sending)) /\ d.sending = Tail(c.sending)
    /\ d.state = IF Len(c.sending) > 1 THEN c.state ELSE IF c.state = "first" THEN "again" ELSE "wait"

Ends(c, d) ==
    /\ d.state = "gone" /\ d.up = c.up /\ d.down = <<>>
    /\ \/ d.sending = <<>>
       \/ c.state = "wait" /\ c.down # <<>> /\ d.sending = c.sending

ReadsSize(c, d) ==
    /\ c.state = "again" /\ c.down # <<>> /\ Head(c.down).size > 0
    /\ d.state = "rows" /\ d.up = c.up /\ d.down = Tail(c.down) /\ d.sending = c.sending

\* It answers, with as many lists as the query has, if what it has read is in order.
Answering(c, d, q) ==
    /\ c.state \in {"wait", "again", "rows"} /\ c.down # <<>>
    /\ c.state = "again" => ~ (Head(c.down).size > 0)
    /\ d.state = IF c.state = "wait" /\ q \in Again THEN "first" ELSE "last"
    /\ d.up = c.up /\ d.down = Tail(c.down)
    /\ /\ c.state # "wait" => q \in Again
       /\ c.state = "rows" => Head(c.down).rows \in Seq(Row)
       => d.sending \in Streams[NbOfLists(q)]

Moves(c, d, q) == SendsOne(c, d) \/ Ends(c, d) \/ ReadsSize(c, d) \/ Answering(c, d, q)

\* How many lists there are
LEMMA ListsOfQuery ==
    ASSUME NEW q \in Queries
    PROVE  /\ NbOfLists(q) \in 1..4 /\ NbOfLists(q) \in Nat \ {0} /\ (q \in Again => NbOfLists(q) = 1)
           /\ Streams[NbOfLists(q)] \in SUBSET Seq(Msg)
<1>1. NbOfLists(q) \in 1..4 /\ (q \in Again => NbOfLists(q) = 1)
  BY DEF NbOfLists, Queries, Again
<1>2. NbOfLists(q) \in Nat \ {0}
  BY <1>1
<1> QED BY <1>1, <1>2, StreamsFollow

\* The messages of some lists are not nothing.
LEMMA ListsAreSent ==
    ASSUME NEW q \in Queries, NEW s \in Streams[NbOfLists(q)]
    PROVE  s \in Seq(Msg) /\ s # <<>>
<1>1. NbOfLists(q) - 1 \in Nat /\ (NbOfLists(q) - 1) + 1 = NbOfLists(q)
  BY ListsOfQuery
<1> DEFINE k == NbOfLists(q) - 1
<1> HIDE DEF k
<1>2. Streams[k + 1] = ListThen(Streams[k]) /\ Streams[k] \in SUBSET Seq(Msg) /\ k + 1 = NbOfLists(q)
  BY <1>1, StreamsFollow DEF k
<1>3. s \in ListThen(Streams[k])
  BY <1>2
<1> QED BY <1>2, <1>3, NextOfList, ListThenType

\* Who is idle stays so, unless it ends.
LEMMA IdleStays ==
    ASSUME NEW c, NEW d, NEW q, Moves(c, d, q), NEW st \in {"wait", "again"}, IsIdle(c, st)
    PROVE  IsIdle(d, st)
BY DEF Moves, SendsOne, Ends, ReadsSize, Answering, IsIdle, Quiet

\* Who has to read goes on to, and answers when there is nothing more.
LEMMA WaitsStays ==
    ASSUME NEW c, NEW d, IsConn(c), NEW q \in Queries, NEW twice \in BOOLEAN, twice => q \in Again,
           Moves(c, d, q), NEW rest \in Seq(Msg), Waits(c, rest, q, twice)
    PROVE  \/ Waits(d, rest, q, twice)
           \/ rest = <<>> /\ Owes(d, Streams[NbOfLists(q)], q, twice)
<1>1. ~ SendsOne(c, d)
  BY DEF SendsOne, Waits
<1>2. CASE Ends(c, d)
  BY <1>2 DEF Ends, Waits
<1> DEFINE s == c.down \o rest
<1>3. ASSUME c.down # <<>>, d.down = Tail(c.down)
      PROVE  Head(s) = Head(c.down) /\ Tail(s) = d.down \o rest /\ d.down \in Seq(Msg)
  <2> DEFINE u == c.down
  <2>1. u \in Seq(Msg) /\ u # <<>>
    BY <1>3 DEF IsConn
  <2> HIDE DEF u
  <2>2. Tail(u) \in Seq(Msg) /\ Head(u) = Head(u \o rest) /\ Tail(u) \o rest = Tail(u \o rest)
    BY <2>1, HeadOfConcat
  <2> QED BY <1>3, <2>2 DEF u
<1>4. ASSUME c.down # <<>>, d.down = Tail(c.down), Tail(s) = <<>>
      PROVE  d.down = <<>> /\ rest = <<>>
  BY <1>3, <1>4, HeadOfConcat
<1>5. Streams[0] = {<<>>} /\ Streams[1] = ListThen(Streams[0]) /\ Streams[0] \in SUBSET Seq(Msg)
  <2>1. Streams[0 + 1] = ListThen(Streams[0]) /\ Streams[0] = {<<>>} /\ Streams[0] \in SUBSET Seq(Msg)
    BY StreamsFollow
  <2> QED BY <2>1
<1>6. CASE ReadsSize(c, d)
  <2>1. twice /\ s \in ListThen(Streams[0])
    BY <1>5, <1>6 DEF ReadsSize, Waits
  <2>2. Tail(s) \in RowsThen(Streams[0])
    BY <1>3, <1>5, <1>6, <2>1, NextOfList DEF ReadsSize
  <2> QED BY <1>3, <1>6, <2>1, <2>2 DEF ReadsSize, Waits
<1>7. CASE Answering(c, d, q)
  <2>1. /\ Tail(s) = <<>> /\ (c.state = "rows" => Head(c.down).rows \in Seq(Row))
        /\ d.state = Sends(q, twice)
    <3>1. CASE c.state = "wait"
      <4>1. s = <<[query |-> q]>> /\ ~twice
        BY <1>7, <3>1 DEF Answering, Waits
      <4> QED BY <1>7, <3>1, <4>1 DEF Answering, Sends
    <3>2. CASE c.state = "again"
      <4>1. s \in ListThen(Streams[0]) /\ twice
        BY <1>5, <3>2 DEF Waits
      <4>2. Head(s).size \in Nat /\ ~ (Head(s).size > 0)
        BY <1>3, <1>5, <1>7, <3>2, <4>1, NextOfList DEF Answering
      <4>3. Tail(s) \in Streams[0]
        <5>1. \A k \in Nat : ~ (k > 0) => k = 0
          OBVIOUS
        <5>2. Head(s).size = 0
          BY <4>2, <5>1, Zenon
        <5> QED BY <1>5, <4>1, <5>2, NextOfList
      <4> QED BY <1>5, <1>7, <3>2, <4>1, <4>3 DEF Answering, Sends
    <3>3. CASE c.state = "rows"
      <4>1. s \in RowsThen(Streams[0]) /\ twice
        BY <3>3 DEF Waits
      <4>2. Head(s).rows \in Seq(Row) /\ Tail(s) \in Streams[0]
        BY <1>5, <4>1, NextOfRows
      <4> QED BY <1>3, <1>5, <1>7, <3>3, <4>1, <4>2 DEF Answering, Sends
    <3> QED BY <1>7, <3>1, <3>2, <3>3 DEF Answering
  <2>2. d.sending \in Streams[NbOfLists(q)] /\ d.down = <<>> /\ rest = <<>> /\ d.up = <<>>
    BY <1>4, <1>7, <2>1 DEF Answering, Waits
  <2>3. d.sending \in Seq(Msg) /\ d.sending # <<>> /\ d.up \o d.sending = d.sending
    BY <2>2, ListsAreSent, HeadOfConcat, EmptySeq
  <2> QED BY <2>1, <2>2, <2>3 DEF Owes
<1> QED BY <1>1, <1>2, <1>6, <1>7 DEF Moves

\* What is owed is what it has sent with what it has to send.
LEMMA OwesStays ==
    ASSUME NEW c, NEW d, IsConn(c), NEW q \in Queries, NEW twice \in BOOLEAN,
           Moves(c, d, q), NEW T \in SUBSET Seq(Msg), Owes(c, T, q, twice)
    PROVE  Owes(d, T, q, twice)
<1>1. CASE SendsOne(c, d)
  <2>1. c.up \o c.sending \in T /\ c.sending # <<>> /\ c.state = Sends(q, twice)
    BY <1>1 DEF SendsOne, Owes
  <2>2. d.sending \in Seq(Msg) /\ d.up \o d.sending = c.up \o c.sending
    <3> DEFINE u == c.up
               v == c.sending
    <3>1. u \in Seq(Msg) /\ v \in Seq(Msg) /\ v # <<>> /\ d.up = Append(u, Head(v)) /\ d.sending = Tail(v)
      BY <1>1, <2>1 DEF SendsOne, Owes, IsConn
    <3> HIDE DEF u, v
    <3>2. Tail(v) \in Seq(Msg) /\ Append(u, Head(v)) \o Tail(v) = u \o v
      BY <3>1, HeadOfConcat
    <3> QED BY <3>1, <3>2 DEF u, v
  <2>3. d.state = IF d.sending # <<>> THEN Sends(q, twice) ELSE After(q, twice)
    <3>1. Len(c.sending) > 1 <=> d.sending # <<>>
      <4>1. c.sending \in Seq(Msg) /\ c.sending # <<>> /\ d.sending = Tail(c.sending)
        BY <1>1, <2>1 DEF SendsOne, Owes
      <4>2. Len(c.sending) \in Nat /\ Len(c.sending) # 0 /\ Len(d.sending) = Len(c.sending) - 1
        BY <4>1, HeadTailProperties, EmptySeq
      <4>3. d.sending # <<>> <=> Len(d.sending) # 0
        BY <2>2, EmptySeq
      <4> QED BY <4>2, <4>3
    <3> QED BY <1>1, <2>1, <3>1 DEF SendsOne, Sends, After
  <2> QED BY <1>1, <2>1, <2>2, <2>3 DEF SendsOne, Owes
<1>2. CASE Ends(c, d)
  <2>1. d.sending = <<>> /\ d.up = c.up /\ d.down = <<>> /\ d.state = "gone"
    BY <1>2 DEF Ends, Owes
  <2>2. \E r \in Seq(Msg) : d.up \o r \in T
    BY <2>1 DEF Owes
  <2> QED BY <2>1, <2>2, EmptySeq DEF Owes
<1>3. ~ ReadsSize(c, d) /\ ~ Answering(c, d, q)
  BY DEF ReadsSize, Answering, Owes
<1> QED BY <1>1, <1>2, <1>3 DEF Moves

\* Who is gone, and of whom nothing more can be read, may owe anything.
LEMMA GoneOwes ==
    ASSUME NEW c, NEW q, NEW twice, NEW T \in SUBSET Seq(Msg), T # {},
           c.state = "gone", c.up = <<>>, c.down = <<>>, c.sending = <<>>
    PROVE  Owes(c, T, q, twice)
<1>1. PICK r \in T : TRUE
  OBVIOUS
<1>2. r \in Seq(Msg) /\ c.up \o r = r
  BY HeadOfConcat
<1> QED BY <1>1, <1>2, EmptySeq DEF Owes

-----------------------------------------------------------------------------
(* What the master's steps make of a connection *)

\* A message is sent.
LEMMA WaitsForLess ==
    ASSUME NEW c, NEW d, IsConn(c), NEW q, NEW twice, NEW rest \in Seq(Msg), rest # <<>>,
           Waits(c, rest, q, twice), c.state # "gone",
           d.state = c.state, d.up = c.up, d.sending = c.sending, d.down = Append(c.down, Head(rest))
    PROVE  Waits(d, Tail(rest), q, twice) /\ d.down \in Seq(Msg) /\ Tail(rest) \in Seq(Msg)
<1> DEFINE u == c.down
<1>1. u \in Seq(Msg)
  BY DEF IsConn
<1> HIDE DEF u
<1>2. Tail(rest) \in Seq(Msg) /\ Append(u, Head(rest)) \in Seq(Msg)
  BY <1>1, HeadOfConcat
<1>3. Append(u, Head(rest)) \o Tail(rest) = u \o rest
  BY <1>1, HeadOfConcat
<1>4. d.down \o Tail(rest) = c.down \o rest
  BY <1>3 DEF u
<1> QED BY <1>2, <1>4 DEF Waits, u

\* A message is read: it is the first of what is owed, and the rest is owed.
LEMMA OwesTheRest ==
    ASSUME NEW c, NEW d, IsConn(c), c.up # <<>>, NEW q, NEW twice,
           NEW T \in SUBSET Seq(Msg), Owes(c, T, q, twice),
           d.state = c.state, d.up = Tail(c.up), d.sending = c.sending, d.down = c.down
    PROVE  /\ IsConn(d)
           /\ \E s \in T : Head(s) = Head(c.up) /\ \A U \in SUBSET Seq(Msg) : Tail(s) \in U => Owes(d, U, q, twice)
<1> DEFINE u == c.up
<1>1. u \in Seq(Msg) /\ u # <<>>
  BY DEF IsConn
<1> HIDE DEF u
<1>2. ASSUME NEW v \in Seq(Msg)
      PROVE  Tail(u) \in Seq(Msg) /\ Head(u) = Head(u \o v) /\ Tail(u) \o v = Tail(u \o v)
  BY <1>1, HeadOfConcat
<1>3. CASE c.state = "gone" /\ c.sending = <<>> /\ \E r \in Seq(Msg) : c.up \o r \in T
  <2>1. PICK r \in Seq(Msg) : u \o r \in T
    BY <1>3 DEF u
  <2>2. d.up \o r = Tail(u \o r) /\ Head(u \o r) = Head(c.up) /\ d.up \in Seq(Msg)
    BY <1>2, <2>1 DEF u
  <2>3. ASSUME NEW U \in SUBSET Seq(Msg), Tail(u \o r) \in U PROVE Owes(d, U, q, twice)
    BY <1>3, <2>1, <2>2, <2>3 DEF Owes
  <2> QED BY <2>1, <2>2, <2>3 DEF IsConn
<1>4. CASE /\ c.up \o c.sending \in T
           /\ c.state = IF c.sending # <<>> THEN Sends(q, twice) ELSE After(q, twice)
  <2> DEFINE r == c.sending
  <2>1. u \o r \in T /\ r \in Seq(Msg)
    BY <1>4 DEF u, Owes
  <2>2. d.up \o r = Tail(u \o r) /\ Head(u \o r) = Head(c.up) /\ d.up \in Seq(Msg)
    BY <1>2, <2>1 DEF u
  <2>3. ASSUME NEW U \in SUBSET Seq(Msg), Tail(u \o r) \in U PROVE Owes(d, U, q, twice)
    BY <1>4, <2>1, <2>2, <2>3 DEF Owes
  <2> QED BY <2>1, <2>2, <2>3 DEF IsConn
<1> QED BY <1>3, <1>4 DEF Owes

\* A size is read: the rows are owed next, if there are any.
LEMMA SizeIsRead ==
    ASSUME NEW c, NEW d, IsConn(c), c.up # <<>>, NEW q, NEW twice,
           NEW T \in SUBSET Seq(Msg), Owes(c, ListThen(T), q, twice),
           d.state = c.state, d.up = Tail(c.up), d.sending = c.sending, d.down = c.down
    PROVE  /\ IsConn(d) /\ Head(c.up).size \in Nat
           /\ Head(c.up).size = 0 => Owes(d, T, q, twice)
           /\ Head(c.up).size > 0 => Owes(d, RowsThen(T), q, twice)
<1>1. ListThen(T) \in SUBSET Seq(Msg) /\ RowsThen(T) \in SUBSET Seq(Msg)
  BY ListThenType
<1> DEFINE L == ListThen(T)
<1> HIDE DEF L
<1>2. L \in SUBSET Seq(Msg) /\ Owes(c, L, q, twice)
  BY <1>1 DEF L
<1>3. /\ IsConn(d)
      /\ \E s \in L : Head(s) = Head(c.up) /\ \A U \in SUBSET Seq(Msg) : Tail(s) \in U => Owes(d, U, q, twice)
  BY <1>2, OwesTheRest
<1>4. PICK s \in ListThen(T) :
         Head(s) = Head(c.up) /\ \A U \in SUBSET Seq(Msg) : Tail(s) \in U => Owes(d, U, q, twice)
  BY <1>3 DEF L
<1>5. /\ Head(s).size \in Nat /\ (Head(s).size = 0 => Tail(s) \in T)
      /\ Head(s).size > 0 => Tail(s) \in RowsThen(T)
  BY NextOfList
<1> QED BY <1>1, <1>3, <1>4, <1>5, Zenon

\* The rows of a list are read.
LEMMA RowsAreRead ==
    ASSUME NEW c, NEW d, IsConn(c), c.up # <<>>, NEW q, NEW twice,
           NEW T \in SUBSET Seq(Msg), Owes(c, RowsThen(T), q, twice),
           d.state = c.state, d.up = Tail(c.up), d.sending = c.sending, d.down = c.down
    PROVE  IsConn(d) /\ Head(c.up).rows \in Seq(Row) /\ Owes(d, T, q, twice)
<1> DEFINE R == RowsThen(T)
<1>1. R \in SUBSET Seq(Msg)
  BY ListThenType
<1> HIDE DEF R
<1>2. Owes(c, R, q, twice)
  BY DEF R
<1>3. /\ IsConn(d)
      /\ \E s \in R : Head(s) = Head(c.up) /\ \A U \in SUBSET Seq(Msg) : Tail(s) \in U => Owes(d, U, q, twice)
  BY <1>1, <1>2, OwesTheRest
<1>4. PICK s \in RowsThen(T) :
         Head(s) = Head(c.up) /\ \A U \in SUBSET Seq(Msg) : Tail(s) \in U => Owes(d, U, q, twice)
  BY <1>3 DEF R
<1>5. Head(s).rows \in Seq(Row) /\ Tail(s) \in T
  BY NextOfRows
<1> QED BY <1>3, <1>4, <1>5

\* All has been read.
LEMMA AllIsRead ==
    ASSUME NEW c, IsConn(c), NEW q, NEW twice, Owes(c, Streams[0], q, twice)
    PROVE  IsIdle(c, After(q, twice))
<1> DEFINE u == c.up
           v == c.sending
<1>1. u \in Seq(Msg) /\ Streams[0] = {<<>>}
  BY StreamsFollow DEF IsConn
<1>2. c.down = <<>> /\ v \in Seq(Msg)
  BY DEF Owes
<1> HIDE DEF u, v
<1>3. \A r \in Seq(Msg) : u \o r = <<>> => u = <<>> /\ r = <<>>
  BY <1>1, HeadOfConcat
<1>4. CASE c.state = "gone" /\ v = <<>> /\ \E r \in Seq(Msg) : u \o r \in Streams[0]
  BY <1>1, <1>2, <1>3, <1>4 DEF IsIdle, Quiet, u, v
<1>5. CASE u \o v \in Streams[0] /\ c.state = IF v # <<>> THEN Sends(q, twice) ELSE After(q, twice)
  BY <1>1, <1>2, <1>3, <1>5 DEF IsIdle, Quiet, u, v
<1> QED BY <1>4, <1>5 DEF Owes, u, v

-----------------------------------------------------------------------------
(* What a node answers with *)

\* A function of the first k naturals is a sequence.
LEMMA FunctionIsSeq ==
    ASSUME NEW S, NEW k \in Nat, NEW f \in [1..k -> S]
    PROVE  f \in Seq(S) /\ Len(f) = k
OBVIOUS

\* The list of a finite set is a sequence of its elements.
LEMMA ListType ==
    ASSUME NEW S, IsFiniteSet(S)
    PROVE  List(S) \in Seq(S)
<1>1. Cardinality(S) \in Nat /\ ExistsBijection(1..Cardinality(S), S)
  BY FS_CardinalityType
<1>2. PICK f \in Bijection(1..Cardinality(S), S) : TRUE
  BY <1>1 DEF ExistsBijection
<1>3. f \in [1..Cardinality(S) -> S] /\ \A i, j \in DOMAIN f : f[i] = f[j] => i = j
  BY <1>2 DEF Bijection, Injection, IsInjective
<1>4. List(S) \in [1..Cardinality(S) -> S]
  <2> DEFINE Lists == [1..Cardinality(S) -> S]
             Once(g) == Seqs!IsInjective(g)
  <2>0. Seqs!Cardinality(S) = Cardinality(S)
    BY DEF Seqs!Cardinality, Cardinality
  <2>1. List(S) = CHOOSE g \in Lists : Once(g)
    BY <2>0 DEF List, Seqs!SetToSeq
  <2>2. \E g \in Lists : Once(g)
    BY <1>3 DEF Seqs!IsInjective
  <2> HIDE DEF Lists, Once
  <2>3. List(S) \in Lists
    BY <2>1, <2>2
  <2> QED BY <2>3 DEF Lists
<1> QED BY <1>1, <1>4, FunctionIsSeq

\* There are finitely many functions' values on a finite set.
LEMMA FiniteRange ==
    ASSUME NEW f, IsFiniteSet(DOMAIN f), f = [x \in DOMAIN f |-> f[x]]
    PROVE  IsFiniteSet({f[x] : x \in DOMAIN f})
<1> DEFINE T == {f[x] : x \in DOMAIN f}
<1>1. f \in [DOMAIN f -> T] /\ \A t \in T : \E x \in DOMAIN f : f[x] = t
  OBVIOUS
<1> HIDE DEF T
<1>2. f \in Surjection(DOMAIN f, T)
  BY <1>1 DEF Surjection
<1>3. IsFiniteSet(T)
  BY <1>2, FS_Surjection
<1> QED BY <1>3 DEF T

\* Rows of up to five of a set
RowsOf(D) ==
    {<<a>> : a \in D} \cup {<<a, b>> : a \in D, b \in D} \cup {<<a, b, c>> : a \in D, b \in D, c \in D}
      \cup {<<a, b, c, d, e>> : a \in D, b \in D, c \in D, d \in D, e \in D}
      \cup {<<a, b, c, d>> : a \in D, b \in D, c \in D, d \in D}

\* Rows of up to five names
LEMMA RowsOfAre ==
    ASSUME NEW D, NEW a \in D, NEW b \in D, NEW c \in D, NEW d \in D, NEW e \in D
    PROVE  /\ <<a>> \in RowsOf(D) /\ <<a, b>> \in RowsOf(D) /\ <<a, b, c>> \in RowsOf(D)
           /\ <<a, b, c, d>> \in RowsOf(D) /\ <<a, b, c, d, e>> \in RowsOf(D)
BY DEF RowsOf

\* Of a finite set of names there are finitely many, and all are rows.
LEMMA RowsOfFinite ==
    ASSUME NEW D \in SUBSET (Names \cup Nat), IsFiniteSet(D)
    PROVE  IsFiniteSet(RowsOf(D)) /\ RowsOf(D) \in SUBSET Row
<1> DEFINE Q == (D \X D) \X ((D \X D) \X (D \X (1..5)))
           place(a, b, c, d, e, k) == <<<<a, b>>, <<<<c, d>>, <<e, k>>>>>>
           upto(a, b, c, d, e, k) == IF k = 1 THEN <<a>> ELSE IF k = 2 THEN <<a, b>> ELSE IF k = 3 THEN <<a, b, c>>
                                     ELSE IF k = 4 THEN <<a, b, c, d>> ELSE <<a, b, c, d, e>>
           row == [x \in Q |-> upto(x[1][1], x[1][2], x[2][1][1], x[2][1][2], x[2][2][1], x[2][2][2])]
<1>1. IsFiniteSet(Q)
  <2>1. IsFiniteSet(D \X D)
    BY FS_Product
  <2>3. IsFiniteSet(1..5)
    <3>1. 1 \in Int /\ 5 \in Int
      OBVIOUS
    <3> QED BY <3>1, FS_Interval
  <2>2. IsFiniteSet(D \X (1..5))
    BY <2>3, FS_Product
  <2> QED BY <2>1, <2>2, FS_Product
<1>2. \A a, b, c, d, e \in D : \A k \in 1..5 :
         /\ place(a, b, c, d, e, k) \in Q
         /\ row[place(a, b, c, d, e, k)] = upto(a, b, c, d, e, k)
  <2> TAKE a, b, c, d, e \in D
  <2> TAKE k \in 1..5
  <2> DEFINE x == place(a, b, c, d, e, k)
  <2>1. x \in Q /\ x[1][1] = a /\ x[1][2] = b /\ x[2][1][1] = c /\ x[2][1][2] = d
        /\ x[2][2][1] = e /\ x[2][2][2] = k
    OBVIOUS
  <2>2. row[x] = upto(x[1][1], x[1][2], x[2][1][1], x[2][1][2], x[2][2][1], x[2][2][2])
    BY <2>1
  <2> HIDE DEF row, upto, Q, place
  <2> QED BY <2>1, <2>2
<1>3. DOMAIN row = Q /\ row = [x \in DOMAIN row |-> row[x]]
  OBVIOUS
<1> HIDE DEF Q, row, place, upto
<1>4. IsFiniteSet({row[x] : x \in Q})
  BY <1>1, <1>3, FiniteRange
<1>5. ASSUME NEW r \in RowsOf(D) PROVE r \in Row /\ \E x \in Q : row[x] = r
  <2>1. PICK a \in D, b \in D, c \in D, d \in D, e \in D :
           r \in {<<a>>, <<a, b>>, <<a, b, c>>, <<a, b, c, d>>, <<a, b, c, d, e>>}
    BY DEF RowsOf
  <2>2. /\ <<a>> \in Row /\ <<a, b>> \in Row /\ <<a, b, c>> \in Row
        /\ <<a, b, c, d>> \in Row /\ <<a, b, c, d, e>> \in Row
    BY DEF Row
  <2>3. PICK k \in 1..5 : r = upto(a, b, c, d, e, k)
    <3>1. /\ upto(a, b, c, d, e, 1) = <<a>> /\ upto(a, b, c, d, e, 2) = <<a, b>>
          /\ upto(a, b, c, d, e, 3) = <<a, b, c>> /\ upto(a, b, c, d, e, 4) = <<a, b, c, d>>
          /\ upto(a, b, c, d, e, 5) = <<a, b, c, d, e>>
      BY DEF upto
    <3>2. {1, 2, 3, 4, 5} \subseteq 1..5
      OBVIOUS
    <3> QED BY <2>1, <3>1, <3>2
  <2>4. place(a, b, c, d, e, k) \in Q /\ row[place(a, b, c, d, e, k)] = r
    BY <1>2, <2>3
  <2> QED BY <2>1, <2>2, <2>4
<1>6. RowsOf(D) \in SUBSET {row[x] : x \in Q}
  BY <1>5
<1> QED BY <1>4, <1>5, <1>6, FS_Subset

\* A node's store is about F.
HasStore(store, F) ==
    /\ F \in SUBSET (Names \cup Nat) /\ IsFiniteSet(F)
    /\ \A t \in store.mine \cup store.all : t[1] \in F /\ t[2] \in F /\ t[3] \in F

Lists(k) == [1..k -> Seq(Row)]

\* What a node reads of its store is in it.
LEMMA Inside ==
    ASSUME NEW store, NEW F, HasStore(store, F)
    PROVE  /\ Mine(store) \subseteq F
           /\ \A types : Elements(store, types) \subseteq F
           /\ \A s, p, types : Objects(store, s, p, types) \subseteq F
           /\ \A root, s, p, types : ObjectsInScope(store, root, s, p, types) \subseteq F
           /\ \A o : Inverted(store, o) \subseteq F
           /\ \A o, p, types : Around(store, o, p, types) \subseteq F
BY DEF HasStore, Mine, Elements, Objects, ObjectsInScope, Inverted, Around

\* The list of such rows
LEMMA OneList ==
    ASSUME NEW store, NEW F, HasStore(store, F), NEW R \in SUBSET RowsOf(F)
    PROVE  /\ IsFiniteSet(R) /\ List(R) \in Seq(Row)
           /\ <<List(R)>> \in Lists(1) /\ Ready(R) \subseteq Lists(1)
<1>1. IsFiniteSet(R) /\ R \subseteq Row
  BY RowsOfFinite, FS_Subset DEF HasStore
<1>2. List(R) \in Seq(Row)
  BY <1>1, ListType
<1> QED BY <1>1, <1>2 DEF Lists, Ready

\* The queries that list what they find around one object
LEMMA AroundLists ==
    ASSUME NEW store, NEW F, HasStore(store, F)
    PROVE  /\ q01(store) \subseteq Lists(1) /\ q03(store) \subseteq Lists(1) /\ q05(store) \subseteq Lists(1)
           /\ q10(store) \subseteq Lists(1) /\ q06(store) \subseteq Lists(1) /\ q14(store) \subseteq Lists(1)
           /\ q07_n(store) \subseteq Lists(1) /\ q08s1_n(store) \subseteq Lists(1)
<1>1. \A S \in SUBSET F : Ready({<<s>> : s \in S}) \subseteq Lists(1)
  <2> TAKE S \in SUBSET F
  <2>1. {<<s>> : s \in S} \in SUBSET RowsOf(F)
    BY DEF RowsOf
  <2> QED BY <2>1, OneList
<1>2. \A types : Elements(store, types) \cap Mine(store) \subseteq F
  BY Inside
<1>3. q01(store) \subseteq Lists(1)
  BY <1>1, Inside DEF q01
<1>4. q03(store) \subseteq Lists(1)
  BY <1>1, Inside DEF q03
<1>5. q05(store) \subseteq Lists(1)
  BY <1>1, Inside DEF q05
<1>6. q10(store) \subseteq Lists(1)
  BY <1>1, Inside DEF q10
<1>7. q06(store) \subseteq Lists(1)
  BY <1>1, <1>2 DEF q06
<1>8. q14(store) \subseteq Lists(1)
  BY <1>1, <1>2 DEF q14
<1>9. q07_n(store) \subseteq Lists(1)
  BY <1>1, Inside DEF q07_n
<1>10. q08s1_n(store) \subseteq Lists(1)
  BY <1>1, Inside DEF q08s1_n
<1> QED BY <1>3, <1>4, <1>5, <1>6, <1>7, <1>8, <1>9, <1>10

\* One value of three properties of each
LEMMA List04 ==
    ASSUME NEW store, NEW F, HasStore(store, F)
    PROVE  q04(store) \subseteq Lists(1)
<1> DEFINE found == Around(store, "Department0", "worksFor", Hierarchy["Professor"])
           begin(p, tmpl) == Choices(found, LAMBDA s : IF TypeOf[s] \in DOMAIN tmpl
                                        THEN Objects(store, s, p, {tmpl[TypeOf[s]]}) ELSE {})
           some(p) == UNION {begin(p, tmpl) : tmpl \in OneTemplate(store, p, Hierarchy["Professor"], AnyType)}
           rows(y1, y2, y3) == {<<s, y1[s], y2[s], y3[s]>> : s \in found}
<1>1. q04(store) = {<<List(rows(y1, y2, y3))>> : y1 \in some("name"), y2 \in some("emailAddress"), y3 \in some("telephone")}
  BY DEF q04, Choices
<1>2. found \subseteq F
  BY Inside
<1>3. \A p : \A y \in some(p) : \A s \in found : y[s] \in F
  <2> SUFFICES ASSUME NEW p, NEW y \in some(p), NEW s \in found PROVE y[s] \in F
    OBVIOUS
  <2>1. PICK tmpl \in OneTemplate(store, p, Hierarchy["Professor"], AnyType) : y \in begin(p, tmpl)
    <3> HIDE DEF begin
    <3> QED OBVIOUS
  <2>2. y[s] \in IF TypeOf[s] \in DOMAIN tmpl THEN Objects(store, s, p, {tmpl[TypeOf[s]]}) ELSE {}
    BY <2>1 DEF Choices
  <2> QED BY <2>2, Inside
<1> HIDE DEF found, some
<1>4. \A y1 \in some("name"), y2 \in some("emailAddress"), y3 \in some("telephone") :
         rows(y1, y2, y3) \in SUBSET RowsOf(F)
  BY <1>2, <1>3 DEF RowsOf
<1> HIDE DEF rows
<1>5. \A y1 \in some("name"), y2 \in some("emailAddress"), y3 \in some("telephone") :
         <<List(rows(y1, y2, y3))>> \in Lists(1)
  BY <1>4, OneList
<1> QED BY <1>1, <1>5

\* The list of the subjects of some of a node's triples
LEMMA ListsSubjectsOf ==
    ASSUME NEW store, NEW F, HasStore(store, F), IsFiniteSet(store.mine), NEW S \in SUBSET store.mine
    PROVE  <<Subjects(S)>> \in Lists(1)
<1>1. IsFiniteSet(S) /\ \A t \in S : t[1] \in F
  BY FS_Subset DEF HasStore
<1>2. List(S) \in Seq(S)
  BY <1>1, ListType
<1>3. DOMAIN List(S) = 1..Len(List(S)) /\ Len(List(S)) \in Nat
      /\ \A i \in DOMAIN List(S) : List(S)[i] \in S
  BY <1>2
<1>4. \A i \in DOMAIN List(S) : <<List(S)[i][1]>> \in Row
  BY <1>1, <1>3 DEF Row, HasStore
<1>5. Subjects(S) \in [1..Len(List(S)) -> Row]
  BY <1>3, <1>4 DEF Subjects
<1>6. Subjects(S) \in Seq(Row)
  BY <1>3, <1>5, FunctionIsSeq
<1> QED BY <1>6 DEF Lists

\* A row for each of three predicates
LEMMA List13 ==
    ASSUME NEW store, NEW F, HasStore(store, F), IsFiniteSet(store.mine)
    PROVE  q13(store) \subseteq Lists(1)
<1> DEFINE found == {t \in store.mine : /\ t[1] \in Inverted(store, "University0") /\ t[3] = "University0"
                                     /\ t[2] \in {"doctoralDegreeFrom", "mastersDegreeFrom", "undergraduateDegreeFrom"}}
<1>1. q13(store) = {<<Subjects(found)>>} /\ found \in SUBSET store.mine
  BY DEF q13
<1> HIDE DEF found
<1>2. <<Subjects(found)>> \in Lists(1)
  BY <1>1, ListsSubjectsOf
<1> QED BY <1>1, <1>2

\* How many students every faculty advises
LEMMA List15 ==
    ASSUME NEW store, NEW F, HasStore(store, F)
    PROVE  q15_n(store) \subseteq Lists(1)
<1> DEFINE G == F \cup (0..Cardinality(F))
           advised(f) == Around(store, f, "advisor", Hierarchy["Student"])
           rows == {<<f, Cardinality(advised(f))>> :
                       f \in {f \in Elements(store, Hierarchy["Faculty"]) : advised(f) # {}}}
<1>1. q15_n(store) = Ready(rows)
  BY DEF q15_n
<1>2. Cardinality(F) \in Nat
  BY FS_CardinalityType DEF HasStore
<1>3. HasStore(store, G)
  <2>1. IsFiniteSet(0..Cardinality(F))
    <3>1. 0 \in Int /\ Cardinality(F) \in Int
      BY <1>2
    <3> QED BY <3>1, FS_Interval
  <2>2. IsFiniteSet(G)
    BY <2>1, FS_Union DEF HasStore
  <2>3. G \in SUBSET (Names \cup Nat)
    BY <1>2 DEF HasStore
  <2> HIDE DEF G
  <2>4. F \subseteq G
    BY DEF G
  <2> QED BY <2>2, <2>3, <2>4 DEF HasStore
<1>4. \A f : Cardinality(advised(f)) \in G
  <2> TAKE f
  <2>1. advised(f) \in SUBSET F /\ IsFiniteSet(F)
    BY Inside DEF HasStore
  <2> HIDE DEF advised
  <2>2. Cardinality(advised(f)) \in Nat /\ Cardinality(advised(f)) <= Cardinality(F)
    BY <2>1, FS_Subset, FS_CardinalityType
  <2> QED BY <1>2, <2>2
<1>5. Elements(store, Hierarchy["Faculty"]) \subseteq G
  BY Inside
<1> HIDE DEF G, advised
<1>6. rows \in SUBSET RowsOf(G)
  BY <1>4, <1>5 DEF RowsOf
<1> QED BY <1>1, <1>3, <1>6, OneList

\* Every student with a name
LEMMA List17 ==
    ASSUME NEW store, NEW F, HasStore(store, F)
    PROVE  q17(store) \subseteq Lists(1)
<1> DEFINE students == Elements(store, Composites["GraduateStudent"]) \cap Mine(store)
           rows(n) == {<<s, n[s]>> : s \in students}
<1>1. ASSUME NEW a \in q17(store)
      PROVE  \E n : a = <<List(rows(n))>> /\ \A s \in students : n[s] \in F
  <2> DEFINE sofar(order, s) == {o \in DOMAIN order : order[o] <= order[s] /\ TypeOf[o] = TypeOf[s]}
             named(order, tmpl, s) == UNION {Objects(store, o, "name", {tmpl[TypeOf[o]]}) :
                                          o \in {o \in sofar(order, s) : TypeOf[o] \in DOMAIN tmpl}}
             names(order, tmpl) == Choices(students, LAMBDA s : named(order, tmpl, s))
             orders == {f \in [students -> 1..Cardinality(students)] : \A s, t \in students : f[s] = f[t] => s = t}
             answers(order, tmpl) == {<<List(rows(n))>> : n \in names(order, tmpl)}
             tmpls == OneTemplate(store, "name", Composites["GraduateStudent"], AnyType)
  <2>1. q17(store) = UNION {UNION {answers(order, tmpl) : order \in orders} : tmpl \in tmpls}
    BY DEF q17, Choices
  <2>2. PICK order, tmpl : a \in answers(order, tmpl)
    <3> HIDE DEF answers, orders, tmpls
    <3> QED BY <2>1
  <2>3. PICK n \in names(order, tmpl) : a = <<List(rows(n))>>
    BY <2>2
  <2>4. \A s \in students : n[s] \in named(order, tmpl, s)
    BY <2>3 DEF Choices
  <2>5. \A o : Objects(store, o, "name", {tmpl[TypeOf[o]]}) \subseteq F
    BY Inside
  <2>6. \A s : named(order, tmpl, s) \subseteq F
    BY <2>5
  <2> HIDE DEF named
  <2> QED BY <2>3, <2>4, <2>6
<1>2. students \subseteq F
  BY Inside
<1> HIDE DEF students
<1>3. \A n : (\A s \in students : n[s] \in F) => rows(n) \in SUBSET RowsOf(F)
  BY <1>2 DEF RowsOf
<1> HIDE DEF rows
<1> QED BY <1>1, <1>3, OneList

\* The queries with scope 1
LEMMA List02s2 ==
    ASSUME NEW store, NEW F, HasStore(store, F)
    PROVE  q02s2(store) \subseteq Lists(1)
<1> DEFINE students == Elements(store, Composites["GraduateStudent"]) \cap Mine(store)
           rows(d, u, of) == {<<s, d[s], u[s]>> : s \in {s \in students : u[s] = of[s]}}
<1>1. ASSUME NEW a \in q02s2(store)
      PROVE  \E d, u, of : a = <<List(rows(d, u, of))>> /\ \A s \in students : d[s] \in F /\ u[s] \in F
  <2> DEFINE universities == Choices(students, LAMBDA s :
                 Objects(store, s, "undergraduateDegreeFrom", Composites["University"]))
             departments == Choices(students, LAMBDA s : Objects(store, s, "memberOf", Composites["Department"]))
             itsUniversities(d) == Choices(students, LAMBDA s :
                 ObjectsInScope(store, s, d[s], "subOrganizationOf", Composites["University"]))
             answers(u, d) == {<<List(rows(d, u, of))>> : of \in itsUniversities(d)}
  <2>1. q02s2(store) = UNION {UNION {answers(u, d) : d \in departments} : u \in universities}
    BY DEF q02s2, Choices
  <2>2. PICK u \in universities, d \in departments : a \in answers(u, d)
    <3> HIDE DEF answers, universities, departments
    <3> QED BY <2>1
  <2>3. PICK of : a = <<List(rows(d, u, of))>>
    BY <2>2
  <2>4. \A s \in students : d[s] \in F /\ u[s] \in F
    <3>1. \A s \in students : u[s] \in Objects(store, s, "undergraduateDegreeFrom", Composites["University"])
      BY <2>2 DEF Choices
    <3>2. \A s \in students : d[s] \in Objects(store, s, "memberOf", Composites["Department"])
      BY <2>2 DEF Choices
    <3> HIDE DEF students
    <3> QED BY <3>1, <3>2, Inside
  <2> QED BY <2>3, <2>4
<1>2. students \subseteq F
  BY Inside
<1> HIDE DEF students
<1>3. \A d, u, of : (\A s \in students : d[s] \in F /\ u[s] \in F) => rows(d, u, of) \in SUBSET RowsOf(F)
  BY <1>2 DEF RowsOf
<1> HIDE DEF rows
<1> QED BY <1>1, <1>3, OneList

\* The students of the university's departments, in scope 1
LEMMA List08s2 ==
    ASSUME NEW store, NEW F, HasStore(store, F)
    PROVE  q08s2(store) \subseteq Lists(1)
<1> DEFINE types == Hierarchy["Student"]
           departmentIDs == UNION {IDs(store, r, "memberOf", Composites["Department"]) : r \in types}
           emailIDs(tmpl) == UNION {IDs(store, r, "emailAddress", {tmpl[r]}) : r \in DOMAIN tmpl}
           ofUniversity(s, dept) == \E t \in store.mine :
               /\ t[1] = s /\ TypeOf[t[3]] = dept[TypeOf[s]]
               /\ "University0" \in ObjectsInScope(store, s, t[3], "subOrganizationOf", {TypeOf["University0"]})
           found(ids, dept) == {s \in Inverted(store, "University0") :
                                  /\ TypeOf[s] \in DOMAIN dept /\ ofUniversity(s, dept)
                                  /\ Entity(store, s, departmentIDs) # {} /\ Entity(store, s, ids) # {}}
           rows(found_, d, e) == {<<s, d[s], e[s]>> : s \in found_}
           answers(ids, dept) ==
               {<<List(rows(found(ids, dept), d, e))>> :
                   d \in Choices(found(ids, dept), LAMBDA s : Entity(store, s, departmentIDs)),
                   e \in Choices(found(ids, dept), LAMBDA s : Entity(store, s, ids))}
           tmpls == OneTemplate(store, "emailAddress", types, AnyType)
           depts == OneTemplateInScope(store, "subOrganizationOf", types, Composites["Department"],
                                       TypeOf["University0"])
<1>1. q08s2(store) = UNION {answers(emailIDs(tmpl), dept) : tmpl \in tmpls, dept \in depts}
  BY DEF q08s2, Choices
<1>2. \A ids, dept : found(ids, dept) \subseteq F
  BY Inside
<1>3. \A s, ids : Entity(store, s, ids) \subseteq F
  BY DEF Entity, HasStore
<1> HIDE DEF found
<1>4. ASSUME NEW found_ \in SUBSET F, NEW d, NEW e, \A s \in found_ : d[s] \in F /\ e[s] \in F
      PROVE  <<List(rows(found_, d, e))>> \in Lists(1)
  <2>1. rows(found_, d, e) \in SUBSET RowsOf(F)
    BY <1>4 DEF RowsOf
  <2> HIDE DEF rows
  <2> QED BY <2>1, OneList
<1>5. ASSUME NEW ids, NEW dept PROVE answers(ids, dept) \subseteq Lists(1)
  <2> DEFINE ds == Choices(found(ids, dept), LAMBDA s : Entity(store, s, departmentIDs))
             es == Choices(found(ids, dept), LAMBDA s : Entity(store, s, ids))
             one(d, e) == <<List(rows(found(ids, dept), d, e))>>
  <2>1. answers(ids, dept) = {one(d, e) : d \in ds, e \in es}
    OBVIOUS
  <2> HIDE DEF answers, departmentIDs
  <2>2. ASSUME NEW d \in ds, NEW e \in es PROVE one(d, e) \in Lists(1)
    <3> HIDE DEF rows
    <3>1. \A s \in found(ids, dept) : d[s] \in Entity(store, s, departmentIDs) /\ e[s] \in Entity(store, s, ids)
      BY DEF Choices
    <3>2. \A s \in found(ids, dept) : d[s] \in F /\ e[s] \in F
      BY <1>3, <3>1
    <3> QED BY <1>2, <1>4, <3>2
  <2> HIDE DEF ds, es, one
  <2> QED BY <2>1, <2>2
<1> HIDE DEF answers, emailIDs, tmpls, depts
<1> QED BY <1>1, <1>5

\* The students with their courses, in scope 1
LEMMA List09s2 ==
    ASSUME NEW store, NEW F, HasStore(store, F)
    PROVE  q09s2(store) \subseteq Lists(1)
<1> DEFINE advisors(s) == Objects(store, s, "advisor", Hierarchy["Faculty"])
           courses(s) == Objects(store, s, "takesCourse", Hierarchy["Course"])
           students == {s \in Elements(store, Hierarchy["Student"]) \cap Mine(store) : advisors(s) # {} /\ courses(s) # {}}
           rows(f) == UNION {{<<s, c, c>> : c \in courses(s) \cap
                           ObjectsInScope(store, s, f[s], "teacherOf", Hierarchy["Course"])} : s \in students}
<1>1. q09s2(store) = {<<List(rows(f))>> : f \in Choices(students, advisors)}
  BY DEF q09s2, Choices
<1>2. students \subseteq F /\ \A s : courses(s) \subseteq F
  BY Inside
<1> HIDE DEF students, courses
<1>3. \A f : rows(f) \in SUBSET RowsOf(F)
  BY <1>2 DEF RowsOf
<1> HIDE DEF rows
<1> QED BY <1>1, <1>3, OneList

\* The research groups, in scope 1
LEMMA List11s2 ==
    ASSUME NEW store, NEW F, HasStore(store, F), IsFiniteSet(store.mine)
    PROVE  q11s2(store) \subseteq Lists(1)
<1> DEFINE types == Hierarchy["ResearchGroup"]
           groups == Elements(store, types) \cap Mine(store)
           onlyUniversity(g, x, in) ==
               /\ TypeOf[g] \in DOMAIN in /\ TypeOf[x] = in[TypeOf[g]]
               /\ ObjectsInScope(store, g, x, "subOrganizationOf", {TypeOf["University0"]}) = {"University0"}
           found(tmpl, in) == {t \in store.mine :
               /\ t[1] \in groups /\ t[2] = "subOrganizationOf" /\ onlyUniversity(t[1], t[3], in)
               /\ TypeOf[t[1]] \in DOMAIN tmpl /\ TypeOf[t[3]] = tmpl[TypeOf[t[1]]]}
           tmpls == OneTemplate(store, "subOrganizationOf", types, AnyType)
           ins == OneTemplateInScope(store, "subOrganizationOf", types, AnyType, TypeOf["University0"])
<1>1. q11s2(store) = {<<Subjects(found(tmpl, in))>> : tmpl \in tmpls, in \in ins}
  BY DEF q11s2
<1>2. \A tmpl, in : found(tmpl, in) \in SUBSET store.mine
  OBVIOUS
<1> HIDE DEF found, tmpls, ins
<1>3. \A tmpl, in : <<Subjects(found(tmpl, in))>> \in Lists(1)
  BY <1>2, ListsSubjectsOf
<1> QED BY <1>1, <1>3

\* All that is said of what one student has to do with
LEMMA List16 ==
    ASSUME NEW store, NEW F, HasStore(store, F), \A t \in store.mine : t = <<t[1], t[2], t[3]>>
    PROVE  q16s1_n(store) \subseteq Lists(1) /\ q16s2(store) \subseteq Lists(1)
<1> DEFINE found == {t \in store.mine : t[1] \in Inverted(store, "UndergraduateStudent0@Department0")}
           rows == UNION {{<<t[1], t[2], t[3], u[2], u[3]>> : u \in {u \in store.all : u[1] = t[3]}} : t \in found}
<1>1. q16s1_n(store) = Ready(found) /\ q16s2(store) = Ready(rows)
  BY DEF q16s1_n, q16s2
<1>2. found \subseteq store.mine
  OBVIOUS
<1> HIDE DEF found
<1>3. found \in SUBSET RowsOf(F)
  BY <1>2 DEF HasStore, RowsOf
<1>4. rows \in SUBSET RowsOf(F)
  BY <1>2 DEF HasStore, RowsOf
<1> QED BY <1>1, <1>3, <1>4, OneList

\* A list that has a row for each of a list of pairs
LEMMA ListAlong ==
    ASSUME NEW P, IsFiniteSet(P), NEW u, \A p \in P : <<p[1], u[p[1]]>> \in Row
    PROVE  [i \in DOMAIN List(P) |-> <<List(P)[i][1], u[List(P)[i][1]]>>] \in Seq(Row)
<1> DEFINE rows == [i \in DOMAIN List(P) |-> <<List(P)[i][1], u[List(P)[i][1]]>>]
<1>1. List(P) \in Seq(P)
  BY ListType
<1>2. /\ DOMAIN List(P) = 1..Len(List(P)) /\ Len(List(P)) \in Nat
      /\ \A i \in DOMAIN List(P) : List(P)[i] \in P
  BY <1>1
<1>3. rows \in [1..Len(List(P)) -> Row]
  BY <1>2
<1> QED BY <1>2, <1>3, FunctionIsSeq

\* An answer of several lists
LEMMA SeveralLists ==
    ASSUME NEW a \in Seq(Row), NEW b \in Seq(Row), NEW c \in Seq(Row), NEW d \in Seq(Row)
    PROVE  <<a, b, c>> \in Lists(3) /\ <<a, b, c, d>> \in Lists(4)
BY DEF Lists

\* Students and their departments, and what another node may join
LEMMA List02s1 ==
    ASSUME NEW store, NEW F, HasStore(store, F)
    PROVE  q02s1_n(store) \subseteq Lists(4)
<1> DEFINE universities(s) == Objects(store, s, "undergraduateDegreeFrom", Composites["University"])
           departments(s) == Objects(store, s, "memberOf", Composites["Department"])
           DepartmentUniversity ==
               UNION {{<<d, u>> : d \in Around(store, u, "subOrganizationOf", Composites["Department"])} :
                        u \in Elements(store, Composites["University"])}
           students == Elements(store, Composites["GraduateStudent"]) \cap Mine(store)
           member == UNION {{<<s, d>> : d \in departments(s)} : s \in students}
           joined(map) == {m \in member : m[2] \in DOMAIN map /\ map[m[2]] \in universities(m[1])}
           rows(map) == {<<m[1], m[2], map[m[2]]>> : m \in joined(map)}
           along(P, v) == [i \in DOMAIN List(P) |-> <<List(P)[i][1], v[List(P)[i][1]]>>]
           others(map) == member \ joined(map)
           alone(map) == {m[1] : m \in others(map)}
           US(map) == Choices(alone(map), universities)
           DS(map) == Choices(alone(map), departments)
           answer(map, u, d) ==
               <<List(rows(map)), List(DepartmentUniversity), along(others(map), u), along(others(map), d)>>
           answers(map) == {answer(map, u, d) : u \in US(map), d \in DS(map)}
<1>1. q02s1_n(store) = UNION {answers(map) : map \in Kept(DepartmentUniversity)}
  BY DEF q02s1_n, Choices, Kept
<1>2. \A s : universities(s) \subseteq F /\ departments(s) \subseteq F
  BY Inside
<1>3. students \subseteq F /\ DepartmentUniversity \subseteq RowsOf(F)
  BY Inside DEF RowsOf
<1>4. \A map : \A u \in US(map) : \A s \in alone(map) : u[s] \in universities(s)
  BY DEF Choices
<1>5. \A map : \A d \in DS(map) : \A s \in alone(map) : d[s] \in departments(s)
  BY DEF Choices
<1> HIDE DEF universities, departments, students, DepartmentUniversity, US, DS
<1>6. member \in SUBSET RowsOf(F) /\ \A m \in member : m[1] \in F /\ m[2] \in F
  BY <1>2, <1>3 DEF RowsOf
<1> HIDE DEF member
<1>7. ASSUME NEW map, NEW a \in answers(map) PROVE a \in Lists(4)
  <2>1. PICK u \in US(map), d \in DS(map) : a = answer(map, u, d)
    <3> HIDE DEF answer
    <3> QED OBVIOUS
  <2> HIDE DEF answers, answer, along
  <2>2. rows(map) \in SUBSET RowsOf(F)
    BY <1>2, <1>6 DEF RowsOf
  <2>3. others(map) \in SUBSET RowsOf(F) /\ \A m \in others(map) : m[1] \in F /\ m[1] \in alone(map)
    BY <1>6
  <2> HIDE DEF rows, others, alone
  <2>4. \A m \in others(map) : <<m[1], u[m[1]]>> \in RowsOf(F) /\ <<m[1], d[m[1]]>> \in RowsOf(F)
    BY <1>2, <1>4, <1>5, <2>3 DEF RowsOf
  <2>5. RowsOf(F) \subseteq Row
    BY RowsOfFinite DEF HasStore
  <2>6. IsFiniteSet(others(map))
    BY <2>3, OneList
  <2>7. along(others(map), u) \in Seq(Row)
    BY <2>4, <2>5, <2>6, ListAlong DEF along
  <2>8. along(others(map), d) \in Seq(Row)
    BY <2>4, <2>5, <2>6, ListAlong DEF along
  <2>9. List(rows(map)) \in Seq(Row) /\ List(DepartmentUniversity) \in Seq(Row)
    BY <1>3, <2>2, OneList
  <2> QED BY <2>1, <2>7, <2>8, <2>9, SeveralLists DEF answer
<1> HIDE DEF answers
<1> QED BY <1>1, <1>7

\* Students and their courses, and what another node may join
LEMMA List09s1 ==
    ASSUME NEW store, NEW F, HasStore(store, F)
    PROVE  q09s1_n(store) \subseteq Lists(4)
<1> DEFINE advisors(s) == Objects(store, s, "advisor", Hierarchy["Faculty"])
           courses(s) == Objects(store, s, "takesCourse", Hierarchy["Course"])
           CourseFaculty ==
               UNION {{<<c, f>> : f \in Around(store, c, "teacherOf", Hierarchy["Faculty"])} :
                        c \in Elements(store, Hierarchy["Course"])}
           students == {s \in Elements(store, Hierarchy["Student"]) \cap Mine(store) : advisors(s) # {}}
           takes == UNION {{<<s, c>> : c \in courses(s)} : s \in students}
           joined(map) == {t \in takes : t[2] \in DOMAIN map /\ map[t[2]] \in advisors(t[1])}
           rows(map) == {<<t[1], map[t[2]], t[2]>> : t \in joined(map)}
           along(P, v) == [i \in DOMAIN List(P) |-> <<List(P)[i][1], v[List(P)[i][1]]>>]
           others(map) == takes \ joined(map)
           FS == Choices(students, advisors)
           answers(map) ==
               {<<List(rows(map)), List(CourseFaculty), along(others(map), f), List(others(map))>> : f \in FS}
<1>1. q09s1_n(store) = UNION {answers(map) : map \in Kept(CourseFaculty)}
  BY DEF q09s1_n, Choices, Kept
<1>2. \A s : advisors(s) \subseteq F /\ courses(s) \subseteq F
  BY Inside
<1>3. students \subseteq F /\ CourseFaculty \subseteq RowsOf(F)
  BY Inside DEF RowsOf
<1>4. \A f \in FS : \A s \in students : f[s] \in advisors(s)
  BY DEF Choices
<1> HIDE DEF advisors, courses, students, CourseFaculty, FS
<1>5. takes \in SUBSET RowsOf(F) /\ \A t \in takes : t[1] \in F /\ t[2] \in F /\ t[1] \in students
  BY <1>2, <1>3 DEF RowsOf
<1> HIDE DEF takes
<1>6. ASSUME NEW map, NEW a \in answers(map) PROVE a \in Lists(4)
  <2>1. PICK f \in FS : a = <<List(rows(map)), List(CourseFaculty), along(others(map), f), List(others(map))>>
    OBVIOUS
  <2>2. rows(map) \in SUBSET RowsOf(F)
    BY <1>2, <1>5 DEF RowsOf
  <2>3. others(map) \in SUBSET RowsOf(F) /\ \A t \in others(map) : t[1] \in F /\ t[1] \in students
    BY <1>5
  <2> HIDE DEF rows, others
  <2>4. \A t \in others(map) : <<t[1], f[t[1]]>> \in RowsOf(F)
    BY <1>2, <1>4, <2>3 DEF RowsOf
  <2>5. RowsOf(F) \subseteq Row
    BY RowsOfFinite DEF HasStore
  <2>6. IsFiniteSet(others(map)) /\ List(others(map)) \in Seq(Row)
    BY <2>3, OneList
  <2>7. along(others(map), f) \in Seq(Row)
    BY <2>4, <2>5, <2>6, ListAlong
  <2>8. List(rows(map)) \in Seq(Row) /\ List(CourseFaculty) \in Seq(Row)
    BY <1>3, <2>2, OneList
  <2> HIDE DEF along
  <2> QED BY <2>1, <2>6, <2>7, <2>8, SeveralLists
<1> HIDE DEF answers
<1> QED BY <1>1, <1>6

\* Research groups whose first organisation is of the university, and those of others
LEMMA List11s1 ==
    ASSUME NEW store, NEW F, HasStore(store, F)
    PROVE  q11s1_n(store) \subseteq Lists(3)
<1> DEFINE ofUniversity == {s \in Inverted(store, "University0") :
                               <<s, "subOrganizationOf", "University0">> \in store.mine}
           groups == Elements(store, Hierarchy["ResearchGroup"]) \cap Mine(store)
           first(tmpl) == Choices(groups, LAMBDA g : IF TypeOf[g] \in DOMAIN tmpl
                            THEN Objects(store, g, "subOrganizationOf", {tmpl[TypeOf[g]]}) ELSE {})
           tmpls == OneTemplate(store, "subOrganizationOf", Hierarchy["ResearchGroup"], AnyType)
           firsts == UNION {first(tmpl) : tmpl \in tmpls}
           A(o) == {<<g>> : g \in {g \in groups : o[g] \in ofUniversity}}
           B == {<<x>> : x \in ofUniversity}
           C(o) == {<<o[g], g>> : g \in {g \in groups : o[g] \notin ofUniversity}}
           answer(o) == <<List(A(o)), List(B), List(C(o))>>
<1>1. q11s1_n(store) = {answer(o) : o \in firsts}
  BY DEF q11s1_n, Choices
<1>2. groups \subseteq F /\ ofUniversity \subseteq F
  BY Inside
<1>3. \A tmpl : \A o \in first(tmpl) : \A g \in groups : o[g] \in F
  <2> SUFFICES ASSUME NEW tmpl, NEW o \in first(tmpl), NEW g \in groups PROVE o[g] \in F
    OBVIOUS
  <2>1. o[g] \in IF TypeOf[g] \in DOMAIN tmpl
                 THEN Objects(store, g, "subOrganizationOf", {tmpl[TypeOf[g]]}) ELSE {}
    BY DEF Choices
  <2> QED BY <2>1, Inside
<1> HIDE DEF ofUniversity, groups, first
<1>4. \A o \in firsts : \A g \in groups : o[g] \in F
  BY <1>3
<1> HIDE DEF firsts
<1>5. \A o \in firsts : A(o) \in SUBSET RowsOf(F) /\ B \in SUBSET RowsOf(F) /\ C(o) \in SUBSET RowsOf(F)
  BY <1>2, <1>4 DEF RowsOf
<1> HIDE DEF A, B, C
<1>6. \A o \in firsts : List(A(o)) \in Seq(Row) /\ List(B) \in Seq(Row) /\ List(C(o)) \in Seq(Row)
  BY <1>5, OneList
<1>7. \A o \in firsts : answer(o) \in Lists(3)
  BY <1>6, SeveralLists
<1> HIDE DEF answer
<1> QED BY <1>1, <1>7

\* Heads of departments of the university, and of others
LEMMA List12 ==
    ASSUME NEW store, NEW F, HasStore(store, F)
    PROVE  q12_n(store) \subseteq Lists(3)
<1> DEFINE headed == {<<t[1], t[3]>> : t \in {t \in store.mine : /\ t[2] = "headOf" /\ TypeOf[t[3]] = "Department"
                                                        /\ <<t[1], "worksFor", t[3]>> \in store.mine}}
           departments == {d \in Inverted(store, "University0") : TypeOf[d] = "Department"}
           A == {h \in headed : h[2] \in departments}
           B == {<<d>> : d \in departments}
           C == {<<h[2], h[1]>> : h \in {h \in headed : h[2] \notin departments}}
<1>1. q12_n(store) = {<<List(A), List(B), List(C)>>}
  BY DEF q12_n
<1>2. headed \subseteq RowsOf(F) /\ \A h \in headed : h[1] \in F /\ h[2] \in F
  <2> SUFFICES ASSUME NEW h \in headed PROVE h \in RowsOf(F) /\ h[1] \in F /\ h[2] \in F
    OBVIOUS
  <2>1. PICK t \in store.mine : h = <<t[1], t[3]>>
    OBVIOUS
  <2>2. t[1] \in F /\ t[3] \in F
    BY DEF HasStore
  <2> QED BY <2>1, <2>2, RowsOfAre
<1>3. departments \subseteq F
  BY Inside
<1> HIDE DEF headed, departments
<1>4. A \in SUBSET RowsOf(F) /\ B \in SUBSET RowsOf(F) /\ C \in SUBSET RowsOf(F)
  BY <1>2, <1>3 DEF RowsOf
<1> HIDE DEF A, B, C
<1>5. List(A) \in Seq(Row) /\ List(B) \in Seq(Row) /\ List(C) \in Seq(Row)
  BY <1>4, OneList
<1>6. <<List(A), List(B), List(C)>> \in Lists(3)
  BY <1>5, SeveralLists
<1> QED BY <1>1, <1>6

\* The second rounds of students
LEMMA ListAgain ==
    ASSUME NEW store, NEW F, HasStore(store, F), NEW received
    PROVE  q07_again(store, received) \subseteq Lists(1) /\ q08s1_again(store, received) \subseteq Lists(1)
<1>1. q07_again(store, received) \subseteq Lists(1)
  <2> DEFINE rows(tmpl) == {<<t[1], t[3]>> : t \in {t \in store.mine :
                    /\ t[2] = "takesCourse" /\ <<t[3]>> \in AsSet(received)
                    /\ TypeOf[t[1]] \in DOMAIN tmpl /\ TypeOf[t[3]] = tmpl[TypeOf[t[1]]]}}
  <2>1. q07_again(store, received) =
           {<<List(rows(tmpl))>> : tmpl \in OneTemplate(store, "takesCourse", Hierarchy["Student"], Hierarchy["Course"])}
    BY DEF q07_again
  <2>2. \A tmpl : rows(tmpl) \in SUBSET RowsOf(F)
    <3> SUFFICES ASSUME NEW tmpl, NEW r \in rows(tmpl) PROVE r \in RowsOf(F)
      OBVIOUS
    <3>1. PICK t \in store.mine : r = <<t[1], t[3]>>
      OBVIOUS
    <3> QED BY <3>1, RowsOfAre DEF HasStore
  <2> HIDE DEF rows
  <2> QED BY <2>1, <2>2, OneList
<1>2. q08s1_again(store, received) \subseteq Lists(1)
  <2> DEFINE found == {t \in store.mine : /\ t[2] = "memberOf" /\ <<t[3]>> \in AsSet(received)
                                  /\ TypeOf[t[1]] \in Hierarchy["Student"]
                                  /\ TypeOf[t[3]] \in Composites["Department"]}
             emails(s, tmpl) == IF TypeOf[s] \in DOMAIN tmpl
                                THEN Objects(store, s, "emailAddress", {tmpl[TypeOf[s]]}) ELSE {}
             mailed(tmpl) == {t \in found : emails(t[1], tmpl) # {}}
             E(tmpl) == Choices({t[1] : t \in mailed(tmpl)}, LAMBDA s : emails(s, tmpl))
             rows(tmpl, e) == {<<t[1], t[3], e[t[1]]>> : t \in mailed(tmpl)}
             answers(tmpl) == {<<List(rows(tmpl, e))>> : e \in E(tmpl)}
             tmpls == OneTemplate(store, "emailAddress", Hierarchy["Student"], AnyType)
  <2>1. q08s1_again(store, received) = UNION {answers(tmpl) : tmpl \in tmpls}
    BY DEF q08s1_again, Choices
  <2>2. \A tmpl : \A t \in mailed(tmpl) : t[1] \in F /\ t[3] \in F
    BY DEF HasStore
  <2>3. \A tmpl : \A e \in E(tmpl) : \A t \in mailed(tmpl) : e[t[1]] \in emails(t[1], tmpl)
    BY DEF Choices
  <2>4. \A s, tmpl : emails(s, tmpl) \subseteq F
    BY Inside
  <2> HIDE DEF mailed, E, emails, tmpls
  <2>5. \A tmpl : \A e \in E(tmpl) : rows(tmpl, e) \in SUBSET RowsOf(F)
    BY <2>2, <2>3, <2>4 DEF RowsOf
  <2> HIDE DEF rows
  <2>6. \A tmpl : \A e \in E(tmpl) : <<List(rows(tmpl, e))>> \in Lists(1)
    BY <2>5, OneList
  <2>7. \A tmpl : answers(tmpl) \subseteq Lists(1)
    BY <2>6
  <2> HIDE DEF answers
  <2> QED BY <2>1, <2>7
<1> QED BY <1>1, <1>2

\* The second round appends to the rows it gets.
LEMMA ListAppended ==
    ASSUME NEW store, NEW F, HasStore(store, F), IsFiniteSet(store.mine), NEW received \in Seq(Row)
    PROVE  q16s1_again(store, received) \subseteq Lists(1)
<1> DEFINE P == {x \in AsSet(received) \X store.mine : x[2][1] = x[1][3]}
           row == [x \in P |-> x[1] \o <<x[2][2], x[2][3]>>]
           rows == {x[1] \o <<x[2][2], x[2][3]>> : x \in P}
<1>1. q16s1_again(store, received) = {<<List(rows)>>}
  BY DEF q16s1_again, Ready
<1>2. IsFiniteSet(AsSet(received)) /\ AsSet(received) \subseteq Row
  <2>1. DOMAIN received = 1..Len(received) /\ Len(received) \in Nat
    OBVIOUS
  <2>2. IsFiniteSet(DOMAIN received) /\ received = [i \in DOMAIN received |-> received[i]]
    <3>1. 1 \in Int /\ Len(received) \in Int
      BY <2>1
    <3>2. IsFiniteSet(1..Len(received))
      BY <3>1, FS_Interval
    <3> QED BY <2>1, <3>2
  <2> QED BY <2>2, FiniteRange DEF AsSet, Seqs!ToSet
<1>3. IsFiniteSet(P)
  <2>1. IsFiniteSet(AsSet(received) \X store.mine)
    BY <1>2, FS_Product
  <2>2. P \in SUBSET (AsSet(received) \X store.mine)
    OBVIOUS
  <2> QED BY <2>1, <2>2, FS_Subset
<1>4. \A x \in P : x[1] \in Row /\ x[2][2] \in Names \cup Nat /\ x[2][3] \in Names \cup Nat
  BY <1>2 DEF HasStore
<1> HIDE DEF P
<1>5. \A x \in P : x[1] \o <<x[2][2], x[2][3]>> \in Row
  <2> TAKE x \in P
  <2> DEFINE y == <<x[2][2], x[2][3]>>
  <2>1. y \in Seq(Names \cup Nat) /\ x[1] \in Seq(Names \cup Nat)
    BY <1>4 DEF Row
  <2> HIDE DEF y
  <2>2. x[1] \o y \in Seq(Names \cup Nat)
    BY <2>1, ConcatProperties
  <2> QED BY <2>2 DEF y, Row
<1>6. DOMAIN row = P /\ row = [x \in DOMAIN row |-> row[x]] /\ rows = {row[x] : x \in P} /\ rows \subseteq Row
  BY <1>5
<1> HIDE DEF row, rows
<1>7. IsFiniteSet(rows)
  BY <1>3, <1>6, FiniteRange
<1>8. List(rows) \in Seq(Row)
  BY <1>6, <1>7, ListType
<1> QED BY <1>1, <1>8 DEF Lists

\* Any answer is as many lists of rows as the query has.
LEMMA AnswersAreLists ==
    ASSUME NEW q \in DOMAIN Stored, NEW S \in Stored[q], NEW M \in SUBSET S, NEW scope
    PROVE  LET store == [mine |-> M, all |-> S, maxScope |-> scope]
           IN  /\ Answers(q, store) \subseteq [1..NbOfLists(q) -> Seq(Row)]
               /\ q \in Again => \A rows \in Seq(Row) :
                     AnswersAgain(q, store, rows) \subseteq [1..NbOfLists(q) -> Seq(Row)]
<1> DEFINE here == [mine |-> M, all |-> S, maxScope |-> scope]
           F == {t[1] : t \in S} \cup {t[2] : t \in S} \cup {t[3] : t \in S}
<1>1. IsFiniteSet(S) /\ IsFiniteSet(M) /\ \A t \in S : t = <<t[1], t[2], t[3]>>
  BY NetworkAssumption, FS_Subset
<1>2. \A i \in 1..3 : IsFiniteSet({t[i] : t \in S})
  <2> TAKE i \in 1..3
  <2> DEFINE f == [t \in S |-> t[i]]
  <2>1. DOMAIN f = S /\ f = [t \in DOMAIN f |-> f[t]] /\ {f[t] : t \in S} = {t[i] : t \in S}
    OBVIOUS
  <2> HIDE DEF f
  <2>2. IsFiniteSet({f[t] : t \in S})
    BY <1>1, <2>1, FiniteRange
  <2> QED BY <2>1, <2>2
<1>3. IsFiniteSet(F)
  <2>1. 1 \in 1..3 /\ 2 \in 1..3 /\ 3 \in 1..3
    OBVIOUS
  <2> QED BY <1>2, <2>1, FS_Union
<1>4. F \in SUBSET (Names \cup Nat)
  <2>1. \A t \in S : {t[1], t[2], t[3]} \subseteq Names
    <3> DEFINE About(R) == UNION {{t[1], t[2], t[3]} : t \in R}
               All == UNION {Stored[r] : r \in DOMAIN Stored}
    <3>1. S \in All
      OBVIOUS
    <3>2. Names = UNION {About(R) : R \in All}
      BY DEF Names
    <3>3. \A t \in S : {t[1], t[2], t[3]} \subseteq About(S)
      OBVIOUS
    <3> HIDE DEF About, All
    <3> QED BY <3>1, <3>2, <3>3
  <2> QED BY <2>1
<1>5. here.mine = M /\ here.all = S
  OBVIOUS
<1> HIDE DEF here
<1>6. HasStore(here, F)
  <2>1. \A t \in S : t[1] \in F /\ t[2] \in F /\ t[3] \in F
    OBVIOUS
  <2> HIDE DEF F
  <2> QED BY <1>3, <1>4, <1>5, <2>1 DEF HasStore
<1> HIDE DEF F
<1>7. IsFiniteSet(here.mine) /\ \A t \in here.mine : t = <<t[1], t[2], t[3]>>
  BY <1>1, <1>5
<1>8. q \in Queries
  BY NetworkAssumption
<1>9. Answers(q, here) \subseteq Lists(NbOfLists(q))
  <2>1. CASE q \in {"q02s1", "q09s1"}
    <3>1. NbOfLists(q) = 4
      BY <2>1 DEF NbOfLists
    <3>2. q02s1_n(here) \subseteq Lists(4) /\ q09s1_n(here) \subseteq Lists(4)
      BY <1>6, List02s1, List09s1
    <3> QED BY <2>1, <3>1, <3>2 DEF Answers
  <2>2. CASE q \in {"q11s1", "q12"}
    <3>1. NbOfLists(q) = 3
      BY <2>2 DEF NbOfLists
    <3>2. q11s1_n(here) \subseteq Lists(3) /\ q12_n(here) \subseteq Lists(3)
      BY <1>6, List11s1, List12
    <3> QED BY <2>2, <3>1, <3>2 DEF Answers
  <2>3. CASE q \notin {"q02s1", "q09s1", "q11s1", "q12"}
    <3>1. NbOfLists(q) = 1
      BY <2>3 DEF NbOfLists
    <3>2. CASE q \in {"q01", "q03", "q05", "q06", "q07", "q08s1", "q10", "q14"}
      <4>1. /\ q01(here) \subseteq Lists(1) /\ q03(here) \subseteq Lists(1) /\ q05(here) \subseteq Lists(1)
            /\ q10(here) \subseteq Lists(1) /\ q06(here) \subseteq Lists(1) /\ q14(here) \subseteq Lists(1)
            /\ q07_n(here) \subseteq Lists(1) /\ q08s1_n(here) \subseteq Lists(1)
        BY <1>6, AroundLists
      <4> QED BY <3>1, <3>2, <4>1 DEF Answers
    <3>3. CASE q \in {"q02s2", "q08s2", "q09s2", "q11s2"}
      <4>1. /\ q02s2(here) \subseteq Lists(1) /\ q08s2(here) \subseteq Lists(1)
            /\ q09s2(here) \subseteq Lists(1) /\ q11s2(here) \subseteq Lists(1)
        BY <1>6, <1>7, List02s2, List08s2, List09s2, List11s2
      <4> QED BY <3>1, <3>3, <4>1 DEF Answers
    <3>4. CASE q \in {"q04", "q13", "q15", "q16s1", "q16s2", "q17"}
      <4>1. /\ q04(here) \subseteq Lists(1) /\ q15_n(here) \subseteq Lists(1) /\ q17(here) \subseteq Lists(1)
        BY <1>6, List04, List15, List17
      <4>2. q13(here) \subseteq Lists(1)
        BY <1>6, <1>7, List13
      <4>3. q16s1_n(here) \subseteq Lists(1) /\ q16s2(here) \subseteq Lists(1)
        BY <1>6, <1>7, List16
      <4> QED BY <3>1, <3>4, <4>1, <4>2, <4>3 DEF Answers
    <3> QED BY <1>8, <2>3, <3>2, <3>3, <3>4 DEF Queries
  <2> QED BY <2>1, <2>2, <2>3
<1>10. ASSUME q \in Again, NEW rows \in Seq(Row)
       PROVE  AnswersAgain(q, here, rows) \subseteq Lists(NbOfLists(q))
  <2>1. NbOfLists(q) = 1
    BY <1>10 DEF NbOfLists, Again
  <2>2. q07_again(here, rows) \subseteq Lists(1) /\ q08s1_again(here, rows) \subseteq Lists(1)
    BY <1>6, ListAgain
  <2>3. q16s1_again(here, rows) \subseteq Lists(1)
    BY <1>6, <1>7, ListAppended
  <2> QED BY <1>10, <2>1, <2>2, <2>3 DEF AnswersAgain, Again
<1> QED BY <1>9, <1>10 DEF Lists, here

\* Messages can be put together in any order.
LEMMA MessagesAssociate ==
    \A u, v, t \in Seq(Msg) : (u \o v) \o t = u \o (v \o t)
BY ConcatAssociative

\* The messages of sequences one after the other
LEMMA FlattenFollows ==
    ASSUME NEW k \in Nat \ {0}, NEW seqs \in [1..k -> Seq(Msg)]
    PROVE  \E f \in [1..k -> Seq(Msg)] :
              /\ Seqs!FlattenSeq(seqs) = f[k] /\ f[1] = seqs[1]
              /\ \A i \in 1..(k - 1) : f[i + 1] = f[i] \o seqs[i + 1]
<1> DEFINE Flat(f, j) == f = [i \in 1..j |-> IF i = 1 THEN seqs[i] ELSE f[i - 1] \o seqs[i]]
           Good == {j \in Nat : \E f : Flat(f, j)}
<1>1. Len(seqs) = k /\ k # 0 /\ k \in 1..k
  BY FunctionIsSeq
<1>3. Seqs!FlattenSeq(seqs) = (CHOOSE f : Flat(f, k))[k]
  BY <1>1 DEF Seqs!FlattenSeq
<1>4. 0 \in Good
  <2>1. Flat([i \in 1..0 |-> {}], 0)
    OBVIOUS
  <2> QED BY <2>1
<1>5. ASSUME NEW j \in Nat, j \in Good PROVE j + 1 \in Good
  <2>1. PICK f : Flat(f, j)
    BY <1>5
  <2> DEFINE g == [i \in 1..(j + 1) |-> IF i = j + 1 THEN IF i = 1 THEN seqs[i] ELSE f[i - 1] \o seqs[i] ELSE f[i]]
  <2>2. ASSUME NEW i \in 1..(j + 1)
        PROVE  g[i] = IF i = 1 THEN seqs[i] ELSE g[i - 1] \o seqs[i]
    <3>1. i # 1 => i - 1 \in 1..(j + 1) /\ i - 1 # j + 1 /\ g[i - 1] = f[i - 1]
      OBVIOUS
    <3>2. CASE i = j + 1
      <4>1. g[i] = IF i = 1 THEN seqs[i] ELSE f[i - 1] \o seqs[i]
        BY <3>2
      <4> HIDE DEF g
      <4> QED BY <3>1, <4>1
    <3>3. CASE i # j + 1
      <4>1. i \in 1..j /\ g[i] = f[i]
        BY <3>3
      <4>2. f[i] = IF i = 1 THEN seqs[i] ELSE f[i - 1] \o seqs[i]
        BY <2>1, <4>1
      <4> HIDE DEF g
      <4> QED BY <3>1, <4>1, <4>2
    <3> QED BY <3>2, <3>3
  <2>3. Flat(g, j + 1)
    <3>1. g = [i \in 1..(j + 1) |-> g[i]]
      OBVIOUS
    <3> HIDE DEF g
    <3> QED BY <2>2, <3>1
  <2> HIDE DEF g, Flat
  <2> QED BY <2>3
<1>6. \E f : Flat(f, k)
  <2>1. Nat \subseteq Good
    <3> HIDE DEF Good
    <3> QED BY <1>4, <1>5, SetInduction
  <2> QED BY <2>1
<1> DEFINE f == CHOOSE h : Flat(h, k)
<1>7. Flat(f, k)
  BY <1>6
<1>8. Seqs!FlattenSeq(seqs) = f[k]
  BY <1>3
<1> HIDE DEF f
<1>9. \A i \in 1..k : f[i] = IF i = 1 THEN seqs[i] ELSE f[i - 1] \o seqs[i]
  BY <1>7
<1>10. f[1] = seqs[1]
  BY <1>9
<1>11. ASSUME NEW i \in 1..(k - 1) PROVE f[i + 1] = f[i] \o seqs[i + 1]
  <2>1. i + 1 \in 1..k /\ i + 1 # 1 /\ (i + 1) - 1 = i
    OBVIOUS
  <2> DEFINE j == i + 1
  <2> HIDE DEF j
  <2>2. f[j] = f[j - 1] \o seqs[j] /\ j - 1 = i
    BY <1>9, <2>1 DEF j
  <2> QED BY <2>2 DEF j
<1> DEFINE Typed == {j \in Nat : j + 1 \in 1..k => f[j + 1] \in Seq(Msg)}
<1>12. 0 \in Typed
  BY <1>10
<1>13. ASSUME NEW j \in Nat, j \in Typed PROVE j + 1 \in Typed
  <2> SUFFICES ASSUME (j + 1) + 1 \in 1..k PROVE f[(j + 1) + 1] \in Seq(Msg)
    OBVIOUS
  <2>1. j + 1 \in 1..(k - 1) /\ f[j + 1] \in Seq(Msg) /\ seqs[(j + 1) + 1] \in Seq(Msg)
    BY <1>13
  <2>2. f[(j + 1) + 1] = f[j + 1] \o seqs[(j + 1) + 1]
    BY <1>11, <2>1
  <2> DEFINE u == f[j + 1]
             v == seqs[(j + 1) + 1]
  <2> HIDE DEF u, v
  <2>3. u \o v \in Seq(Msg)
    BY <2>1, ConcatProperties DEF u, v
  <2> QED BY <2>2, <2>3 DEF u, v
<1>14. \A i \in 1..k : f[i] \in Seq(Msg)
  <2>1. Nat \subseteq Typed
    <3> HIDE DEF Typed
    <3> QED BY <1>12, <1>13, SetInduction
  <2> SUFFICES ASSUME NEW i \in 1..k PROVE f[i] \in Seq(Msg)
    OBVIOUS
  <2>2. i - 1 \in Nat /\ (i - 1) + 1 = i
    OBVIOUS
  <2> QED BY <2>1, <2>2
<1>15. f \in [1..k -> Seq(Msg)]
  <2>1. f = [i \in 1..k |-> f[i]]
    BY <1>7
  <2> QED BY <1>14, <2>1
<1> QED BY <1>8, <1>10, <1>11, <1>15

\* The messages of a list and those of the lists that follow it
LEMMA MessagesType == \A r \in Seq(Row) : Messages(r) \in Seq(Msg)
<1>1. <<>> \in Streams[0] /\ Streams[0] \in SUBSET Seq(Msg)
  BY StreamsFollow
<1> QED BY <1>1, MessagesThen

\* There are none of no list.
LEMMA NoMessages ==
    ASSUME NEW a \in [1..0 -> Seq(Row)]
    PROVE  AnswerMessages(a) = <<>>
<1>1. a = <<>> /\ Len(a) = 0
  OBVIOUS
<1>2. [i \in 1..0 |-> Messages(a[i])] = <<>>
  OBVIOUS
<1> QED BY <1>1, <1>2 DEF AnswerMessages, Seqs!FlattenSeq

\* The messages of the first list come before those of the others.
LEMMA MessagesFollow ==
    ASSUME NEW k \in Nat \ {0}, NEW a \in [1..k -> Seq(Row)],
           NEW b \in [1..(k - 1) -> Seq(Row)], \A i \in 1..(k - 1) : b[i] = a[i + 1]
    PROVE  /\ AnswerMessages(a) \in Seq(Msg) /\ AnswerMessages(b) \in Seq(Msg)
           /\ AnswerMessages(a) = Messages(a[1]) \o AnswerMessages(b)
<1> DEFINE sa == [i \in 1..k |-> Messages(a[i])]
           sb == [i \in 1..(k - 1) |-> Messages(b[i])]
<1>1. sa \in [1..k -> Seq(Msg)] /\ sb \in [1..(k - 1) -> Seq(Msg)]
  BY MessagesType
<1>2. /\ AnswerMessages(a) = Seqs!FlattenSeq(sa) /\ AnswerMessages(b) = Seqs!FlattenSeq(sb)
      /\ sa[1] = Messages(a[1]) /\ \A i \in 1..(k - 1) : sb[i] = sa[i + 1]
  <2>1. k - 1 \in Nat
    OBVIOUS
  <2>2. Len(a) = k /\ Len(b) = k - 1
    BY <2>1, FunctionIsSeq
  <2> QED BY <2>2 DEF AnswerMessages
<1> HIDE DEF sa, sb
<1>3. PICK f \in [1..k -> Seq(Msg)] :
         /\ Seqs!FlattenSeq(sa) = f[k] /\ f[1] = sa[1]
         /\ \A i \in 1..(k - 1) : f[i + 1] = f[i] \o sa[i + 1]
  BY <1>1, FlattenFollows
<1>4. CASE k = 1
  <2>1. b \in [1..0 -> Seq(Row)]
    BY <1>4
  <2>2. AnswerMessages(b) = <<>>
    BY <2>1, NoMessages
  <2>3. AnswerMessages(a) = sa[1] /\ sa[1] \in Seq(Msg)
    BY <1>1, <1>2, <1>3, <1>4
  <2>4. sa[1] \o <<>> = sa[1]
    BY <2>3, ConcatEmptySeq
  <2> QED BY <1>2, <2>2, <2>3, <2>4, EmptySeq
<1>5. CASE k # 1
  <2>1. k - 1 \in Nat \ {0}
    BY <1>5
  <2>2. PICK g \in [1..(k - 1) -> Seq(Msg)] :
           /\ Seqs!FlattenSeq(sb) = g[k - 1] /\ g[1] = sb[1]
           /\ \A i \in 1..((k - 1) - 1) : g[i + 1] = g[i] \o sb[i + 1]
    <3> DEFINE m == k - 1
    <3>1. m \in Nat \ {0} /\ sb \in [1..m -> Seq(Msg)]
      BY <1>1, <2>1
    <3> HIDE DEF m
    <3>2. \E g \in [1..m -> Seq(Msg)] :
             /\ Seqs!FlattenSeq(sb) = g[m] /\ g[1] = sb[1]
             /\ \A i \in 1..(m - 1) : g[i + 1] = g[i] \o sb[i + 1]
      BY <3>1, FlattenFollows
    <3> QED BY <3>2 DEF m
  <2> DEFINE Holds(j) == f[j + 1] = sa[1] \o g[j]
             Same == {j \in Nat : j \in 1..(k - 1) => Holds(j)}
  <2>3. 0 \in Same
    OBVIOUS
  <2>4. ASSUME NEW j \in Nat, j \in Same PROVE j + 1 \in Same
    <3> SUFFICES ASSUME j + 1 \in 1..(k - 1) PROVE Holds(j + 1)
      <4> HIDE DEF Holds
      <4> QED OBVIOUS
    <3> DEFINE u == sa[1]
               w == sb[j + 1]
    <3>1. f[(j + 1) + 1] = f[j + 1] \o w
      <4> DEFINE i == j + 1
      <4>1. i \in 1..(k - 1)
        OBVIOUS
      <4> HIDE DEF i
      <4>2. f[i + 1] = f[i] \o sa[i + 1] /\ sb[i] = sa[i + 1]
        BY <1>2, <1>3, <4>1
      <4> QED BY <4>2 DEF i
    <3>2. CASE j = 0
      <4> DEFINE i == j + 1
      <4>1. i = 1 /\ f[i + 1] = f[i] \o sb[i]
        BY <3>1, <3>2
      <4> HIDE DEF i
      <4>2. f[i + 1] = sa[1] \o g[i]
        BY <1>3, <2>2, <4>1
      <4> QED BY <4>2 DEF i
    <3>3. CASE j # 0
      <4> DEFINE v == g[j]
      <4>1. j \in 1..(k - 1) /\ j \in 1..((k - 1) - 1) /\ j + 1 \in 1..(k - 1) /\ 1 \in 1..k
        BY <3>3
      <4>2. f[j + 1] = u \o v /\ g[j + 1] = v \o w
        BY <2>2, <2>4, <4>1
      <4>3. u \in Seq(Msg) /\ v \in Seq(Msg) /\ w \in Seq(Msg)
        <5>1. w \in Seq(Msg)
          BY <1>1, <4>1
        <5>2. v \in Seq(Msg)
          BY <2>2, <4>1
        <5> QED BY <1>1, <4>1, <5>1, <5>2
      <4>4. (u \o v) \o w = u \o (v \o w)
        <5> HIDE DEF u, v, w
        <5> QED BY <4>3, MessagesAssociate, Zenon
      <4> QED BY <3>1, <4>2, <4>4
    <3> QED BY <3>2, <3>3
  <2>6. f[k] = sa[1] \o g[k - 1]
    <3>1. Nat \subseteq Same
      <4> HIDE DEF Same
      <4> QED BY <2>3, <2>4, SetInduction
    <3>2. k - 1 \in Nat /\ k - 1 \in 1..(k - 1) /\ (k - 1) + 1 = k
      BY <2>1
    <3> DEFINE j == k - 1
    <3> HIDE DEF j
    <3>3. j \in Same /\ j \in 1..(k - 1) /\ j + 1 = k
      BY <3>1, <3>2 DEF j
    <3> QED BY <3>3 DEF j
  <2>7. f[k] \in Seq(Msg) /\ g[k - 1] \in Seq(Msg)
    BY <2>1, <2>2
  <2> QED BY <1>2, <1>3, <2>2, <2>6, <2>7
<1> QED BY <1>4, <1>5

\* The lists of an answer after the first k, and their messages
LeftOf(a, n, k) == [i \in 1..(n - k) |-> a[k + i]]
Owed(a, n, k) == AnswerMessages(LeftOf(a, n, k))

\* What is owed begins with the messages of the next list.
LEMMA ListsAreOwed ==
    ASSUME NEW n \in Nat, NEW a \in [1..n -> Seq(Row)], NEW k \in 0..n
    PROVE  /\ Owed(a, n, k) \in Seq(Msg)
           /\ k < n => /\ Owed(a, n, k) = Messages(a[k + 1]) \o Owed(a, n, k + 1)
                       /\ Owed(a, n, k + 1) \in Seq(Msg) /\ a[k + 1] \in Seq(Row)
           /\ Owed(a, n, 0) = AnswerMessages(a) /\ Owed(a, n, n) = <<>>
<1>1. ASSUME NEW j \in 0..n PROVE LeftOf(a, n, j) \in [1..(n - j) -> Seq(Row)]
  BY DEF LeftOf
<1>2. LeftOf(a, n, 0) = a
  <2>1. n - 0 = n /\ \A i \in 1..n : 0 + i = i
    OBVIOUS
  <2> QED BY <2>1 DEF LeftOf
<1>3. Owed(a, n, n) = <<>>
  <2>1. n - n = 0 /\ n \in 0..n
    OBVIOUS
  <2>2. LeftOf(a, n, n) \in [1..0 -> Seq(Row)]
    BY <1>1, <2>1
  <2> QED BY <2>2, NoMessages DEF Owed
<1>4. ASSUME k < n
      PROVE  /\ Owed(a, n, k) = Messages(a[k + 1]) \o Owed(a, n, k + 1)
             /\ Owed(a, n, k + 1) \in Seq(Msg) /\ a[k + 1] \in Seq(Row) /\ Owed(a, n, k) \in Seq(Msg)
  <2> DEFINE m == n - k
             u == LeftOf(a, n, k)
             v == LeftOf(a, n, k + 1)
  <2>1. m \in Nat \ {0} /\ k + 1 \in 0..n /\ n - (k + 1) = m - 1 /\ k + 1 \in 1..n
    BY <1>4
  <2>2. u \in [1..m -> Seq(Row)] /\ v \in [1..(m - 1) -> Seq(Row)]
    BY <1>1, <2>1
  <2>3. u[1] = a[k + 1]
    BY <2>1 DEF LeftOf
  <2>4. ASSUME NEW i \in 1..(m - 1) PROVE v[i] = u[i + 1]
    <3>1. i \in 1..(n - (k + 1)) /\ i + 1 \in 1..(n - k) /\ (k + 1) + i = k + (i + 1)
      BY <2>1
    <3> QED BY <3>1 DEF LeftOf
  <2> HIDE DEF m, u, v
  <2>5. /\ AnswerMessages(u) \in Seq(Msg) /\ AnswerMessages(v) \in Seq(Msg)
        /\ AnswerMessages(u) = Messages(u[1]) \o AnswerMessages(v)
    BY <2>1, <2>2, <2>4, MessagesFollow
  <2> QED BY <2>1, <2>3, <2>5 DEF Owed, u, v
<1>5. Owed(a, n, 0) = AnswerMessages(a)
  BY <1>2 DEF Owed
<1>6. k < n \/ k = n
  OBVIOUS
<1>7. k = n => Owed(a, n, k) \in Seq(Msg)
  BY <1>3, EmptySeq
<1> QED BY <1>3, <1>4, <1>5, <1>6, <1>7

\* The messages of k lists are those of k lists.
LEMMA AnswerIsStream ==
    ASSUME NEW k \in Nat \ {0}, NEW a \in [1..k -> Seq(Row)]
    PROVE  AnswerMessages(a) \in Streams[k]
<1> DEFINE Good == {j \in Nat : j <= k => Owed(a, k, k - j) \in Streams[j]}
<1>1. 0 \in Good
  <2>1. k - 0 = k /\ k \in Nat /\ k \in 0..k
    OBVIOUS
  <2>2. Owed(a, k, k) = <<>> /\ Streams[0] = {<<>>}
    BY <2>1, ListsAreOwed, StreamsFollow
  <2> QED BY <2>1, <2>2
<1>2. ASSUME NEW j \in Nat, j \in Good PROVE j + 1 \in Good
  <2> SUFFICES ASSUME j + 1 <= k PROVE Owed(a, k, k - (j + 1)) \in Streams[j + 1]
    OBVIOUS
  <2> DEFINE i == k - (j + 1)
  <2>1. i \in 0..k /\ i < k /\ i + 1 = k - j
    OBVIOUS
  <2>2. Owed(a, k, i + 1) \in Streams[j]
    BY <1>2, <2>1
  <2> HIDE DEF i
  <2>3. Owed(a, k, i) = Messages(a[i + 1]) \o Owed(a, k, i + 1) /\ a[i + 1] \in Seq(Row)
    BY <2>1, ListsAreOwed
  <2>4. Owed(a, k, i) \in ListThen(Streams[j])
    <3> DEFINE T == Streams[j]
               t == Owed(a, k, i + 1)
               r == a[i + 1]
    <3>1. T \in SUBSET Seq(Msg) /\ t \in T /\ r \in Seq(Row)
      BY <2>2, <2>3, StreamsFollow
    <3> HIDE DEF T, t, r
    <3>2. Messages(r) \o t \in ListThen(T)
      BY <3>1, MessagesThen
    <3> QED BY <2>3, <3>2 DEF T, t, r
  <2>5. Streams[j + 1] = ListThen(Streams[j])
    BY StreamsFollow
  <2> QED BY <2>4, <2>5 DEF i
<1>3. k \in Good
  <2>1. Nat \subseteq Good
    <3> HIDE DEF Good
    <3> QED BY <1>1, <1>2, SetInduction
  <2> QED BY <2>1
<1>4. Owed(a, k, 0) = AnswerMessages(a) /\ k - k = 0
  BY ListsAreOwed
<1> QED BY <1>3, <1>4

\* What a node with a part of the store sends
LEMMA AnswersAreSent ==
    ASSUME Shapes, NEW n \in Node
    PROVE  /\ query \in Queries
           /\ \A a \in Answers(query, db(n)) : AnswerMessages(a) \in Streams[NbOfLists(query)]
           /\ query \in Again => \A rows \in Seq(Row) : \A a \in AnswersAgain(query, db(n), rows) :
                 AnswerMessages(a) \in Streams[NbOfLists(query)]
<1> DEFINE M == {t \in all : owner[t[1]] = n}
           scope == IF query \in {"q02s2", "q08s2", "q09s2", "q11s2", "q16s2"} THEN 1 ELSE 0
           k == NbOfLists(query)
<1>1. query \in Queries
  BY NetworkAssumption DEF Shapes
<1>2. db(n) = [mine |-> M, all |-> all, maxScope |-> scope] /\ M \in SUBSET all
  BY DEF db, DbOf
<1>3. k \in Nat \ {0}
  BY <1>1, ListsOfQuery
<1>4. query \in DOMAIN Stored /\ all \in Stored[query]
  BY DEF Shapes
<1> HIDE DEF M, scope
<1>5. /\ Answers(query, db(n)) \subseteq [1..k -> Seq(Row)]
      /\ query \in Again => \A rows \in Seq(Row) : AnswersAgain(query, db(n), rows) \subseteq [1..k -> Seq(Row)]
  BY <1>2, <1>4, AnswersAreLists
<1> HIDE DEF k
<1>6. \A a \in [1..k -> Seq(Row)] : AnswerMessages(a) \in Streams[k]
  BY <1>3, AnswerIsStream
<1> QED BY <1>1, <1>5, <1>6 DEF k

-----------------------------------------------------------------------------
(* The steps of the nodes *)

\* The connection of a node, in the state
LEMMA ConnsOf ==
    ASSUME NEW n \in Node
    PROVE  /\ conns[n].state = state[n] /\ conns[n].up = up[n]
           /\ conns[n].down = down[n] /\ conns[n].sending = sending[n]
BY DEF conns

\* A step of a node while the master is there
NodeGoesOn(n) ==
    pc # "gone" /\ (ReceiveQuery(n) \/ Crash(n) \/ ReceiveList(n) \/ SendList(n) \/ DieNode(n))

\* It moves its connection, and no other.
LEMMA NodeStepMoves ==
    ASSUME Shapes, NEW n \in Node, NodeGoesOn(n)
    PROVE  /\ Moves(conns[n], conns'[n], query)
           /\ \A m \in Node \ {n} : conns'[m] = conns[m]
<1>1. /\ conns[n].state = state[n] /\ conns[n].up = up[n]
      /\ conns[n].down = down[n] /\ conns[n].sending = sending[n]
      /\ conns'[n].state = state'[n] /\ conns'[n].up = up'[n]
      /\ conns'[n].down = down'[n] /\ conns'[n].sending = sending'[n]
  BY DEF conns
<1>2. /\ state \in [Node -> NodeStates] /\ up \in [Node -> Seq(Msg)]
      /\ down \in [Node -> Seq(Msg)] /\ DOMAIN sending = Node
  BY DEF Shapes
<1> DEFINE Same(m) == state'[m] = state[m] /\ up'[m] = up[m] /\ down'[m] = down[m] /\ sending'[m] = sending[m]
<1>3. ASSUME \A m \in Node \ {n} : Same(m)
      PROVE  \A m \in Node \ {n} : conns'[m] = conns[m]
  BY <1>3 DEF conns
<1>4. CASE ReceiveQuery(n)
  <2>1. PICK a \in Answers(query, db(n)) : sending' = [sending EXCEPT ![n] = AnswerMessages(a)]
    BY <1>4 DEF ReceiveQuery, Answer
  <2>2. sending'[n] \in Streams[NbOfLists(query)]
    BY <1>2, <2>1, AnswersAreSent
  <2>3. /\ state[n] = "wait" /\ down[n] # <<>> /\ down'[n] = Tail(down[n]) /\ up'[n] = up[n]
        /\ state'[n] = IF state[n] = "wait" /\ query \in Again THEN "first" ELSE "last"
    BY <1>2, <1>4 DEF ReceiveQuery, Answer
  <2>4. Answering(conns[n], conns'[n], query)
    BY <1>1, <2>2, <2>3 DEF Answering
  <2>5. \A m \in Node \ {n} : Same(m)
    BY <1>2, <1>4, <2>1 DEF ReceiveQuery, Answer
  <2> QED BY <1>3, <2>4, <2>5 DEF Moves
<1>5. CASE Crash(n)
  <2>1. Ends(conns[n], conns'[n])
    BY <1>1, <1>2, <1>5 DEF Crash, Ends
  <2>2. \A m \in Node \ {n} : Same(m)
    BY <1>2, <1>5 DEF Crash
  <2> QED BY <1>3, <2>1, <2>2 DEF Moves
<1>6. CASE ReceiveList(n)
  <2>1. state[n] \in {"again", "rows"} /\ down[n] # <<>> /\ down'[n] = Tail(down[n]) /\ up'[n] = up[n]
    BY <1>2, <1>6 DEF ReceiveList
  <2>2. CASE state[n] = "again" /\ Head(down[n]).size > 0
    <3>1. state'[n] = "rows" /\ sending' = sending
      BY <1>2, <1>6, <2>2 DEF ReceiveList
    <3>2. ReadsSize(conns[n], conns'[n])
      BY <1>1, <2>1, <2>2, <3>1 DEF ReadsSize
    <3>3. \A m \in Node \ {n} : Same(m)
      BY <1>2, <1>6, <2>2 DEF ReceiveList
    <3> QED BY <1>3, <3>2, <3>3 DEF Moves
  <2>3. CASE ~ (state[n] = "again" /\ Head(down[n]).size > 0)
    <3> DEFINE rows == IF state[n] = "rows" THEN Head(down[n]).rows ELSE <<>>
    <3>1. Answer(n, AnswersAgain(query, db(n), rows))
      BY <1>6, <2>3 DEF ReceiveList
    <3>2. PICK a \in AnswersAgain(query, db(n), rows) : sending' = [sending EXCEPT ![n] = AnswerMessages(a)]
      BY <3>1 DEF Answer
    <3>3. /\ query \in Again
          /\ state[n] = "rows" => Head(down[n]).rows \in Seq(Row)
          => sending'[n] \in Streams[NbOfLists(query)]
      <4> SUFFICES ASSUME query \in Again, state[n] = "rows" => Head(down[n]).rows \in Seq(Row)
                   PROVE  sending'[n] \in Streams[NbOfLists(query)]
        OBVIOUS
      <4>1. rows \in Seq(Row)
        BY EmptySeq
      <4> HIDE DEF rows
      <4> QED BY <1>2, <3>2, <4>1, AnswersAreSent
    <3>4. state'[n] = "last"
      BY <1>2, <2>1, <3>1 DEF Answer
    <3>5. Answering(conns[n], conns'[n], query)
      BY <1>1, <2>1, <2>3, <3>3, <3>4 DEF Answering
    <3>6. \A m \in Node \ {n} : Same(m)
      BY <1>2, <1>6, <3>1, <3>2 DEF ReceiveList, Answer
    <3> QED BY <1>3, <3>5, <3>6 DEF Moves
  <2> QED BY <2>2, <2>3
<1>7. CASE SendList(n)
  <2>1. SendsOne(conns[n], conns'[n])
    BY <1>1, <1>2, <1>7 DEF SendList, SendsOne
  <2>2. \A m \in Node \ {n} : Same(m)
    BY <1>2, <1>7 DEF SendList
  <2> QED BY <1>3, <2>1, <2>2 DEF Moves
<1>8. CASE DieNode(n)
  <2>1. state'[n] = "gone" /\ up'[n] = up[n] /\ down'[n] = <<>> /\ sending'[n] = <<>>
    BY <1>2, <1>8 DEF DieNode
  <2>3. Ends(conns[n], conns'[n])
    BY <1>1, <2>1 DEF Ends
  <2>2. \A m \in Node \ {n} : Same(m)
    BY <1>2, <1>8 DEF DieNode
  <2> QED BY <1>3, <2>2, <2>3 DEF Moves
<1> QED BY <1>4, <1>5, <1>6, <1>7, <1>8 DEF NodeGoesOn

\* Once a query is asked every connection is in order: idle, or waiting, or owing.
LEMMA InOrder ==
    ASSUME IInv, asked > 0, pc # "gone", NEW n \in Node
    PROVE  \/ \E st \in {"wait", "again"} : IsIdle(conns[n], st)
           \/ \E rest \in Seq(Msg) : Waits(conns[n], rest, query, again)
           \/ \E T \in SUBSET Seq(Msg) : Owes(conns[n], T, query, again)
<1>1. PICK i \in 1..Len(nodes) : nodes[i] = n
  BY DEF IInv, Connected
<1>2. Told(conns[n], query, again) =>
         \/ \E rest \in Seq(Msg) : Waits(conns[n], rest, query, again)
         \/ \E T \in SUBSET Seq(Msg) : Owes(conns[n], T, query, again)
  <2>1. query \in Queries
    BY NetworkAssumption DEF IInv, Shapes
  <2>2. Streams[NbOfLists(query)] \in SUBSET Seq(Msg)
    BY <2>1, ListsOfQuery
  <2> QED BY <2>2, EmptySeq DEF Told
<1>6. i < at \/ i = at \/ i > at
  BY DEF IInv, Place
<1>3. CASE pc = "send"
  <2>1. i = at => out \in Seq(Msg) /\ Waits(conns[n], out, query, again)
    BY <1>1, <1>3 DEF IInv, Telling
  <2>2. i < at => Told(conns[n], query, again)
    BY <1>1, <1>3 DEF IInv, Telling
  <2>3. i > at => \E st \in {"wait", "again"} : IsIdle(conns[n], st)
    BY <1>1, <1>3 DEF IInv, Telling
  <2> QED BY <1>2, <1>6, <2>1, <2>2, <2>3
<1>4. CASE pc \in {"receive", "rows"}
  <2> DEFINE k == NbOfLists(query) - list
  <2>1. k \in Nat /\ NbOfLists(query) - list + 1 = k + 1
    <3>1. query \in Queries /\ list \in 1..NbOfLists(query)
      BY NetworkAssumption DEF IInv, Shapes, Place
    <3> QED BY <3>1, ListsOfQuery
  <2> HIDE DEF k
  <2>2. Streams[k + 1] \in SUBSET Seq(Msg) /\ RowsThen(Streams[k]) \in SUBSET Seq(Msg)
    BY <2>1, StreamExists
  <2>3. i = at => \/ \E rest \in Seq(Msg) : Waits(conns[n], rest, query, again)
                  \/ \E T \in SUBSET Seq(Msg) : Owes(conns[n], T, query, again)
    <3>1. i = at => \/ Waits(conns[n], <<>>, query, again)
                    \/ Owes(conns[n], Streams[k + 1], query, again)
                    \/ Owes(conns[n], RowsThen(Streams[k]), query, again)
      BY <1>1, <1>4, <2>1 DEF IInv, Reading, k
    <3> QED BY <2>2, <3>1, EmptySeq
  <2>4. i < at => \E st \in {"wait", "again"} : IsIdle(conns[n], st)
    BY <1>1, <1>4 DEF IInv, Reading, After
  <2>5. i > at => Told(conns[n], query, again)
    BY <1>1, <1>4 DEF IInv, Reading
  <2> QED BY <1>2, <1>6, <2>3, <2>4, <2>5
<1>5. CASE pc \in {"combine", "idle"}
  BY <1>1, <1>5 DEF IInv, Ended
<1>7. pc \in {"send", "receive", "rows", "combine", "idle"}
  BY DEF IInv, Shapes, Connected
<1> QED BY <1>3, <1>4, <1>5, <1>7

\* What a connection is to the master does not change when a node's step moves it.
LEMMA ConnectionKeeps ==
    ASSUME IInv, NEW n \in Node, NodeGoesOn(n), NEW m \in Node
    PROVE  /\ \A st \in {"wait", "again"} : IsIdle(conns[m], st) => IsIdle(conns'[m], st)
           /\ \A rest \in Seq(Msg) : rest # <<>> /\ Waits(conns[m], rest, query, again) =>
                 Waits(conns'[m], rest, query, again)
           /\ Told(conns[m], query, again) => Told(conns'[m], query, again)
           /\ Waits(conns[m], <<>>, query, again) => Told(conns'[m], query, again)
           /\ \A T \in SUBSET Seq(Msg) : Owes(conns[m], T, query, again) => Owes(conns'[m], T, query, again)
<1>1. Moves(conns[n], conns'[n], query) /\ \A k \in Node \ {n} : conns'[k] = conns[k]
  BY NodeStepMoves DEF IInv
<1>2. IsConn(conns[n])
  BY ConnsOf DEF IInv, Shapes, IsConn
<1>3. query \in Queries /\ again \in BOOLEAN /\ (again => query \in Again)
  BY NetworkAssumption DEF IInv, Shapes, Place
<1>4. Streams[NbOfLists(query)] \in SUBSET Seq(Msg) /\ <<>> \in Seq(Msg)
  BY <1>3, ListsOfQuery, EmptySeq
<1>5. CASE m # n
  BY <1>1, <1>5 DEF Told
<1>6. CASE m = n
  <2> DEFINE c == conns[n]
             d == conns'[n]
  <2> HIDE DEF c, d
  <2>1. Moves(c, d, query) /\ IsConn(c)
    BY <1>1, <1>2 DEF c, d
  <2>2. \A st \in {"wait", "again"} : IsIdle(c, st) => IsIdle(d, st)
    BY <2>1, IdleStays
  <2>3. \A rest \in Seq(Msg) : Waits(c, rest, query, again) =>
           \/ Waits(d, rest, query, again)
           \/ rest = <<>> /\ Owes(d, Streams[NbOfLists(query)], query, again)
    BY <1>3, <2>1, WaitsStays
  <2>4. \A T \in SUBSET Seq(Msg) : Owes(c, T, query, again) => Owes(d, T, query, again)
    BY <1>3, <2>1, OwesStays
  <2> QED BY <1>4, <1>6, <2>2, <2>3, <2>4 DEF Told, c, d
<1> QED BY <1>5, <1>6

\* A connection that is in order is no obstacle to what a node sends.
LEMMA SendingType ==
    ASSUME IInv, NEW n \in Node, SendList(n)
    PROVE  /\ sending[n] \in Seq(Msg) /\ sending[n] # <<>> /\ up' \in [Node -> Seq(Msg)]
           /\ state[n] # "gone"
<1>1. /\ conns[n].state = state[n] /\ conns[n].up = up[n]
      /\ conns[n].down = down[n] /\ conns[n].sending = sending[n]
  BY ConnsOf
<1>2. sending[n] # <<>> /\ pc # "gone"
  BY DEF SendList
<1>3. asked > 0
  BY <1>1, <1>2 DEF IInv, Connected, Quiet, Shapes
<1>4. sending[n] \in Seq(Msg) /\ state[n] # "gone"
  <2>1. sending[n] = <<>> \/ (sending[n] \in Seq(Msg) /\ state[n] # "gone")
    BY <1>1, <1>2, <1>3, InOrder DEF IsIdle, Quiet, Waits, Owes, Sends, After
  <2> QED BY <1>2, <2>1
<1>5. Head(sending[n]) \in Msg /\ up \in [Node -> Seq(Msg)]
  BY <1>2, <1>4, HeadOfConcat, EmptySeq DEF IInv, Shapes
<1>6. Append(up[n], Head(sending[n])) \in Seq(Msg)
  BY <1>5, AppendProperties
<1>7. up' = [up EXCEPT ![n] = Append(up[n], Head(sending[n]))]
  BY DEF SendList
<1> QED BY <1>2, <1>4, <1>5, <1>6, <1>7

\* What has the shape of the state keeps it in the steps of a node.
LEMMA NodeShapes ==
    ASSUME IInv, NEW n \in Node, NodeStep(n) \/ DieNode(n)
    PROVE  Shapes'
<1>1. UNCHANGED <<query, all, owner, pc, asked>>
  BY DEF NodeStep, Connect, ReceiveQuery, Crash, ReceiveList, SendList, EndOfMaster, DieNode,
         NodeUnchanged, master
<1>2. /\ state \in [Node -> NodeStates] /\ tries \in [Node -> 0..MaxTries]
      /\ up \in [Node -> Seq(Msg)] /\ down \in [Node -> Seq(Msg)] /\ DOMAIN sending = Node
      /\ \A m \in Node : Len(up[m]) <= Capacity /\ Len(down[m]) <= Capacity
      /\ reset \subseteq {m \in Node : state[m] = "gone"} /\ deaths \in 0..MaxDeaths
  BY DEF IInv, Shapes
<1>3. /\ <<>> \in Seq(Msg) /\ Len(<<>>) = 0
      /\ down[n] # <<>> => Tail(down[n]) \in Seq(Msg) /\ Len(Tail(down[n])) <= Len(down[n])
  <2>1. \A s \in Seq(Msg) : s # <<>> => Tail(s) \in Seq(Msg) /\ Len(Tail(s)) <= Len(s)
    BY HeadTailProperties, EmptySeq
  <2> QED BY <1>2, <2>1, EmptySeq
<1>4. /\ state' \in [Node -> NodeStates]
      /\ \A m \in Node : state[m] = "gone" => state'[m] = "gone"
  <2>1. CASE Connect(n)
    BY <1>2, <2>1 DEF Connect, NodeStates
  <2>2. CASE ReceiveQuery(n)
    BY <1>2, <2>2 DEF ReceiveQuery, Answer, NodeStates
  <2>3. CASE Crash(n)
    BY <1>2, <2>3 DEF Crash, NodeStates
  <2>4. CASE ReceiveList(n)
    BY <1>2, <2>4 DEF ReceiveList, Answer, NodeStates
  <2>5. CASE SendList(n)
    <3>1. state[n] # "gone"
      BY <2>5, SendingType
    <3> QED BY <1>2, <2>5, <3>1 DEF SendList, NodeStates
  <2>6. CASE EndOfMaster(n)
    BY <1>2, <2>6 DEF EndOfMaster, NodeStates
  <2>7. CASE DieNode(n)
    BY <1>2, <2>7 DEF DieNode, NodeStates
  <2> QED BY <2>1, <2>2, <2>3, <2>4, <2>5, <2>6, <2>7 DEF NodeStep
<1>5. tries' \in [Node -> 0..MaxTries]
  <2>1. CASE Connect(n)
    <3>1. tries[n] < MaxTries /\ tries[n] \in Nat /\ MaxTries \in Nat
      BY <1>2, <2>1, NetworkAssumption DEF Connect, IInv, Connected
    <3>2. tries[n] + 1 \in 0..MaxTries /\ 0 \in 0..MaxTries
      BY <3>1
    <3> QED BY <1>2, <2>1, <3>2 DEF Connect
  <2>2. CASE ~ Connect(n)
    BY <1>2, <2>2 DEF NodeStep, ReceiveQuery, Crash, ReceiveList, SendList, EndOfMaster, DieNode, NodeUnchanged
  <2> QED BY <2>1, <2>2
<1>6. up' \in [Node -> Seq(Msg)] /\ \A m \in Node : Len(up'[m]) <= Capacity
  <2>1. CASE SendList(n)
    <3>1. up[n] \in Seq(Msg) /\ Len(up[n]) < Capacity /\ Len(up[n]) \in Nat /\ Capacity \in Nat
      BY <1>2, <2>1, NetworkAssumption DEF SendList
    <3>2. Len(Append(up[n], Head(sending[n]))) = Len(up[n]) + 1
      <4>1. Head(sending[n]) \in Msg
        BY <2>1, SendingType, HeadOfConcat, EmptySeq
      <4> QED BY <3>1, <4>1, AppendProperties
    <3>3. Len(Append(up[n], Head(sending[n]))) <= Capacity
      BY <3>1, <3>2
    <3>4. \A m \in Node : up'[m] = IF m = n THEN Append(up[n], Head(sending[n])) ELSE up[m]
      BY <1>2, <2>1 DEF SendList
    <3> QED BY <1>2, <2>1, <3>3, <3>4, SendingType
  <2>2. CASE ~ SendList(n)
    BY <1>2, <2>2 DEF NodeStep, Connect, ReceiveQuery, Crash, ReceiveList, EndOfMaster, DieNode
  <2> QED BY <2>1, <2>2
<1>7. down' \in [Node -> Seq(Msg)] /\ \A m \in Node : Len(down'[m]) <= Capacity
  <2>1. \/ down' = down
        \/ down[n] # <<>> /\ down' = [down EXCEPT ![n] = Tail(down[n])]
        \/ down' = [down EXCEPT ![n] = <<>>]
    BY DEF NodeStep, Connect, ReceiveQuery, Crash, ReceiveList, SendList, EndOfMaster, DieNode
  <2>2. Capacity \in Nat /\ Len(down[n]) \in Nat /\ Len(down[n]) <= Capacity
    BY <1>2, NetworkAssumption
  <2>3. CASE down' = down
    BY <1>2, <2>3
  <2>4. CASE down[n] # <<>> /\ down' = [down EXCEPT ![n] = Tail(down[n])]
    <3>1. Tail(down[n]) \in Seq(Msg) /\ Len(Tail(down[n])) \in Nat
      BY <1>3, <2>4
    <3>2. Len(Tail(down[n])) <= Capacity
      BY <1>3, <2>2, <2>4, <3>1
    <3> QED BY <1>2, <2>4, <3>1, <3>2
  <2>5. CASE down' = [down EXCEPT ![n] = <<>>]
    <3>1. Len(<<>>) <= Capacity
      BY <1>3, <2>2
    <3> QED BY <1>2, <1>3, <2>5, <3>1
  <2> QED BY <2>1, <2>3, <2>4, <2>5
<1>8. DOMAIN sending' = Node
  BY <1>2 DEF NodeStep, Connect, ReceiveQuery, Crash, ReceiveList, SendList, EndOfMaster, DieNode, Answer
<1>9. reset' \subseteq {m \in Node : state'[m] = "gone"}
  <2>1. reset' \subseteq reset \cup {n} /\ (n \in reset' => n \in reset \/ state'[n] = "gone")
    BY <1>2 DEF NodeStep, Connect, ReceiveQuery, Crash, ReceiveList, SendList, EndOfMaster, DieNode
  <2> QED BY <1>2, <1>4, <2>1
<1>10. deaths' \in 0..MaxDeaths
  <2>1. deaths' = deaths \/ (deaths < MaxDeaths /\ deaths' = deaths + 1)
    BY DEF NodeStep, Connect, ReceiveQuery, Crash, ReceiveList, SendList, EndOfMaster, DieNode
  <2> QED BY <1>2, <2>1, NetworkAssumption
<1> QED BY <1>1, <1>4, <1>5, <1>6, <1>7, <1>8, <1>9, <1>10 DEF IInv, Shapes

\* A step of a node while the master is there keeps to what the master knows of it.
LEMMA NodeInOrder ==
    ASSUME IInv, NEW n \in Node, NodeGoesOn(n), asked > 0,
           UNCHANGED <<query, pc, nodes, at, list, again, out>>
    PROVE  Telling' /\ Reading' /\ Ended'
<1>1. \A i \in 1..Len(nodes) : nodes[i] \in Node
  BY DEF IInv, Connected
<1>2. After(query, again) \in {"wait", "again"} /\ (IF again THEN "again" ELSE "wait") \in {"wait", "again"}
  BY DEF After
<1> USE DEF IInv
<1>3. Telling'
  <2> SUFFICES ASSUME pc = "send"
               PROVE  /\ out \in Seq(Msg)
                      /\ \A i \in 1..Len(nodes) :
                            /\ i < at => Told(conns'[nodes[i]], query, again)
                            /\ i = at => Waits(conns'[nodes[i]], out, query, again)
                            /\ i > at => IsIdle(conns'[nodes[i]], IF again THEN "again" ELSE "wait")
    BY DEF Telling
  <2>1. out \in Seq(Msg) /\ out # <<>>
    BY DEF Telling, Place
  <2> SUFFICES ASSUME NEW i \in 1..Len(nodes)
               PROVE  /\ i < at => Told(conns'[nodes[i]], query, again)
                      /\ i = at => Waits(conns'[nodes[i]], out, query, again)
                      /\ i > at => IsIdle(conns'[nodes[i]], IF again THEN "again" ELSE "wait")
    BY <2>1
  <2>2. /\ i < at => Told(conns[nodes[i]], query, again)
        /\ i = at => Waits(conns[nodes[i]], out, query, again)
        /\ i > at => IsIdle(conns[nodes[i]], IF again THEN "again" ELSE "wait")
    BY DEF Telling
  <2> QED BY <1>1, <1>2, <2>1, <2>2, ConnectionKeeps
<1>4. Reading'
  <2> SUFFICES ASSUME pc \in {"receive", "rows"}, NEW i \in 1..Len(nodes)
               PROVE  /\ i < at => IsIdle(conns'[nodes[i]], After(query, again))
                      /\ i = at =>
                            \/ pc = "receive" /\ list = 1 /\ Waits(conns'[nodes[i]], <<>>, query, again)
                            \/ /\ pc = "receive"
                               /\ Owes(conns'[nodes[i]], Streams[NbOfLists(query) - list + 1], query, again)
                            \/ /\ pc = "rows"
                               /\ Owes(conns'[nodes[i]], RowsThen(Streams[NbOfLists(query) - list]), query, again)
                      /\ i > at => Told(conns'[nodes[i]], query, again)
    BY DEF Reading
  <2> DEFINE k == NbOfLists(query) - list
  <2>1. k \in Nat /\ NbOfLists(query) - list + 1 = k + 1 /\ (list = 1 => NbOfLists(query) = k + 1)
    <3>1. query \in Queries /\ list \in 1..NbOfLists(query)
      BY NetworkAssumption DEF Shapes, Place
    <3> QED BY <3>1, ListsOfQuery
  <2>2. /\ i < at => IsIdle(conns[nodes[i]], After(query, again))
        /\ i = at =>
              \/ pc = "receive" /\ list = 1 /\ Waits(conns[nodes[i]], <<>>, query, again)
              \/ pc = "receive" /\ Owes(conns[nodes[i]], Streams[k + 1], query, again)
              \/ pc = "rows" /\ Owes(conns[nodes[i]], RowsThen(Streams[k]), query, again)
        /\ i > at => Told(conns[nodes[i]], query, again)
    BY <2>1 DEF Reading
  <2> HIDE DEF k
  <2>3. Streams[k + 1] \in SUBSET Seq(Msg) /\ RowsThen(Streams[k]) \in SUBSET Seq(Msg)
    BY <2>1, StreamExists
  <2>4. /\ i < at => IsIdle(conns'[nodes[i]], After(query, again))
        /\ i = at =>
              \/ pc = "receive" /\ list = 1 /\ Waits(conns'[nodes[i]], <<>>, query, again)
              \/ pc = "receive" /\ Owes(conns'[nodes[i]], Streams[k + 1], query, again)
              \/ pc = "rows" /\ Owes(conns'[nodes[i]], RowsThen(Streams[k]), query, again)
        /\ i > at => Told(conns'[nodes[i]], query, again)
    BY <1>1, <1>2, <2>1, <2>2, <2>3, ConnectionKeeps DEF Told
  <2> QED BY <2>1, <2>4 DEF k
<1>5. Ended'
  <2> SUFFICES ASSUME pc \in {"combine", "idle"}, NEW i \in 1..Len(nodes)
               PROVE  IsIdle(conns'[nodes[i]], "wait")
    BY DEF Ended
  <2> QED BY <1>1, ConnectionKeeps DEF Ended
<1> QED BY <1>3, <1>4, <1>5

\* The steps of a node keep the invariant.
LEMMA NodeInvariant ==
    ASSUME IInv, NEW n \in Node, NodeStep(n) \/ DieNode(n)
    PROVE  IInv'
<1>1. Shapes'
  BY NodeShapes
<1>2. /\ UNCHANGED <<query, all, pc, at, list, size, again, out, lists, asked>>
      /\ ~ Connect(n) => UNCHANGED <<nodes, tries>>
  BY DEF NodeStep, Connect, ReceiveQuery, Crash, ReceiveList, SendList, EndOfMaster, DieNode,
         NodeUnchanged, master
<1>3. Place'
  BY <1>2 DEF IInv, Place
<1>4. \A m \in Node : m # n => state'[m] = state[m]
  BY DEF IInv, Shapes, NodeStep, Connect, ReceiveQuery, Crash, ReceiveList, SendList, EndOfMaster,
         DieNode, Answer
<1>5. CASE Connect(n)
  <2>1. state[n] = "connect" /\ pc \in {"start", "accept"} /\ asked = 0
    <3>1. state[n] = "connect"
      BY <1>5 DEF Connect
    <3>2. asked = 0
      <4>1. \A i \in 1..Len(nodes) : nodes[i] # n
        BY <3>1 DEF IInv, Connected
      <4>2. ~ (asked > 0)
        BY <4>1 DEF IInv, Connected
      <4> QED BY <4>2 DEF IInv, Shapes
    <3> QED BY <3>1, <3>2 DEF IInv, Connected
  <2>2. Telling' /\ Reading' /\ Ended'
    BY <1>2, <2>1 DEF Telling, Reading, Ended
  <2>3. \A m \in Node : conns'[m].up = conns[m].up /\ conns'[m].down = conns[m].down
                        /\ conns'[m].sending = conns[m].sending
    BY <1>5 DEF Connect, conns
  <2>4. state'[n] \in {"connect", "wait", "gone"}
    BY <1>5, <2>1 DEF Connect, IInv, Shapes
  <2>5. asked' = 0 => \A m \in Node : state'[m] \in {"connect", "wait", "gone"} /\ Quiet(conns'[m])
    BY <1>4, <2>1, <2>3, <2>4 DEF IInv, Connected, Quiet
  <2>6. Connected'
    <3>1. CASE pc = "start"
      <4>1. nodes' = nodes /\ (state'[n] = "connect" => tries[n] + 1 # MaxTries)
            /\ tries' = [tries EXCEPT ![n] = tries[n] + 1]
        BY <1>5, <2>1, <3>1 DEF Connect, IInv, Shapes
      <4>2. tries[n] < MaxTries /\ tries[n] \in Nat /\ MaxTries \in Nat
        BY <2>1, NetworkAssumption DEF IInv, Connected, Shapes
      <4>3. state'[n] = "connect" => tries'[n] < MaxTries
        BY <4>1, <4>2 DEF IInv, Shapes
      <4>4. \A m \in Node : m # n => tries'[m] = tries[m]
        BY <4>1 DEF IInv, Shapes
      <4> QED BY <1>2, <1>4, <2>1, <2>5, <4>1, <4>3, <4>4 DEF IInv, Connected
    <3>2. CASE pc = "accept"
      <4>1. nodes' = Append(nodes, n) /\ state'[n] = "wait" /\ tries' = [tries EXCEPT ![n] = 0]
        BY <1>5, <2>1, <3>2 DEF Connect, IInv, Shapes
      <4>2. nodes \in Seq(Node) /\ Len(nodes) \in Nat /\ \A i \in 1..Len(nodes) : nodes[i] # n
        BY <2>1 DEF IInv, Connected
      <4>3. /\ nodes' \in Seq(Node) /\ Len(nodes') = Len(nodes) + 1
            /\ \A i \in 1..Len(nodes) : nodes'[i] = nodes[i]
            /\ nodes'[Len(nodes) + 1] = n
        BY <4>1, <4>2, AppendProperties
      <4>4. \A i, j \in 1..Len(nodes') : nodes'[i] = nodes'[j] => i = j
        BY <4>2, <4>3 DEF IInv, Connected
      <4>5. \A m \in Node : state'[m] = "connect" =>
               tries'[m] < MaxTries /\ \A i \in 1..Len(nodes') : nodes'[i] # m
        <5> SUFFICES ASSUME NEW m \in Node, state'[m] = "connect"
                     PROVE  tries'[m] < MaxTries /\ \A i \in 1..Len(nodes') : nodes'[i] # m
          OBVIOUS
        <5>1. m # n /\ state[m] = "connect" /\ tries'[m] = tries[m]
          BY <1>4, <4>1 DEF IInv, Shapes
        <5>2. tries[m] < MaxTries /\ \A i \in 1..Len(nodes) : nodes[i] # m
          BY <5>1 DEF IInv, Connected
        <5> QED BY <4>2, <4>3, <5>1, <5>2
      <4> QED BY <1>2, <2>1, <2>5, <4>3, <4>4, <4>5 DEF IInv, Connected
    <3> QED BY <2>1, <3>1, <3>2
  <2> QED BY <1>1, <1>3, <2>2, <2>6 DEF IInv
<1>6. CASE ~ Connect(n)
  <2>1. state'[n] = "connect" => state[n] = "connect"
    BY <1>6 DEF IInv, Shapes, NodeStep, ReceiveQuery, Crash, ReceiveList, SendList, EndOfMaster,
                DieNode, Answer
  <2>2. asked > 0
    <3> SUFFICES ASSUME asked = 0 PROVE FALSE
      BY DEF IInv, Shapes
    <3>1. pc \in {"start", "accept"} /\ down[n] = <<>> /\ sending[n] = <<>>
      BY ConnsOf DEF IInv, Connected, Quiet
    <3> QED BY <1>6, <3>1 DEF NodeStep, ReceiveQuery, Crash, ReceiveList, SendList, EndOfMaster, DieNode
  <2>3. Connected'
    BY <1>2, <1>4, <1>6, <2>1, <2>2 DEF IInv, Connected
  <2>4. CASE pc = "gone"
    <3>1. Telling' /\ Reading' /\ Ended'
      BY <1>2, <2>4 DEF Telling, Reading, Ended
    <3> QED BY <1>1, <1>3, <2>3, <3>1 DEF IInv
  <2>5. CASE pc # "gone"
    <3>1. NodeGoesOn(n)
      BY <1>6, <2>5 DEF NodeGoesOn, NodeStep, EndOfMaster
    <3>2. Telling' /\ Reading' /\ Ended'
      BY <1>2, <1>6, <2>2, <3>1, NodeInOrder
    <3> QED BY <1>1, <1>3, <2>3, <3>2 DEF IInv
  <2> QED BY <2>4, <2>5
<1> QED BY <1>5, <1>6

-----------------------------------------------------------------------------
(* The steps of the master *)

\* There are as many of a sequence that has each of its elements once as it is long.
LEMMA EachOnce ==
    ASSUME NEW s \in Seq(Node), \A i, j \in 1..Len(s) : s[i] = s[j] => i = j
    PROVE  /\ Len(s) = Cardinality(AsSet(s)) /\ AsSet(s) \subseteq Node /\ Len(s) <= Cardinality(Node)
           /\ Len(s) = Cardinality(Node) <=> AsSet(s) = Node
           /\ AsSet(s) = {s[i] : i \in 1..Len(s)}
<1>1. Len(s) \in Nat /\ s \in [1..Len(s) -> Node] /\ AsSet(s) = {s[i] : i \in 1..Len(s)}
  BY DEF AsSet, Seqs!ToSet
<1>2. s \in Bijection(1..Len(s), AsSet(s))
  BY <1>1 DEF Bijection, Injection, Surjection, IsInjective
<1>3. ExistsBijection(1..Len(s), AsSet(s))
  BY <1>2 DEF ExistsBijection
<1>4. Len(s) = Cardinality(AsSet(s))
  BY <1>1, <1>3, FS_CountingElements
<1>5. AsSet(s) \in SUBSET Node /\ IsFiniteSet(Node)
  BY <1>1, NetworkAssumption
<1>6. /\ Cardinality(AsSet(s)) <= Cardinality(Node)
      /\ Cardinality(Node) = Cardinality(AsSet(s)) => Node = AsSet(s)
  BY <1>5, FS_Subset
<1> QED BY <1>1, <1>4, <1>5, <1>6

\* The node that the master is at
LEMMA NodeAt ==
    ASSUME IInv, asked > 0
    PROVE  /\ Len(nodes) = Cardinality(Node) /\ Len(nodes) \in Nat \ {0}
           /\ at \in 1..Len(nodes) /\ nodes[at] \in Node
           /\ \A i \in 1..Len(nodes) : nodes[i] \in Node /\ (i # at => nodes[i] # nodes[at])
<1>1. /\ nodes \in Seq(Node) /\ \A i, j \in 1..Len(nodes) : nodes[i] = nodes[j] => i = j
      /\ \A n \in Node : \E i \in 1..Len(nodes) : nodes[i] = n
      /\ at \in 1..Cardinality(Node)
  BY DEF IInv, Connected, Place
<1>2. AsSet(nodes) = {nodes[i] : i \in 1..Len(nodes)}
  BY <1>1 DEF AsSet, Seqs!ToSet
<1>3. AsSet(nodes) = Node
  BY <1>1, <1>2
<1>4. Len(nodes) = Cardinality(Node)
  BY <1>1, <1>3, EachOnce
<1> QED BY <1>1, <1>4

\* What is told to a node: the query, or in the second round a list.
LEMMA ToldFromHereOn ==
    ASSUME IInv, asked > 0, NEW c, NEW msgs, NEW twice \in BOOLEAN,
           IF twice THEN msgs \in Streams[1] ELSE msgs = <<[query |-> query]>>,
           IsIdle(c, IF twice THEN "again" ELSE "wait")
    PROVE  msgs \in Seq(Msg) /\ msgs # <<>> /\ Waits(c, msgs, query, twice)
<1>1. msgs \in Seq(Msg) /\ msgs # <<>>
  <2>1. CASE twice
    <3>1. Streams[0 + 1] = ListThen(Streams[0]) /\ Streams[0] \in SUBSET Seq(Msg)
      BY StreamsFollow
    <3>2. msgs \in ListThen(Streams[0])
      BY <2>1, <3>1
    <3> QED BY <3>1, <3>2, NextOfList, ListThenType
  <2>2. CASE ~ twice
    <3>1. [query |-> query] \in Msg
      BY NetworkAssumption DEF IInv, Shapes, Msg
    <3> DEFINE m == [query |-> query]
    <3>2. msgs = <<m>> /\ m \in Msg
      BY <2>2, <3>1
    <3> HIDE DEF m
    <3> QED BY <3>2
  <2> QED BY <2>1, <2>2
<1>2. <<>> \o msgs = msgs
  BY <1>1, HeadOfConcat
<1> QED BY <1>1, <1>2 DEF IsIdle, Quiet, Waits

\* A list that has been received is one: its messages are a stream.
LEMMA ListIsSent ==
    ASSUME NEW r \in Seq(Row)
    PROVE  Messages(r) \in Streams[1]
<1>1. Streams[0 + 1] = ListThen(Streams[0]) /\ Streams[0] \in SUBSET Seq(Msg) /\ <<>> \in Streams[0]
  BY StreamsFollow
<1>2. Messages(r) \o <<>> \in ListThen(Streams[0]) /\ Messages(r) \in Seq(Msg)
  BY <1>1, MessagesThen
<1>3. Messages(r) \o <<>> = Messages(r)
  BY <1>2, HeadOfConcat, EmptySeq
<1> QED BY <1>1, <1>2, <1>3

\* The master goes on to send or to receive: what it was at has been sent to.
LEMMA SentKeeps ==
    ASSUME IInv, pc = "send", Sent, asked' = asked,
           UNCHANGED <<query, nodes, again>>,
           Waits(conns'[nodes[at]], Tail(out), query, again),
           \A m \in Node \ {nodes[at]} : conns'[m] = conns[m]
    PROVE  Place' /\ Telling' /\ Reading' /\ Ended'
<1>1. asked > 0
  BY DEF IInv, Connected, Shapes
<1>2. /\ Len(nodes) = Cardinality(Node) /\ Len(nodes) \in Nat \ {0} /\ at \in 1..Len(nodes)
      /\ \A i \in 1..Len(nodes) : nodes[i] \in Node
      /\ \A i \in 1..Len(nodes) : i # at => conns'[nodes[i]] = conns[nodes[i]]
  BY <1>1, NodeAt
<1>3. out \in Seq(Msg) /\ out # <<>> /\ Tail(out) \in Seq(Msg) /\ Len(out) \in Nat
      /\ (Len(out) > 1 <=> Tail(out) # <<>>)
  <2>1. out \in Seq(Msg) /\ out # <<>>
    BY DEF IInv, Telling, Place
  <2>2. Len(out) \in Nat /\ Len(out) # 0 /\ Tail(out) \in Seq(Msg) /\ Len(Tail(out)) = Len(out) - 1
    BY <2>1, HeadTailProperties, EmptySeq
  <2>3. Tail(out) # <<>> <=> Len(Tail(out)) # 0
    BY <2>2, EmptySeq
  <2> QED BY <2>1, <2>2, <2>3
<1>4. \A i \in 1..Len(nodes) :
         /\ i < at => Told(conns'[nodes[i]], query, again)
         /\ i > at => IsIdle(conns'[nodes[i]], IF again THEN "again" ELSE "wait")
  BY <1>2 DEF IInv, Telling
<1>5. CASE Len(out) > 1
  <2>1. out' = Tail(out) /\ UNCHANGED <<at, pc, list, size, lists>>
    BY <1>5 DEF Sent
  <2>2. Place'
    BY <1>3, <1>5, <2>1 DEF IInv, Place
  <2>3. Telling'
    BY <1>3, <1>4, <2>1 DEF Telling
  <2> QED BY <2>1, <2>2, <2>3 DEF Reading, Ended
<1>6. CASE ~ (Len(out) > 1)
  <2>1. Told(conns'[nodes[at]], query, again)
    BY <1>3, <1>6 DEF Told
  <2>2. CASE at < Len(nodes)
    <3>1. /\ at' = at + 1 /\ UNCHANGED <<pc, list, size, lists>>
          /\ out' = IF again THEN Messages(lists[1]) ELSE <<[query |-> query]>>
      BY <1>6, <2>2 DEF Sent
    <3>2. at + 1 \in 1..Len(nodes) /\ at + 1 > at /\ again \in BOOLEAN
      BY <1>2, <2>2 DEF IInv, Place
    <3>3. IsIdle(conns'[nodes[at + 1]], IF again THEN "again" ELSE "wait")
      BY <1>4, <3>2
    <3>4. again => out' \in Streams[1]
      BY <1>1, <3>1, ListIsSent DEF IInv, Place
    <3>5. IF again THEN out' \in Streams[1] ELSE out' = <<[query |-> query]>>
      BY <3>1, <3>4
    <3>6. out' \in Seq(Msg) /\ out' # <<>> /\ Waits(conns'[nodes[at + 1]], out', query, again)
      BY <1>1, <3>2, <3>3, <3>5, ToldFromHereOn
    <3>7. Place'
      BY <1>2, <3>1, <3>2, <3>6 DEF IInv, Place
    <3>8. \A i \in 1..Len(nodes) :
             /\ i < at + 1 => Told(conns'[nodes[i]], query, again)
             /\ i > at + 1 => IsIdle(conns'[nodes[i]], IF again THEN "again" ELSE "wait")
      <4>1. \A i \in 1..Len(nodes) : (i < at + 1 => i < at \/ i = at) /\ (i > at + 1 => i > at)
        BY <1>2
      <4> QED BY <1>4, <2>1, <4>1
    <3>9. Telling'
      BY <3>1, <3>6, <3>8 DEF Telling
    <3> QED BY <3>1, <3>7, <3>9 DEF Reading, Ended
  <2>3. CASE ~ (at < Len(nodes))
    <3>1. /\ at' = 1 /\ list' = 1 /\ size' = 0 /\ out' = <<>> /\ pc' = "receive"
          /\ lists' = [i \in 1..4 |-> <<>>]
      BY <1>6, <2>3 DEF Sent
    <3>2. \A i \in 1..Len(nodes) : Told(conns'[nodes[i]], query, again)
      <4>1. \A i \in 1..Len(nodes) : i < at \/ i = at
        BY <1>2, <2>3
      <4> QED BY <1>4, <2>1, <4>1
    <3>3. /\ NbOfLists(query) \in Nat \ {0} /\ 1 \in 1..NbOfLists(query)
          /\ NbOfLists(query) - 1 + 1 = NbOfLists(query)
      BY NetworkAssumption, ListsOfQuery DEF IInv, Shapes
    <3>4. Place'
      <4>1. lists' \in [1..4 -> Seq(Row)]
        BY <3>1, EmptySeq
      <4> QED BY <1>2, <3>1, <3>3, <4>1 DEF IInv, Place
    <3>5. Reading'
      <4> SUFFICES ASSUME NEW i \in 1..Len(nodes)
                   PROVE  /\ ~ (i < 1)
                          /\ i = 1 => \/ Waits(conns'[nodes[i]], <<>>, query, again)
                                      \/ Owes(conns'[nodes[i]], Streams[NbOfLists(query) - 1 + 1], query, again)
                          /\ i > 1 => Told(conns'[nodes[i]], query, again)
        BY <3>1 DEF Reading
      <4> QED BY <3>2, <3>3 DEF Told
    <3> QED BY <3>1, <3>4, <3>5 DEF Telling, Ended
  <2> QED BY <2>2, <2>3
<1> QED BY <1>5, <1>6

\* A list has been received: what the master was at owes only the lists that follow.
LEMMA ReceivedKeeps ==
    ASSUME IInv, pc \in {"receive", "rows"}, NEW rows \in Seq(Row), Received(rows), asked' = asked,
           UNCHANGED <<query, nodes>>, NEW k \in Nat, k = NbOfLists(query) - list,
           Owes(conns'[nodes[at]], Streams[k], query, again), IsConn(conns'[nodes[at]]),
           \A m \in Node \ {nodes[at]} : conns'[m] = conns[m]
    PROVE  Place' /\ Telling' /\ Reading' /\ Ended'
<1>1. asked > 0
  BY DEF IInv, Connected, Shapes
<1>2. /\ Len(nodes) = Cardinality(Node) /\ Len(nodes) \in Nat \ {0} /\ at \in 1..Len(nodes)
      /\ \A i \in 1..Len(nodes) : nodes[i] \in Node
      /\ \A i \in 1..Len(nodes) : i # at => conns'[nodes[i]] = conns[nodes[i]]
  BY <1>1, NodeAt
<1>3. /\ NbOfLists(query) \in 1..4 /\ list \in 1..NbOfLists(query) /\ again \in BOOLEAN
      /\ (query \in Again => NbOfLists(query) = 1) /\ (again => query \in Again)
  BY NetworkAssumption, ListsOfQuery DEF IInv, Shapes, Place
<1>4. \A i \in 1..Len(nodes) :
         /\ i < at => IsIdle(conns'[nodes[i]], After(query, again))
         /\ i > at => Told(conns'[nodes[i]], query, again)
  BY <1>2 DEF IInv, Reading
<1>5. lists' \in [1..4 -> Seq(Row)]
  <2>1. lists \in [1..4 -> Seq(Row)] /\ list \in 1..4
    BY <1>1, <1>3 DEF IInv, Place
  <2>2. lists[list] \o rows \in Seq(Row)
    BY <2>1, ConcatProperties
  <2>3. lists' = [lists EXCEPT ![list] = lists[list] \o rows]
    BY DEF Received
  <2> QED BY <2>1, <2>2, <2>3
<1>6. Len(rows) \in Nat /\ out = <<>>
  BY DEF IInv, Place
<1>7. CASE list < NbOfLists(query)
  <2>1. list' = list + 1 /\ size' = Len(rows) /\ pc' = "receive" /\ UNCHANGED <<at, again, out>>
    BY <1>7 DEF Received
  <2>2. /\ list + 1 \in 1..NbOfLists(query) /\ NbOfLists(query) - (list + 1) + 1 = k
    BY <1>3, <1>7
  <2>3. Place'
    BY <1>2, <1>5, <1>6, <2>1, <2>2 DEF IInv, Place
  <2>4. Reading'
    <3> SUFFICES ASSUME NEW i \in 1..Len(nodes)
                 PROVE  /\ i < at => IsIdle(conns'[nodes[i]], After(query, again))
                        /\ i = at => Owes(conns'[nodes[i]], Streams[NbOfLists(query) - (list + 1) + 1], query, again)
                        /\ i > at => Told(conns'[nodes[i]], query, again)
      BY <2>1 DEF Reading
    <3> QED BY <1>4, <2>2
  <2> QED BY <2>1, <2>3, <2>4 DEF Telling, Ended
<1>8. CASE ~ (list < NbOfLists(query))
  <2>1. IsIdle(conns'[nodes[at]], After(query, again))
    <3>1. k = 0
      BY <1>3, <1>8
    <3> QED BY <3>1, AllIsRead
  <2>2. list' = 1 /\ size' = 0 /\ 1 \in 1..NbOfLists(query)
    BY <1>3, <1>8 DEF Received
  <2>3. CASE at < Len(nodes)
    <3>1. at' = at + 1 /\ pc' = "receive" /\ UNCHANGED <<again, out>>
      BY <1>8, <2>3 DEF Received
    <3>2. at + 1 \in 1..Len(nodes) /\ NbOfLists(query) - 1 + 1 = NbOfLists(query)
      BY <1>2, <1>3, <2>3
    <3>3. Place'
      BY <1>2, <1>5, <1>6, <2>2, <3>1, <3>2 DEF IInv, Place
    <3>4. Reading'
      <4> SUFFICES ASSUME NEW i \in 1..Len(nodes)
                   PROVE  /\ i < at + 1 => IsIdle(conns'[nodes[i]], After(query, again))
                          /\ i = at + 1 =>
                                \/ Waits(conns'[nodes[i]], <<>>, query, again)
                                \/ Owes(conns'[nodes[i]], Streams[NbOfLists(query) - 1 + 1], query, again)
                          /\ i > at + 1 => Told(conns'[nodes[i]], query, again)
        BY <2>2, <3>1 DEF Reading
      <4>1. (i < at + 1 => i < at \/ i = at) /\ (i = at + 1 => i > at) /\ (i > at + 1 => i > at)
        BY <1>2
      <4> QED BY <1>4, <2>1, <3>2, <4>1 DEF Told
    <3> QED BY <3>1, <3>3, <3>4 DEF Telling, Ended
  <2>4. ASSUME ~ (at < Len(nodes))
        PROVE  \A i \in 1..Len(nodes) : IsIdle(conns'[nodes[i]], After(query, again))
    <3>1. \A i \in 1..Len(nodes) : i < at \/ i = at
      BY <1>2, <2>4
    <3> QED BY <1>4, <2>1, <3>1
  <2>5. CASE ~ (at < Len(nodes)) /\ query \in Again /\ ~again
    <3>1. at' = 1 /\ out' = Messages(lists'[1]) /\ again' = TRUE /\ pc' = "send"
      BY <1>8, <2>5 DEF Received, Tell
    <3>2. out' \in Streams[1]
      BY <1>5, <3>1, ListIsSent
    <3>3. \A i \in 1..Len(nodes) : IsIdle(conns'[nodes[i]], "again")
      BY <2>4, <2>5 DEF After
    <3>4. out' \in Seq(Msg) /\ out' # <<>> /\ Waits(conns'[nodes[1]], out', query, TRUE)
      <4>1. 1 \in 1..Len(nodes)
        BY <1>2
      <4>2. /\ IF TRUE THEN out' \in Streams[1] ELSE out' = <<[query |-> query]>>
            /\ IsIdle(conns'[nodes[1]], IF TRUE THEN "again" ELSE "wait")
        BY <3>2, <3>3, <4>1
      <4> QED BY <1>1, <4>2, ToldFromHereOn
    <3>5. Place'
      BY <1>2, <1>5, <2>2, <2>5, <3>1, <3>4 DEF IInv, Place
    <3>6. Telling'
      <4> SUFFICES ASSUME NEW i \in 1..Len(nodes)
                   PROVE  /\ ~ (i < 1)
                          /\ i = 1 => Waits(conns'[nodes[i]], out', query, TRUE)
                          /\ i > 1 => IsIdle(conns'[nodes[i]], "again")
        BY <3>1, <3>4 DEF Telling
      <4>1. ~ (i < 1)
        OBVIOUS
      <4>2. i = 1 => Waits(conns'[nodes[i]], out', query, TRUE)
        BY <3>4, Zenon
      <4> QED BY <3>3, <4>1, <4>2, Zenon
    <3> QED BY <3>1, <3>5, <3>6 DEF Reading, Ended
  <2>6. CASE ~ (at < Len(nodes)) /\ ~ (query \in Again /\ ~again)
    <3>1. pc' = "combine" /\ UNCHANGED <<at, again, out>>
      BY <1>8, <2>6 DEF Received
    <3>2. \A i \in 1..Len(nodes) : IsIdle(conns'[nodes[i]], "wait")
      BY <2>4, <2>6 DEF After
    <3>3. Place'
      BY <1>2, <1>3, <1>5, <1>6, <2>2, <2>6, <3>1 DEF IInv, Place
    <3> QED BY <3>1, <3>2, <3>3 DEF Telling, Reading, Ended
  <2> QED BY <2>3, <2>5, <2>6
<1> QED BY <1>7, <1>8

\* Of who is gone, and has nothing to be read, anything may be owed.
LEMMA SilentOwes ==
    ASSUME IInv, pc \in {"receive", "rows"}, Silent, NEW T \in SUBSET Seq(Msg), T # {}
    PROVE  Owes(conns[nodes[at]], T, query, again)
<1>1. asked > 0
  BY DEF IInv, Connected, Shapes
<1> DEFINE n == nodes[at]
<1>2. n \in Node /\ at \in 1..Len(nodes)
  BY <1>1, NodeAt
<1> HIDE DEF n
<1>3. conns[n].state = "gone" /\ conns[n].up = <<>>
  BY <1>2, ConnsOf DEF Silent, n
<1>4. \/ Waits(conns[n], <<>>, query, again)
      \/ \E U : Owes(conns[n], U, query, again)
  BY <1>2 DEF IInv, Reading, n
<1>5. conns[n].down = <<>> /\ conns[n].sending = <<>>
  BY <1>3, <1>4 DEF Waits, Owes, Sends, After
<1>6. Owes(conns[n], T, query, again)
  BY <1>3, <1>5, GoneOwes
<1> QED BY <1>6 DEF n

\* What is to be read of the one that the master is at
LEMMA NowReading ==
    ASSUME IInv, pc \in {"receive", "rows"}
    PROVE  /\ NbOfLists(query) - list \in Nat
           /\ up[nodes[at]] # <<>> => Owes(conns[nodes[at]],
                 IF pc = "receive" THEN ListThen(Streams[NbOfLists(query) - list])
                 ELSE RowsThen(Streams[NbOfLists(query) - list]), query, again)
<1>1. asked > 0
  BY DEF IInv, Connected, Shapes
<1> DEFINE n == nodes[at]
           k == NbOfLists(query) - list
<1>2. n \in Node /\ at \in 1..Len(nodes)
  BY <1>1, NodeAt
<1>3. k \in Nat /\ NbOfLists(query) - list + 1 = k + 1
  BY NetworkAssumption, ListsOfQuery DEF IInv, Shapes, Place
<1>4. Streams[k + 1] = ListThen(Streams[k])
  BY <1>3, StreamsFollow
<1>5. conns[n].up = up[n]
  BY <1>2, ConnsOf
<1>6. \/ Waits(conns[n], <<>>, query, again)
      \/ pc = "receive" /\ Owes(conns[n], Streams[k + 1], query, again)
      \/ pc = "rows" /\ Owes(conns[n], RowsThen(Streams[k]), query, again)
  BY <1>2, <1>3 DEF IInv, Reading
<1> HIDE DEF n, k
<1>7. up[n] # <<>> => Owes(conns[n], IF pc = "receive" THEN ListThen(Streams[k]) ELSE RowsThen(Streams[k]),
                           query, again)
  BY <1>4, <1>5, <1>6 DEF Waits
<1> QED BY <1>3, <1>7 DEF n, k

\* What has the shape of the state keeps it in the steps of the master.
LEMMA MasterShapes ==
    ASSUME IInv, MasterStep \/ DieMaster
    PROVE  Shapes'
<1>1. UNCHANGED <<query, all, owner, state, tries, sending>> /\ reset' \subseteq reset
  BY DEF MasterStep, Listen, Ask, Send, SendNowhere, BrokenPipe, ReceiveSize, ReceiveRows, ReceiveError,
         EndOfNode, Finish, Stop, DieMaster, MasterGone
<1>2. pc' \in {"start", "accept", "idle", "send", "receive", "rows", "combine", "gone"}
  BY DEF IInv, Shapes, MasterStep, Listen, Ask, Send, SendNowhere, BrokenPipe, ReceiveSize, ReceiveRows,
         ReceiveError, EndOfNode, Finish, Stop, DieMaster, MasterGone, Received, Sent
<1>3. asked' \in 0..MaxAsked
  <2>1. \/ asked' = asked
        \/ asked' = asked + 1 /\ (pc = "accept" \/ asked < MaxAsked)
    BY DEF MasterStep, Listen, Ask, Send, SendNowhere, BrokenPipe, ReceiveSize, ReceiveRows, ReceiveError,
           EndOfNode, Finish, Stop, DieMaster, MasterGone
  <2>2. asked \in 0..MaxAsked /\ MaxAsked \in Nat \ {0} /\ (pc = "accept" => asked = 0)
    BY NetworkAssumption DEF IInv, Shapes, Connected
  <2> QED BY <2>1, <2>2
<1>4. deaths' \in 0..MaxDeaths
  <2>1. deaths' = deaths \/ (deaths < MaxDeaths /\ deaths' = deaths + 1)
    BY DEF MasterStep, Listen, Ask, Send, SendNowhere, BrokenPipe, ReceiveSize, ReceiveRows, ReceiveError,
           EndOfNode, Finish, Stop, DieMaster, MasterGone
  <2> QED BY <2>1, NetworkAssumption DEF IInv, Shapes
<1>5. up' \in [Node -> Seq(Msg)] /\ \A n \in Node : Len(up'[n]) <= Capacity
  <2>1. up \in [Node -> Seq(Msg)] /\ \A n \in Node : Len(up[n]) <= Capacity
    BY DEF IInv, Shapes
  <2>2. CASE up' = up
    BY <2>1, <2>2
  <2>3. CASE ReceiveSize \/ ReceiveRows
    <3> DEFINE n == nodes[at]
    <3>1. up[n] # <<>> /\ up' = [up EXCEPT ![n] = Tail(up[n])]
      BY <2>3 DEF ReceiveSize, ReceiveRows
    <3>2. n \in Node
      BY <2>3, NodeAt DEF ReceiveSize, ReceiveRows, IInv, Connected, Shapes
    <3>3. up[n] \in Seq(Msg) /\ Len(up[n]) <= Capacity /\ Len(up[n]) \in Nat
      BY <2>1, <3>2
    <3>4. Tail(up[n]) \in Seq(Msg) /\ Len(Tail(up[n])) = Len(up[n]) - 1 /\ Capacity \in Nat
      BY <3>1, <3>3, HeadTailProperties, NetworkAssumption
    <3>5. Len(Tail(up[n])) <= Capacity
      BY <3>3, <3>4
    <3> HIDE DEF n
    <3> QED BY <2>1, <3>1, <3>2, <3>4, <3>5
  <2> QED BY <2>2, <2>3 DEF MasterStep, Listen, Ask, Send, SendNowhere, BrokenPipe, ReceiveError, EndOfNode,
                            Finish, Stop, DieMaster, MasterGone
<1>6. down' \in [Node -> Seq(Msg)] /\ \A n \in Node : Len(down'[n]) <= Capacity
  <2>1. down \in [Node -> Seq(Msg)] /\ \A n \in Node : Len(down[n]) <= Capacity
    BY DEF IInv, Shapes
  <2>2. CASE down' = down
    BY <2>1, <2>2
  <2>3. CASE Send
    <3> DEFINE n == nodes[at]
               m == Head(out)
    <3>1. Len(down[n]) < Capacity /\ down' = [down EXCEPT ![n] = Append(down[n], m)]
      BY <2>3 DEF Send
    <3>2. n \in Node
      <4>1. asked > 0
        BY <2>3 DEF Send, IInv, Connected, Shapes
      <4> QED BY <4>1, NodeAt
    <3>3. m \in Msg
      BY <2>3, HeadTailProperties DEF Send, IInv, Telling, Place
    <3> HIDE DEF m
    <3>4. Append(down[n], m) \in Seq(Msg) /\ Len(Append(down[n], m)) = Len(down[n]) + 1
      BY <2>1, <3>2, <3>3, AppendProperties
    <3>5. Len(Append(down[n], m)) <= Capacity
      BY <2>1, <3>1, <3>2, <3>4, NetworkAssumption
    <3> HIDE DEF n
    <3> QED BY <2>1, <3>1, <3>2, <3>4, <3>5
  <2> QED BY <2>2, <2>3 DEF MasterStep, Listen, Ask, SendNowhere, BrokenPipe, ReceiveSize, ReceiveRows,
                            ReceiveError, EndOfNode, Finish, Stop, DieMaster, MasterGone
<1> QED BY <1>1, <1>2, <1>3, <1>4, <1>5, <1>6 DEF IInv, Shapes

\* So do the connections.
LEMMA MasterConnected ==
    ASSUME IInv, MasterStep \/ DieMaster
    PROVE  Connected'
<1>1. UNCHANGED <<nodes, state, tries, sending>>
  BY DEF MasterStep, Listen, Ask, Send, SendNowhere, BrokenPipe, ReceiveSize, ReceiveRows, ReceiveError,
         EndOfNode, Finish, Stop, DieMaster, MasterGone
<1>2. CASE Listen
  <2>1. asked = 0 /\ asked' = 0 /\ pc' = "accept" /\ conns' = conns
    BY <1>2 DEF Listen, IInv, Connected, conns
  <2> QED BY <1>1, <2>1 DEF IInv, Connected
<1>3. CASE Ask
  <2>1. asked' > 0 /\ pc' = "send" /\ asked' # 0
    BY <1>3, NetworkAssumption DEF Ask, IInv, Shapes
  <2>2. \A n \in Node : \E i \in 1..Len(nodes) : nodes[i] = n
    <3>1. CASE asked > 0
      BY <3>1 DEF IInv, Connected
    <3>2. CASE ~ (asked > 0)
      <4>1. pc = "accept" /\ Len(nodes) = Cardinality(Node)
        BY <1>3, <3>2 DEF Ask, IInv, Connected, Shapes
      <4>2. AsSet(nodes) = Node /\ AsSet(nodes) = {nodes[i] : i \in 1..Len(nodes)}
        <5>1. nodes \in Seq(Node) /\ \A i, j \in 1..Len(nodes) : nodes[i] = nodes[j] => i = j
          BY DEF IInv, Connected
        <5> QED BY <4>1, <5>1, EachOnce
      <4> QED BY <4>2
    <3> QED BY <3>1, <3>2
  <2> QED BY <1>1, <2>1, <2>2 DEF IInv, Connected
<1>4. CASE ~ Listen /\ ~ Ask
  <2>1. pc \notin {"start", "accept"} /\ asked' = asked
    BY <1>4 DEF IInv, Connected, Shapes, MasterStep, Send, SendNowhere, BrokenPipe, ReceiveSize, ReceiveRows,
                ReceiveError, EndOfNode, Finish, Stop, DieMaster, MasterGone
  <2>2. asked > 0
    BY <2>1 DEF IInv, Connected, Shapes
  <2>3. pc' \notin {"start", "accept"}
    <3>1. CASE Send \/ SendNowhere
      BY <3>1 DEF Send, SendNowhere, Sent
    <3>2. CASE ReceiveSize \/ ReceiveRows \/ ReceiveError
      BY <3>2 DEF ReceiveSize, ReceiveRows, ReceiveError, Received
    <3>3. CASE BrokenPipe \/ EndOfNode \/ Finish \/ Stop \/ DieMaster
      BY <3>3 DEF BrokenPipe, EndOfNode, Finish, Stop, DieMaster, MasterGone
    <3> QED BY <1>4, <3>1, <3>2, <3>3 DEF MasterStep
  <2> QED BY <1>1, <2>1, <2>2, <2>3 DEF IInv, Connected
<1> QED BY <1>2, <1>3, <1>4

\* A query begins.
LEMMA AskKeeps ==
    ASSUME IInv, Ask
    PROVE  Place' /\ Telling' /\ Reading' /\ Ended'
<1>1. /\ pc' = "send" /\ again' = FALSE /\ at' = 1 /\ out' = <<[query |-> query]>>
      /\ UNCHANGED <<query, nodes, list, size>> /\ conns' = conns
      /\ lists' = [i \in 1..4 |-> <<>>]
  BY DEF Ask, Tell, conns
<1>2. \A i \in 1..Len(nodes) : IsIdle(conns[nodes[i]], "wait")
  <2>1. CASE pc = "idle"
    BY <2>1 DEF IInv, Ended
  <2>2. CASE pc = "accept"
    <3> SUFFICES ASSUME NEW i \in 1..Len(nodes) PROVE IsIdle(conns[nodes[i]], "wait")
      OBVIOUS
    <3>1. nodes[i] \in Node
      BY DEF IInv, Connected
    <3>2. state[nodes[i]] # "connect" /\ asked = 0
      BY <2>2, <3>1 DEF IInv, Connected
    <3>3. state[nodes[i]] \in {"wait", "gone"} /\ Quiet(conns[nodes[i]])
      BY <3>1, <3>2 DEF IInv, Connected
    <3> QED BY <3>1, <3>3, ConnsOf DEF IsIdle
  <2> QED BY <2>1, <2>2 DEF Ask
<1>3. lists' \in [1..4 -> Seq(Row)]
  BY <1>1, EmptySeq
<1>4. out' \in Seq(Msg) /\ out' # <<>> /\ 1 \in 1..Cardinality(Node)
  <2>1. [query |-> query] \in Msg
    BY NetworkAssumption DEF IInv, Shapes, Msg
  <2> DEFINE m == [query |-> query]
  <2>2. m \in Msg /\ out' = <<m>>
    BY <1>1, <2>1
  <2> HIDE DEF m
  <2>3. at \in 1..Cardinality(Node) /\ Cardinality(Node) \in Nat
    BY NetworkAssumption, FS_CardinalityType DEF IInv, Place
  <2> QED BY <2>2, <2>3
<1>5. Place'
  BY <1>1, <1>3, <1>4 DEF IInv, Place
<1>6. Telling'
  <2> SUFFICES ASSUME NEW i \in 1..Len(nodes)
               PROVE  /\ ~ (i < 1)
                      /\ i = 1 => Waits(conns[nodes[i]], out', query, FALSE)
                      /\ i > 1 => IsIdle(conns[nodes[i]], "wait")
    BY <1>1, <1>4 DEF Telling
  <2>1. ~ (i < 1)
    OBVIOUS
  <2>2. <<>> \o out' = out'
    BY <1>4, HeadOfConcat
  <2>3. Waits(conns[nodes[i]], out', query, FALSE)
    BY <1>1, <1>2, <2>2 DEF IsIdle, Quiet, Waits
  <2> QED BY <1>2, <2>1, <2>3
<1> QED BY <1>1, <1>5, <1>6 DEF Reading, Ended

\* A message is sent, or goes nowhere: the rest of them is to be read.
LEMMA SendMoves ==
    ASSUME IInv, Send \/ SendNowhere
    PROVE  /\ pc = "send" /\ Sent /\ asked > 0 /\ UNCHANGED <<query, all, owner, nodes, again, asked>>
           /\ Waits(conns'[nodes[at]], Tail(out), query, again)
           /\ \A m \in Node \ {nodes[at]} : conns'[m] = conns[m]
           /\ conns[nodes[at]].state # "gone" =>
                 conns'[nodes[at]].down \o Tail(out) = conns[nodes[at]].down \o out
           /\ conns'[nodes[at]].state = conns[nodes[at]].state
<1>1. /\ pc = "send" /\ Sent /\ UNCHANGED <<query, all, owner, nodes, again, asked, state, up, sending>>
      /\ asked > 0
  BY DEF Send, SendNowhere, IInv, Connected, Shapes
<1> DEFINE n == nodes[at]
           c == conns[n]
           d == conns'[n]
<1>2. n \in Node /\ at \in 1..Len(nodes)
  BY <1>1, NodeAt
<1>3. /\ c.state = state[n] /\ c.up = up[n] /\ c.down = down[n] /\ c.sending = sending[n]
      /\ d.state = state[n] /\ d.up = up[n] /\ d.down = down'[n] /\ d.sending = sending[n]
  BY <1>1, <1>2 DEF conns
<1>4. Waits(c, out, query, again) /\ out \in Seq(Msg) /\ out # <<>> /\ IsConn(c)
  BY <1>1, <1>2, <1>3 DEF IInv, Telling, Place, Shapes, IsConn
<1>5. /\ Waits(d, Tail(out), query, again) /\ \A m \in Node \ {n} : conns'[m] = conns[m]
      /\ c.state # "gone" => d.down \o Tail(out) = c.down \o out
  <2>1. CASE Send
    <3>1. state[n] # "gone" /\ down' = [down EXCEPT ![n] = Append(down[n], Head(out))] /\ down \in [Node -> Seq(Msg)]
      BY <2>1 DEF Send, IInv, Shapes
    <3>2. \A m \in Node \ {n} : conns'[m] = conns[m]
      BY <1>1, <3>1 DEF conns
    <3>3. down'[n] = Append(down[n], Head(out)) /\ down[n] \in Seq(Msg)
      BY <1>2, <3>1
    <3>4. d.down \o Tail(out) = c.down \o out
      <4> DEFINE u == down[n]
      <4>1. u \in Seq(Msg) /\ c.down = u /\ d.down = Append(u, Head(out))
        BY <1>3, <3>3
      <4> HIDE DEF u, c, d
      <4>2. Append(u, Head(out)) \o Tail(out) = u \o out
        BY <1>4, <4>1, HeadOfConcat
      <4> QED BY <4>1, <4>2
    <3> HIDE DEF c, d, n
    <3>5. Waits(d, Tail(out), query, again)
      BY <1>3, <1>4, <3>1, <3>3, WaitsForLess
    <3> QED BY <3>2, <3>4, <3>5
  <2>2. CASE SendNowhere
    <3>1. state[n] = "gone" /\ conns' = conns
      BY <1>1, <2>2 DEF SendNowhere, conns
    <3>2. Waits(c, Tail(out), query, again)
      BY <1>3, <1>4, <3>1 DEF Waits
    <3> QED BY <1>3, <3>1, <3>2
  <2> QED BY <2>1, <2>2
<1> QED BY <1>1, <1>3, <1>5

\* The invariant is kept.
LEMMA SendKeeps ==
    ASSUME IInv, Send \/ SendNowhere
    PROVE  Place' /\ Telling' /\ Reading' /\ Ended'
BY SendMoves, SentKeeps

\* A message is read.
LEMMA ReceiveKeeps ==
    ASSUME IInv, ReceiveSize \/ ReceiveRows \/ ReceiveError
    PROVE  Place' /\ Telling' /\ Reading' /\ Ended'
<1>1. pc \in {"receive", "rows"} /\ UNCHANGED <<query, nodes, asked, state, down, sending>> /\ asked > 0
  BY DEF ReceiveSize, ReceiveRows, ReceiveError, IInv, Connected, Shapes
<1>2. PICK k \in Nat : k = NbOfLists(query) - list
  BY <1>1, NowReading
<1> DEFINE n == nodes[at]
           c == conns[n]
           d == conns'[n]
<1>3. n \in Node /\ at \in 1..Len(nodes)
  BY <1>1, NodeAt
<1>4. /\ c.state = state[n] /\ c.up = up[n] /\ c.down = down[n] /\ c.sending = sending[n]
      /\ d.state = state[n] /\ d.up = up'[n] /\ d.down = down[n] /\ d.sending = sending[n]
  BY <1>1, <1>3 DEF conns
<1>5. IsConn(c) /\ up \in [Node -> Seq(Msg)]
  BY <1>3, <1>4 DEF IInv, Shapes, IsConn
<1>6. Streams[k] \in SUBSET Seq(Msg) /\ RowsThen(Streams[k]) \in SUBSET Seq(Msg)
      /\ Streams[k] # {} /\ RowsThen(Streams[k]) # {}
  BY StreamExists
<1>7. ASSUME pc' = "rows", UNCHANGED <<at, list, again, out, lists>>, size' \in Nat,
             \A m \in Node \ {n} : conns'[m] = conns[m],
             Owes(d, RowsThen(Streams[k]), query, again)
      PROVE  Place' /\ Telling' /\ Reading' /\ Ended'
  <2>1. Place'
    BY <1>1, <1>7 DEF IInv, Place
  <2>2. \A i \in 1..Len(nodes) : nodes[i] \in Node /\ (i # at => nodes[i] # n)
    BY <1>1, NodeAt
  <2>3. Reading'
    <3> SUFFICES ASSUME NEW i \in 1..Len(nodes)
                 PROVE  /\ i < at => IsIdle(conns'[nodes[i]], After(query, again))
                        /\ i = at => Owes(conns'[nodes[i]], RowsThen(Streams[NbOfLists(query) - list]), query, again)
                        /\ i > at => Told(conns'[nodes[i]], query, again)
      BY <1>1, <1>7 DEF Reading
    <3>1. i # at => conns'[nodes[i]] = conns[nodes[i]]
      BY <1>7, <2>2
    <3>2. /\ i < at => IsIdle(conns[nodes[i]], After(query, again)) /\ i # at
          /\ i > at => Told(conns[nodes[i]], query, again) /\ i # at
      BY <1>1, <1>3 DEF IInv, Reading
    <3> QED BY <1>2, <1>7, <3>1, <3>2
  <2> QED BY <1>7, <2>1, <2>3 DEF Telling, Ended
<1>8. ASSUME NEW rows \in Seq(Row), Received(rows),
             \A m \in Node \ {n} : conns'[m] = conns[m], IsConn(d), Owes(d, Streams[k], query, again)
      PROVE  Place' /\ Telling' /\ Reading' /\ Ended'
  BY <1>1, <1>2, <1>8, ReceivedKeeps
<1>9. CASE ReceiveSize \/ ReceiveRows
  <2>1. up[n] # <<>> /\ up' = [up EXCEPT ![n] = Tail(up[n])]
    BY <1>9 DEF ReceiveSize, ReceiveRows
  <2>2. up'[n] = Tail(up[n]) /\ \A m \in Node : m # n => up'[m] = up[m]
    BY <1>3, <1>5, <2>1
  <2>3. \A m \in Node \ {n} : conns'[m] = conns[m]
    BY <1>1, <2>2 DEF conns
  <2>4. Owes(c, IF pc = "receive" THEN ListThen(Streams[k]) ELSE RowsThen(Streams[k]), query, again)
    BY <1>1, <1>2, <2>1, NowReading
  <2>5. CASE ReceiveSize
    <3>1. pc = "receive" /\ Owes(c, ListThen(Streams[k]), query, again)
      BY <2>4, <2>5 DEF ReceiveSize
    <3> DEFINE s == Head(up[n]).size
    <3>2. /\ IsConn(d) /\ s \in Nat
          /\ s = 0 => Owes(d, Streams[k], query, again)
          /\ s > 0 => Owes(d, RowsThen(Streams[k]), query, again)
      <4> HIDE DEF c, d
      <4>1. /\ IsConn(d) /\ Head(c.up).size \in Nat
            /\ Head(c.up).size = 0 => Owes(d, Streams[k], query, again)
            /\ Head(c.up).size > 0 => Owes(d, RowsThen(Streams[k]), query, again)
        BY <1>4, <1>5, <1>6, <2>1, <2>2, <3>1, SizeIsRead
      <4> QED BY <1>4, <4>1
    <3>3. CASE s = 0
      <4>1. Received(<<>>) /\ <<>> \in Seq(Row)
        BY <2>5, <3>3, EmptySeq DEF ReceiveSize
      <4> QED BY <1>8, <2>3, <3>2, <3>3, <4>1
    <3>4. CASE s # 0
      <4>1. pc' = "rows" /\ size' = s /\ UNCHANGED <<at, list, again, out, lists>>
        BY <2>5, <3>4 DEF ReceiveSize
      <4>2. \A j \in Nat : j # 0 => j > 0
        OBVIOUS
      <4>3. Owes(d, RowsThen(Streams[k]), query, again)
        BY <3>2, <3>4, <4>2, Zenon
      <4> QED BY <1>7, <2>3, <3>2, <4>1, <4>3
    <3> QED BY <3>3, <3>4
  <2>6. CASE ReceiveRows
    <3>1. pc = "rows" /\ Owes(c, RowsThen(Streams[k]), query, again)
      BY <2>4, <2>6 DEF ReceiveRows
    <3> DEFINE rows == Head(up[n]).rows
    <3>2. IsConn(d) /\ rows \in Seq(Row) /\ Owes(d, Streams[k], query, again)
      <4> HIDE DEF c, d
      <4>1. IsConn(d) /\ Head(c.up).rows \in Seq(Row) /\ Owes(d, Streams[k], query, again)
        BY <1>4, <1>5, <1>6, <2>1, <2>2, <3>1, RowsAreRead
      <4> QED BY <1>4, <4>1
    <3>3. Received(rows)
      BY <2>6 DEF ReceiveRows
    <3> QED BY <1>8, <2>3, <3>2, <3>3
  <2> QED BY <1>9, <2>5, <2>6
<1>10. CASE ReceiveError
  <2>1. Silent /\ conns' = conns
    BY <1>1, <1>10 DEF ReceiveError, conns
  <2>2. Owes(d, Streams[k], query, again) /\ Owes(d, RowsThen(Streams[k]), query, again)
    BY <1>1, <1>6, <2>1, SilentOwes
  <2>3. size \in Nat
    BY DEF IInv, Place
  <2>4. CASE pc = "receive" /\ size > 0
    <3>1. pc' = "rows" /\ UNCHANGED <<at, list, size, again, out, lists>>
      BY <1>10, <2>4 DEF ReceiveError
    <3> QED BY <1>7, <2>1, <2>2, <2>3, <3>1
  <2>5. CASE ~ (pc = "receive" /\ size > 0)
    <3>1. Received(Unread(size))
      BY <1>10, <2>5 DEF ReceiveError
    <3>2. Unread(size) \in Seq(Row)
      <4>1. Zero \in Row
        BY DEF Zero, Row
      <4> QED BY <2>3, <4>1 DEF Unread
    <3> QED BY <1>5, <1>8, <2>1, <2>2, <3>1, <3>2
  <2> QED BY <2>4, <2>5
<1> QED BY <1>9, <1>10

\* The steps of the master keep the invariant.
LEMMA MasterInvariant ==
    ASSUME IInv, MasterStep \/ DieMaster
    PROVE  IInv'
<1>1. Shapes' /\ Connected'
  BY MasterShapes, MasterConnected
<1>2. CASE Listen
  <2>1. /\ pc = "start" /\ pc' = "accept" /\ asked = 0
        /\ UNCHANGED <<query, at, list, size, again, out, lists, asked>>
    BY <1>2 DEF Listen, IInv, Connected
  <2>2. Place' /\ Telling' /\ Reading' /\ Ended'
    BY <2>1 DEF IInv, Place, Telling, Reading, Ended
  <2> QED BY <1>1, <2>2 DEF IInv
<1>3. CASE Ask
  BY <1>1, <1>3, AskKeeps DEF IInv
<1>4. CASE Send \/ SendNowhere
  BY <1>1, <1>4, SendKeeps DEF IInv
<1>5. CASE ReceiveSize \/ ReceiveRows \/ ReceiveError
  BY <1>1, <1>5, ReceiveKeeps DEF IInv
<1>6. CASE MasterGone
  <2>1. pc' = "gone" /\ out' = <<>> /\ UNCHANGED <<query, at, list, size, again, lists, asked>>
    BY <1>6 DEF MasterGone
  <2>2. Place' /\ Telling' /\ Reading' /\ Ended'
    BY <2>1 DEF IInv, Place, Telling, Reading, Ended
  <2> QED BY <1>1, <2>2 DEF IInv
<1>7. CASE Finish
  <2>1. /\ pc = "combine" /\ pc' = "idle" /\ conns' = conns
        /\ UNCHANGED <<query, nodes, at, list, size, again, out, lists, asked>>
    BY <1>7 DEF Finish, conns
  <2>2. Place' /\ Telling' /\ Reading' /\ Ended'
    BY <2>1 DEF IInv, Place, Telling, Reading, Ended
  <2> QED BY <1>1, <2>2 DEF IInv
<1> QED BY <1>2, <1>3, <1>4, <1>5, <1>6, <1>7 DEF MasterStep, DieMaster, BrokenPipe, EndOfNode, Stop

-----------------------------------------------------------------------------
(* What holds of every run *)

\* It holds at first.
LEMMA NetInitInvariant ==
    ASSUME NetInit
    PROVE  IInv
<1>1. Capacity \in Nat \ {0} /\ MaxAsked \in Nat /\ MaxTries \in Nat \ {0} /\ MaxDeaths \in Nat
  BY NetworkAssumption
<1>2. query \in Queries /\ 1 \in 1..NbOfLists(query)
  BY NetworkAssumption, ListsOfQuery DEF NetInit
<1>3. 1 \in 1..Cardinality(Node)
  <2>1. Cardinality(Node) \in Nat /\ Cardinality(Node) # 0
    BY NetworkAssumption, FS_CardinalityType, FS_EmptySet
  <2> QED BY <2>1
<1>4. <<>> \in Seq(Msg) /\ <<>> \in Seq(Node) /\ Len(<<>>) = 0
  BY EmptySeq
<1>5. Shapes
  <2>1. /\ asked \in 0..MaxAsked /\ deaths \in 0..MaxDeaths /\ tries \in [Node -> 0..MaxTries]
        /\ \A n \in Node : Len(up[n]) <= Capacity /\ Len(down[n]) <= Capacity
    BY <1>1, <1>4 DEF NetInit
  <2> QED BY <1>4, <2>1 DEF NetInit, Shapes, NodeStates
<1>6. Connected
  <2>1. \A n \in Node : Quiet(conns[n])
    BY ConnsOf DEF NetInit, Quiet
  <2> QED BY <1>1, <1>4, <2>1 DEF NetInit, Connected
<1>7. Place
  <2>1. at = 1 /\ list = 1 /\ size = 0 /\ again = FALSE /\ out = <<>> /\ pc = "start" /\ asked = 0
    BY DEF NetInit
  <2>2. at \in 1..Cardinality(Node) /\ list \in 1..NbOfLists(query)
    BY <1>2, <1>3, <2>1
  <2>3. again \in BOOLEAN /\ ~ again
    BY <2>1
  <2>4. size \in Nat /\ ~ (asked > 0)
    BY <2>1
  <2> QED BY <2>1, <2>2, <2>3, <2>4, Zenon DEF Place
<1>8. Telling /\ Reading /\ Ended
  BY DEF NetInit, Telling, Reading, Ended
<1> QED BY <1>5, <1>6, <1>7, <1>8 DEF IInv

\* A step that changes nothing keeps the invariant.
LEMMA StutterInvariant ==
    ASSUME IInv, UNCHANGED vars
    PROVE  IInv'
<1>1. /\ UNCHANGED <<query, all, owner, pc, nodes, at, list, size, again, out, lists, asked>>
      /\ UNCHANGED <<reset, state, sending, tries, up, down, deaths>>
  BY DEF vars, master
<1>2. conns' = conns
  BY <1>1 DEF conns
<1>3. Shapes' /\ Place'
  BY <1>1 DEF IInv, Shapes, Place
<1>4. Connected'
  BY <1>1, <1>2 DEF IInv, Connected
<1>5. Telling' /\ Reading' /\ Ended'
  BY <1>1, <1>2 DEF IInv, Telling, Reading, Ended
<1> QED BY <1>3, <1>4, <1>5 DEF IInv

\* The connections carry what their ends expect, always: every message that is read is
\* of the kind that is read for, and of the round that is under way (Server::Receive,
\* Client::Receive and the queries' _m and _n).
THEOREM NetInvariant == NetSpec => []IInv
<1>1. IInv /\ [NetNext]_vars => IInv'
  <2> SUFFICES ASSUME IInv, [NetNext]_vars PROVE IInv'
    OBVIOUS
  <2>1. CASE MasterStep \/ DieMaster
    BY <2>1, MasterInvariant
  <2>2. ASSUME NEW n \in Node, NodeStep(n) \/ DieNode(n) PROVE IInv'
    BY <2>2, NodeInvariant
  <2>3. CASE UNCHANGED vars
    BY <2>3, StutterInvariant
  <2> QED BY <2>1, <2>2, <2>3 DEF NetNext, Terminated
<1> QED BY <1>1, NetInitInvariant, PTL DEF NetSpec

\* The values the master and the nodes go through; a connection never holds more than
\* it can, and no node is in the master's list twice (Server::nodes).
THEOREM NetTypeCorrect == NetSpec => []NetTypeOK
<1>1. IInv => NetTypeOK
  <2> SUFFICES ASSUME IInv PROVE NetTypeOK
    OBVIOUS
  <2>1. query \in Queries
    BY NetworkAssumption DEF IInv, Shapes
  <2>2. Len(nodes) = Cardinality(AsSet(nodes))
    <3>1. nodes \in Seq(Node) /\ \A i, j \in 1..Len(nodes) : nodes[i] = nodes[j] => i = j
      BY DEF IInv, Connected
    <3> QED BY <3>1, EachOnce
  <2>3. \A n \in Node :
           /\ state[n] \in {"connect", "wait", "first", "again", "rows", "last", "gone"}
           /\ tries[n] \in 0..MaxTries
           /\ Len(up[n]) <= Capacity /\ Len(down[n]) <= Capacity
    BY DEF IInv, Shapes, NodeStates
  <2> QED BY <2>1, <2>2, <2>3 DEF IInv, Shapes, Place, NetTypeOK
<1> QED BY <1>1, NetInvariant, PTL

\* A query that has ended leaves nothing on the connections for the next one to read,
\* and no node that would still send: whoever has died (q.._m and q.._n take and send
\* the same number of lists).
THEOREM QueriesLeaveNothing == NetSpec => []NothingLeft
<1>1. IInv => NothingLeft
  <2> SUFFICES ASSUME IInv, Finished, NEW n \in Node
               PROVE  up[n] = <<>> /\ down[n] = <<>> /\ sending[n] = <<>>
    BY DEF NothingLeft
  <2>1. PICK i \in 1..Len(nodes) : nodes[i] = n
    BY DEF IInv, Connected, Finished
  <2>2. IsIdle(conns[n], "wait")
    BY <2>1 DEF IInv, Ended, Finished
  <2> QED BY <2>2, ConnsOf DEF IsIdle, Quiet
<1> QED BY <1>1, NetInvariant, PTL

-----------------------------------------------------------------------------
(* What is gathered *)

\* The lists there may be after one more node, from those in S before it
OneMore(S, A, lossy) == {Adding(L, a, Len(a)) : L \in S, a \in A} \cup (IF lossy THEN S ELSE {})

\* How the lists after one more node follow from those before it
LEMMA GatheredFollow ==
    ASSUME NEW answers, NEW order, Len(order) \in Nat, NEW lossy
    PROVE  /\ Gathered(answers, order, lossy)[0] = {NoLists}
           /\ \A i \in 1..Len(order) :
                 Gathered(answers, order, lossy)[i] =
                    OneMore(Gathered(answers, order, lossy)[i - 1], answers[order[i]], lossy)
<1> DEFINE n == Len(order)
           Next(i, S) == OneMore(S, answers[order[i]], lossy)
           Gathers(f, j) == f = [i \in 0..j |-> IF i = 0 THEN {NoLists} ELSE Next(i, f[i - 1])]
           Good == {j \in Nat : \E f : Gathers(f, j)}
<1>1. Gathered(answers, order, lossy) = CHOOSE f : Gathers(f, n)
  BY DEF Gathered, OneMore
<1> HIDE DEF Next
<1>2. 0 \in Good
  <2>1. Gathers([i \in 0..0 |-> {NoLists}], 0)
    OBVIOUS
  <2> QED BY <2>1
<1>3. ASSUME NEW j \in Nat, j \in Good PROVE j + 1 \in Good
  <2>1. PICK f : Gathers(f, j)
    BY <1>3
  <2> DEFINE g == [i \in 0..(j + 1) |-> IF i = j + 1 THEN Next(i, f[i - 1]) ELSE f[i]]
  <2>2. ASSUME NEW i \in 0..(j + 1)
        PROVE  g[i] = IF i = 0 THEN {NoLists} ELSE Next(i, g[i - 1])
    <3>1. i # 0 => i - 1 \in 0..(j + 1) /\ i - 1 # j + 1 /\ g[i - 1] = f[i - 1]
      OBVIOUS
    <3>2. CASE i = j + 1
      <4>1. g[i] = Next(i, f[i - 1]) /\ i # 0
        BY <3>2
      <4> HIDE DEF g
      <4> QED BY <3>1, <4>1
    <3>3. CASE i # j + 1
      <4>1. i \in 0..j /\ g[i] = f[i]
        BY <3>3
      <4>2. f[i] = IF i = 0 THEN {NoLists} ELSE Next(i, f[i - 1])
        BY <2>1, <4>1
      <4> HIDE DEF g
      <4> QED BY <3>1, <4>1, <4>2
    <3> QED BY <3>2, <3>3
  <2>3. Gathers(g, j + 1)
    <3>1. g = [i \in 0..(j + 1) |-> g[i]]
      OBVIOUS
    <3> HIDE DEF g
    <3> QED BY <2>2, <3>1
  <2> HIDE DEF g, Gathers
  <2> QED BY <2>3
<1>4. \E f : Gathers(f, n)
  <2>1. Nat \subseteq Good
    <3> HIDE DEF Good
    <3> QED BY <1>2, <1>3, SetInduction
  <2> QED BY <2>1
<1> DEFINE g == CHOOSE f : Gathers(f, n)
<1>5. Gathers(g, n)
  BY <1>4
<1> HIDE DEF g
<1>6. g[0] = {NoLists} /\ \A i \in 1..n : g[i] = Next(i, g[i - 1])
  <2>1. \A i \in 0..n : g[i] = IF i = 0 THEN {NoLists} ELSE Next(i, g[i - 1])
    BY <1>5
  <2>2. n \in Nat
    OBVIOUS
  <2> HIDE DEF n
  <2>3. 0 \in 0..n /\ \A i \in 1..n : i \in 0..n /\ i # 0
    BY <2>2
  <2> QED BY <2>1, <2>3
<1>7. Gathered(answers, order, lossy) = g
  BY <1>1 DEF g
<1> HIDE DEF Gathers
<1> QED BY <1>6, <1>7 DEF Next

-----------------------------------------------------------------------------
(* Which messages are on a connection *)

\* What node n may answer in a round, to the rows of all nodes in the second
MayAnswer(n, rows) == IF again THEN AnswersAgain(query, db(n), rows) ELSE Answers(query, db(n))

\* What it still reads are these rows, in the second round.
Expects(c, rest, rows, twice) ==
    twice => /\ c.state = "again" => c.down \o rest = Messages(rows)
             /\ c.state = "rows" => c.down \o rest = <<ThoseOf(rows)>>

\* It has answered with one of these, or is to.
Answered(c, A, q, twice) == \E a \in A : Owes(c, {AnswerMessages(a)}, q, twice)

ToldThis(c, A, rows, q, twice) ==
    \/ Waits(c, <<>>, q, twice) /\ Expects(c, <<>>, rows, twice)
    \/ Answered(c, A, q, twice)

\* The answers have as many lists as the query.
LEMMA AnswersOfNode ==
    ASSUME Shapes, NEW n \in Node, NEW rows \in Seq(Row), again => query \in Again
    PROVE  /\ query \in Queries
           /\ MayAnswer(n, rows) \subseteq [1..NbOfLists(query) -> Seq(Row)]
           /\ \A a \in MayAnswer(n, rows) : AnswerMessages(a) \in Seq(Msg) /\ AnswerMessages(a) # <<>>
<1> DEFINE M == {t \in all : owner[t[1]] = n}
           scope == IF query \in {"q02s2", "q08s2", "q09s2", "q11s2", "q16s2"} THEN 1 ELSE 0
<1>1. query \in Queries /\ query \in DOMAIN Stored /\ all \in Stored[query]
  BY NetworkAssumption DEF Shapes
<1>2. db(n) = [mine |-> M, all |-> all, maxScope |-> scope] /\ M \in SUBSET all
  BY DEF db, DbOf
<1> HIDE DEF M, scope
<1>3. /\ Answers(query, db(n)) \subseteq [1..NbOfLists(query) -> Seq(Row)]
      /\ query \in Again => \A r \in Seq(Row) : AnswersAgain(query, db(n), r) \subseteq [1..NbOfLists(query) -> Seq(Row)]
  BY <1>1, <1>2, AnswersAreLists
<1>4. MayAnswer(n, rows) \subseteq [1..NbOfLists(query) -> Seq(Row)]
  BY <1>3 DEF MayAnswer
<1>5. ASSUME NEW a \in MayAnswer(n, rows) PROVE AnswerMessages(a) \in Seq(Msg) /\ AnswerMessages(a) # <<>>
  <2>1. AnswerMessages(a) \in Streams[NbOfLists(query)]
    <3> DEFINE k == NbOfLists(query)
    <3>1. k \in Nat \ {0} /\ a \in [1..k -> Seq(Row)]
      BY <1>1, <1>4, ListsOfQuery
    <3> HIDE DEF k
    <3>2. AnswerMessages(a) \in Streams[k]
      BY <3>1, AnswerIsStream
    <3> QED BY <3>2 DEF k
  <2> QED BY <1>1, <2>1, ListsAreSent
<1> QED BY <1>1, <1>4, <1>5

\* Whose query is asked, or whose rows are read, answers to that.
LEMMA NodeAnswers ==
    ASSUME Shapes, NEW n \in Node, NodeGoesOn(n), state'[n] \in {"first", "last"},
           state[n] \in {"wait", "again", "rows"}
    PROVE  /\ down[n] # <<>> /\ up'[n] = up[n] /\ down'[n] = Tail(down[n])
           /\ state'[n] = IF state[n] = "wait" /\ query \in Again THEN "first" ELSE "last"
           /\ state[n] = "again" => ~ (Head(down[n]).size > 0)
           /\ \E a \in IF state[n] = "wait" THEN Answers(query, db(n))
                       ELSE AnswersAgain(query, db(n), IF state[n] = "rows" THEN Head(down[n]).rows ELSE <<>>) :
                 sending'[n] = AnswerMessages(a)
<1>1. /\ state \in [Node -> NodeStates] /\ up \in [Node -> Seq(Msg)]
      /\ down \in [Node -> Seq(Msg)] /\ DOMAIN sending = Node
  BY DEF Shapes
<1>2. ASSUME Crash(n) \/ DieNode(n) PROVE FALSE
  BY <1>1, <1>2 DEF Crash, DieNode
<1>3. ASSUME SendList(n) PROVE FALSE
  BY <1>1, <1>3 DEF SendList
<1>4. CASE ReceiveQuery(n)
  <2>1. PICK a \in Answers(query, db(n)) : sending' = [sending EXCEPT ![n] = AnswerMessages(a)]
    BY <1>4 DEF ReceiveQuery, Answer
  <2>2. sending'[n] = AnswerMessages(a)
    BY <1>1, <2>1
  <2> QED BY <1>1, <1>4, <2>2 DEF ReceiveQuery, Answer
<1>5. CASE ReceiveList(n)
  <2>1. state[n] \in {"again", "rows"} /\ down[n] # <<>> /\ down'[n] = Tail(down[n]) /\ up'[n] = up[n]
    BY <1>1, <1>5 DEF ReceiveList
  <2>2. ~ (state[n] = "again" /\ Head(down[n]).size > 0)
    BY <1>1, <1>5 DEF ReceiveList
  <2> DEFINE rows == IF state[n] = "rows" THEN Head(down[n]).rows ELSE <<>>
  <2>3. Answer(n, AnswersAgain(query, db(n), rows))
    BY <1>5, <2>2 DEF ReceiveList
  <2> HIDE DEF rows
  <2>4. PICK a \in AnswersAgain(query, db(n), rows) : sending' = [sending EXCEPT ![n] = AnswerMessages(a)]
    BY <2>3 DEF Answer
  <2>5. sending'[n] = AnswerMessages(a) /\ state'[n] = "last"
    BY <1>1, <2>1, <2>3, <2>4 DEF Answer
  <2> QED BY <2>1, <2>2, <2>5 DEF rows
<1> QED BY <1>2, <1>3, <1>4, <1>5 DEF NodeGoesOn

\* A list on its way: a size, and rows unless it is 0
LEMMA MessagesOf ==
    ASSUME NEW r \in Seq(Row)
    PROVE  /\ Messages(r) \in Seq(Msg) /\ Messages(r) # <<>> /\ Head(Messages(r)) = SizeOf(Len(r))
           /\ Len(r) \in Nat /\ (r # <<>> <=> Len(r) > 0)
           /\ r = <<>> => Messages(r) = <<SizeOf(0)>> /\ Tail(Messages(r)) = <<>>
           /\ r # <<>> => Tail(Messages(r)) = <<ThoseOf(r)>>
<1>1. Messages(r) \in Seq(Msg) /\ Len(r) \in Nat /\ (r # <<>> <=> Len(r) > 0)
  BY MessagesType, EmptySeq
<1>2. CASE r = <<>>
  BY <1>1, <1>2 DEF Messages, SizeOf
<1>3. CASE r # <<>>
  BY <1>1, <1>3 DEF Messages, SizeOf, ThoseOf
<1> QED BY <1>1, <1>2, <1>3

\* Who expects its rows reads them, and answers to them.
LEMMA WaitsAndAnswers ==
    ASSUME IInv, NEW n \in Node, NodeGoesOn(n), NEW rows \in Seq(Row), NEW rest \in Seq(Msg),
           Waits(conns[n], rest, query, again), Expects(conns[n], rest, rows, again)
    PROVE  \/ Waits(conns'[n], rest, query, again) /\ Expects(conns'[n], rest, rows, again)
           \/ rest = <<>> /\ Answered(conns'[n], MayAnswer(n, rows), query, again)
<1>1. /\ conns[n].state = state[n] /\ conns[n].up = up[n]
      /\ conns[n].down = down[n] /\ conns[n].sending = sending[n]
      /\ conns'[n].state = state'[n] /\ conns'[n].up = up'[n]
      /\ conns'[n].down = down'[n] /\ conns'[n].sending = sending'[n]
  BY DEF conns
<1>2. /\ query \in Queries /\ again \in BOOLEAN /\ (again => query \in Again) /\ Shapes
      /\ up[n] \in Seq(Msg) /\ down[n] \in Seq(Msg)
  BY NetworkAssumption DEF IInv, Shapes, Place
<1> DEFINE c == conns[n]
           d == conns'[n]
           s == down[n] \o rest
<1>3. Moves(c, d, query) /\ IsConn(c)
  BY <1>1, <1>2, NodeStepMoves DEF IsConn
<1>4. /\ c.state = state[n] /\ c.up = up[n] /\ c.down = down[n] /\ c.sending = sending[n]
      /\ d.state = state'[n] /\ d.up = up'[n] /\ d.down = down'[n] /\ d.sending = sending'[n]
      /\ Waits(c, rest, query, again) /\ Expects(c, rest, rows, again)
  BY <1>1
<1> SUFFICES \/ Waits(d, rest, query, again) /\ Expects(d, rest, rows, again)
             \/ rest = <<>> /\ Answered(d, MayAnswer(n, rows), query, again)
  OBVIOUS
<1> HIDE DEF c, d
<1>5. \/ Waits(d, rest, query, again)
      \/ rest = <<>> /\ Owes(d, Streams[NbOfLists(query)], query, again)
  BY <1>2, <1>3, <1>4, WaitsStays
<1>6. ~ SendsOne(c, d)
  BY <1>4 DEF SendsOne, Waits
<1>7. CASE Ends(c, d)
  <2>1. d.state = "gone"
    BY <1>7 DEF Ends
  <2>2. Waits(d, rest, query, again)
    BY <1>4, <1>7 DEF Ends, Waits
  <2> QED BY <2>1, <2>2 DEF Expects
<1>8. ASSUME down[n] # <<>>, down'[n] = Tail(down[n])
      PROVE  Head(s) = Head(down[n]) /\ Tail(s) = down'[n] \o rest
  <2> DEFINE u == down[n]
  <2>1. u \in Seq(Msg) /\ u # <<>> /\ down'[n] = Tail(u)
    BY <1>2, <1>8
  <2> HIDE DEF u
  <2>2. Head(u) = Head(u \o rest) /\ Tail(u) \o rest = Tail(u \o rest)
    BY <2>1, HeadOfConcat
  <2> QED BY <2>1, <2>2 DEF u
<1>9. CASE ReadsSize(c, d)
  <2>1. /\ state[n] = "again" /\ down[n] # <<>> /\ Head(down[n]).size > 0
        /\ state'[n] = "rows" /\ down'[n] = Tail(down[n])
    BY <1>4, <1>9 DEF ReadsSize
  <2>2. again /\ s = Messages(rows)
    BY <1>4, <2>1 DEF Waits, Expects
  <2>3. Head(s).size = Len(rows)
    BY <2>2, MessagesOf, MessagesOfList
  <2>4. rows # <<>>
    BY <1>8, <2>1, <2>3, MessagesOf
  <2>5. down'[n] \o rest = <<ThoseOf(rows)>>
    BY <1>8, <2>1, <2>2, <2>4, MessagesOf
  <2>6. Expects(d, rest, rows, again)
    BY <1>4, <2>1, <2>5 DEF Expects
  <2>7. Waits(d, rest, query, again)
    BY <1>4, <1>5, <2>1 DEF Owes, Sends, After
  <2> QED BY <2>6, <2>7
<1>10. CASE Answering(c, d, query)
  <2>1. state'[n] \in {"first", "last"} /\ state[n] \in {"wait", "again", "rows"}
    BY <1>4, <1>10 DEF Answering
  <2>2. rest = <<>> /\ Owes(d, Streams[NbOfLists(query)], query, again)
    BY <1>4, <1>5, <2>1 DEF Waits
  <2>3. PICK a \in IF state[n] = "wait" THEN Answers(query, db(n))
                   ELSE AnswersAgain(query, db(n), IF state[n] = "rows" THEN Head(down[n]).rows ELSE <<>>) :
              sending'[n] = AnswerMessages(a)
    BY <1>2, <2>1, NodeAnswers
  <2>4. /\ down[n] # <<>> /\ up'[n] = up[n] /\ down'[n] = Tail(down[n])
        /\ state[n] = "again" => ~ (Head(down[n]).size > 0)
    BY <1>2, <2>1, NodeAnswers
  <2>5. s = down[n]
    BY <1>2, <2>2, ConcatEmptySeq
  <2>6. a \in MayAnswer(n, rows)
    <3>1. CASE state[n] = "wait"
      <4>1. ~ again
        BY <1>4, <3>1 DEF Waits
      <4> QED BY <2>3, <3>1, <4>1 DEF MayAnswer
    <3>2. CASE state[n] = "again"
      <4>1. again /\ s = Messages(rows)
        BY <1>4, <3>2 DEF Waits, Expects
      <4>2. Head(down[n]).size = Len(rows)
        BY <2>5, <4>1, MessagesOf, MessagesOfList
      <4>3. rows = <<>>
        BY <2>4, <3>2, <4>2, MessagesOf
      <4> QED BY <2>3, <3>2, <4>1, <4>3 DEF MayAnswer
    <3>3. CASE state[n] = "rows"
      <4>1. again /\ s = <<ThoseOf(rows)>>
        BY <1>4, <3>3 DEF Waits, Expects
      <4> DEFINE m == ThoseOf(rows)
      <4>2. m.rows = rows
        BY MessagesOfList
      <4> HIDE DEF m
      <4>3. Head(down[n]) = m
        BY <2>5, <4>1 DEF m
      <4> QED BY <2>3, <3>3, <4>1, <4>2, <4>3 DEF MayAnswer
    <3> QED BY <2>1, <3>1, <3>2, <3>3
  <2>7. AnswerMessages(a) \in Seq(Msg)
    BY <1>2, <2>6, AnswersOfNode
  <2>8. d.up = <<>> /\ d.up \o d.sending = AnswerMessages(a)
    <3>1. d.up = <<>> /\ d.sending = AnswerMessages(a)
      BY <1>4, <2>3, <2>4 DEF Waits
    <3> QED BY <2>7, <3>1, ConcatEmptySeq
  <2>9. Owes(d, {AnswerMessages(a)}, query, again)
    BY <1>4, <2>1, <2>2, <2>8 DEF Owes
  <2> QED BY <2>2, <2>6, <2>9 DEF Answered
<1> QED BY <1>3, <1>6, <1>7, <1>9, <1>10 DEF Moves

-----------------------------------------------------------------------------
(* The invariant of what is gathered *)

Receiving == pc \in {"receive", "rows"}

\* An error on a connection comes before anything that could be read from it, and
\* no size is kept from one node to the next.
Errors ==
    /\ \A n \in reset : up[n] = <<>>
    /\ pc = "receive" /\ list = 1 => size = 0
    /\ Receiving /\ (pc = "rows" \/ list > 1) => nodes[at] \notin reset

\* The lists of the first i nodes, in this round
SoFar(rows, lossy) == Gathered([n \in Node |-> MayAnswer(n, rows)], nodes, lossy)

Firsts(lossy) == Gathered(FirstAnswers(query, all, owner), nodes, lossy)[Len(nodes)]

Knows(i, rows) == ToldThis(conns[nodes[i]], MayAnswer(nodes[i], rows), rows, query, again)

\* The rows of the second round are those of the first.
Total(rows, lossy) == again => \E L \in Firsts(lossy) : rows = L[1]

Tells(rows) ==
    pc = "send" =>
        /\ again => rows = lists[1]
        /\ \A i \in 1..Len(nodes) : /\ i < at => Knows(i, rows)
                                    /\ i = at => Expects(conns[nodes[i]], out, rows, again)

\* Some of the lists of the node that the master is at have been read.
Midway(rows, lossy) ==
    \E L \in SoFar(rows, lossy)[at - 1], a \in MayAnswer(nodes[at], rows) :
        /\ lists = Adding(L, a, list - 1)
        /\ \/ /\ pc = "receive" /\ list > 1
              /\ Owes(conns[nodes[at]], {Owed(a, NbOfLists(query), list - 1)}, query, again)
           \/ /\ pc = "rows" /\ a[list] # <<>>
              /\ Owes(conns[nodes[at]], {Then(ThoseOf(a[list]), Owed(a, NbOfLists(query), list))}, query, again)

\* Or nothing will be read any more, and the master ends.
Lost == Silent /\ nodes[at] \notin reset

Reads(rows, lossy) ==
    Receiving =>
        /\ \A i \in 1..Len(nodes) : i > at => Knows(i, rows)
        /\ \/ pc = "receive" /\ list = 1 /\ lists \in SoFar(rows, lossy)[at - 1] /\ Knows(at, rows)
           \/ Midway(rows, lossy)
           \/ Lost

Made(rows, lossy) ==
    pc \in {"combine", "idle"} =>
        /\ lists \in SoFar(rows, lossy)[Len(nodes)]
        /\ pc = "idle" => results \in Combine(query, lists)

Gathers(rows, lossy) == Total(rows, lossy) /\ Tells(rows) /\ Reads(rows, lossy) /\ Made(rows, lossy)

AsGathered ==
    asked > 0 /\ pc # "gone" =>
        \A lossy \in BOOLEAN : (spoilt => lossy) => \E rows \in Seq(Row) : Gathers(rows, lossy)

-----------------------------------------------------------------------------
(* The steps of the nodes *)

\* What the master knows of a connection stays so in the steps of its node.
LEMMA KnownStays ==
    ASSUME IInv, NEW n \in Node, NodeGoesOn(n), NEW m \in Node, NEW rows \in Seq(Row)
    PROVE  /\ ToldThis(conns[m], MayAnswer(m, rows), rows, query, again)
              => ToldThis(conns'[m], MayAnswer(m, rows), rows, query, again)
           /\ \A rest \in Seq(Msg) :
                 rest # <<>> /\ Waits(conns[m], rest, query, again) /\ Expects(conns[m], rest, rows, again)
                 => Expects(conns'[m], rest, rows, again)
<1>1. CASE m # n
  <2>1. conns'[m] = conns[m]
    BY <1>1, NodeStepMoves DEF IInv
  <2> QED BY <2>1 DEF ToldThis
<1>2. CASE m = n
  <2>1. ASSUME NEW rest \in Seq(Msg), Waits(conns[n], rest, query, again), Expects(conns[n], rest, rows, again)
        PROVE  \/ Waits(conns'[n], rest, query, again) /\ Expects(conns'[n], rest, rows, again)
               \/ rest = <<>> /\ Answered(conns'[n], MayAnswer(n, rows), query, again)
    BY <2>1, WaitsAndAnswers
  <2>2. ASSUME Answered(conns[n], MayAnswer(n, rows), query, again)
        PROVE  Answered(conns'[n], MayAnswer(n, rows), query, again)
    <3>1. PICK a \in MayAnswer(n, rows) : Owes(conns[n], {AnswerMessages(a)}, query, again)
      BY <2>2 DEF Answered
    <3>2. AnswerMessages(a) \in Seq(Msg)
      BY <3>1, AnswersOfNode DEF IInv, Place
    <3>3. Owes(conns'[n], {AnswerMessages(a)}, query, again)
      BY <3>1, <3>2, ConnectionKeeps
    <3> QED BY <3>1, <3>3 DEF Answered
  <2> QED BY <1>2, <2>1, <2>2, EmptySeq DEF ToldThis
<1> QED BY <1>1, <1>2

\* An answer's messages that are owed stay so.
LEMMA OwedStays ==
    ASSUME IInv, NEW n \in Node, NodeGoesOn(n), NEW m \in Node, NEW s \in Seq(Msg),
           Owes(conns[m], {s}, query, again)
    PROVE  Owes(conns'[m], {s}, query, again)
<1>1. {s} \in SUBSET Seq(Msg)
  OBVIOUS
<1> QED BY <1>1, ConnectionKeeps

\* A node of which nothing more will be read remains one.
LEMMA LostStays ==
    ASSUME IInv, NEW n \in Node, NodeGoesOn(n), asked > 0, UNCHANGED <<nodes, at>>, Lost
    PROVE  Lost'
<1> DEFINE k == nodes[at]
<1>1. k \in Node /\ state[k] = "gone" /\ up[k] = <<>> /\ k \notin reset
  BY NodeAt DEF Lost, Silent
<1>2. n # k
  <2> SUFFICES ASSUME state[n] = "gone", up[n] = <<>> PROVE FALSE
    BY <1>1
  <2>1. ~ SendList(n)
    BY SendingType
  <2> QED BY <2>1 DEF NodeGoesOn, ReceiveQuery, Crash, ReceiveList, DieNode
<1>3. state'[k] = state[k] /\ up'[k] = up[k]
  <2>1. conns'[k] = conns[k]
    BY <1>1, <1>2, NodeStepMoves DEF IInv
  <2> QED BY <1>1, <2>1 DEF conns
<1>4. k \notin reset'
  BY <1>1, <1>2 DEF NodeGoesOn, ReceiveQuery, Crash, ReceiveList, SendList, DieNode
<1> QED BY <1>1, <1>3, <1>4 DEF Lost, Silent

\* A step of a node loses nothing of what will have been gathered.
LEMMA NodeGathers ==
    ASSUME IInv, Errors, NEW n \in Node, NodeGoesOn(n), asked > 0,
           UNCHANGED <<query, all, owner, master>>,
           NEW rows \in Seq(Row), NEW lossy, Gathers(rows, lossy)
    PROVE  Gathers(rows, lossy)'
<1>1. UNCHANGED <<pc, nodes, at, list, size, again, out, lists, results, asked>>
  BY DEF master
<1>2. /\ \A m \in Node : MayAnswer(m, rows)' = MayAnswer(m, rows)
      /\ FirstAnswers(query, all, owner)' = FirstAnswers(query, all, owner)
  BY <1>1 DEF MayAnswer, db, FirstAnswers
<1>3. SoFar(rows, lossy)' = SoFar(rows, lossy) /\ Firsts(lossy)' = Firsts(lossy)
  BY <1>1, <1>2 DEF SoFar, Firsts
<1>4. /\ Len(nodes) \in Nat \ {0} /\ at \in 1..Len(nodes) /\ nodes[at] \in Node
      /\ \A i \in 1..Len(nodes) : nodes[i] \in Node
  BY NodeAt
<1>5. ASSUME NEW i \in 1..Len(nodes), Knows(i, rows) PROVE Knows(i, rows)'
  <2>1. Knows(i, rows)' <=> ToldThis(conns'[nodes[i]], MayAnswer(nodes[i], rows), rows, query, again)
    BY <1>1, <1>2, <1>4 DEF Knows
  <2> QED BY <1>4, <1>5, <2>1, KnownStays DEF Knows
<1>6. Total(rows, lossy)' /\ Made(rows, lossy)'
  BY <1>1, <1>3 DEF Gathers, Total, Made
<1>7. Tells(rows)'
  <2> SUFFICES ASSUME pc = "send"
               PROVE  /\ again => rows = lists[1]
                      /\ \A i \in 1..Len(nodes) : /\ i < at => Knows(i, rows)'
                                                  /\ i = at => Expects(conns'[nodes[i]], out, rows, again)
    BY <1>1 DEF Tells
  <2>1. /\ again => rows = lists[1]
        /\ \A i \in 1..Len(nodes) : /\ i < at => Knows(i, rows)
                                    /\ i = at => Expects(conns[nodes[i]], out, rows, again)
    BY DEF Gathers, Tells
  <2>2. out \in Seq(Msg) /\ out # <<>> /\ Waits(conns[nodes[at]], out, query, again)
    BY <1>4 DEF IInv, Telling, Place
  <2>3. Expects(conns'[nodes[at]], out, rows, again)
    BY <1>4, <2>1, <2>2, KnownStays
  <2> QED BY <1>5, <2>1, <2>3
<1>8. Reads(rows, lossy)'
  <2> SUFFICES ASSUME Receiving
               PROVE  /\ \A i \in 1..Len(nodes) : i > at => Knows(i, rows)'
                      /\ \/ pc = "receive" /\ list = 1 /\ lists \in SoFar(rows, lossy)[at - 1] /\ Knows(at, rows)'
                         \/ Midway(rows, lossy)'
                         \/ Lost'
    BY <1>1, <1>3 DEF Reads, Receiving
  <2>1. /\ \A i \in 1..Len(nodes) : i > at => Knows(i, rows)
        /\ \/ pc = "receive" /\ list = 1 /\ lists \in SoFar(rows, lossy)[at - 1] /\ Knows(at, rows)
           \/ Midway(rows, lossy)
           \/ Lost
    BY DEF Gathers, Reads
  <2>2. ASSUME Midway(rows, lossy) PROVE Midway(rows, lossy)'
    <3> DEFINE N == NbOfLists(query)
    <3>1. PICK L \in SoFar(rows, lossy)[at - 1], a \in MayAnswer(nodes[at], rows) :
             /\ lists = Adding(L, a, list - 1)
             /\ \/ pc = "receive" /\ list > 1 /\ Owes(conns[nodes[at]], {Owed(a, N, list - 1)}, query, again)
                \/ pc = "rows" /\ a[list] # <<>>
                   /\ Owes(conns[nodes[at]], {Then(ThoseOf(a[list]), Owed(a, N, list))}, query, again)
      BY <2>2 DEF Midway
    <3>2. N \in Nat /\ a \in [1..N -> Seq(Row)] /\ list \in 1..N
      BY <1>4, AnswersOfNode, ListsOfQuery DEF IInv, Place
    <3>3. Owed(a, N, list - 1) \in Seq(Msg) /\ Then(ThoseOf(a[list]), Owed(a, N, list)) \in Seq(Msg)
      <4>1. list - 1 \in 0..N /\ list \in 0..N /\ a[list] \in Seq(Row)
        BY <3>2
      <4> HIDE DEF N
      <4>2. Owed(a, N, list - 1) \in Seq(Msg) /\ Owed(a, N, list) \in Seq(Msg)
        BY <3>2, <4>1, ListsAreOwed
      <4>3. ThoseOf(a[list]) \in Msg
        BY <4>1, MessagesOfList
      <4> QED BY <4>2, <4>3, FirstMessage
    <3>4. /\ Owes(conns[nodes[at]], {Owed(a, N, list - 1)}, query, again)
             => Owes(conns'[nodes[at]], {Owed(a, N, list - 1)}, query, again)
          /\ Owes(conns[nodes[at]], {Then(ThoseOf(a[list]), Owed(a, N, list))}, query, again)
             => Owes(conns'[nodes[at]], {Then(ThoseOf(a[list]), Owed(a, N, list))}, query, again)
      BY <1>4, <3>3, OwedStays
    <3>5. MayAnswer(nodes[at], rows)' = MayAnswer(nodes[at], rows)
      BY <1>1, <1>2, <1>4
    <3> HIDE DEF N
    <3>6. /\ lists = Adding(L, a, list - 1)
          /\ \/ pc = "receive" /\ list > 1 /\ Owes(conns'[nodes[at]], {Owed(a, N, list - 1)}, query, again)
             \/ pc = "rows" /\ a[list] # <<>>
                /\ Owes(conns'[nodes[at]], {Then(ThoseOf(a[list]), Owed(a, N, list))}, query, again)
      BY <3>1, <3>4
    <3>7. Midway(rows, lossy)' <=>
             \E K \in SoFar(rows, lossy)[at - 1], b \in MayAnswer(nodes[at], rows) :
                /\ lists = Adding(K, b, list - 1)
                /\ \/ pc = "receive" /\ list > 1 /\ Owes(conns'[nodes[at]], {Owed(b, N, list - 1)}, query, again)
                   \/ pc = "rows" /\ b[list] # <<>>
                      /\ Owes(conns'[nodes[at]], {Then(ThoseOf(b[list]), Owed(b, N, list))}, query, again)
      BY <1>1, <1>3, <3>5 DEF Midway, N
    <3> QED BY <3>6, <3>7
  <2>3. Lost => Lost'
    BY <1>1, LostStays
  <2>4. \A i \in 1..Len(nodes) : i > at => Knows(i, rows)'
    BY <1>5, <2>1
  <2>5. Knows(at, rows) => Knows(at, rows)'
    <3> DEFINE i == at
    <3>1. i \in 1..Len(nodes) /\ i' = i
      BY <1>1, <1>4
    <3> HIDE DEF i
    <3>2. Knows(i, rows) => Knows(i, rows)'
      BY <1>5, <3>1
    <3> QED BY <1>1, <3>2 DEF i, Knows
  <2> QED BY <2>1, <2>2, <2>3, <2>4, <2>5
<1> QED BY <1>6, <1>7, <1>8 DEF Gathers

-----------------------------------------------------------------------------
(* Errors on connections *)

\* The steps of the nodes
LEMMA NodeErrors ==
    ASSUME IInv, Errors, NEW n \in Node, NodeStep(n) \/ DieNode(n)
    PROVE  Errors'
<1>1. UNCHANGED <<pc, at, list, size, asked>> /\ (~ Connect(n) => UNCHANGED nodes)
  BY DEF NodeStep, Connect, ReceiveQuery, Crash, ReceiveList, SendList, EndOfMaster, DieNode,
         NodeUnchanged, master
<1>2. Receiving => asked > 0 /\ ~ Connect(n)
  <2> SUFFICES ASSUME Receiving, asked > 0 => ~ Connect(n)
               PROVE  asked > 0
    <3>1. asked > 0 => ~ Connect(n)
      BY DEF IInv, Connected, Connect
    <3> QED BY <3>1
  <2> QED BY DEF Receiving, IInv, Connected, Shapes
<1>3. CASE DieNode(n)
  <2>1. /\ asked > 0 /\ pc # "gone" /\ UNCHANGED up
        /\ reset' = IF down[n] # <<>> THEN reset \cup {n} ELSE reset
    BY <1>3 DEF DieNode
  <2>2. down[n] # <<>> => up[n] = <<>>
    BY <2>1, ConnsOf, InOrder DEF IsIdle, Quiet, Waits, Owes
  <2>3. ASSUME Receiving, pc = "rows" \/ list > 1, nodes[at] = n PROVE down[n] = <<>>
    <3>1. list # 1 \/ pc = "rows"
      BY <2>3 DEF IInv, Place
    <3>2. at \in 1..Len(nodes)
      BY <1>2, <2>3, NodeAt
    <3>3. Owes(conns[n], Streams[NbOfLists(query) - list + 1], query, again)
          \/ Owes(conns[n], RowsThen(Streams[NbOfLists(query) - list]), query, again)
      BY <2>3, <3>1, <3>2 DEF Receiving, IInv, Reading
    <3> QED BY <3>3, ConnsOf DEF Owes
  <2> QED BY <1>1, <1>2, <1>3, <2>1, <2>2, <2>3 DEF Errors, Receiving, NodeStep
<1>4. CASE NodeStep(n)
  <2>1. UNCHANGED reset
    BY <1>4 DEF NodeStep, Connect, ReceiveQuery, Crash, ReceiveList, SendList, EndOfMaster
  <2>2. \A m \in reset : up'[m] = up[m]
    <3>1. CASE SendList(n)
      <4>1. n \notin reset
        BY <3>1, SendingType DEF IInv, Shapes
      <4>2. up' = [up EXCEPT ![n] = Append(@, Head(sending[n]))] /\ DOMAIN up = Node
        BY <3>1 DEF SendList, IInv, Shapes
      <4> QED BY <4>1, <4>2
    <3>2. CASE ~ SendList(n)
      BY <1>4, <3>2 DEF NodeStep, Connect, ReceiveQuery, Crash, ReceiveList, EndOfMaster
    <3> QED BY <3>1, <3>2
  <2> QED BY <1>1, <1>2, <2>1, <2>2 DEF Errors, Receiving
<1> QED BY <1>3, <1>4

\* The steps of the master
LEMMA MasterErrors ==
    ASSUME IInv, Errors, MasterStep \/ DieMaster
    PROVE  Errors'
<1>1. reset' \subseteq reset
  BY DEF MasterStep, Listen, Ask, Send, SendNowhere, BrokenPipe, ReceiveSize, ReceiveRows, ReceiveError,
         EndOfNode, Finish, Stop, DieMaster, MasterGone
<1>2. \A m \in reset : m \in Node /\ up'[m] = <<>>
  <2>1. \A m \in reset : m \in Node /\ up[m] = <<>>
    BY DEF Errors, IInv, Shapes
  <2>2. CASE ReceiveSize \/ ReceiveRows
    <3>1. up[nodes[at]] # <<>> /\ up' = [up EXCEPT ![nodes[at]] = Tail(@)] /\ DOMAIN up = Node
      BY <2>2 DEF ReceiveSize, ReceiveRows, IInv, Shapes
    <3> QED BY <2>1, <3>1
  <2>3. CASE ~ (ReceiveSize \/ ReceiveRows)
    <3>1. UNCHANGED up
      BY <2>3 DEF MasterStep, Listen, Ask, Send, SendNowhere, BrokenPipe, ReceiveError,
                  EndOfNode, Finish, Stop, DieMaster, MasterGone
    <3> QED BY <2>1, <3>1
  <2> QED BY <2>2, <2>3
<1>3. CASE Send \/ SendNowhere
  BY <1>1, <1>2, <1>3 DEF Send, SendNowhere, Sent, Errors, Receiving
<1>4. ASSUME NEW rows, Received(rows), nodes[at] \notin reset', nodes' = nodes
      PROVE  Errors'
  <2>1. list \in Nat \ {0}
    BY NetworkAssumption, ListsOfQuery DEF IInv, Shapes, Place
  <2>2. /\ pc' # "rows" /\ (list' = 1 => size' = 0)
        /\ pc' = "receive" => at' = at \/ list' = 1
    BY <1>4, <2>1 DEF Received
  <2> QED BY <1>1, <1>2, <1>4, <2>2 DEF Errors, Receiving
<1>5. CASE ReceiveSize \/ ReceiveRows
  <2>1. nodes[at] \notin reset /\ UNCHANGED <<nodes, reset>>
    BY <1>5 DEF ReceiveSize, ReceiveRows, Errors
  <2>2. CASE \E rows : Received(rows)
    BY <1>4, <2>1, <2>2
  <2>3. CASE pc' = "rows" /\ UNCHANGED at
    BY <1>1, <1>2, <2>1, <2>3 DEF Errors
  <2> QED BY <1>5, <2>2, <2>3 DEF ReceiveSize, ReceiveRows
<1>6. CASE ReceiveError
  <2>1. nodes[at] \notin reset' /\ UNCHANGED nodes
    BY <1>6 DEF ReceiveError
  <2>2. CASE Received(Unread(size))
    BY <1>4, <2>1, <2>2
  <2>3. CASE pc' = "rows" /\ UNCHANGED at
    BY <1>1, <1>2, <2>1, <2>3 DEF Errors
  <2> QED BY <1>6, <2>2, <2>3 DEF ReceiveError
<1>7. CASE pc' \notin {"receive", "rows"}
  BY <1>1, <1>2, <1>7 DEF Errors, Receiving
<1> QED BY <1>3, <1>5, <1>6, <1>7
        DEF MasterStep, Listen, Ask, BrokenPipe, EndOfNode, Finish, Stop, DieMaster, MasterGone

-----------------------------------------------------------------------------
(* The steps of the master *)

\* What the nodes may answer does not change within a round.
LEMMA SameRound ==
    ASSUME UNCHANGED <<query, all, owner, nodes, again>>, NEW rows, NEW lossy
    PROVE  /\ \A m \in Node : MayAnswer(m, rows)' = MayAnswer(m, rows)
           /\ SoFar(rows, lossy)' = SoFar(rows, lossy)
           /\ Total(rows, lossy)' <=> Total(rows, lossy)
           /\ \A i \in DOMAIN nodes : nodes[i] \in Node =>
                 (Knows(i, rows)' <=> ToldThis(conns'[nodes[i]], MayAnswer(nodes[i], rows), rows, query, again))
<1>1. \A m \in Node : MayAnswer(m, rows)' = MayAnswer(m, rows)
  BY DEF MayAnswer, db
<1>2. FirstAnswers(query, all, owner)' = FirstAnswers(query, all, owner)
  BY DEF FirstAnswers
<1>3. SoFar(rows, lossy)' = SoFar(rows, lossy)
  BY <1>1 DEF SoFar
<1>4. Total(rows, lossy)' <=> Total(rows, lossy)
  BY <1>2 DEF Total, Firsts
<1> QED BY <1>1, <1>3, <1>4 DEF Knows

\* What is known of the others stays so in a step of the master.
LEMMA OthersKnown ==
    ASSUME IInv, asked > 0, UNCHANGED <<query, all, owner, nodes, again>>, NEW rows,
           \A m \in Node \ {nodes[at]} : conns'[m] = conns[m]
    PROVE  \A i \in 1..Len(nodes) : i # at /\ Knows(i, rows) => Knows(i, rows)'
<1> SUFFICES ASSUME NEW i \in 1..Len(nodes), i # at, Knows(i, rows) PROVE Knows(i, rows)'
  OBVIOUS
<1>1. nodes[i] \in Node /\ nodes[i] # nodes[at] /\ i \in DOMAIN nodes
  BY NodeAt DEF IInv, Connected
<1>2. conns'[nodes[i]] = conns[nodes[i]]
  BY <1>1
<1>3. Knows(i, rows)' <=> ToldThis(conns'[nodes[i]], MayAnswer(nodes[i], rows), rows, query, again)
  BY <1>1, SameRound
<1> QED BY <1>2, <1>3 DEF Knows

\* A node that has nothing under way expects what it is told.
LEMMA IdleExpects ==
    ASSUME NEW c, NEW twice, NEW rows \in Seq(Row), IsIdle(c, IF twice THEN "again" ELSE "wait")
    PROVE  Expects(c, Messages(rows), rows, twice)
<1>1. <<>> \o Messages(rows) = Messages(rows)
  BY MessagesType, HeadOfConcat
<1> QED BY <1>1 DEF Expects, IsIdle, Quiet

\* The master sends on, or begins to receive.
LEMMA SendGathers ==
    ASSUME IInv, Send \/ SendNowhere, NEW rows \in Seq(Row), NEW lossy, Gathers(rows, lossy)
    PROVE  Gathers(rows, lossy)'
<1>1. /\ pc = "send" /\ Sent /\ asked > 0 /\ UNCHANGED <<query, all, owner, nodes, again>>
      /\ Waits(conns'[nodes[at]], Tail(out), query, again)
      /\ \A m \in Node \ {nodes[at]} : conns'[m] = conns[m]
  BY SendMoves
<1>2. /\ Len(nodes) \in Nat \ {0} /\ at \in 1..Len(nodes) /\ DOMAIN nodes = 1..Len(nodes)
      /\ \A i \in 1..Len(nodes) : nodes[i] \in Node /\ (i # at => nodes[i] # nodes[at])
  BY <1>1, NodeAt DEF IInv, Connected
<1>3. /\ again => rows = lists[1]
      /\ \A i \in 1..Len(nodes) : i < at => Knows(i, rows)
      /\ Expects(conns[nodes[at]], out, rows, again) /\ Total(rows, lossy)
  BY <1>1, <1>2 DEF Gathers, Tells
<1>4. \A i \in 1..Len(nodes) : i < at => Knows(i, rows)'
  <2>1. \A i \in 1..Len(nodes) : i # at /\ Knows(i, rows) => Knows(i, rows)'
    BY <1>1, OthersKnown
  <2>2. \A i \in 1..Len(nodes) : i < at => i # at
    BY <1>2
  <2> QED BY <1>3, <2>1, <2>2
<1>5. Expects(conns'[nodes[at]], Tail(out), rows, again)
  BY <1>3, SendMoves DEF Expects
<1>6. Total(rows, lossy)' /\ SoFar(rows, lossy)' = SoFar(rows, lossy)
  BY <1>1, <1>3, SameRound
<1>7. out \in Seq(Msg) /\ out # <<>> /\ (~ (Len(out) > 1) => Tail(out) = <<>>)
  <2>1. out \in Seq(Msg) /\ out # <<>>
    BY <1>1 DEF IInv, Telling, Place
  <2>2. Len(out) \in Nat /\ Len(out) # 0 /\ Tail(out) \in Seq(Msg) /\ Len(Tail(out)) = Len(out) - 1
    BY <2>1, HeadTailProperties, EmptySeq
  <2>3. Tail(out) # <<>> <=> Len(Tail(out)) # 0
    BY <2>2, EmptySeq
  <2> QED BY <2>1, <2>2, <2>3
<1>8. CASE Len(out) > 1
  <2>1. out' = Tail(out) /\ UNCHANGED <<at, pc, lists>>
    BY <1>1, <1>8 DEF Sent
  <2>2. Tells(rows)'
    BY <1>1, <1>3, <1>4, <1>5, <2>1 DEF Tells
  <2> QED BY <1>1, <1>6, <2>1, <2>2 DEF Gathers, Reads, Receiving, Made
<1>9. CASE ~ (Len(out) > 1)
  <2>1. ToldThis(conns'[nodes[at]], MayAnswer(nodes[at], rows), rows, query, again)
    BY <1>1, <1>5, <1>7, <1>9 DEF ToldThis
  <2>2. \A i \in 1..Len(nodes) : i = at => Knows(i, rows)'
    <3> SUFFICES ASSUME NEW i \in 1..Len(nodes), i = at PROVE Knows(i, rows)'
      OBVIOUS
    <3>1. ToldThis(conns'[nodes[i]], MayAnswer(nodes[i], rows), rows, query, again)
      BY <2>1
    <3> QED BY <1>1, <1>2, <3>1, SameRound
  <2>3. CASE at < Len(nodes)
    <3>1. /\ at' = at + 1 /\ pc' = pc /\ lists' = lists
          /\ out' = IF again THEN Messages(lists[1]) ELSE <<[query |-> query]>>
      BY <1>1, <1>9, <2>3 DEF Sent
    <3>2. \A i \in 1..Len(nodes) : /\ i < at + 1 => i < at \/ i = at
                                   /\ i = at + 1 => i > at /\ i # at
      BY <1>2
    <3>3. ASSUME NEW i \in 1..Len(nodes), i = at + 1
          PROVE  Expects(conns'[nodes[i]], out', rows, again)
      <4>1. nodes[i] \in Node \ {nodes[at]} /\ i > at
        BY <1>2, <3>2, <3>3
      <4>2. conns'[nodes[i]] = conns[nodes[i]]
        BY <1>1, <4>1
      <4>3. IsIdle(conns[nodes[i]], IF again THEN "again" ELSE "wait")
        BY <1>1, <4>1 DEF IInv, Telling
      <4>4. CASE again
        BY <1>3, <3>1, <4>2, <4>3, <4>4, IdleExpects
      <4>5. CASE ~ again
        BY <4>5 DEF Expects
      <4> QED BY <4>4, <4>5
    <3>4. Tells(rows)'
      <4> SUFFICES ASSUME NEW i \in 1..Len(nodes)
                   PROVE  /\ i < at + 1 => Knows(i, rows)'
                          /\ i = at + 1 => Expects(conns'[nodes[i]], out', rows, again)
        BY <1>1, <1>3, <3>1 DEF Tells
      <4> QED BY <1>4, <2>2, <3>2, <3>3
    <3> QED BY <1>1, <1>6, <3>1, <3>4 DEF Gathers, Reads, Receiving, Made
  <2>4. CASE ~ (at < Len(nodes))
    <3>1. /\ at' = 1 /\ list' = 1 /\ pc' = "receive" /\ lists' = NoLists
      BY <1>1, <1>9, <2>4 DEF Sent, NoLists
    <3>2. \A i \in 1..Len(nodes) : Knows(i, rows)'
      <4>1. \A i \in 1..Len(nodes) : i < at \/ i = at
        BY <1>2, <2>4
      <4> QED BY <1>4, <2>2, <4>1
    <3>3. SoFar(rows, lossy)[0] = {NoLists}
      BY <1>2, GatheredFollow DEF SoFar, OneMore
    <3>4. Knows(at, rows)'
      <4>1. Knows(1, rows)'
        BY <1>2, <3>2
      <4> QED BY <3>1, <4>1 DEF Knows
    <3>5. lists' \in SoFar(rows, lossy)'[at' - 1]
      BY <1>6, <3>1, <3>3
    <3>6. Reads(rows, lossy)'
      BY <1>1, <3>1, <3>2, <3>4, <3>5 DEF Reads
    <3> QED BY <1>6, <3>1, <3>6 DEF Gathers, Tells, Made
  <2> QED BY <2>3, <2>4
<1> QED BY <1>8, <1>9

\* The master receives only after it has asked.
LEMMA ReadingAsked ==
    ASSUME IInv, Receiving
    PROVE  asked > 0
BY DEF Receiving, IInv, Connected, Shapes

\* The last list of a node has been received: on to the next node, to the second
\* round, or to the end.
LEMMA NodeDone ==
    ASSUME IInv, Receiving, NEW r, Received(r), ~ (list < NbOfLists(query)),
           UNCHANGED <<query, all, owner, nodes>>, lists' \in [1..4 -> Seq(Row)],
           NEW rows \in Seq(Row), NEW lossy, Total(rows, lossy), lists' \in SoFar(rows, lossy)[at],
           \A i \in 1..Len(nodes) : i > at => Knows(i, rows),
           IsConn(conns'[nodes[at]]), Owes(conns'[nodes[at]], Streams[0], query, again),
           \A m \in Node \ {nodes[at]} : conns'[m] = conns[m]
    PROVE  \E some \in Seq(Row) : Gathers(some, lossy)'
<1>1. asked > 0
  BY ReadingAsked
<1>2. /\ Len(nodes) \in Nat \ {0} /\ at \in 1..Len(nodes) /\ DOMAIN nodes = 1..Len(nodes)
      /\ \A i \in 1..Len(nodes) : nodes[i] \in Node /\ (i # at => nodes[i] # nodes[at])
  BY <1>1, NodeAt DEF IInv, Connected
<1>3. list' = 1 /\ size' = 0
  BY DEF Received
<1>4. CASE at < Len(nodes)
  <2>1. at' = at + 1 /\ pc' = "receive" /\ UNCHANGED again
    BY <1>4 DEF Received
  <2>2. SoFar(rows, lossy)' = SoFar(rows, lossy) /\ Total(rows, lossy)'
    BY <2>1, SameRound
  <2>3. \A i \in 1..Len(nodes) : i > at => i # at
    BY <1>2
  <2>4. \A i \in 1..Len(nodes) : i > at => Knows(i, rows)'
    BY <1>1, <2>1, <2>3, OthersKnown
  <2>5. Knows(at, rows)'
    <3>1. at + 1 \in 1..Len(nodes) /\ at + 1 > at
      BY <1>2, <1>4
    <3>2. PICK j \in 1..Len(nodes) : j = at + 1
      BY <3>1
    <3>3. Knows(j, rows)' /\ at' = j
      BY <2>1, <2>4, <3>1, <3>2
    <3> QED BY <3>3 DEF Knows
  <2>6. lists' \in SoFar(rows, lossy)'[at' - 1]
    <3>1. at' - 1 = at
      BY <1>2, <2>1
    <3> QED BY <2>2, <3>1
  <2>7. \A i \in 1..Len(nodes) : i > at + 1 => Knows(i, rows)'
    <3>1. \A i \in 1..Len(nodes) : i > at + 1 => i > at
      BY <1>2
    <3> QED BY <2>4, <3>1
  <2>8. Reads(rows, lossy)'
    BY <1>3, <2>1, <2>5, <2>6, <2>7 DEF Reads
  <2>9. Gathers(rows, lossy)'
    BY <2>1, <2>2, <2>8 DEF Gathers, Tells, Made
  <2> QED BY <2>9
<1>5. CASE ~ (at < Len(nodes)) /\ query \in Again /\ ~again
  <2>1. at' = 1 /\ out' = Messages(lists'[1]) /\ again' = TRUE /\ pc' = "send"
    BY <1>5 DEF Received, Tell
  <2>2. at = Len(nodes)
    BY <1>2, <1>5
  <2>0. PICK some \in Seq(Row) : some = lists'[1]
    OBVIOUS
  <2>3. lists' \in Firsts(lossy)'
    <3>1. Firsts(lossy)' = Firsts(lossy)
      BY DEF Firsts, FirstAnswers
    <3>2. [n \in Node |-> MayAnswer(n, rows)] = FirstAnswers(query, all, owner)
      BY <1>5 DEF MayAnswer, FirstAnswers, db
    <3> QED BY <2>2, <3>1, <3>2 DEF Firsts, SoFar
  <2>4. IsIdle(conns'[nodes[1]], "again")
    <3>1. CASE at = 1
      <4> DEFINE n == nodes[at]
      <4>1. n = nodes[1]
        BY <3>1
      <4> HIDE DEF n
      <4>2. IsIdle(conns'[n], After(query, again))
        BY AllIsRead DEF n
      <4> QED BY <1>5, <4>1, <4>2 DEF After
    <3>2. CASE at # 1
      <4>1. 1 \in 1..Len(nodes) /\ 1 < at
        BY <1>2, <3>2
      <4>2. IsIdle(conns[nodes[1]], After(query, again)) /\ conns'[nodes[1]] = conns[nodes[1]]
        BY <1>2, <3>2, <4>1 DEF Receiving, IInv, Reading
      <4> QED BY <1>5, <4>2 DEF After
    <3> QED BY <3>1, <3>2
  <2>5. Expects(conns'[nodes[1]], Messages(some), some, TRUE)
    BY <2>4, IdleExpects
  <2>6. Tells(some)'
    <3> SUFFICES ASSUME NEW i \in 1..Len(nodes)
                 PROVE  ~ (i < 1) /\ (i = 1 => Expects(conns'[nodes[i]], out', some, TRUE))
      BY <2>0, <2>1 DEF Tells
    <3>1. ~ (i < 1)
      OBVIOUS
    <3>2. out' = Messages(some)
      BY <2>0, <2>1
    <3> QED BY <2>5, <3>1, <3>2, Zenon
  <2>7. Total(some, lossy)'
    BY <2>0, <2>3 DEF Total
  <2>8. Gathers(some, lossy)'
    BY <2>1, <2>6, <2>7 DEF Gathers, Reads, Receiving, Made
  <2> QED BY <2>8
<1>6. CASE ~ (at < Len(nodes)) /\ ~ (query \in Again /\ ~again)
  <2>0. at = Len(nodes)
    BY <1>2, <1>6
  <2>1. pc' = "combine" /\ UNCHANGED again
    BY <1>6 DEF Received
  <2>2. SoFar(rows, lossy)' = SoFar(rows, lossy) /\ Total(rows, lossy)'
    BY <2>1, SameRound
  <2>3. Gathers(rows, lossy)'
    BY <2>0, <2>1, <2>2 DEF Gathers, Tells, Reads, Receiving, Made
  <2> QED BY <2>3
<1> QED BY <1>4, <1>5, <1>6

\* The lists after the node that the master is at
LEMMA NextSoFar ==
    ASSUME IInv, asked > 0, NEW rows, NEW lossy, NEW L, L \in SoFar(rows, lossy)[at - 1]
    PROVE  /\ \A a \in MayAnswer(nodes[at], rows) : Adding(L, a, Len(a)) \in SoFar(rows, lossy)[at]
           /\ lossy = TRUE => L \in SoFar(rows, lossy)[at]
<1> DEFINE A == [n \in Node |-> MayAnswer(n, rows)]
<1>1. Len(nodes) \in Nat /\ at \in 1..Len(nodes) /\ A[nodes[at]] = MayAnswer(nodes[at], rows)
  BY NodeAt
<1>2. SoFar(rows, lossy) = Gathered(A, nodes, lossy)
  BY DEF SoFar
<1> HIDE DEF A
<1>3. \A i \in 1..Len(nodes) :
         Gathered(A, nodes, lossy)[i] =
            OneMore(Gathered(A, nodes, lossy)[i - 1], A[nodes[i]], lossy)
  BY <1>1, GatheredFollow
<1> QED BY <1>1, <1>2, <1>3 DEF OneMore

\* What is left is added.
LEMMA AddingFollows ==
    ASSUME NEW L, NEW a, NEW k \in 1..4
    PROVE  [Adding(L, a, k - 1) EXCEPT ![k] = @ \o a[k]] = Adding(L, a, k)
<1> DEFINE F == Adding(L, a, k - 1)
           G == Adding(L, a, k)
<1>1. /\ F = [i \in 1..4 |-> IF i <= k - 1 THEN L[i] \o a[i] ELSE L[i]]
      /\ G = [i \in 1..4 |-> IF i <= k THEN L[i] \o a[i] ELSE L[i]]
  BY DEF Adding
<1>2. F[k] = L[k] /\ G[k] = L[k] \o a[k]
  <2>1. ~ (k <= k - 1) /\ k <= k
    OBVIOUS
  <2> QED BY <1>1, <2>1, Zenon
<1>3. \A i \in 1..4 : i # k => G[i] = F[i]
  <2>1. \A i \in 1..4 : i # k => (i <= k <=> i <= k - 1)
    OBVIOUS
  <2> QED BY <1>1, <2>1
<1>4. DOMAIN F = 1..4 /\ DOMAIN G = 1..4 /\ G = [i \in 1..4 |-> G[i]] /\ F = [i \in 1..4 |-> F[i]]
  BY <1>1
<1> HIDE DEF F, G
<1> QED BY <1>2, <1>3, <1>4 DEF F, G

\* Of no list
LEMMA AddingNone ==
    ASSUME NEW L \in [1..4 -> Seq(Row)], NEW a
    PROVE  Adding(L, a, 0) = L
BY DEF Adding

\* A list has been received that the node may have answered with.
LEMMA ReceivedGathers ==
    ASSUME IInv, Receiving, NEW rows \in Seq(Row), NEW lossy, Total(rows, lossy),
           UNCHANGED <<query, all, owner, nodes>>,
           \A i \in 1..Len(nodes) : i > at => Knows(i, rows),
           NEW L, L \in SoFar(rows, lossy)[at - 1], NEW a, a \in MayAnswer(nodes[at], rows),
           lists = Adding(L, a, list - 1), Received(a[list]),
           IsConn(conns'[nodes[at]]), Owes(conns'[nodes[at]], {Owed(a, NbOfLists(query), list)}, query, again),
           \A m \in Node \ {nodes[at]} : conns'[m] = conns[m]
    PROVE  \E some \in Seq(Row) : Gathers(some, lossy)'
<1> DEFINE N == NbOfLists(query)
<1>1. asked > 0
  BY ReadingAsked
<1>2. /\ Len(nodes) \in Nat \ {0} /\ at \in 1..Len(nodes) /\ DOMAIN nodes = 1..Len(nodes)
      /\ \A i \in 1..Len(nodes) : nodes[i] \in Node /\ (i # at => nodes[i] # nodes[at])
  BY <1>1, NodeAt DEF IInv, Connected
<1>3. N \in 1..4 /\ N \in Nat /\ list \in 1..N /\ a \in [1..N -> Seq(Row)]
  <2>1. query \in Queries
    BY NetworkAssumption DEF IInv, Shapes
  <2>2. a \in [1..N -> Seq(Row)]
    BY <1>2, AnswersOfNode DEF IInv, Place
  <2> QED BY <2>1, <2>2, ListsOfQuery DEF IInv, Place
<1>4. lists \in [1..4 -> Seq(Row)] /\ lists' = [lists EXCEPT ![list] = @ \o a[list]]
  BY <1>1 DEF IInv, Place, Received
<1>5. lists' = Adding(L, a, list) /\ lists' \in [1..4 -> Seq(Row)]
  <2>1. list \in 1..4 /\ a[list] \in Seq(Row)
    BY <1>3
  <2>2. [Adding(L, a, list - 1) EXCEPT ![list] = @ \o a[list]] = Adding(L, a, list)
    BY <2>1, AddingFollows
  <2>3. lists[list] \o a[list] \in Seq(Row)
    BY <1>4, <2>1, ConcatProperties
  <2> QED BY <1>4, <2>2, <2>3
<1>6. CASE list < N
  <2>1. list' = list + 1 /\ pc' = "receive" /\ UNCHANGED <<at, again>>
    BY <1>6 DEF Received
  <2>2. SoFar(rows, lossy)' = SoFar(rows, lossy) /\ Total(rows, lossy)'
    BY <2>1, SameRound
  <2>3. \A i \in 1..Len(nodes) : i > at => Knows(i, rows)'
    <3>1. \A i \in 1..Len(nodes) : i > at => i # at
      BY <1>2
    <3> QED BY <1>1, <2>1, <3>1, OthersKnown
  <2>4. list' - 1 = list /\ list' > 1
    BY <1>3, <2>1
  <2>5. MayAnswer(nodes[at], rows)' = MayAnswer(nodes[at], rows)
    BY <1>2, <2>1, SameRound
  <2>6. Midway(rows, lossy)'
    BY <1>5, <2>1, <2>2, <2>4, <2>5 DEF Midway
  <2>7. Gathers(rows, lossy)'
    BY <2>1, <2>2, <2>3, <2>6 DEF Gathers, Tells, Reads, Made
  <2> QED BY <2>7
<1>7. CASE ~ (list < N)
  <2>1. list = N /\ Len(a) = N /\ N \in 0..N
    BY <1>3, <1>7
  <2>2. lists' \in SoFar(rows, lossy)[at]
    <3>1. lists' = Adding(L, a, Len(a))
      BY <1>5, <2>1
    <3>2. Adding(L, a, Len(a)) \in SoFar(rows, lossy)[at]
      BY <1>1, NextSoFar
    <3> QED BY <3>1, <3>2
  <2>3. Owes(conns'[nodes[at]], Streams[0], query, again)
    <3>1. Owed(a, N, list) = <<>>
      <4> HIDE DEF N
      <4> QED BY <1>3, <2>1, ListsAreOwed
    <3> QED BY <3>1, StreamsFollow
  <2>4. ~ (list < NbOfLists(query))
    BY <1>7
  <2> HIDE DEF N
  <2> QED BY <1>5, <2>2, <2>3, <2>4, NodeDone
<1> QED BY <1>6, <1>7

\* A message is read: what the node may have answered with goes on.
LEMMA NowMidway ==
    ASSUME IInv, Receiving, up[nodes[at]] # <<>>, NEW rows \in Seq(Row), NEW lossy, Reads(rows, lossy)
    PROVE  \E L \in SoFar(rows, lossy)[at - 1] : \E a \in MayAnswer(nodes[at], rows) :
              /\ lists = Adding(L, a, list - 1)
              /\ \/ pc = "receive" /\ Owes(conns[nodes[at]], {Owed(a, NbOfLists(query), list - 1)}, query, again)
                 \/ /\ pc = "rows" /\ a[list] # <<>>
                    /\ Owes(conns[nodes[at]], {Then(ThoseOf(a[list]), Owed(a, NbOfLists(query), list))}, query, again)
<1>1. asked > 0
  BY ReadingAsked
<1>2. at \in 1..Len(nodes) /\ nodes[at] \in Node
  BY <1>1, NodeAt
<1>3. ~ Lost
  BY DEF Lost, Silent
<1>4. CASE Midway(rows, lossy)
  BY <1>4 DEF Midway
<1>5. CASE pc = "receive" /\ list = 1 /\ lists \in SoFar(rows, lossy)[at - 1] /\ Knows(at, rows)
  <2>1. PICK a \in MayAnswer(nodes[at], rows) : Owes(conns[nodes[at]], {AnswerMessages(a)}, query, again)
    <3>1. conns[nodes[at]].up # <<>>
      BY <1>2, ConnsOf
    <3> QED BY <1>5, <3>1 DEF Knows, ToldThis, Waits, Answered
  <2>2. lists \in [1..4 -> Seq(Row)]
    BY <1>1 DEF IInv, Place
  <2>3. Owed(a, NbOfLists(query), 0) = AnswerMessages(a)
    <3> DEFINE N == NbOfLists(query)
    <3>1. N \in Nat /\ 0 \in 0..N /\ a \in [1..N -> Seq(Row)]
      <4>1. query \in Queries /\ a \in [1..N -> Seq(Row)]
        BY <1>2, AnswersOfNode DEF IInv, Place
      <4> QED BY <4>1, ListsOfQuery
    <3> HIDE DEF N
    <3>2. Owed(a, N, 0) = AnswerMessages(a)
      BY <3>1, ListsAreOwed
    <3> QED BY <3>2 DEF N
  <2>4. list - 1 = 0
    BY <1>5
  <2> QED BY <1>5, <2>1, <2>2, <2>3, <2>4, AddingNone
<1> QED BY <1>3, <1>4, <1>5 DEF Reads

\* A size or the rows of a list are read.
LEMMA ReadGathers ==
    ASSUME IInv, ReceiveSize \/ ReceiveRows, NEW rows \in Seq(Row), NEW lossy, Gathers(rows, lossy)
    PROVE  \E some \in Seq(Row) : Gathers(some, lossy)'
<1> DEFINE n == nodes[at]
           c == conns[n]
           d == conns'[n]
           N == NbOfLists(query)
<1>1. /\ Receiving /\ UNCHANGED <<query, all, owner, nodes, state, down, sending>>
      /\ up[n] # <<>> /\ up' = [up EXCEPT ![n] = Tail(up[n])]
  BY DEF ReceiveSize, ReceiveRows, Receiving
<1>2. asked > 0
  BY <1>1, ReadingAsked
<1>3. n \in Node /\ at \in 1..Len(nodes) /\ up \in [Node -> Seq(Msg)] /\ down \in [Node -> Seq(Msg)]
  BY <1>2, NodeAt DEF IInv, Shapes
<1>4. up'[n] = Tail(up[n]) /\ \A m \in Node : m # n => up'[m] = up[m]
  BY <1>1, <1>3
<1>5. /\ c.state = state[n] /\ c.up = up[n] /\ c.down = down[n] /\ c.sending = sending[n]
      /\ d.state = state[n] /\ d.up = Tail(up[n]) /\ d.down = down[n] /\ d.sending = sending[n]
  BY <1>1, <1>3, <1>4 DEF conns
<1>6. IsConn(c) /\ \A m \in Node \ {n} : conns'[m] = conns[m]
  BY <1>1, <1>3, <1>4, <1>5 DEF conns, IsConn
<1>7. PICK L \in SoFar(rows, lossy)[at - 1], a \in MayAnswer(n, rows) :
         /\ lists = Adding(L, a, list - 1)
         /\ \/ pc = "receive" /\ Owes(c, {Owed(a, N, list - 1)}, query, again)
            \/ pc = "rows" /\ a[list] # <<>> /\ Owes(c, {Then(ThoseOf(a[list]), Owed(a, N, list))}, query, again)
  <2>1. Reads(rows, lossy)
    BY DEF Gathers
  <2> QED BY <1>1, <2>1, NowMidway
<1>8. /\ N \in Nat /\ a \in [1..N -> Seq(Row)] /\ list \in 1..N /\ list - 1 \in 0..N /\ list \in 0..N
      /\ list - 1 < N /\ (list - 1) + 1 = list /\ a[list] \in Seq(Row)
  <2>1. query \in Queries /\ a \in [1..N -> Seq(Row)]
    BY <1>3, AnswersOfNode DEF IInv, Place
  <2>2. N \in Nat /\ list \in 1..N
    BY <2>1, ListsOfQuery DEF IInv, Place
  <2> QED BY <2>1, <2>2
<1>9. Total(rows, lossy) /\ \A i \in 1..Len(nodes) : i > at => Knows(i, rows)
  BY <1>1 DEF Gathers, Reads
<1>10. /\ Owed(a, N, list - 1) \in Seq(Msg) /\ Owed(a, N, list) \in Seq(Msg)
       /\ Owed(a, N, list - 1) = Messages(a[list]) \o Owed(a, N, list)
  <2> DEFINE k == list - 1
  <2>1. k \in 0..N /\ k < N /\ k + 1 = list /\ N \in Nat /\ a \in [1..N -> Seq(Row)]
    BY <1>8
  <2> HIDE DEF k, N
  <2>2. /\ Owed(a, N, k) \in Seq(Msg) /\ Owed(a, N, k + 1) \in Seq(Msg)
        /\ Owed(a, N, k) = Messages(a[k + 1]) \o Owed(a, N, k + 1)
    BY <2>1, ListsAreOwed
  <2> QED BY <2>1, <2>2 DEF k
<1>11. ASSUME Received(a[list]), IsConn(d), Owes(d, {Owed(a, N, list)}, query, again)
       PROVE  \E some \in Seq(Row) : Gathers(some, lossy)'
  BY <1>1, <1>6, <1>7, <1>9, <1>11, ReceivedGathers
<1>12. ASSUME NEW s \in Seq(Msg), Owes(c, {s}, query, again)
       PROVE  /\ IsConn(d) /\ Head(s) = Head(up[n])
              /\ \A t \in Seq(Msg) : Tail(s) = t => Owes(d, {t}, query, again)
  <2> HIDE DEF c, d
  <2>1. /\ IsConn(d)
        /\ \E x \in {s} : Head(x) = Head(c.up) /\ \A U \in SUBSET Seq(Msg) : Tail(x) \in U => Owes(d, U, query, again)
    <3>1. {s} \in SUBSET Seq(Msg) /\ c.up # <<>>
      BY <1>1, <1>5
    <3> QED BY <1>5, <1>6, <1>12, <3>1, OwesTheRest
  <2>2. \A t \in Seq(Msg) : Tail(s) = t => Owes(d, {t}, query, again)
    <3> SUFFICES ASSUME NEW t \in Seq(Msg), Tail(s) = t PROVE Owes(d, {t}, query, again)
      OBVIOUS
    <3>1. {t} \in SUBSET Seq(Msg) /\ Tail(s) \in {t}
      OBVIOUS
    <3> QED BY <2>1, <3>1
  <2> QED BY <1>5, <2>1, <2>2
<1>13. CASE ReceiveRows
  <2>1. pc = "rows" /\ Received(Head(up[n]).rows)
    BY <1>13 DEF ReceiveRows
  <2> DEFINE m == ThoseOf(a[list])
             t == Owed(a, N, list)
  <2>2. m \in Msg /\ m.rows = a[list] /\ t \in Seq(Msg) /\ Owes(c, {Then(m, t)}, query, again)
    BY <1>7, <1>8, <1>10, <2>1, MessagesOfList
  <2> HIDE DEF m, t, c, d
  <2>3. Then(m, t) \in Seq(Msg) /\ Head(Then(m, t)) = m /\ Tail(Then(m, t)) = t
    BY <2>2, FirstMessage
  <2>4. IsConn(d) /\ Head(up[n]) = m /\ Owes(d, {t}, query, again)
    BY <1>12, <2>2, <2>3
  <2> QED BY <1>11, <2>1, <2>2, <2>4 DEF t
<1>14. CASE ReceiveSize
  <2>1. /\ pc = "receive"
        /\ IF Head(up[n]).size = 0 THEN Received(<<>>)
           ELSE pc' = "rows" /\ UNCHANGED <<at, list, again, out, lists>>
    BY <1>14 DEF ReceiveSize
  <2> DEFINE u == Messages(a[list])
             t == Owed(a, N, list)
             s == Owed(a, N, list - 1)
  <2>2. /\ u \in Seq(Msg) /\ u # <<>> /\ Head(u) = SizeOf(Len(a[list])) /\ SizeOf(Len(a[list])).size = Len(a[list])
        /\ a[list] # <<>> <=> Len(a[list]) > 0
        /\ Len(a[list]) \in Nat
        /\ a[list] = <<>> => Tail(u) = <<>>
        /\ a[list] # <<>> => Tail(u) = <<ThoseOf(a[list])>>
    BY <1>8, MessagesOf, MessagesOfList
  <2>3. s = u \o t /\ s \in Seq(Msg) /\ t \in Seq(Msg) /\ Owes(c, {s}, query, again)
    BY <1>7, <1>10, <2>1
  <2> HIDE DEF u, t, s, c, d
  <2>4. Head(s) = Head(u) /\ Tail(s) = Tail(u) \o t
    BY <2>2, <2>3, HeadOfConcat
  <2>5. /\ IsConn(d) /\ Head(s) = Head(up[n])
        /\ \A x \in Seq(Msg) : Tail(s) = x => Owes(d, {x}, query, again)
    BY <1>12, <2>3
  <2>6. Head(up[n]).size = Len(a[list])
    BY <2>2, <2>4, <2>5
  <2>7. CASE a[list] = <<>>
    <3>1. Tail(s) = t
      BY <2>2, <2>3, <2>4, <2>7, HeadOfConcat
    <3>2. Received(a[list])
      BY <2>1, <2>2, <2>6, <2>7
    <3> QED BY <1>11, <2>3, <2>5, <3>1, <3>2 DEF t
  <2>8. CASE a[list] # <<>>
    <3>1. Tail(s) = Then(ThoseOf(a[list]), t)
      BY <2>2, <2>4, <2>8 DEF Then
    <3>2. Then(ThoseOf(a[list]), t) \in Seq(Msg)
      BY <1>8, <2>3, MessagesOfList, FirstMessage
    <3>3. Owes(d, {Then(ThoseOf(a[list]), Owed(a, N, list))}, query, again)
      BY <2>5, <3>1, <3>2 DEF t
    <3>4. pc' = "rows" /\ UNCHANGED <<at, list, again, out, lists>>
      BY <2>1, <2>2, <2>6, <2>8
    <3>5. SoFar(rows, lossy)' = SoFar(rows, lossy) /\ Total(rows, lossy)'
          /\ MayAnswer(n, rows)' = MayAnswer(n, rows)
      BY <1>1, <1>3, <1>9, <3>4, SameRound
    <3>6. Midway(rows, lossy)'
      BY <1>1, <1>7, <2>8, <3>3, <3>4, <3>5 DEF Midway, d
    <3>7. \A i \in 1..Len(nodes) : i > at => Knows(i, rows)'
      <4>1. \A i \in 1..Len(nodes) : i > at => i # at
        BY <1>3
      <4> QED BY <1>1, <1>2, <1>6, <1>9, <3>4, <4>1, OthersKnown
    <3>8. Gathers(rows, lossy)'
      BY <1>1, <3>4, <3>5, <3>6, <3>7 DEF Gathers, Tells, Reads, Made
    <3> QED BY <3>8
  <2> QED BY <2>7, <2>8
<1> QED BY <1>13, <1>14

\* An error is read for the size of a node's first list: nothing has been read from it.
LEMMA ErrorGathers ==
    ASSUME IInv, Errors, ReceiveError, NEW rows \in Seq(Row), Gathers(rows, TRUE)
    PROVE  /\ \E some \in Seq(Row) : Gathers(some, TRUE)'
           /\ NbOfLists(query) > 1 => Receiving' /\ Lost'
<1>1. /\ Receiving /\ Silent /\ nodes[at] \in reset /\ reset' = reset \ {nodes[at]}
      /\ UNCHANGED <<query, all, owner, nodes, state, up, down, sending>>
  BY DEF ReceiveError, Receiving
<1>2. asked > 0 /\ conns' = conns
  BY <1>1, ReadingAsked DEF conns
<1>3. at \in 1..Len(nodes) /\ nodes[at] \in Node /\ lists \in [1..4 -> Seq(Row)]
  BY <1>2, NodeAt DEF IInv, Place
<1>4. pc = "receive" /\ list = 1 /\ size = 0
  <2>1. ~ (pc = "rows" \/ list > 1) /\ list \in Nat \ {0}
    BY <1>1, NetworkAssumption, ListsOfQuery DEF Errors, IInv, Place, Shapes
  <2> QED BY <1>1, <2>1 DEF Errors, Receiving
<1>5. Received(<<>>)
  <2>1. Unread(0) = <<>>
    BY DEF Unread
  <2>2. ~ (size > 0)
    BY <1>4
  <2> QED BY <1>4, <2>1, <2>2 DEF ReceiveError
<1>6. lists' = lists
  <2>1. lists' = [lists EXCEPT ![1] = lists[1] \o <<>>]
    BY <1>4, <1>5 DEF Received
  <2>2. lists[1] \o <<>> = lists[1]
    BY <1>3, ConcatEmptySeq
  <2> QED BY <1>3, <2>1, <2>2
<1>7. /\ lists \in SoFar(rows, TRUE)[at - 1] /\ Total(rows, TRUE)
      /\ \A i \in 1..Len(nodes) : i > at => Knows(i, rows)
  <2>1. ~ Lost
    BY <1>1 DEF Lost
  <2>2. ~ Midway(rows, TRUE)
    BY <1>4 DEF Midway
  <2> QED BY <1>1, <2>1, <2>2 DEF Gathers, Reads
<1>8. CASE NbOfLists(query) > 1
  <2>1. list' = 2 /\ pc' = "receive" /\ UNCHANGED <<at, again>>
    BY <1>4, <1>5, <1>8 DEF Received
  <2>2. Lost' /\ Receiving'
    BY <1>1, <2>1 DEF Lost, Silent, Receiving
  <2>3. Total(rows, TRUE)'
    BY <1>1, <1>7, <2>1, SameRound
  <2>4. \A i \in 1..Len(nodes) : i > at => Knows(i, rows)'
    <3>1. \A i \in 1..Len(nodes) : i > at => i # at
      BY <1>3
    <3> QED BY <1>1, <1>2, <1>7, <2>1, <3>1, OthersKnown
  <2>5. Gathers(rows, TRUE)'
    BY <1>1, <2>1, <2>2, <2>3, <2>4 DEF Gathers, Tells, Reads, Made
  <2> QED BY <2>2, <2>5
<1>9. CASE ~ (NbOfLists(query) > 1)
  <2>1. ~ (list < NbOfLists(query))
    BY <1>4, <1>9
  <2>2. lists' \in SoFar(rows, TRUE)[at] /\ lists' \in [1..4 -> Seq(Row)]
    BY <1>2, <1>3, <1>6, <1>7, NextSoFar
  <2>3. Owes(conns'[nodes[at]], Streams[0], query, again)
    <3>1. Streams[0] \in SUBSET Seq(Msg) /\ Streams[0] # {}
      BY StreamsFollow
    <3> QED BY <1>1, <1>2, <3>1, SilentOwes DEF Receiving
  <2>4. IsConn(conns'[nodes[at]])
    BY <1>2, <1>3, ConnsOf DEF IsConn, IInv, Shapes
  <2>5. \E some \in Seq(Row) : Gathers(some, TRUE)'
    BY <1>1, <1>2, <1>5, <1>7, <2>1, <2>2, <2>3, <2>4, NodeDone
  <2> QED BY <1>9, <2>5
<1> QED BY <1>8, <1>9

\* With several lists the master does not go on after an error.
Doomed == spoilt /\ NbOfLists(query) > 1 /\ pc # "gone" => Receiving /\ Lost

GatheringInv == IInv /\ Errors /\ owner \in Dealings(all) /\ AsGathered /\ Doomed

\* A step of a node keeps the invariant, if the master is there or not.
LEMMA NodeGathering ==
    ASSUME GatheringInv, NEW n \in Node, NodeStep(n) \/ DieNode(n)
    PROVE  GatheringInv'
<1>1. IInv' /\ Errors'
  BY NodeInvariant, NodeErrors DEF GatheringInv
<1>2. UNCHANGED <<query, all, owner, pc, asked, spoilt, at>>
  BY DEF NodeStep, Connect, ReceiveQuery, Crash, ReceiveList, SendList, EndOfMaster, DieNode,
         NodeUnchanged, master
<1>3. owner' \in Dealings(all')
  BY <1>2 DEF GatheringInv
<1>4. CASE pc = "gone" \/ ~ (asked > 0)
  <2>1. AsGathered'
    BY <1>2, <1>4 DEF AsGathered
  <2>2. ~ (asked > 0) => pc \notin {"receive", "rows"}
    BY DEF GatheringInv, IInv, Connected, Shapes
  <2>3. Doomed'
    <3>1. ~ (asked > 0) => ~ Receiving
      BY <2>2 DEF Receiving
    <3> QED BY <1>2, <1>4, <3>1 DEF Doomed, GatheringInv
  <2> QED BY <1>1, <1>3, <2>1, <2>3 DEF GatheringInv
<1>5. CASE pc # "gone" /\ asked > 0
  <2>1. NodeGoesOn(n) /\ UNCHANGED <<query, all, owner, master>>
    <3>1. ~ Connect(n)
      BY <1>5 DEF GatheringInv, IInv, Connected, Connect
    <3>2. ~ EndOfMaster(n)
      BY <1>5 DEF EndOfMaster
    <3> QED BY <1>5, <3>1, <3>2
            DEF NodeStep, NodeGoesOn, ReceiveQuery, Crash, ReceiveList, SendList, DieNode, NodeUnchanged
  <2>2. AsGathered'
    <3> SUFFICES ASSUME NEW lossy \in BOOLEAN, spoilt => lossy
                 PROVE  \E rows \in Seq(Row) : Gathers(rows, lossy)'
      BY <1>2 DEF AsGathered
    <3>1. PICK rows \in Seq(Row) : Gathers(rows, lossy)
      BY <1>5 DEF GatheringInv, AsGathered
    <3>2. Gathers(rows, lossy)'
      BY <1>5, <2>1, <3>1, NodeGathers DEF GatheringInv
    <3> QED BY <3>2
  <2>3. Doomed'
    <3>1. UNCHANGED <<nodes, at>>
      BY <2>1 DEF master
    <3>2. Lost => Lost'
      BY <1>5, <2>1, <3>1, LostStays DEF GatheringInv
    <3> QED BY <1>2, <3>2 DEF GatheringInv, Doomed, Receiving
  <2> QED BY <1>1, <1>3, <2>2, <2>3 DEF GatheringInv
<1> QED BY <1>4, <1>5

\* A step of the master keeps it.
LEMMA MasterGathering ==
    ASSUME GatheringInv, MasterStep \/ DieMaster
    PROVE  GatheringInv'
<1>1. IInv' /\ Errors'
  BY MasterInvariant, MasterErrors DEF GatheringInv
<1>2. UNCHANGED <<query, all, owner>> /\ pc # "gone"
  BY DEF MasterStep, Listen, Ask, Send, SendNowhere, BrokenPipe, ReceiveSize, ReceiveRows, ReceiveError,
         EndOfNode, Finish, Stop, DieMaster, MasterGone
<1>3. owner' \in Dealings(all')
  BY <1>2 DEF GatheringInv
<1>4. CASE pc' = "gone"
  BY <1>1, <1>3, <1>4 DEF GatheringInv, AsGathered, Doomed
<1>5. CASE Listen
  <2>1. pc = "start" /\ asked' = asked /\ spoilt' = spoilt /\ asked = 0
    BY <1>5 DEF Listen, GatheringInv, IInv, Connected
  <2>2. AsGathered'
    BY <2>1 DEF AsGathered
  <2>3. Doomed'
    BY <1>2, <2>1 DEF GatheringInv, Doomed, Receiving
  <2> QED BY <1>1, <1>3, <2>2, <2>3 DEF GatheringInv
<1>6. CASE Ask
  <2>1. pc' = "send" /\ again' = FALSE /\ spoilt' = FALSE /\ at' = 1
    BY <1>6 DEF Ask, Tell
  <2>2. ASSUME NEW lossy PROVE Gathers(<<>>, lossy)'
    <3>1. Total(<<>>, lossy)'
      BY <2>1 DEF Total
    <3>2. Tells(<<>>)'
      <4>1. \A i \in 1..Len(nodes') : ~ (i < 1)
        OBVIOUS
      <4> QED BY <2>1, <4>1 DEF Tells, Expects
    <3>3. Reads(<<>>, lossy)' /\ Made(<<>>, lossy)'
      BY <2>1 DEF Reads, Made, Receiving
    <3> QED BY <3>1, <3>2, <3>3 DEF Gathers
  <2>3. AsGathered'
    <3>1. <<>> \in Seq(Row)
      BY EmptySeq
    <3>2. \A lossy \in BOOLEAN : \E rows \in Seq(Row) : Gathers(rows, lossy)'
      BY <2>2, <3>1
    <3> QED BY <3>2 DEF AsGathered
  <2> QED BY <1>1, <1>3, <2>1, <2>3 DEF GatheringInv, Doomed
<1>7. ASSUME asked > 0, spoilt' = spoilt,
             \A lossy \in BOOLEAN, rows \in Seq(Row) :
                Gathers(rows, lossy) => \E some \in Seq(Row) : Gathers(some, lossy)'
      PROVE  AsGathered'
  <2> SUFFICES ASSUME NEW lossy \in BOOLEAN, spoilt => lossy
               PROVE  \E rows \in Seq(Row) : Gathers(rows, lossy)'
    BY <1>7 DEF AsGathered
  <2>1. PICK rows \in Seq(Row) : Gathers(rows, lossy)
    BY <1>2, <1>7 DEF GatheringInv, AsGathered
  <2> QED BY <1>7, <2>1
<1>8. ASSUME ~ Receiving \/ ~ Lost, spoilt' = spoilt PROVE Doomed'
  BY <1>2, <1>8 DEF GatheringInv, Doomed
<1>9. CASE Send \/ SendNowhere
  <2>1. pc = "send" /\ asked > 0 /\ spoilt' = spoilt
    <3>1. pc = "send" /\ spoilt' = spoilt
      BY <1>9 DEF Send, SendNowhere
    <3> QED BY <1>9, <3>1, SendMoves DEF GatheringInv
  <2>2. AsGathered'
    <3>1. \A lossy \in BOOLEAN, rows \in Seq(Row) :
             Gathers(rows, lossy) => \E some \in Seq(Row) : Gathers(some, lossy)'
      BY <1>9, SendGathers DEF GatheringInv
    <3> QED BY <1>7, <2>1, <3>1
  <2>3. Doomed'
    BY <1>8, <2>1 DEF Receiving
  <2> QED BY <1>1, <1>3, <2>2, <2>3 DEF GatheringInv
<1>10. CASE ReceiveSize \/ ReceiveRows
  <2>1. Receiving /\ spoilt' = spoilt /\ ~ Lost
    BY <1>10 DEF ReceiveSize, ReceiveRows, Receiving, Lost, Silent
  <2>2. asked > 0
    BY <2>1, ReadingAsked DEF GatheringInv
  <2>3. AsGathered'
    <3>1. \A lossy \in BOOLEAN, rows \in Seq(Row) :
             Gathers(rows, lossy) => \E some \in Seq(Row) : Gathers(some, lossy)'
      BY <1>10, ReadGathers DEF GatheringInv
    <3> QED BY <1>7, <2>1, <2>2, <3>1
  <2>4. Doomed'
    BY <1>8, <2>1
  <2> QED BY <1>1, <1>3, <2>3, <2>4 DEF GatheringInv
<1>11. CASE ReceiveError
  <2>1. Receiving /\ spoilt' = TRUE
    BY <1>11 DEF ReceiveError, Receiving
  <2>2. asked > 0
    BY <2>1, ReadingAsked DEF GatheringInv
  <2>3. PICK rows \in Seq(Row) : Gathers(rows, TRUE)
    BY <1>2, <2>2 DEF GatheringInv, AsGathered
  <2>4. /\ \E some \in Seq(Row) : Gathers(some, TRUE)'
        /\ NbOfLists(query) > 1 => Receiving' /\ Lost'
    BY <1>11, <2>3, ErrorGathers DEF GatheringInv
  <2>5. AsGathered'
    <3> SUFFICES ASSUME NEW lossy \in BOOLEAN, lossy
                 PROVE  \E some \in Seq(Row) : Gathers(some, lossy)'
      BY <2>1 DEF AsGathered
    <3>1. lossy = TRUE
      OBVIOUS
    <3> QED BY <2>4, <3>1
  <2>6. Doomed'
    BY <1>2, <2>4 DEF Doomed
  <2> QED BY <1>1, <1>3, <2>5, <2>6 DEF GatheringInv
<1>12. CASE Finish
  <2>1. /\ pc = "combine" /\ pc' = "idle" /\ results' \in Combine(query, lists)
        /\ UNCHANGED <<nodes, again, lists, asked, spoilt>>
    BY <1>12 DEF Finish
  <2>2. asked > 0
    BY <2>1 DEF GatheringInv, IInv, Connected, Shapes
  <2>3. ASSUME NEW lossy \in BOOLEAN, NEW rows \in Seq(Row), Gathers(rows, lossy)
        PROVE  Gathers(rows, lossy)'
    <3>1. SoFar(rows, lossy)' = SoFar(rows, lossy) /\ (Total(rows, lossy)' <=> Total(rows, lossy))
      BY <1>2, <2>1, SameRound
    <3> QED BY <1>2, <2>1, <2>3, <3>1 DEF Gathers, Made, Tells, Reads, Receiving
  <2>4. AsGathered'
    BY <1>7, <2>1, <2>2, <2>3
  <2>5. Doomed'
    BY <1>8, <2>1 DEF Receiving
  <2> QED BY <1>1, <1>3, <2>4, <2>5 DEF GatheringInv
<1> QED BY <1>4, <1>5, <1>6, <1>9, <1>10, <1>11, <1>12
        DEF MasterStep, BrokenPipe, EndOfNode, Stop, DieMaster, MasterGone

\* What has been made is made of what all nodes have answered.
LEMMA MadeOfAll ==
    ASSUME GatheringInv, Finished, NEW lossy \in BOOLEAN, spoilt => lossy
    PROVE  \E L \in AllGathered(query, all, owner, nodes, lossy) : results \in Combine(query, L)
<1>1. PICK rows \in Seq(Row) : Gathers(rows, lossy)
  BY DEF GatheringInv, AsGathered, Finished
<1>2. results \in Combine(query, lists) /\ lists \in SoFar(rows, lossy)[Len(nodes)]
  BY <1>1 DEF Gathers, Made, Finished
<1>3. /\ query \in Again <=> again
      /\ again => \E L \in Firsts(lossy) : rows = L[1]
  BY <1>1 DEF GatheringInv, IInv, Place, Finished, Gathers, Total
<1>4. lists \in AllGathered(query, all, owner, nodes, lossy)
  <2>1. CASE query \notin Again
    <3>1. [n \in Node |-> MayAnswer(n, rows)] = FirstAnswers(query, all, owner)
      BY <1>3, <2>1 DEF MayAnswer, FirstAnswers, db
    <3> QED BY <1>2, <2>1, <3>1 DEF SoFar, AllGathered
  <2>2. CASE query \in Again
    <3>1. PICK L \in Firsts(lossy) : rows = L[1]
      BY <1>3, <2>2
    <3>2. [n \in Node |-> MayAnswer(n, rows)] = NextAnswers(query, all, owner, L[1])
      BY <1>3, <2>2, <3>1 DEF MayAnswer, NextAnswers, db
    <3>3. lists \in Gathered(NextAnswers(query, all, owner, L[1]), nodes, lossy)[Len(nodes)]
      BY <1>2, <3>2 DEF SoFar
    <3>4. L \in Gathered(FirstAnswers(query, all, owner), nodes, lossy)[Len(nodes)]
      BY <3>1 DEF Firsts
    <3> QED BY <2>2, <3>3, <3>4 DEF AllGathered
  <2> QED BY <2>1, <2>2
<1> QED BY <1>2, <1>4

\* The nodes have connected in some order.
LEMMA InSomeOrder ==
    ASSUME IInv, Finished
    PROVE  nodes \in Orders
<1>1. Len(nodes) = Cardinality(Node) /\ nodes \in Seq(Node)
  BY NodeAt DEF Finished, IInv, Connected
<1>2. nodes \in [1..Cardinality(Node) -> Node] /\ DOMAIN nodes = 1..Len(nodes)
  BY <1>1
<1> QED BY <1>2 DEF Orders, IInv, Connected

\* What the master has of the nodes' answers is what it would have gathered of them in turn.
LEMMA GatheringInvariant == NetSpec => []GatheringInv
<1>1. ASSUME NetInit PROVE GatheringInv
  <2>1. IInv
    BY <1>1, NetInitInvariant
  <2>2. Errors /\ AsGathered /\ Doomed /\ owner \in Dealings(all)
    BY <1>1 DEF NetInit, Errors, Receiving, AsGathered, Doomed, Dealings
  <2> QED BY <2>1, <2>2 DEF GatheringInv
<1>2. ASSUME GatheringInv, UNCHANGED vars PROVE GatheringInv'
  <2>1. IInv'
    BY <1>2, StutterInvariant DEF GatheringInv
  <2>2. /\ UNCHANGED <<query, all, owner, pc, nodes, at, list, size, again, out, lists, results, asked>>
        /\ UNCHANGED <<reset, spoilt, state, sending, up, down>>
    BY <1>2 DEF vars, master
  <2>3. Errors' /\ owner' \in Dealings(all') /\ Doomed'
    BY <1>2, <2>2 DEF GatheringInv, Errors, Receiving, Doomed, Lost, Silent
  <2>4. conns' = conns
    BY <2>2 DEF conns
  <2>5. ASSUME NEW lossy \in BOOLEAN, NEW rows \in Seq(Row), Gathers(rows, lossy)
        PROVE  Gathers(rows, lossy)'
    <3>2. SoFar(rows, lossy)' = SoFar(rows, lossy) /\ (Total(rows, lossy)' <=> Total(rows, lossy))
      BY <2>2, SameRound
    <3>3. Tells(rows)' /\ Made(rows, lossy)'
      BY <2>2, <2>4, <2>5, <3>2 DEF Gathers, Tells, Made, Knows, MayAnswer, db
    <3>4. Reads(rows, lossy)'
      BY <2>2, <2>4, <2>5, <3>2
         DEF Gathers, Reads, Knows, MayAnswer, db, Midway, Lost, Silent, Receiving
    <3> QED BY <2>5, <3>2, <3>3, <3>4 DEF Gathers
  <2>6. AsGathered'
    BY <1>2, <2>2, <2>5 DEF GatheringInv, AsGathered
  <2> QED BY <2>1, <2>3, <2>6 DEF GatheringInv
<1>3. GatheringInv /\ [NetNext]_vars => GatheringInv'
  <2> SUFFICES ASSUME GatheringInv, [NetNext]_vars PROVE GatheringInv'
    OBVIOUS
  <2>1. CASE MasterStep \/ DieMaster
    BY <2>1, MasterGathering
  <2>2. ASSUME NEW n \in Node, NodeStep(n) \/ DieNode(n) PROVE GatheringInv'
    BY <2>2, NodeGathering
  <2>3. CASE UNCHANGED vars
    BY <1>2, <2>3
  <2> QED BY <2>1, <2>2, <2>3 DEF NetNext, Terminated
<1> QED BY <1>1, <1>3, PTL DEF NetSpec

\* Whether the answer is spoilt is known at any time.
LEMMA SpoiltOrNot == NetSpec => [](spoilt \in BOOLEAN)
<1>1. NetInit => spoilt \in BOOLEAN
  BY DEF NetInit
<1>2. spoilt \in BOOLEAN /\ [NetNext]_vars => (spoilt \in BOOLEAN)'
  <2> SUFFICES ASSUME spoilt \in BOOLEAN, [NetNext]_vars PROVE spoilt' \in BOOLEAN
    OBVIOUS
  <2>1. CASE MasterStep \/ DieMaster
    BY <2>1 DEF MasterStep, DieMaster, Listen, Ask, Send, SendNowhere, BrokenPipe, ReceiveSize, ReceiveRows,
                ReceiveError, EndOfNode, Finish, Stop
  <2>2. ASSUME NEW n \in Node, NodeStep(n) \/ DieNode(n) PROVE spoilt' = spoilt
    BY <2>2 DEF NodeStep, DieNode, Connect, ReceiveQuery, Crash, ReceiveList, SendList, EndOfMaster, NodeUnchanged
  <2>3. CASE UNCHANGED vars
    BY <2>3 DEF vars
  <2> QED BY <2>1, <2>2, <2>3 DEF NetNext, Terminated
<1> QED BY <1>1, <1>2, PTL DEF NetSpec

\* What the master prints is what it would have made of the nodes' lists one after the
\* other: no interleaving, capacity or death mixes lists, repeats one or drops one unseen.
THEOREM AnswersAreGathered == NetSpec => []GatheredInTurn
<1>1. GatheringInv /\ spoilt \in BOOLEAN => GatheredInTurn
  <2> SUFFICES ASSUME GatheringInv, Finished, spoilt \in BOOLEAN
               PROVE  \E L \in AllGathered(query, all, owner, nodes, spoilt) : results \in Combine(query, L)
    BY DEF GatheredInTurn
  <2> QED BY MadeOfAll
<1> QED BY <1>1, GatheringInvariant, SpoiltOrNot, PTL

-----------------------------------------------------------------------------
(* The queries that gather single rows *)

\* The list of a finite set has each of its elements once.
LEMMA ListOnce ==
    ASSUME NEW S, IsFiniteSet(S)
    PROVE  /\ List(S) \in Seq(S) /\ DOMAIN List(S) = 1..Cardinality(S)
           /\ Len(List(S)) = Cardinality(S) /\ AsSet(List(S)) = S
<1>1. Cardinality(S) \in Nat /\ ExistsBijection(1..Cardinality(S), S)
  BY FS_CardinalityType
<1>2. PICK f \in Bijection(1..Cardinality(S), S) : TRUE
  BY <1>1 DEF ExistsBijection
<1>3. f \in [1..Cardinality(S) -> S] /\ \A i, j \in DOMAIN f : f[i] = f[j] => i = j
  BY <1>2 DEF Bijection, Injection, IsInjective
<1>4. PICK s : s = List(S)
  OBVIOUS
<1>5. s \in [1..Cardinality(S) -> S] /\ \A i, j \in DOMAIN s : s[i] = s[j] => i = j
  <2> DEFINE Lists1 == [1..Cardinality(S) -> S]
             Once(g) == Seqs!IsInjective(g)
  <2>0. Seqs!Cardinality(S) = Cardinality(S)
    BY DEF Seqs!Cardinality, Cardinality
  <2>1. s = CHOOSE g \in Lists1 : Once(g)
    BY <1>4, <2>0 DEF List, Seqs!SetToSeq
  <2>2. \E g \in Lists1 : Once(g)
    BY <1>3 DEF Seqs!IsInjective
  <2> HIDE DEF Lists1, Once
  <2>3. s \in Lists1 /\ Once(s)
    BY <2>1, <2>2
  <2> QED BY <2>3 DEF Lists1, Once, Seqs!IsInjective
<1>6. s \in Seq(S) /\ Len(s) = Cardinality(S) /\ DOMAIN s = 1..Cardinality(S)
  BY <1>1, <1>5, FunctionIsSeq
<1>7. AsSet(s) = S
  <2>1. s \in Injection(1..Cardinality(S), S)
    BY <1>5 DEF Injection, IsInjective
  <2>2. Cardinality(1..Cardinality(S)) = Cardinality(S)
    <3>1. 1 \in Int /\ Cardinality(S) \in Int
      BY <1>1
    <3> QED BY <1>1, <3>1, FS_Interval
  <2>3. s \in Surjection(1..Cardinality(S), S)
    BY <2>1, <2>2, FS_Injection
  <2> QED BY <1>5, <2>3 DEF Surjection, AsSet, Seqs!ToSet
<1> QED BY <1>4, <1>6, <1>7

\* The nodes' rows that come before place i
Before(order, i, B) == UNION {B[order[j]] : j \in 1..i}

\* One more node comes after those before it.
LEMMA BeforeNext ==
    ASSUME NEW order, NEW i \in Nat, NEW B
    PROVE  /\ Before(order, 0, B) = {}
           /\ Before(order, i + 1, B) = Before(order, i, B) \cup B[order[i + 1]]
<1>1. 1..(i + 1) = (1..i) \cup {i + 1} /\ 1..0 = {}
  OBVIOUS
<1> QED BY <1>1 DEF Before

\* Each node answers with one list, of the rows in B and as many as C has elements.
OneListEach(answers, V, B, C) ==
    \A n \in Node : \A a \in answers[n] :
        /\ Len(a) = 1 /\ a[1] \in Seq(V) /\ AsSet(a[1]) = B[n]
        /\ IsFiniteSet(C[n]) /\ Len(a[1]) = Cardinality(C[n])

\* A concatenation has the elements of both.
LEMMA SetOfConcat ==
    ASSUME NEW V, NEW r \in Seq(V), NEW s \in Seq(V)
    PROVE  r \o s \in Seq(V) /\ AsSet(r \o s) = AsSet(r) \cup AsSet(s) /\ Len(r \o s) = Len(r) + Len(s)
<1>1. r \o s \in Seq(V) /\ Len(r \o s) = Len(r) + Len(s) /\ Len(r) \in Nat /\ Len(s) \in Nat
  OBVIOUS
<1>2. /\ \A i \in 1..Len(r) : (r \o s)[i] = r[i] /\ i \in 1..(Len(r) + Len(s))
      /\ \A i \in 1..Len(s) : (r \o s)[Len(r) + i] = s[i] /\ Len(r) + i \in 1..(Len(r) + Len(s))
  OBVIOUS
<1>3. ASSUME NEW i \in 1..(Len(r) + Len(s)) PROVE (r \o s)[i] \in AsSet(r) \cup AsSet(s)
  <2>1. CASE i <= Len(r)
    <3>1. i \in 1..Len(r)
      BY <2>1
    <3> QED BY <1>2, <3>1 DEF AsSet, Seqs!ToSet
  <2>2. CASE i > Len(r)
    <3>1. PICK j \in 1..Len(s) : i = Len(r) + j
      <4>1. i - Len(r) \in 1..Len(s) /\ i = Len(r) + (i - Len(r))
        BY <1>1, <2>2
      <4> QED BY <4>1
    <3> QED BY <1>2, <3>1 DEF AsSet, Seqs!ToSet
  <2> QED BY <1>1, <2>1, <2>2
<1>4. DOMAIN (r \o s) = 1..(Len(r) + Len(s)) /\ DOMAIN r = 1..Len(r) /\ DOMAIN s = 1..Len(s)
  BY <1>1
<1>5. AsSet(r \o s) \subseteq AsSet(r) \cup AsSet(s)
  <2>1. AsSet(r \o s) = {(r \o s)[i] : i \in 1..(Len(r) + Len(s))}
    BY <1>4 DEF AsSet, Seqs!ToSet
  <2> QED BY <1>3, <2>1
<1>6. AsSet(r) \cup AsSet(s) \subseteq AsSet(r \o s)
  BY <1>2, <1>4 DEF AsSet, Seqs!ToSet
<1> QED BY <1>1, <1>5, <1>6

\* Of an answer of one list, that list is added.
LEMMA AddingOne ==
    ASSUME NEW M, NEW a, Len(a) = 1
    PROVE  Adding(M, a, Len(a))[1] = M[1] \o a[1]
BY DEF Adding

\* What is gathered has the rows of the nodes so far and, if none is lost, all of them.
LEMMA RowsGathered ==
    ASSUME NEW answers, NEW V, NEW B, NEW C, OneListEach(answers, V, B, C),
           NEW order \in Seq(Node), NEW lossy \in BOOLEAN,
           NEW i \in 0..Len(order), NEW L \in Gathered(answers, order, lossy)[i]
    PROVE  /\ L[1] \in Seq(V) /\ AsSet(L[1]) \subseteq Before(order, i, B)
           /\ ~ lossy => AsSet(L[1]) = Before(order, i, B)
<1>0. Len(order) \in Nat
  OBVIOUS
<1>5. PICK g : g = Gathered(answers, order, lossy)
  OBVIOUS
<1>1. /\ g[0] = {NoLists}
      /\ \A k \in 1..Len(order) : g[k] = OneMore(g[k - 1], answers[order[k]], lossy)
  BY <1>0, <1>5, GatheredFollow
<1> DEFINE Has(M, k) == /\ M[1] \in Seq(V) /\ AsSet(M[1]) \subseteq Before(order, k, B)
                        /\ ~ lossy => AsSet(M[1]) = Before(order, k, B)
           Good == {k \in Nat : k <= Len(order) => \A M \in g[k] : Has(M, k)}
<1>2. 0 \in Good
  <2>1. NoLists[1] = <<>> /\ <<>> \in Seq(V) /\ AsSet(<<>>) = {}
    BY DEF NoLists, AsSet, Seqs!ToSet
  <2> QED BY <1>1, <2>1, BeforeNext
<1>3. ASSUME NEW k \in Nat, k \in Good PROVE k + 1 \in Good
  <2> SUFFICES ASSUME k + 1 <= Len(order), NEW N \in g[k + 1] PROVE Has(N, k + 1)
    BY <1>0
  <2>1. k + 1 \in 1..Len(order) /\ (k + 1) - 1 = k /\ k <= Len(order) /\ order[k + 1] \in Node
    BY <1>0
  <2>2. \A M \in g[k] : Has(M, k)
    BY <1>3, <2>1
  <2>3. Before(order, k + 1, B) = Before(order, k, B) \cup B[order[k + 1]]
    BY BeforeNext
  <2>4. N \in OneMore(g[k], answers[order[k + 1]], lossy)
    BY <1>1, <2>1
  <2>5. ASSUME NEW M \in g[k], NEW a \in answers[order[k + 1]], N = Adding(M, a, Len(a)) PROVE Has(N, k + 1)
    <3>1. Len(a) = 1 /\ a[1] \in Seq(V) /\ AsSet(a[1]) = B[order[k + 1]]
      BY <2>1, <2>5 DEF OneListEach
    <3>2. N[1] = M[1] \o a[1]
      BY <2>5, <3>1, AddingOne
    <3>3. N[1] \in Seq(V) /\ AsSet(N[1]) = AsSet(M[1]) \cup AsSet(a[1])
      BY <2>2, <3>1, <3>2, SetOfConcat
    <3> QED BY <2>2, <2>3, <3>1, <3>3
  <2>6. ASSUME lossy, N \in g[k] PROVE Has(N, k + 1)
    BY <2>2, <2>3, <2>6
  <2> HIDE DEF Has
  <2> QED BY <2>4, <2>5, <2>6 DEF OneMore
<1>4. i \in Good /\ i <= Len(order)
  <2>1. Nat \subseteq Good
    <3> HIDE DEF Good
    <3> QED BY <1>2, <1>3, SetInduction
  <2> QED BY <1>0, <2>1
<1> QED BY <1>4, <1>5

\* No node is taken twice, and no two have an element of C.
Apart(order, C) ==
    /\ \A j, k \in 1..Len(order) : order[j] = order[k] => j = k
    /\ \A n, m \in Node : n # m => C[n] \cap C[m] = {}

\* Their number is that of the elements of C, if no two nodes have one.
LEMMA NumberGathered ==
    ASSUME NEW answers, NEW V, NEW B, NEW C, OneListEach(answers, V, B, C),
           NEW order \in Seq(Node), NEW lossy \in BOOLEAN, Apart(order, C),
           NEW i \in 0..Len(order), NEW L \in Gathered(answers, order, lossy)[i]
    PROVE  ~ lossy => IsFiniteSet(Before(order, i, C)) /\ Len(L[1]) = Cardinality(Before(order, i, C))
<1>0. Len(order) \in Nat
  OBVIOUS
<1>5. PICK g : g = Gathered(answers, order, lossy)
  OBVIOUS
<1>1. /\ g[0] = {NoLists}
      /\ \A k \in 1..Len(order) : g[k] = OneMore(g[k - 1], answers[order[k]], lossy)
  BY <1>0, <1>5, GatheredFollow
<1> DEFINE Has(M, k) == M[1] \in Seq(V) /\ Len(M[1]) = Cardinality(Before(order, k, C))
           Good == {k \in Nat : k <= Len(order) /\ ~ lossy => \A M \in g[k] : IsFiniteSet(Before(order, k, C)) /\ Has(M, k)}
<1>2. 0 \in Good
  <2>1. NoLists[1] = <<>> /\ <<>> \in Seq(V) /\ Len(<<>>) = 0
    BY DEF NoLists
  <2>2. Before(order, 0, C) = {}
    BY BeforeNext
  <2> QED BY <1>1, <2>1, <2>2, FS_EmptySet
<1>3. ASSUME NEW k \in Nat, k \in Good PROVE k + 1 \in Good
  <2> SUFFICES ASSUME k + 1 <= Len(order), ~ lossy, NEW N \in g[k + 1]
               PROVE  IsFiniteSet(Before(order, k + 1, C)) /\ Has(N, k + 1)
    BY <1>0
  <2>1. k + 1 \in 1..Len(order) /\ (k + 1) - 1 = k /\ k <= Len(order) /\ order[k + 1] \in Node
    BY <1>0
  <2>2. \A M \in g[k] : IsFiniteSet(Before(order, k, C)) /\ Has(M, k)
    BY <1>3, <2>1
  <2>3. PICK M \in g[k], a \in answers[order[k + 1]] : N = Adding(M, a, Len(a))
    <3>1. N \in OneMore(g[k], answers[order[k + 1]], lossy)
      BY <1>1, <2>1
    <3> QED BY <3>1 DEF OneMore
  <2>4. /\ Len(a) = 1 /\ a[1] \in Seq(V) /\ IsFiniteSet(C[order[k + 1]])
        /\ Len(a[1]) = Cardinality(C[order[k + 1]])
    BY <2>1, <2>3 DEF OneListEach
  <2>5. N[1] = M[1] \o a[1]
    BY <2>3, <2>4, AddingOne
  <2>6. N[1] \in Seq(V) /\ Len(N[1]) = Len(M[1]) + Len(a[1])
    <3>1. PICK r \in Seq(V), t \in Seq(V) : r = M[1] /\ t = a[1]
      BY <2>2, <2>4
    <3>2. r \o t \in Seq(V) /\ Len(r \o t) = Len(r) + Len(t)
      BY SetOfConcat
    <3> QED BY <2>5, <3>1, <3>2
  <2>7. Before(order, k, C) \cap C[order[k + 1]] = {}
    <3>1. \A j \in 1..k : order[j] \in Node /\ order[j] # order[k + 1]
      BY <1>0, <2>1 DEF Apart
    <3> QED BY <2>1, <3>1 DEF Before, Apart
  <2> DEFINE S == Before(order, k, C)
             T == C[order[k + 1]]
  <2>8. Before(order, k + 1, C) = S \cup T
    BY BeforeNext
  <2>9. IsFiniteSet(S) /\ IsFiniteSet(T) /\ S \cap T = {}
        /\ Len(M[1]) = Cardinality(S) /\ Len(a[1]) = Cardinality(T)
    BY <2>2, <2>4, <2>7
  <2> HIDE DEF S, T
  <2>10. IsFiniteSet(S \cup T) /\ Cardinality(S \cup T) = Cardinality(S) + Cardinality(T)
    <3>1. Cardinality(S \cap T) = 0 /\ Cardinality(S) \in Nat /\ Cardinality(T) \in Nat
      BY <2>9, FS_EmptySet, FS_CardinalityType
    <3>2. /\ IsFiniteSet(S \cup T)
          /\ Cardinality(S \cup T) = Cardinality(S) + Cardinality(T) - Cardinality(S \cap T)
      BY <2>9, FS_Union
    <3> QED BY <3>1, <3>2
  <2> QED BY <2>6, <2>8, <2>9, <2>10
<1>4. i \in Good /\ i <= Len(order)
  <2>1. Nat \subseteq Good
    <3> HIDE DEF Good
    <3> QED BY <1>2, <1>3, SetInduction
  <2> QED BY <1>0, <2>1
<1> QED BY <1>4, <1>5

\* An order has every node once.
LEMMA OrderHasAll ==
    ASSUME NEW order \in Orders
    PROVE  /\ order \in Seq(Node) /\ Len(order) \in Nat
           /\ \A j, k \in 1..Len(order) : order[j] = order[k] => j = k
           /\ \A n \in Node : \E j \in 1..Len(order) : order[j] = n
<1>1. Cardinality(Node) \in Nat
  BY NetworkAssumption, FS_CardinalityType
<1>2. order \in [1..Cardinality(Node) -> Node] /\ \A i, j \in DOMAIN order : order[i] = order[j] => i = j
  BY DEF Orders
<1>3. order \in Seq(Node) /\ Len(order) = Cardinality(Node)
  BY <1>1, <1>2, FunctionIsSeq
<1>4. \A j, k \in 1..Len(order) : order[j] = order[k] => j = k
  BY <1>2, <1>3
<1>5. AsSet(order) = Node /\ AsSet(order) = {order[i] : i \in 1..Len(order)}
  BY <1>3, <1>4, EachOnce
<1> QED BY <1>1, <1>3, <1>4, <1>5

\* After all places come the rows of all nodes.
LEMMA BeforeIsAll ==
    ASSUME NEW order \in Orders, NEW B
    PROVE  Before(order, Len(order), B) = UNION {B[n] : n \in Node}
<1>1. /\ \A j \in 1..Len(order) : order[j] \in Node
      /\ \A n \in Node : \E j \in 1..Len(order) : order[j] = n
  BY OrderHasAll
<1>2. ASSUME NEW x \in Before(order, Len(order), B) PROVE x \in UNION {B[n] : n \in Node}
  BY <1>1 DEF Before
<1>3. ASSUME NEW n \in Node, NEW x \in B[n] PROVE x \in Before(order, Len(order), B)
  BY <1>1 DEF Before
<1> QED BY <1>2, <1>3

\* The rows of R that node n finds
At(R, to, n) == {r \in R : to[r[1]] = n}

\* Every node answers with one list: its rows of R, each once, as P shows them.
ListsItsOwn(answers, R, to, P, V) ==
    /\ IsFiniteSet(R) /\ P \in [R -> V] /\ \A r \in R : to[r[1]] \in Node
    /\ \A n \in Node : \A a \in answers[n] :
          /\ Len(a) = 1 /\ a[1] \in Seq(V)
          /\ AsSet(a[1]) = {P[r] : r \in At(R, to, n)} /\ Len(a[1]) = Cardinality(At(R, to, n))

\* Then the rows of all are gathered, each once.
LEMMA AllAreListed ==
    ASSUME NEW answers, NEW R, NEW to, NEW P, NEW V, ListsItsOwn(answers, R, to, P, V),
           NEW order \in Orders, NEW lossy \in BOOLEAN, NEW L \in Gathered(answers, order, lossy)[Len(order)]
    PROVE  /\ AsSet(L[1]) \subseteq {P[r] : r \in R}
           /\ ~ lossy => AsSet(L[1]) = {P[r] : r \in R} /\ Len(L[1]) = Cardinality(R)
<1>1. PICK B : B = [n \in Node |-> {P[r] : r \in At(R, to, n)}]
  OBVIOUS
<1>2. PICK C : C = [n \in Node |-> At(R, to, n)]
  OBVIOUS
<1>3. \A n \in Node : IsFiniteSet(C[n])
  <2>1. IsFiniteSet(R) /\ \A n \in Node : C[n] \in SUBSET R
    BY <1>2 DEF ListsItsOwn, At
  <2> QED BY <2>1, FS_Subset
<1>4. OneListEach(answers, V, B, C)
  BY <1>1, <1>2, <1>3 DEF OneListEach, ListsItsOwn
<1>5. Apart(order, C)
  <2>1. \A n, m \in Node : n # m => C[n] \cap C[m] = {}
    BY <1>2 DEF At
  <2> QED BY <2>1, OrderHasAll DEF Apart
<1>6. order \in Seq(Node) /\ Len(order) \in 0..Len(order)
  BY OrderHasAll
<1>7. UNION {C[n] : n \in Node} = R
  BY <1>2 DEF ListsItsOwn, At
<1>8. UNION {B[n] : n \in Node} = {P[r] : r \in R}
  BY <1>1 DEF ListsItsOwn, At
<1>9. /\ Before(order, Len(order), B) = {P[r] : r \in R}
      /\ Before(order, Len(order), C) = R
  BY <1>7, <1>8, BeforeIsAll
<1>10. PICK i \in 0..Len(order) : i = Len(order) /\ L \in Gathered(answers, order, lossy)[i]
  BY <1>6
<1>11. /\ AsSet(L[1]) \subseteq Before(order, i, B)
       /\ ~ lossy => AsSet(L[1]) = Before(order, i, B)
  BY <1>4, <1>6, <1>10, RowsGathered
<1>12. ~ lossy => Len(L[1]) = Cardinality(Before(order, i, C))
  BY <1>4, <1>5, <1>6, <1>10, NumberGathered
<1> QED BY <1>9, <1>10, <1>11, <1>12

\* The queries of one round and one list, which the master prints as it is
Plain == Queries \ ({"q15"} \cup Again \cup {"q02s1", "q09s1", "q11s1", "q12"})

\* What a plain query prints is the one list there is.
LEMMA PlainGathers ==
    ASSUME NEW q \in Plain, NEW store, NEW to, NEW order, NEW lossy
    PROVE  /\ AllGathered(q, store, to, order, lossy) =
                 Gathered(FirstAnswers(q, store, to), order, lossy)[Len(order)]
           /\ \A L : Combine(q, L) = {L[1]}
<1>1. q \notin {"q15"} \cup Again \cup {"q02s1", "q09s1", "q11s1", "q12"}
  BY DEF Plain
<1>2. \A L : Combine(q, L) = {L[1]}
  BY <1>1 DEF Combine
<1> QED BY <1>1, <1>2 DEF AllGathered

\* So a query is exact whose nodes list the solutions there are.
LEMMA PlainIsExact ==
    ASSUME NEW q \in Plain, NEW store, NEW to, NEW R, NEW P, NEW V,
           ListsItsOwn(FirstAnswers(q, store, to), R, to, P, V),
           {Right(q, P[r]) : r \in R} = {Right(q, row) : row \in Meaning(q, store)},
           Cardinality(R) = Cardinality(Meaning(q, store))
    PROVE  GathersExactly(q, store, to) /\ LosesOnly(q, store, to)
<1>1. ASSUME NEW lossy \in BOOLEAN, NEW order \in Orders, NEW L \in AllGathered(q, store, to, order, lossy),
             NEW rows \in Combine(q, L)
      PROVE  SolvesPartly(q, store, rows) /\ (~ lossy => Solves(q, store, rows))
  <2>1. rows = L[1] /\ L \in Gathered(FirstAnswers(q, store, to), order, lossy)[Len(order)]
    BY <1>1, PlainGathers
  <2>2. /\ AsSet(rows) \subseteq {P[r] : r \in R}
        /\ ~ lossy => AsSet(rows) = {P[r] : r \in R} /\ Len(rows) = Cardinality(R)
    BY <2>1, AllAreListed
  <2>3. {Right(q, row) : row \in {P[r] : r \in R}} = {Right(q, P[r]) : r \in R}
    OBVIOUS
  <2> QED BY <2>2, <2>3 DEF Solves, SolvesPartly
<1>2. GathersExactly(q, store, to)
  <2>1. PICK lossy \in BOOLEAN : lossy = FALSE
    OBVIOUS
  <2>2. \A order \in Orders : \A L \in AllGathered(q, store, to, order, lossy) :
           \A rows \in Combine(q, L) : Solves(q, store, rows)
    BY <1>1, <2>1
  <2> QED BY <2>1, <2>2 DEF GathersExactly
<1>3. LosesOnly(q, store, to)
  <2>1. PICK lossy \in BOOLEAN : lossy = TRUE
    OBVIOUS
  <2>2. \A order \in Orders : \A L \in AllGathered(q, store, to, order, lossy) :
           \A rows \in Combine(q, L) : SolvesPartly(q, store, rows)
    BY <1>1, <2>1
  <2> QED BY <2>1, <2>2 DEF LosesOnly
<1> QED BY <1>2, <1>3

\* What there is of a store that has been dealt out
LEMMA DealtStore ==
    ASSUME NEW q \in DOMAIN Stored, NEW store \in Stored[q], NEW to \in Dealings(store)
    PROVE  /\ IsFiniteSet(store) /\ \A t \in store : t = <<t[1], t[2], t[3]>> /\ to[t[1]] \in Node
           /\ IsFiniteSet({t[1] : t \in store})
           /\ \A t \in store : t[1] \in DOMAIN TypeOf /\ t[3] \in DOMAIN TypeOf
<1>1. /\ IsFiniteSet(store) /\ \A t \in store : t = <<t[1], t[2], t[3]>>
      /\ \A t \in store : t[1] \in DOMAIN TypeOf /\ t[3] \in DOMAIN TypeOf
  BY NetworkAssumption, TypeAssumption
<1>2. \A t \in store : to[t[1]] \in Node
  BY DEF Dealings
<1>3. IsFiniteSet({t[1] : t \in store})
  <2>1. PICK f : f = [t \in store |-> t[1]]
    OBVIOUS
  <2>2. DOMAIN f = store /\ f = [t \in DOMAIN f |-> f[t]] /\ {f[t] : t \in DOMAIN f} = {t[1] : t \in store}
    BY <2>1
  <2> QED BY <1>1, <2>2, FiniteRange
<1> QED BY <1>1, <1>2, <1>3

\* Each node lists those of the subjects S that are its own, and S are the solutions.
ListsSubjects(q, store, to, S) ==
    /\ S \in SUBSET {t[1] : t \in store}
    /\ \A n \in Node : Answers(q, DbOf(q, store, to, n)) = Ready({<<s>> : s \in {s \in S : to[s] = n}})
    /\ Meaning(q, store) = {<<s>> : s \in S} /\ \A row : Right(q, row) = row

\* Then the query is answered exactly.
LEMMA SubjectsAreExact ==
    ASSUME NEW q \in DOMAIN Stored, q \in Plain, NEW store \in Stored[q], NEW to \in Dealings(store),
           NEW S, ListsSubjects(q, store, to, S)
    PROVE  GathersExactly(q, store, to) /\ LosesOnly(q, store, to)
<1> DEFINE R == {<<s>> : s \in S}
           A == FirstAnswers(q, store, to)
<1>1. PICK P : P = [r \in R |-> r]
  OBVIOUS
<1>2. IsFiniteSet(S)
  BY DealtStore, FS_Subset DEF ListsSubjects
<1>3. IsFiniteSet(R)
  <2>1. PICK f : f = [s \in S |-> <<s>>]
    OBVIOUS
  <2>2. DOMAIN f = S /\ f = [s \in DOMAIN f |-> f[s]] /\ {f[s] : s \in DOMAIN f} = R
    BY <2>1
  <2> HIDE DEF R
  <2> QED BY <1>2, <2>2, FiniteRange
<1>4. \A r \in R : to[r[1]] \in Node
  <2>1. \A s \in S : to[s] \in Node
    <3>1. \A t \in store : to[t[1]] \in Node
      BY DealtStore
    <3> QED BY <3>1 DEF ListsSubjects
  <2> QED BY <2>1
<1>5. ASSUME NEW n \in Node, NEW a \in A[n]
      PROVE  /\ Len(a) = 1 /\ a[1] \in Seq(R)
             /\ AsSet(a[1]) = {P[r] : r \in At(R, to, n)} /\ Len(a[1]) = Cardinality(At(R, to, n))
  <2>1. A[n] = Ready(At(R, to, n))
    <3>1. {<<s>> : s \in {s \in S : to[s] = n}} = At(R, to, n)
      BY DEF At
    <3>2. A[n] = Answers(q, DbOf(q, store, to, n))
      BY DEF FirstAnswers
    <3> HIDE DEF R, A
    <3> QED BY <3>1, <3>2 DEF ListsSubjects
  <2>2. At(R, to, n) \in SUBSET R
    BY DEF At
  <2> HIDE DEF R, A
  <2>3. IsFiniteSet(At(R, to, n)) /\ At(R, to, n) = {P[r] : r \in At(R, to, n)}
    <3>1. \A r \in At(R, to, n) : P[r] = r
      BY <1>1, <2>2
    <3> QED BY <1>3, <2>2, <3>1, FS_Subset
  <2>4. a = <<List(At(R, to, n))>>
    BY <1>5, <2>1 DEF Ready
  <2>5. /\ List(At(R, to, n)) \in Seq(At(R, to, n))
        /\ Len(List(At(R, to, n))) = Cardinality(At(R, to, n)) /\ AsSet(List(At(R, to, n))) = At(R, to, n)
    BY <2>3, ListOnce
  <2>6. List(At(R, to, n)) \in Seq(R)
    BY <2>2, <2>5
  <2> QED BY <2>3, <2>4, <2>5, <2>6
<1>6. Meaning(q, store) = R /\ {Right(q, P[r]) : r \in R} = {Right(q, row) : row \in R}
  BY <1>1 DEF ListsSubjects
<1> HIDE DEF R
<1>7. ListsItsOwn(A, R, to, P, R)
  BY <1>1, <1>3, <1>4, <1>5 DEF ListsItsOwn
<1> QED BY <1>6, <1>7, PlainIsExact

\* Molecules around one object
LEMMA AroundListed ==
    ASSUME NEW q \in DOMAIN Stored, NEW store \in Stored[q], NEW to \in Dealings(store), NEW n \in Node,
           NEW base, base.mine = {t \in store : to[t[1]] = n}, base.maxScope = 0,
           NEW o, NEW p, NEW types
    PROVE  Around(base, o, p, types) =
              {s \in {s \in {t[1] : t \in store} : <<s, p, o>> \in store /\ TypeOf[s] \in types} : to[s] = n}
<1>1. \A s : <<s, p, o>> \in base.mine => \E t \in base.mine : t[1] = s /\ t[3] = o
  <2> TAKE s
  <2>1. PICK t : t = <<s, p, o>>
    OBVIOUS
  <2> QED BY <2>1
<1>2. \A s : <<s, p, o>> \in base.mine <=> <<s, p, o>> \in store /\ to[s] = n
  OBVIOUS
<1>3. \A s : s \in Around(base, o, p, types) <=> TypeOf[s] \in types /\ <<s, p, o>> \in base.mine
  BY <1>1 DEF Around, Inverted
<1>4. \A s : <<s, p, o>> \in store => s \in {t[1] : t \in store}
  <2> TAKE s
  <2>1. PICK t : t = <<s, p, o>>
    OBVIOUS
  <2> QED BY <2>1
<1> QED BY <1>2, <1>3, <1>4

\* The subjects in store that are p of o, of one of the types
Having(store, p, o, types) ==
    {s \in {t[1] : t \in store} : <<s, p, o>> \in store /\ TypeOf[s] \in types}

\* Those of the types that the meaning of a query names, and their rows
InOf(store, p, o, types) == {x \in Of(types) : <<x, p, o>> \in store}

Single(S) == {<<s>> : s \in S}

\* Having and InOf are the same subjects.
LEMMA HavingIs ==
    ASSUME NEW q \in DOMAIN Stored, NEW store \in Stored[q], NEW p, NEW o, NEW types
    PROVE  InOf(store, p, o, types) = Having(store, p, o, types)
<1>1. \A s : <<s, p, o>> \in store => s \in {t[1] : t \in store}
  <2> TAKE s
  <2>1. PICK t : t = <<s, p, o>>
    OBVIOUS
  <2> QED BY <2>1
<1>2. \A t \in store : t[1] \in DOMAIN TypeOf
  BY TypeAssumption
<1> QED BY <1>1, <1>2 DEF Of, Having, InOf

\* q01, q03, q05, q10: the molecules around one object.
LEMMA AroundIsExact ==
    ASSUME NEW q \in {"q01", "q03", "q05", "q10"}, q \in DOMAIN Stored,
           NEW store \in Stored[q], NEW to \in Dealings(store)
    PROVE  GathersExactly(q, store, to) /\ LosesOnly(q, store, to)
<1>1. q \in Plain
  BY DEF Plain, Queries, Again
<1>2. \A row : Right(q, row) = row
  BY DEF Right
<1>3. ASSUME NEW p, NEW o, NEW types,
             \A base : Answers(q, base) = Ready({<<s>> : s \in Around(base, o, p, types)}),
             Meaning(q, store) = Single(InOf(store, p, o, types))
      PROVE  \E S : ListsSubjects(q, store, to, S)
  <2>1. PICK S : S = Having(store, p, o, types)
    OBVIOUS
  <2>2. ASSUME NEW n \in Node
        PROVE  Answers(q, DbOf(q, store, to, n)) = Ready({<<s>> : s \in {s \in S : to[s] = n}})
    <3>1. PICK base : base = DbOf(q, store, to, n)
      OBVIOUS
    <3>2. base.mine = {t \in store : to[t[1]] = n} /\ base.maxScope = 0
      BY <3>1 DEF DbOf
    <3>3. Around(base, o, p, types) = {s \in S : to[s] = n}
      BY <2>1, <3>2, AroundListed DEF Having
    <3> QED BY <1>3, <3>1, <3>3
  <2>3. S \in SUBSET {t[1] : t \in store}
    BY <2>1 DEF Having
  <2>4. Meaning(q, store) = {<<s>> : s \in S}
    <3>1. Meaning(q, store) = Single(S)
      BY <1>3, <2>1, HavingIs
    <3> QED BY <3>1 DEF Single
  <2> QED BY <1>2, <2>2, <2>3, <2>4 DEF ListsSubjects
<1>4. \E S : ListsSubjects(q, store, to, S)
  <2>1. CASE q = "q01"
    <3>1. /\ \A base : Answers(q, base) = Ready({<<s>> : s \in Around(base, "GraduateCourse0", "takesCourse", Composites["GraduateStudent"])})
          /\ Meaning(q, store) = Single(InOf(store, "takesCourse", "GraduateCourse0", Composites["GraduateStudent"]))
      BY <2>1 DEF Answers, q01, Meaning, Single, InOf
    <3> QED BY <1>3, <3>1
  <2>2. CASE q = "q03"
    <3>1. /\ \A base : Answers(q, base) = Ready({<<s>> : s \in Around(base, "AssistantProfessor0", "publicationAuthor", Composites["Publication"])})
          /\ Meaning(q, store) = Single(InOf(store, "publicationAuthor", "AssistantProfessor0", Composites["Publication"]))
      BY <2>2 DEF Answers, q03, Meaning, Single, InOf
    <3> QED BY <1>3, <3>1
  <2>3. CASE q = "q05"
    <3>1. /\ \A base : Answers(q, base) = Ready({<<s>> : s \in Around(base, "Department0", "memberOf", Hierarchy["Person"])})
          /\ Meaning(q, store) = Single(InOf(store, "memberOf", "Department0", Hierarchy["Person"]))
      BY <2>3 DEF Answers, q05, Meaning, Single, InOf
    <3> QED BY <1>3, <3>1
  <2>4. CASE q = "q10"
    <3>1. /\ \A base : Answers(q, base) = Ready({<<s>> : s \in Around(base, "GraduateCourse0", "takesCourse", Hierarchy["Person"])})
          /\ Meaning(q, store) = Single(InOf(store, "takesCourse", "GraduateCourse0", Hierarchy["Person"]))
      BY <2>4 DEF Answers, q10, Meaning, Single, InOf
    <3> QED BY <1>3, <3>1
  <2> QED BY <2>1, <2>2, <2>3, <2>4
<1> QED BY <1>1, <1>4, SubjectsAreExact

\* q06, q14: the molecules of some types.
LEMMA ElementsAreExact ==
    ASSUME NEW q \in {"q06", "q14"}, q \in DOMAIN Stored, NEW store \in Stored[q], NEW to \in Dealings(store)
    PROVE  GathersExactly(q, store, to) /\ LosesOnly(q, store, to)
<1>1. q \in Plain
  BY DEF Plain, Queries, Again
<1>2. \A row : Right(q, row) = row
  BY DEF Right
<1>3. PICK types :
         /\ \A base : Answers(q, base) = Ready({<<k>> : k \in Elements(base, types) \cap Mine(base)})
         /\ Meaning(q, store) = {<<x>> : x \in Of(types) \cap {t[1] : t \in store}}
  <2>1. CASE q = "q06"
    <3>1. /\ \A base : Answers(q, base) = Ready({<<k>> : k \in Elements(base, Hierarchy["Student"]) \cap Mine(base)})
          /\ Meaning(q, store) = {<<x>> : x \in Of(Hierarchy["Student"]) \cap {t[1] : t \in store}}
      BY <2>1 DEF Answers, q06, Meaning
    <3> QED BY <3>1
  <2>2. CASE q = "q14"
    <3>1. /\ \A base : Answers(q, base) = Ready({<<k>> : k \in Elements(base, Composites["UndergraduateStudent"]) \cap Mine(base)})
          /\ Meaning(q, store) = {<<x>> : x \in Of(Composites["UndergraduateStudent"]) \cap {t[1] : t \in store}}
      BY <2>2 DEF Answers, q14, Meaning
    <3> QED BY <3>1
  <2> QED BY <2>1, <2>2
<1>4. PICK S : S = {s \in {t[1] : t \in store} : TypeOf[s] \in types}
  OBVIOUS
<1>5. S = Of(types) \cap {t[1] : t \in store}
  BY <1>4, DealtStore DEF Of
<1>6. ASSUME NEW n \in Node
      PROVE  Answers(q, DbOf(q, store, to, n)) = Ready({<<s>> : s \in {s \in S : to[s] = n}})
  <2>1. PICK base : base = DbOf(q, store, to, n)
    OBVIOUS
  <2>2. base.mine = {t \in store : to[t[1]] = n}
    BY <2>1 DEF DbOf
  <2>3. Elements(base, types) \cap Mine(base) = {s \in S : to[s] = n}
    BY <1>4, <2>2 DEF Elements, Mine
  <2> QED BY <1>3, <2>1, <2>3
<1>7. ListsSubjects(q, store, to, S)
  BY <1>2, <1>3, <1>4, <1>5, <1>6 DEF ListsSubjects
<1> QED BY <1>1, <1>7, SubjectsAreExact

Degree == {"doctoralDegreeFrom", "mastersDegreeFrom", "undergraduateDegreeFrom"}

\* The triples that q13 looks for
Graduations(store) == {t \in store : t[2] \in Degree /\ t[3] = "University0"}

\* What q13 means, as triples
LEMMA GraduationsMean ==
    ASSUME NEW q \in {"q13"}, q \in DOMAIN Stored, NEW store \in Stored[q], NEW to \in Dealings(store)
    PROVE  /\ \A t \in Graduations(store) : \E row \in Meaning(q, store) : Right(q, <<t[1]>>) = Right(q, row)
           /\ \A row \in Meaning(q, store) : \E t \in Graduations(store) : Right(q, <<t[1]>>) = Right(q, row)
           /\ Cardinality(Graduations(store)) = Cardinality(Meaning(q, store))
<1>1. \A row : Right(q, row) = <<row[1]>>
  BY DEF Right
<1>2. Meaning(q, store) = {r \in {t[1] : t \in store} \X Degree : <<r[1], r[2], "University0">> \in store}
  BY DEF Meaning, Degree
<1>3. PICK M : M = Meaning(q, store)
  OBVIOUS
<1>4. PICK f : f = [t \in Graduations(store) |-> <<t[1], t[2]>>]
  OBVIOUS
<1>5. \A t \in Graduations(store) : t \in store /\ t = <<t[1], t[2], "University0">> /\ t[2] \in Degree
  BY DealtStore DEF Graduations
<1>6. \A t \in Graduations(store) : f[t] \in M /\ f[t][1] = t[1]
  BY <1>2, <1>3, <1>4, <1>5
<1>7. ASSUME NEW r \in M PROVE \E t \in Graduations(store) : f[t] = r /\ t[1] = r[1]
  <2>1. r = <<r[1], r[2]>> /\ r[2] \in Degree /\ <<r[1], r[2], "University0">> \in store
    BY <1>2, <1>3
  <2>2. PICK t : t = <<r[1], r[2], "University0">>
    OBVIOUS
  <2>3. t \in Graduations(store)
    BY <2>1, <2>2 DEF Graduations
  <2> QED BY <1>4, <2>1, <2>2, <2>3
<1>8. ASSUME NEW t \in Graduations(store), NEW u \in Graduations(store), f[t] = f[u] PROVE t = u
  BY <1>4, <1>5, <1>8
<1>9. f \in Bijection(Graduations(store), M)
  BY <1>4, <1>6, <1>7, <1>8 DEF Bijection, Injection, Surjection, IsInjective
<1>10. IsFiniteSet(Graduations(store))
  BY DealtStore, FS_Subset DEF Graduations
<1>11. Cardinality(Graduations(store)) = Cardinality(M)
  <2>1. ExistsBijection(Graduations(store), M)
    BY <1>9 DEF ExistsBijection
  <2> QED BY <1>10, <2>1, FS_Bijection
<1>12. /\ \A t \in Graduations(store) : \E row \in M : Right(q, <<t[1]>>) = Right(q, row)
       /\ \A row \in M : \E t \in Graduations(store) : Right(q, <<t[1]>>) = Right(q, row)
  <2>1. \A x : Right(q, <<x>>) = <<x>>
    BY <1>1
  <2>2. \A t \in Graduations(store) : f[t] \in M /\ Right(q, <<t[1]>>) = Right(q, f[t])
    BY <1>1, <1>6, <2>1
  <2>3. ASSUME NEW row \in M PROVE \E t \in Graduations(store) : Right(q, <<t[1]>>) = Right(q, row)
    <3>1. PICK t \in Graduations(store) : t[1] = row[1]
      BY <1>7
    <3> QED BY <1>1, <2>1, <3>1
  <2> QED BY <2>2, <2>3
<1> QED BY <1>3, <1>11, <1>12

\* Each node lists its own of these triples.
LEMMA GraduationsAreExact ==
    ASSUME NEW q \in {"q13"}, q \in DOMAIN Stored, NEW store \in Stored[q], NEW to \in Dealings(store)
    PROVE  GathersExactly(q, store, to) /\ LosesOnly(q, store, to)
<1> DEFINE R == Graduations(store)
           A == FirstAnswers(q, store, to)
<1>1. q \in Plain
  BY DEF Plain, Queries, Again
<1>2. PICK P : P = [r \in R |-> <<r[1]>>]
  OBVIOUS
<1>3. PICK V : V = {P[r] : r \in R}
  OBVIOUS
<1>4. IsFiniteSet(R) /\ P \in [R -> V] /\ \A r \in R : to[r[1]] \in Node
  BY <1>2, <1>3, DealtStore, FS_Subset DEF Graduations
<1>5. ASSUME NEW n \in Node, NEW a \in A[n]
      PROVE  /\ Len(a) = 1 /\ a[1] \in Seq(V)
             /\ AsSet(a[1]) = {P[r] : r \in At(R, to, n)} /\ Len(a[1]) = Cardinality(At(R, to, n))
  <2>1. PICK base : base = DbOf(q, store, to, n)
    OBVIOUS
  <2>2. base.mine = {t \in store : to[t[1]] = n} /\ base.maxScope = 0
    BY <2>1 DEF DbOf
  <2>3. PICK l : l = List(At(R, to, n))
    OBVIOUS
  <2>4. {t \in base.mine : /\ t[1] \in Inverted(base, "University0") /\ t[3] = "University0"
                         /\ t[2] \in {"doctoralDegreeFrom", "mastersDegreeFrom", "undergraduateDegreeFrom"}}
        = At(R, to, n)
    <3>1. \A t \in base.mine : t[3] = "University0" => t[1] \in Inverted(base, "University0")
      BY DEF Inverted
    <3> QED BY <2>2, <3>1 DEF At, Graduations, Degree
  <2>5. A[n] = {<<[i \in DOMAIN l |-> <<l[i][1]>>]>>}
    <3>1. A[n] = q13(base)
      BY <2>1 DEF FirstAnswers, Answers
    <3> QED BY <2>3, <2>4, <3>1 DEF q13, Subjects
  <2>6. IsFiniteSet(At(R, to, n)) /\ At(R, to, n) \subseteq R
    BY <1>4, FS_Subset DEF At
  <2> HIDE DEF R
  <2>7. /\ l \in Seq(At(R, to, n)) /\ Len(l) = Cardinality(At(R, to, n)) /\ AsSet(l) = At(R, to, n)
    BY <2>3, <2>6, ListOnce
  <2>8. Len(a) = 1 /\ a[1] = [i \in DOMAIN l |-> <<l[i][1]>>]
    BY <2>5
  <2>9. PICK k \in Nat : k = Len(l) /\ DOMAIN l = 1..k /\ \A i \in 1..k : l[i] \in At(R, to, n)
    BY <2>7
  <2>10. a[1] = [i \in 1..k |-> P[l[i]]] /\ \A i \in 1..k : P[l[i]] \in V
    BY <1>2, <1>3, <2>6, <2>8, <2>9
  <2>11. a[1] \in [1..k -> V]
    BY <2>10
  <2>12. a[1] \in Seq(V) /\ Len(a[1]) = k /\ DOMAIN a[1] = 1..k
    BY <2>11, FunctionIsSeq
  <2>13. AsSet(a[1]) = {P[r] : r \in At(R, to, n)}
    <3>1. AsSet(l) = {l[i] : i \in 1..k} /\ AsSet(a[1]) = {P[l[i]] : i \in 1..k}
      BY <2>9, <2>10, <2>12 DEF AsSet, Seqs!ToSet
    <3>2. \A i \in 1..k : P[l[i]] \in {P[r] : r \in At(R, to, n)}
      BY <2>9
    <3>3. ASSUME NEW r \in At(R, to, n) PROVE P[r] \in {P[l[i]] : i \in 1..k}
      BY <2>7, <3>1
    <3> QED BY <3>1, <3>2, <3>3
  <2> QED BY <2>7, <2>8, <2>9, <2>12, <2>13
<1>6. /\ {Right(q, P[r]) : r \in R} = {Right(q, row) : row \in Meaning(q, store)}
      /\ Cardinality(R) = Cardinality(Meaning(q, store))
  <2>1. \A r \in R : \E row \in Meaning(q, store) : Right(q, P[r]) = Right(q, row)
    <3>1. \A r \in R : P[r] = <<r[1]>>
      BY <1>2
    <3>2. \A r \in R : \E row \in Meaning(q, store) : Right(q, <<r[1]>>) = Right(q, row)
      BY GraduationsMean
    <3> QED BY <3>1, <3>2
  <2>2. \A row \in Meaning(q, store) : \E r \in R : Right(q, P[r]) = Right(q, row)
    BY <1>2, GraduationsMean
  <2>3. Cardinality(R) = Cardinality(Meaning(q, store))
    BY GraduationsMean
  <2> QED BY <2>1, <2>2, <2>3
<1> HIDE DEF R
<1>7. ListsItsOwn(A, R, to, P, V)
  BY <1>4, <1>5 DEF ListsItsOwn
<1> QED BY <1>1, <1>6, <1>7, PlainIsExact

\* A count for each of F, as q15 has them
Counted(F, c) == {<<f, c[f]>> : f \in F}

\* There are as many of them as there are in F.
LEMMA CountedOnce ==
    ASSUME NEW F, IsFiniteSet(F), NEW c
    PROVE  /\ IsFiniteSet(Counted(F, c)) /\ Cardinality(Counted(F, c)) = Cardinality(F)
           /\ \A r \in Counted(F, c) : r[1] \in F
           /\ \A f \in F : \E r \in Counted(F, c) : r[1] = f
<1>1. PICK b : b = [f \in F |-> <<f, c[f]>>]
  OBVIOUS
<1>2. \A f, g \in F : b[f] = b[g] => f = g
  BY <1>1
<1>3. b \in Bijection(F, Counted(F, c))
  BY <1>1, <1>2 DEF Counted, Bijection, Injection, Surjection, IsInjective
<1>4. ExistsBijection(F, Counted(F, c))
  BY <1>3 DEF ExistsBijection
<1>5. /\ \A r \in Counted(F, c) : r[1] \in F
      /\ \A f \in F : \E r \in Counted(F, c) : r[1] = f
  <2>1. \A f \in F : b[f] \in Counted(F, c) /\ b[f][1] = f
    BY <1>1 DEF Counted
  <2>2. \A r \in Counted(F, c) : \E f \in F : r = b[f]
    BY <1>1 DEF Counted
  <2> QED BY <2>1, <2>2
<1>6. IsFiniteSet(Counted(F, c)) /\ Cardinality(Counted(F, c)) = Cardinality(F)
  BY <1>4, FS_Bijection
<1> QED BY <1>5, <1>6

\* The faculty that a student has for an advisor, and a student of node n
Advising(store) ==
    {y \in Of(Hierarchy["Faculty"]) : \E x \in Of(Hierarchy["Student"]) : <<x, "advisor", y>> \in store}

AdvisingAt(store, to, n) ==
    {y \in Of(Hierarchy["Faculty"]) :
        \E x \in Of(Hierarchy["Student"]) : <<x, "advisor", y>> \in store /\ to[x] = n}

\* What q15 means
LEMMA CountsMean ==
    ASSUME NEW q \in {"q15"}, q \in DOMAIN Stored, NEW store \in Stored[q], NEW to \in Dealings(store)
    PROVE  IsFiniteSet(Advising(store)) /\ \E c : Meaning(q, store) = Counted(Advising(store), c)
<1>1. IsFiniteSet({t[3] : t \in store})
  <2>1. PICK f : f = [t \in store |-> t[3]]
    OBVIOUS
  <2>2. DOMAIN f = store /\ f = [t \in DOMAIN f |-> f[t]] /\ {f[t] : t \in DOMAIN f} = {t[3] : t \in store}
    BY <2>1
  <2>3. IsFiniteSet(store)
    BY DealtStore
  <2> QED BY <2>2, <2>3, FiniteRange
<1>2. \A x, p, y : <<x, p, y>> \in store => y \in {t[3] : t \in store}
  <2> TAKE x, p, y
  <2>1. PICK t : t = <<x, p, y>>
    OBVIOUS
  <2> QED BY <2>1
<1>3. Advising(store) \in SUBSET {t[3] : t \in store}
  BY <1>2 DEF Advising
<1>4. PICK c : c = [y \in Advising(store) |->
                       Cardinality({x \in Of(Hierarchy["Student"]) : <<x, "advisor", y>> \in store})]
  OBVIOUS
<1>5. Meaning(q, store) = Counted(Advising(store), c)
  BY <1>4 DEF Meaning, Advising, Counted
<1> QED BY <1>1, <1>3, <1>5, FS_Subset

\* What a node counts
LEMMA CountsOfNode ==
    ASSUME NEW q \in {"q15"}, q \in DOMAIN Stored, NEW store \in Stored[q], NEW to \in Dealings(store), NEW n \in Node
    PROVE  \E c : Answers(q, DbOf(q, store, to, n)) = Ready(Counted(AdvisingAt(store, to, n), c))
<1>1. PICK base : base = DbOf(q, store, to, n)
  OBVIOUS
<1>2. base.mine = {t \in store : to[t[1]] = n} /\ base.maxScope = 0
  BY <1>1 DEF DbOf
<1> DEFINE advised(f) == Around(base, f, "advisor", Hierarchy["Student"])
<1>3. {f \in Elements(base, Hierarchy["Faculty"]) : advised(f) # {}} = AdvisingAt(store, to, n)
  <2>1. \A f, s : s \in advised(f) <=> <<s, "advisor", f>> \in store /\ to[s] = n /\ TypeOf[s] \in Hierarchy["Student"]
    <3> TAKE f, s
    <3>1. advised(f) = {x \in {x \in {t[1] : t \in store} : <<x, "advisor", f>> \in store
                                                /\ TypeOf[x] \in Hierarchy["Student"]} : to[x] = n}
      BY <1>2, AroundListed
    <3>2. <<s, "advisor", f>> \in store => s \in {t[1] : t \in store}
      <4>1. PICK t : t = <<s, "advisor", f>>
        OBVIOUS
      <4> QED BY <4>1
    <3> QED BY <3>1, <3>2
  <2>2. \A f, s : <<s, "advisor", f>> \in store =>
                     /\ s \in DOMAIN TypeOf /\ f \in DOMAIN TypeOf
                     /\ to[s] = n => f \in {t[3] : t \in base.mine}
    <3> TAKE f, s
    <3>1. PICK t : t = <<s, "advisor", f>>
      OBVIOUS
    <3> QED BY <1>2, <3>1, DealtStore
  <2> HIDE DEF advised
  <2>3. ASSUME NEW f \in Elements(base, Hierarchy["Faculty"]), advised(f) # {} PROVE f \in AdvisingAt(store, to, n)
    <3>1. PICK s : s \in advised(f)
      BY <2>3
    <3> QED BY <2>1, <2>2, <2>3, <3>1 DEF AdvisingAt, Of, Elements
  <2>4. ASSUME NEW f \in AdvisingAt(store, to, n)
        PROVE  f \in Elements(base, Hierarchy["Faculty"]) /\ advised(f) # {}
    <3>1. PICK s \in Of(Hierarchy["Student"]) : <<s, "advisor", f>> \in store /\ to[s] = n
      BY DEF AdvisingAt
    <3>2. s \in advised(f) /\ f \in {t[3] : t \in base.mine}
      BY <2>1, <2>2, <3>1 DEF Of
    <3> QED BY <3>2 DEF AdvisingAt, Of, Elements
  <2> QED BY <2>3, <2>4
<1>4. PICK c : c = [f \in AdvisingAt(store, to, n) |-> Cardinality(advised(f))]
  OBVIOUS
<1>5. Counted(AdvisingAt(store, to, n), c) = {<<f, Cardinality(advised(f))>> : f \in AdvisingAt(store, to, n)}
  BY <1>4 DEF Counted
<1>6. Answers(q, base) = Ready({<<f, Cardinality(advised(f))>> :
                                f \in {f \in Elements(base, Hierarchy["Faculty"]) : advised(f) # {}}})
  BY DEF Answers, q15_n
<1> HIDE DEF advised
<1> QED BY <1>1, <1>3, <1>5, <1>6

\* What the master makes of the counts
LEMMA CountsOfMaster ==
    ASSUME NEW q \in {"q15"}, NEW L, NEW rows \in Combine(q, L)
    PROVE  \E c : rows = List(Counted({row[1] : row \in AsSet(L[1])}, c))
<1> DEFINE counts(f) == [i \in DOMAIN L[1] |-> IF L[1][i][1] = f THEN L[1][i][2] ELSE 0]
           first(f) == L[1][CHOOSE i \in DOMAIN L[1] : /\ L[1][i][1] = f
                                                      /\ \A j \in 1..(i - 1) : L[1][j][1] # f]
           count(f) == first(f)[2] + Seqs!FoldSeq(LAMBDA a, b : a + b, 0, counts(f))
<1>1. PICK F : F = {row[1] : row \in AsSet(L[1])}
  OBVIOUS
<1>2. q15_m(L) = Ready({<<f, count(f)>> : f \in F})
  BY <1>1 DEF q15_m
<1>3. Combine(q, L) = {l[1] : l \in q15_m(L)}
  BY DEF Combine
<1> HIDE DEF count
<1>4. PICK c : c = [f \in F |-> count(f)]
  OBVIOUS
<1>5. Counted(F, c) = {<<f, count(f)>> : f \in F}
  BY <1>4 DEF Counted
<1>6. q15_m(L) = {<<List(Counted(F, c))>>}
  BY <1>2, <1>5 DEF Ready
<1>7. rows = List(Counted(F, c))
  BY <1>3, <1>6
<1> QED BY <1>1, <1>7

\* q15: whatever the counts, there is one for each that advises.
LEMMA CountsAreExact ==
    ASSUME NEW q \in {"q15"}, q \in DOMAIN Stored, NEW store \in Stored[q], NEW to \in Dealings(store)
    PROVE  GathersExactly(q, store, to) /\ LosesOnly(q, store, to)
<1> DEFINE A == FirstAnswers(q, store, to)
           Y == Advising(store)
<1>1. q \notin Again /\ \A row : Right(q, row) = <<row[1]>>
  BY DEF Again, Right
<1>2. PICK g : \A n \in Node : A[n] = Ready(Counted(AdvisingAt(store, to, n), g[n]))
  <2> DEFINE ok(n, c) == A[n] = Ready(Counted(AdvisingAt(store, to, n), c))
  <2>1. \A n \in Node : \E c : ok(n, c)
    BY CountsOfNode DEF FirstAnswers
  <2>2. PICK g : g = [n \in Node |-> CHOOSE c : ok(n, c)]
    OBVIOUS
  <2> HIDE DEF ok
  <2>3. \A n \in Node : ok(n, g[n])
    BY <2>1, <2>2
  <2> QED BY <2>3 DEF ok
<1>3. PICK B : B = [n \in Node |-> Counted(AdvisingAt(store, to, n), g[n])]
  OBVIOUS
<1>4. PICK V : V = UNION {B[n] : n \in Node}
  OBVIOUS
<1>5. IsFiniteSet(Y) /\ UNION {AdvisingAt(store, to, n) : n \in Node} = Y
      /\ \A n \in Node : AdvisingAt(store, to, n) \in SUBSET Y
  <2>1. \A x, y : <<x, "advisor", y>> \in store => to[x] \in Node
    <3> TAKE x, y
    <3>1. PICK t : t = <<x, "advisor", y>>
      OBVIOUS
    <3> QED BY <3>1, DealtStore
  <2>2. UNION {AdvisingAt(store, to, n) : n \in Node} = Y
    <3>1. ASSUME NEW y \in Y PROVE \E n \in Node : y \in AdvisingAt(store, to, n)
      <4>1. PICK x \in Of(Hierarchy["Student"]) : <<x, "advisor", y>> \in store
        BY DEF Advising
      <4> QED BY <2>1, <4>1 DEF Advising, AdvisingAt
    <3>2. \A n \in Node : AdvisingAt(store, to, n) \subseteq Y
      BY DEF Advising, AdvisingAt
    <3> QED BY <3>1, <3>2
  <2>3. IsFiniteSet(Y)
    BY CountsMean
  <2> QED BY <2>2, <2>3
<1>6. \A n \in Node : IsFiniteSet(B[n])
  BY <1>3, <1>5, CountedOnce, FS_Subset
<1> HIDE DEF Y
<1>7. OneListEach(A, V, B, B)
  <2>1. ASSUME NEW n \in Node, NEW a \in A[n]
        PROVE  Len(a) = 1 /\ a[1] \in Seq(V) /\ AsSet(a[1]) = B[n] /\ Len(a[1]) = Cardinality(B[n])
    <3>1. a = <<List(B[n])>>
      BY <1>2, <1>3, <2>1 DEF Ready
    <3>2. B[n] \subseteq V
      BY <1>4
    <3> QED BY <1>6, <3>1, <3>2, ListOnce
  <2> QED BY <1>6, <2>1 DEF OneListEach
<1>8. (\A r \in V : r[1] \in Y) /\ \A y \in Y : \E r \in V : r[1] = y
  <2>1. \A n \in Node : /\ \A r \in B[n] : r[1] \in Y
                        /\ \A y \in AdvisingAt(store, to, n) : \E r \in B[n] : r[1] = y
    <3> TAKE n \in Node
    <3>1. PICK F : F = AdvisingAt(store, to, n)
      OBVIOUS
    <3>2. F \subseteq Y /\ IsFiniteSet(F) /\ B[n] = Counted(F, g[n])
      BY <1>3, <1>5, <3>1, FS_Subset
    <3> QED BY <3>1, <3>2, CountedOnce
  <2> QED BY <1>4, <1>5, <2>1
<1>9. PICK m : Meaning(q, store) = Counted(Y, m)
  BY CountsMean DEF Y
<1>10. ASSUME NEW lossy \in BOOLEAN, NEW order \in Orders, NEW L \in AllGathered(q, store, to, order, lossy),
              NEW rows \in Combine(q, L)
       PROVE  SolvesPartly(q, store, rows) /\ (~ lossy => Solves(q, store, rows))
  <2>1. L \in Gathered(A, order, lossy)[Len(order)]
    BY <1>1, <1>10 DEF AllGathered
  <2>2. AsSet(L[1]) \subseteq V /\ (~ lossy => AsSet(L[1]) = V)
    <3>1. order \in Seq(Node) /\ Len(order) \in 0..Len(order)
      BY OrderHasAll
    <3>2. PICK i \in 0..Len(order) : i = Len(order) /\ L \in Gathered(A, order, lossy)[i]
      BY <2>1, <3>1
    <3>3. Before(order, Len(order), B) = V
      BY <1>4, BeforeIsAll
    <3> HIDE DEF A
    <3>4. AsSet(L[1]) \subseteq Before(order, i, B) /\ (~ lossy => AsSet(L[1]) = Before(order, i, B))
      BY <1>7, <3>1, <3>2, RowsGathered
    <3> QED BY <3>2, <3>3, <3>4
  <2>3. PICK F : F = {row[1] : row \in AsSet(L[1])}
    OBVIOUS
  <2>4. F \in SUBSET Y /\ IsFiniteSet(F) /\ (~ lossy => F = Y)
    <3>1. F \in SUBSET Y
      BY <1>8, <2>2, <2>3
    <3>2. ~ lossy => Y \subseteq F
      BY <1>8, <2>2, <2>3
    <3> QED BY <1>5, <3>1, <3>2, FS_Subset
  <2>5. PICK c : rows = List(Counted(F, c))
    BY <2>3, CountsOfMaster
  <2>6. /\ AsSet(rows) = Counted(F, c) /\ Len(rows) = Cardinality(F)
        /\ \A r \in Counted(F, c) : r[1] \in F
        /\ \A f \in F : \E r \in Counted(F, c) : r[1] = f
    BY <2>4, <2>5, CountedOnce, ListOnce
  <2>7. /\ Cardinality(Meaning(q, store)) = Cardinality(Y)
        /\ \A r \in Meaning(q, store) : r[1] \in Y
        /\ \A y \in Y : \E r \in Meaning(q, store) : r[1] = y
    BY <1>5, <1>9, CountedOnce
  <2>8. ASSUME NEW row \in AsSet(rows)
        PROVE  \E r \in Meaning(q, store) : Right(q, row) = Right(q, r)
    BY <1>1, <2>4, <2>6, <2>7
  <2>9. ASSUME ~ lossy, NEW r \in Meaning(q, store)
        PROVE  \E row \in AsSet(rows) : Right(q, row) = Right(q, r)
    BY <1>1, <2>4, <2>6, <2>7, <2>9
  <2> QED BY <2>4, <2>6, <2>7, <2>8, <2>9 DEF Solves, SolvesPartly
<1>11. GathersExactly(q, store, to)
  <2>1. PICK lossy \in BOOLEAN : lossy = FALSE
    OBVIOUS
  <2>2. \A order \in Orders : \A L \in AllGathered(q, store, to, order, lossy) :
           \A rows \in Combine(q, L) : Solves(q, store, rows)
    BY <1>10, <2>1
  <2> QED BY <2>1, <2>2 DEF GathersExactly
<1>12. LosesOnly(q, store, to)
  <2>1. PICK lossy \in BOOLEAN : lossy = TRUE
    OBVIOUS
  <2>2. \A order \in Orders : \A L \in AllGathered(q, store, to, order, lossy) :
           \A rows \in Combine(q, L) : SolvesPartly(q, store, rows)
    BY <1>10, <2>1
  <2> QED BY <2>1, <2>2 DEF LosesOnly
<1> QED BY <1>11, <1>12

-----------------------------------------------------------------------------
(* The answers *)

\* The queries in which no node chooses among values and none has to know what
\* another one has
Listing == {"q01", "q03", "q05", "q06", "q10", "q13", "q14", "q15"}

\* What the nodes list for such a query are its solutions, however the molecules are
\* dealt out, and each comes from one node (q15: and the counts of one are put together).
THEOREM ListingsFit ==
    \A q \in DOMAIN Stored \cap Listing : \A store \in Stored[q] : \A to \in Dealings(store) :
        GathersExactly(q, store, to) /\ LosesOnly(q, store, to)
<1> SUFFICES ASSUME NEW q \in DOMAIN Stored \cap Listing, NEW store \in Stored[q], NEW to \in Dealings(store)
             PROVE  GathersExactly(q, store, to) /\ LosesOnly(q, store, to)
  OBVIOUS
<1>1. CASE q \in {"q01", "q03", "q05", "q10"}
  BY <1>1, AroundIsExact
<1>2. CASE q \in {"q06", "q14"}
  BY <1>2, ElementsAreExact
<1>3. CASE q \in {"q13"}
  BY <1>3, GraduationsAreExact
<1>4. CASE q \in {"q15"}
  BY <1>4, CountsAreExact
<1> QED BY <1>1, <1>2, <1>3, <1>4 DEF Listing

\* A query is answered exactly whose lists, taken in turn, answer it exactly.
LEMMA ExactIfGathered ==
    ASSUME GatheringInv, GathersExactly(query, all, owner)
    PROVE  AnswerExact
<1> SUFFICES ASSUME Finished, ~ spoilt PROVE Solves(query, all, results)
  BY DEF AnswerExact
<1>1. PICK L \in AllGathered(query, all, owner, nodes, FALSE) : results \in Combine(query, L)
  BY MadeOfAll
<1>2. nodes \in Orders
  BY InSomeOrder DEF GatheringInv, IInv, Shapes
<1> QED BY <1>1, <1>2 DEF GathersExactly

\* One that prints solutions only from what lists are left loses some at most.
LEMMA PartlyIfGathered ==
    ASSUME GatheringInv, LosesOnly(query, all, owner)
    PROVE  ResetOnlyLoses
<1> SUFFICES ASSUME Finished, spoilt PROVE SolvesPartly(query, all, results)
  BY DEF ResetOnlyLoses
<1>1. PICK L \in AllGathered(query, all, owner, nodes, TRUE) : results \in Combine(query, L)
  BY MadeOfAll
<1>2. nodes \in Orders
  BY InSomeOrder DEF GatheringInv, IInv, Shapes
<1>3. NbOfLists(query) = 1
  <2>1. ~ (NbOfLists(query) > 1)
    BY DEF GatheringInv, Doomed, Finished, Receiving
  <2> QED BY <2>1, NetworkAssumption, ListsOfQuery DEF GatheringInv, IInv, Shapes
<1> QED BY <1>1, <1>2, <1>3 DEF LosesOnly

\* So these queries are answered exactly over any network and any stores, however
\* often they are asked, and an error on a connection costs solutions only.
THEOREM ListingsAreAnswered ==
    NetSpec => [](query \in Listing => AnswerExact /\ ResetOnlyLoses)
<1>1. GatheringInv => (query \in Listing => AnswerExact /\ ResetOnlyLoses)
  <2> SUFFICES ASSUME GatheringInv, query \in Listing PROVE AnswerExact /\ ResetOnlyLoses
    OBVIOUS
  <2>1. query \in DOMAIN Stored \cap Listing /\ all \in Stored[query] /\ owner \in Dealings(all)
    BY DEF GatheringInv, IInv, Shapes
  <2>2. GathersExactly(query, all, owner) /\ LosesOnly(query, all, owner)
    BY <2>1, ListingsFit
  <2> QED BY <2>2, ExactIfGathered, PartlyIfGathered
<1> QED BY <1>1, GatheringInvariant, PTL

\* And so is every other query that the lists of the nodes, taken in turn, answer
\* exactly (GathersExactly).
THEOREM AnswersAreExact ==
    ASSUME \A q \in DOMAIN Stored \ Listing : \A store \in Stored[q] : \A to \in Dealings(store) :
               GathersExactly(q, store, to)
    PROVE  NetSpec => []AnswerExact
<1>1. GatheringInv => AnswerExact
  <2> SUFFICES ASSUME GatheringInv PROVE AnswerExact
    OBVIOUS
  <2>1. query \in DOMAIN Stored /\ all \in Stored[query] /\ owner \in Dealings(all)
    BY DEF GatheringInv, IInv, Shapes
  <2>2. GathersExactly(query, all, owner)
    BY <2>1, ListingsFit
  <2> QED BY <2>2, ExactIfGathered
<1> QED BY <1>1, GatheringInvariant, PTL

\* And a query in which no node relies on another one to have its rows checked (LosesOnly)
\* prints no row that is no solution, if Receive has taken an error for a list.
THEOREM ResetsOnlyLose ==
    ASSUME \A q \in DOMAIN Stored \ Listing : \A store \in Stored[q] : \A to \in Dealings(store) :
               LosesOnly(q, store, to)
    PROVE  NetSpec => []ResetOnlyLoses
<1>1. GatheringInv => ResetOnlyLoses
  <2> SUFFICES ASSUME GatheringInv PROVE ResetOnlyLoses
    OBVIOUS
  <2>1. query \in DOMAIN Stored /\ all \in Stored[query] /\ owner \in Dealings(all)
    BY DEF GatheringInv, IInv, Shapes
  <2>2. LosesOnly(query, all, owner)
    BY <2>1, ListingsFit
  <2> QED BY <2>2, PartlyIfGathered
<1> QED BY <1>1, GatheringInvariant, PTL
=============================================================================

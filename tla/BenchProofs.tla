----------------------------- MODULE BenchProofs -----------------------------
(***************************************************************************)
(* Theorems about Bench, for any list of workloads, any containers and    *)
(* queries, and any number of runs of rake.                                *)
(***************************************************************************)
EXTENDS Bench, Integers, TLAPS

Named == {ContainerOf[t] : t \in Task}

\* A workload is between the start of its engine and the end of its container.
AtWork == {"warm", "bench", "stop"}

Places ==
    /\ running \in Task \cup {NoTask}
    /\ pc \in {"idle", "next", "start", "service", "done"} \cup AtWork
    /\ running = NoTask <=> pc \in {"idle", "next"}
    /\ busy = [c \in Named |-> busy[c]]
    /\ pc \in AtWork => container \in up

\* A given up query runs in a container that has been left, or in that of the
\* task at work, which has then run into the limit itself.
BusyExplained ==
    \A c \in Named : busy[c] # {} =>
        \/ c \in left
        \/ pc \in AtWork /\ c = container /\ running \in limited

LeftIsFound ==
    pc \in AtWork \cup {"service"} /\ container \in left => running \in found

IInv == Places /\ BusyExplained /\ LeftIsFound /\ OverlapExplained

\* The container of the task at work is one of those that busy is about.
LEMMA ContainerIsNamed == Places /\ running # NoTask => container \in Named
  BY DEF Places, Named, container

\* Nothing is up or busy at first.
LEMMA Begins == BenchInit => IInv
  BY BenchAssumption DEF BenchInit, IInv, Places, BusyExplained, LeftIsFound, OverlapExplained,
     Named, AtWork

\* Between two tasks no container is at work.
LEMMA TaskSteps ==
    ASSUME IInv, Rake \/ NextTask \/ TaskDone
    PROVE  IInv'
<1>1. CASE Rake
  BY <1>1, BenchAssumption DEF IInv, Places, BusyExplained, LeftIsFound, OverlapExplained, AtWork,
     Rake, history, container
<1>2. CASE NextTask
  <2>1. running' \in Task \cup {NoTask} /\ (running' = NoTask <=> pc' = "idle")
    BY <1>2, BenchAssumption DEF NextTask, Task, Seqs!ToSet, IInv, Places
  <2> QED
    BY <1>2, <2>1 DEF IInv, Places, BusyExplained, LeftIsFound, OverlapExplained, AtWork,
       NextTask, history
<1>3. CASE TaskDone
  BY <1>3 DEF IInv, Places, BusyExplained, LeftIsFound, OverlapExplained, AtWork,
     TaskDone, history
<1> QED BY <1>1, <1>2, <1>3

\* The query in curl is given up in a container that is up and that is left.
LEMMA KilledStep ==
    ASSUME IInv, Killed
    PROVE  IInv'
<1>1. container \in Named
  BY ContainerIsNamed DEF IInv, Killed
<1>2. Places'
  BY <1>1 DEF IInv, Places, Killed, history, AtWork
<1>3. BusyExplained'
  <2> SUFFICES ASSUME NEW c \in Named, busy'[c] # {} PROVE c \in left'
    BY DEF BusyExplained
  <2>1. CASE c = container /\ pc \in AtWork
    BY <2>1 DEF IInv, Places, Killed
  <2>2. CASE ~(c = container /\ pc \in AtWork)
    <3>1. busy'[c] = busy[c]
      BY <2>2 DEF IInv, Places, Killed, AtWork
    <3> QED BY <2>2, <3>1 DEF IInv, BusyExplained, Killed
  <2> QED BY <2>1, <2>2
<1>4. LeftIsFound' /\ OverlapExplained'
  BY DEF IInv, Killed, LeftIsFound, OverlapExplained, AtWork
<1> QED BY <1>2, <1>3, <1>4 DEF IInv

\* A task that begins in a container that was left has found it.
LEMMA StartSteps ==
    ASSUME IInv, ContainerStart \/ ServiceStart
    PROVE  IInv'
<1>1. CASE ContainerStart
  BY <1>1 DEF IInv, Places, BusyExplained, LeftIsFound, OverlapExplained, AtWork, ContainerStart,
     container
<1>2. CASE ServiceStart
  BY <1>2 DEF IInv, Places, BusyExplained, LeftIsFound, OverlapExplained, AtWork, ServiceStart,
     container, history
<1> QED BY <1>1, <1>2

\* What a curl does to the invariant is the same in both phases.
LEMMA CurlExplained ==
    ASSUME IInv, pc \in {"warm", "bench"}, Curl, left' = left, running' = running, pc' \in AtWork
    PROVE  BusyExplained' /\ busy' = [c \in Named |-> busy'[c]] /\ limited \subseteq limited'
<1>1. container \in Named /\ container' = container
  BY ContainerIsNamed DEF IInv, Places, container, AtWork
<1>2. CASE UNCHANGED <<busy, limited>>
  BY <1>1, <1>2 DEF IInv, Places, BusyExplained, AtWork
<1>3. CASE /\ busy' = [busy EXCEPT ![container] = @ \cup {query}]
           /\ limited' = limited \cup {running}
  <2>1. busy' = [c \in Named |-> IF c = container THEN busy[c] \cup {query} ELSE busy[c]]
    BY <1>1, <1>3 DEF IInv, Places
  <2>2. \A c \in Named : c # container => busy'[c] = busy[c]
    BY <2>1
  <2> QED
    BY <1>1, <1>3, <2>1, <2>2 DEF IInv, BusyExplained, AtWork
<1> QED BY <1>2, <1>3 DEF Curl

\* A query that is measured beside another one is in a task that has run into the
\* limit or has found its container.
LEMMA QuerySteps ==
    ASSUME IInv, WarmUp \/ BenchQuery
    PROVE  IInv'
<1>1. CASE WarmUp
  <2>1. /\ pc = "warm" /\ Curl /\ pc' \in {"warm", "bench"}
        /\ UNCHANGED <<left, found, spilled, running, up>>
    BY <1>1 DEF WarmUp
  <2>2. BusyExplained' /\ busy' = [c \in Named |-> busy'[c]] /\ limited \subseteq limited'
    BY <2>1, CurlExplained DEF AtWork
  <2> QED
    BY <2>1, <2>2 DEF IInv, Places, LeftIsFound, OverlapExplained, AtWork, container
<1>2. CASE BenchQuery
  <2>1. /\ pc = "bench" /\ Curl /\ pc' \in {"bench", "stop"}
        /\ UNCHANGED <<left, found, running, up>>
        /\ spilled' = IF busy[container] # {} THEN spilled \cup {running} ELSE spilled
    BY <1>2 DEF BenchQuery
  <2>2. BusyExplained' /\ busy' = [c \in Named |-> busy'[c]] /\ limited \subseteq limited'
    BY <2>1, CurlExplained DEF AtWork
  <2>3. busy[container] # {} => running \in limited \cup found
    BY <2>1, ContainerIsNamed DEF IInv, Places, BusyExplained, LeftIsFound, AtWork
  <2>4. OverlapExplained'
    BY <2>1, <2>2, <2>3 DEF IInv, OverlapExplained
  <2> QED
    BY <2>1, <2>2, <2>4 DEF IInv, Places, LeftIsFound, AtWork, container
<1> QED BY <1>1, <1>2

\* A container that is stopped ends its queries; one that is not is left.
LEMMA StopSteps ==
    ASSUME IInv, Stop \/ StopFails
    PROVE  IInv'
<1>1. container \in Named
  BY ContainerIsNamed DEF IInv, Places, Stop, StopFails, AtWork
<1>2. CASE Stop
  <2>1. busy' = [c \in Named |-> IF c = container THEN {} ELSE busy[c]]
    BY <1>1, <1>2 DEF IInv, Places, Stop
  <2> QED
    BY <1>2, <2>1 DEF IInv, Places, BusyExplained, LeftIsFound, OverlapExplained, AtWork, Stop
<1>3. CASE StopFails
  BY <1>3 DEF IInv, Places, BusyExplained, LeftIsFound, OverlapExplained, AtWork, StopFails
<1> QED BY <1>2, <1>3

\* The engine only takes from what is busy.
LEMMA EngineStep ==
    ASSUME IInv, EngineEnds
    PROVE  IInv'
<1>1. PICK c \in Named : \E q \in busy[c] : busy' = [busy EXCEPT ![c] = @ \ {q}]
  BY DEF IInv, Places, EngineEnds
<1>2. PICK q \in busy[c] : busy' = [busy EXCEPT ![c] = @ \ {q}]
  BY <1>1
<1>3. /\ busy' = [d \in Named |-> IF d = c THEN busy[c] \ {q} ELSE busy[d]]
      /\ \A d \in Named : busy'[d] # {} => busy[d] # {}
  BY <1>2 DEF IInv, Places
<1> QED
  BY <1>3 DEF IInv, Places, BusyExplained, LeftIsFound, OverlapExplained, EngineEnds, history,
     container

\* Every step keeps what explains the queries that go on.
LEMMA InvariantStep == ASSUME IInv, [BenchNext]_vars PROVE IInv'
<1>1. CASE UNCHANGED vars
  BY <1>1 DEF vars, history, IInv, Places, BusyExplained, LeftIsFound, OverlapExplained, container
<1> QED
  BY <1>1, TaskSteps, KilledStep, StartSteps, QuerySteps, StopSteps, EngineStep DEF BenchNext

\* Queries are measured beside others only where a time limit, a kill or a failed
\* stop explains it.
THEOREM OverlapsAreExplained == BenchSpec => []OverlapExplained
<1>1. IInv /\ [BenchNext]_vars => IInv'
  BY InvariantStep
<1>2. IInv => OverlapExplained
  BY DEF IInv
<1> QED BY Begins, <1>1, <1>2, PTL DEF BenchSpec

-----------------------------------------------------------------------------
(* The results *)

\* The i-th row of a file of results
IsRow(i, row) ==
    \E r \in 1..times, k \in DOMAIN Queries : i = (r - 1) * Len(Queries) + k /\ row = <<Queries[k], r>>

\* A file of results, up to its end or to where the task is
IsFile(s) == s \in Seq({<<Queries[k], r>> : k \in DOMAIN Queries, r \in 1..times})
             /\ \A i \in 1..Len(s) : IsRow(i, s[i])

Whole(s) == IsFile(s) /\ Len(s) = times * Len(Queries)

\* Where the task is in its queries, and what it has written
AtPlace ==
    /\ results = [t \in Task |-> results[t]] /\ up \subseteq Containers
    /\ pc \in AtWork \cup {"done"} => container \in Containers
    /\ pc = "warm" => place \in DOMAIN Queries
    /\ pc = "bench" =>
          /\ place \in DOMAIN Queries /\ repetition \in 1..times
          /\ IsFile(results[running])
          /\ Len(results[running]) = (repetition - 1) * Len(Queries) + place - 1
    /\ pc \in {"stop", "done"} => Whole(results[running])

\* Tasks that are done are not touched again.
DoneStays ==
    /\ running \notin done /\ done \subseteq Task
    /\ \A t \in done : t \notin started /\ Whole(results[t]) /\ ContainerOf[t] \in Containers

RInv == Places /\ AtPlace /\ DoneStays

\* One more row: the next one, if there were so many before.
LEMMA RowAppended ==
    ASSUME NEW s, NEW r \in 1..times, NEW k \in DOMAIN Queries,
           IsFile(s), Len(s) = (r - 1) * Len(Queries) + k - 1
    PROVE  /\ IsFile(Append(s, <<Queries[k], r>>))
           /\ Len(Append(s, <<Queries[k], r>>)) = (r - 1) * Len(Queries) + k
<1> DEFINE row == <<Queries[k], r>>
           S == {<<Queries[q], n>> : q \in DOMAIN Queries, n \in 1..times}
           p == (r - 1) * Len(Queries)
           a == Append(s, row)
<1>1. row \in S /\ s \in Seq(S)
  BY DEF IsFile
<1>2. p \in Int /\ k \in Int /\ r \in Int
  BY BenchAssumption
<1>3. IsRow(p + k, row)
  BY DEF IsRow
<1> HIDE DEF p, row, S
<1>4. /\ a \in Seq(S) /\ Len(a) = Len(s) + 1 /\ Len(s) \in Nat
      /\ \A i \in 1..Len(s) : a[i] = s[i]
      /\ a[Len(s) + 1] = row
  BY <1>1
<1>5. Len(s) + 1 = p + k
  BY <1>2 DEF p
<1> HIDE DEF a
<1>6. \A i \in 1..Len(a) : IsRow(i, a[i])
  <2> SUFFICES ASSUME NEW i \in 1..Len(a) PROVE IsRow(i, a[i])
    OBVIOUS
  <2>1. CASE i \in 1..Len(s)
    BY <1>4, <2>1 DEF IsFile
  <2>2. CASE i = Len(s) + 1
    BY <1>3, <1>4, <1>5, <2>2
  <2> QED BY <1>4, <2>1, <2>2
<1> QED BY <1>4, <1>5, <1>6 DEF IsFile, S, a, row, p

\* A file that is opened anew holds nothing, which is where the first query is.
LEMMA FileOpened == IsFile(<<>>) /\ Len(<<>>) = (1 - 1) * Len(Queries) + 1 - 1 /\ 1 \in DOMAIN Queries
  BY BenchAssumption DEF IsFile

\* A step that leaves the results alone
LEMMA ResultsStay ==
    ASSUME RInv, UNCHANGED <<results, done>>, started' \subseteq started, running' \notin done,
           up' \subseteq Containers,
           pc' \in AtWork \cup {"done"} => container' \in Containers,
           pc' = "warm" => place' \in DOMAIN Queries,
           pc' = "bench" => pc = "bench" /\ UNCHANGED <<running, place, repetition>>,
           pc' \in {"stop", "done"} => pc \in {"stop", "done"} /\ running' = running
    PROVE  AtPlace' /\ DoneStays'
<1>1. AtPlace'
  BY DEF RInv, AtPlace
<1>2. DoneStays'
  BY DEF RInv, DoneStays
<1> QED BY <1>1, <1>2

\* Nothing is done, and no task is begun, at first.
LEMMA ResultsBegin == BenchInit => RInv
  BY BenchAssumption DEF BenchInit, RInv, Places, AtPlace, DoneStays, Named, AtWork

\* rake, its tasks and its containers: what has been measured stays.
LEMMA ResultsOfTasks ==
    ASSUME RInv,
           Rake \/ NextTask \/ TaskDone \/ Killed \/ ContainerStart \/ ServiceStart \/ EngineEnds
    PROVE  AtPlace' /\ DoneStays'
<1> USE DEF AtWork
<1>1. CASE Rake
  BY <1>1, ResultsStay DEF Rake, RInv, AtPlace, DoneStays
<1>2. CASE NextTask
  <2>1. AtPlace'
    BY <1>2 DEF NextTask, RInv, AtPlace
  <2>2. running' \notin done /\ started' \subseteq started \cup {running'} /\ UNCHANGED <<results, done>>
    BY <1>2 DEF NextTask, RInv, DoneStays
  <2>3. DoneStays'
    BY <2>2 DEF RInv, DoneStays
  <2> QED BY <2>1, <2>3
<1>3. CASE TaskDone
  <2>1. AtPlace'
    BY <1>3 DEF TaskDone, RInv, AtPlace
  <2>2. running \in Task /\ Whole(results[running]) /\ ContainerOf[running] \in Containers
    BY <1>3 DEF TaskDone, RInv, Places, AtPlace, container
  <2>3. /\ done' = done \cup {running} /\ started' = started \ {running} /\ running' = NoTask
        /\ results' = results
    BY <1>3 DEF TaskDone
  <2>4. DoneStays'
    BY <2>2, <2>3, BenchAssumption DEF RInv, DoneStays
  <2> QED BY <2>1, <2>4
<1>4. CASE Killed
  BY <1>4, BenchAssumption, ResultsStay DEF Killed, RInv, AtPlace, DoneStays
<1>5. CASE ContainerStart
  BY <1>5, ResultsStay DEF ContainerStart, RInv, AtPlace, DoneStays
<1>6. CASE ServiceStart
  BY <1>6, ResultsStay, FileOpened DEF ServiceStart, RInv, AtPlace, DoneStays, container, history
<1>7. CASE EngineEnds
  BY <1>7, ResultsStay DEF EngineEnds, RInv, AtPlace, DoneStays, container
<1> QED BY <1>1, <1>2, <1>3, <1>4, <1>5, <1>6, <1>7

\* Before the first query is measured the file is opened anew.
LEMMA ResultsOfWarmUp ==
    ASSUME RInv, WarmUp
    PROVE  AtPlace' /\ DoneStays'
<1>1. /\ pc = "warm" /\ UNCHANGED <<done, started, running, up>> /\ running \in Task
      /\ container \in Containers /\ container' = container
      /\ place \in DOMAIN Queries
  BY DEF WarmUp, RInv, Places, AtPlace, AtWork, container
<1>2. CASE place < Len(Queries) /\ place' = place + 1 /\ UNCHANGED <<pc, repetition, results>>
  <2>1. place' \in DOMAIN Queries
    BY <1>1, <1>2, BenchAssumption
  <2> QED BY <1>1, <1>2, <2>1, ResultsStay DEF AtWork, RInv, AtPlace, DoneStays
<1>3. CASE /\ pc' = "bench" /\ place' = 1 /\ repetition' = 1
           /\ results' = [results EXCEPT ![running] = <<>>]
  <2>1. results'[running] = <<>> /\ \A t \in Task \ {running} : results'[t] = results[t]
    BY <1>1, <1>3 DEF RInv, AtPlace
  <2>2. 1 \in 1..times
    BY BenchAssumption
  <2>3. IsFile(results'[running]) /\ Len(results'[running]) = (repetition' - 1) * Len(Queries) + place' - 1
    BY <1>3, <2>1, FileOpened
  <2>4. AtPlace'
    BY <1>1, <1>3, <2>2, <2>3, FileOpened DEF RInv, AtPlace
  <2>5. DoneStays'
    BY <1>1, <2>1 DEF RInv, DoneStays
  <2> QED BY <2>4, <2>5
<1> QED BY <1>2, <1>3 DEF WarmUp

\* A query is measured: its row is the next one.
LEMMA ResultsOfQuery ==
    ASSUME RInv, BenchQuery
    PROVE  AtPlace' /\ DoneStays'
<1> DEFINE L == Len(Queries)
           file == results[running]
           now == results'[running]
<1>1. /\ pc = "bench" /\ UNCHANGED <<done, started, running, up>> /\ running \in Task
      /\ container \in Containers /\ container' = container
      /\ place \in DOMAIN Queries /\ repetition \in 1..times
      /\ IsFile(file) /\ Len(file) = (repetition - 1) * L + place - 1
  BY DEF BenchQuery, RInv, Places, AtPlace, AtWork, container
<1>2. /\ results' = [results EXCEPT ![running] = Append(file, <<Queries[place], repetition>>)]
      /\ now = Append(file, <<Queries[place], repetition>>)
      /\ \A t \in Task \ {running} : results'[t] = results[t]
  BY <1>1 DEF BenchQuery, query, RInv, AtPlace
<1>3. IsFile(now) /\ Len(now) = (repetition - 1) * L + place
  BY <1>1, <1>2, RowAppended
<1>4. DoneStays'
  BY <1>1, <1>2 DEF RInv, DoneStays
<1>5. results' = [t \in Task |-> results'[t]]
  BY <1>2 DEF RInv, AtPlace
<1>6. L \in Nat \ {0} /\ DOMAIN Queries = 1..L /\ times \in Nat \ {0}
  BY BenchAssumption
<1> HIDE DEF now, L, file
<1>7. CASE place < L /\ place' = place + 1 /\ UNCHANGED <<pc, repetition>>
  <2>1. place' \in DOMAIN Queries /\ Len(now) = (repetition' - 1) * L + place' - 1
    BY <1>1, <1>3, <1>6, <1>7
  <2> QED BY <1>1, <1>3, <1>4, <1>5, <1>7, <2>1 DEF AtPlace, RInv, now, L
<1>8. CASE ~(place < L) /\ place' = 1 /\ repetition < times /\ repetition' = repetition + 1 /\ pc' = pc
  <2>1. Len(now) = (repetition' - 1) * L + place' - 1
    BY <1>1, <1>3, <1>6, <1>8
  <2>2. place' \in DOMAIN Queries /\ repetition' \in 1..times
    BY <1>1, <1>6, <1>8
  <2> QED BY <1>1, <1>3, <1>4, <1>5, <1>8, <2>1, <2>2 DEF AtPlace, RInv, now, L
<1>9. CASE ~(place < L) /\ ~(repetition < times) /\ pc' = "stop"
  <2>1. Whole(now)
    <3>1. place = L /\ repetition = times
      BY <1>1, <1>6, <1>9
    <3>2. (times - 1) * L + L = times * L
      BY <1>6
    <3> QED BY <1>3, <3>1, <3>2 DEF Whole, L
  <2> QED BY <1>1, <1>4, <1>5, <1>9, <2>1 DEF AtPlace, RInv, now
<1> QED BY <1>7, <1>8, <1>9 DEF BenchQuery, L

\* Whether the container stops or not, the results are there.
LEMMA ResultsOfStop ==
    ASSUME RInv, Stop \/ StopFails
    PROVE  AtPlace' /\ DoneStays'
  BY ResultsStay DEF Stop, StopFails, RInv, AtPlace, DoneStays, AtWork, container

\* A task that is done has all its rows, once and in order, and an engine to have
\* measured, wherever rake has been killed and whatever has failed.
THEOREM ResultsAreComplete == BenchSpec => []ResultsComplete
<1>1. IInv /\ RInv /\ [BenchNext]_vars => RInv'
  <2> SUFFICES ASSUME IInv, RInv, [BenchNext]_vars PROVE RInv'
    OBVIOUS
  <2>1. Places'
    BY InvariantStep DEF IInv
  <2>2. CASE UNCHANGED vars
    BY <2>1, <2>2 DEF vars, history, RInv, AtPlace, DoneStays, container
  <2> QED
    BY <2>1, <2>2, ResultsOfTasks, ResultsOfWarmUp, ResultsOfQuery, ResultsOfStop DEF BenchNext, RInv
<1>2. IInv /\ [BenchNext]_vars => IInv'
  BY InvariantStep
<1>3. RInv => ResultsComplete
  <2> SUFFICES ASSUME RInv, NEW t \in done
               PROVE  /\ Len(results[t]) = times * Len(Queries)
                      /\ \A i \in DOMAIN results[t] : IsRow(i, results[t][i])
                      /\ t \notin started /\ ContainerOf[t] \in Containers
    BY DEF ResultsComplete, IsRow
  <2>1. Whole(results[t]) /\ t \notin started /\ ContainerOf[t] \in Containers
    BY DEF RInv, DoneStays
  <2>2. DOMAIN results[t] = 1..Len(results[t])
    BY <2>1 DEF Whole, IsFile
  <2> QED BY <2>1, <2>2 DEF Whole, IsFile
<1> QED BY <1>1, <1>2, <1>3, Begins, ResultsBegin, PTL DEF BenchSpec
=============================================================================

-------------------------------- MODULE Bench --------------------------------
(***************************************************************************)
(* rake bench: the workloads, one after the other, each in the container   *)
(* of its engine and data.                                                 *)
(*                                                                         *)
(* A workload is a named_task: it is not run again when its done file is   *)
(* there.  rake may be killed at any point and run again; commands may     *)
(* fail, which nothing looks at.  curl gives a query up when it runs into  *)
(* the time limit, and the engine (external) goes on with it until it has  *)
(* finished or its container is stopped.                                   *)
(***************************************************************************)
EXTENDS Naturals, Sequences, FiniteSets

Seqs == INSTANCE SequencesExt

CONSTANTS Workloads,    \* the tasks, in the order of bench_dependencies
          ContainerOf,  \* task -> the name of its container
          Containers,   \* the containers there are
          Queries,      \* the query files of a workload, sorted
          times,        \* repetitions: 5
          MaxRuns       \* bound on how often rake is run

Task == Seqs!ToSet(Workloads)
NoTask == "no task"

ASSUME BenchAssumption ==
    /\ DOMAIN ContainerOf = Task /\ NoTask \notin Task
    /\ times \in Nat \ {0} /\ MaxRuns \in Nat
    /\ DOMAIN Queries = 1..Len(Queries) /\ Len(Queries) \in Nat \ {0}

VARIABLES
    done,       \* tasks with a done file
    started,    \* tasks with a started file
    running,    \* the task that rake is at, or NoTask
    pc,         \* where it is
    place,      \* which query is next
    repetition,
    results,    \* task -> the rows of its file, without time and status
    up,         \* containers that run
    busy,       \* container -> given up queries its engine works on
    runs,       \* how often rake has been run
    limited,    \* tasks of which a query has run into the time limit
    left,       \* containers that a killed task or a failed command has left running
    found,      \* tasks that have begun in one of them
    spilled     \* tasks that have measured a query while the engine worked on another

vars == <<done, started, running, pc, place, repetition, results, up, busy, runs,
          limited, left, found, spilled>>
history == <<limited, left, found, spilled>>

BenchInit ==
    /\ done = {} /\ started = {} /\ running = NoTask /\ pc = "idle" /\ place = 1 /\ repetition = 1
    /\ results = [t \in Task |-> <<>>] /\ up = {} /\ runs = 0
    /\ busy = [c \in {ContainerOf[t] : t \in Task} |-> {}]
    /\ limited = {} /\ left = {} /\ found = {} /\ spilled = {}

container == ContainerOf[running]
query == Queries[place]

-----------------------------------------------------------------------------
(* Tasks *)

Rake ==
    /\ pc = "idle" /\ runs < MaxRuns
    /\ runs' = runs + 1 /\ pc' = "next"
    /\ UNCHANGED <<done, started, running, place, repetition, results, up, busy, history>>

\* The first task that has no done file; rake ends when all have.
NextTask ==
    /\ pc = "next"
    /\ \/ /\ Task \subseteq done
          /\ pc' = "idle" /\ UNCHANGED <<running, started>>
       \/ \E i \in DOMAIN Workloads :
             /\ Workloads[i] \notin done /\ \A j \in 1..(i - 1) : Workloads[j] \in done
             /\ pc' = "start" /\ running' = Workloads[i] /\ started' = started \cup {Workloads[i]}
    /\ UNCHANGED <<done, place, repetition, results, up, busy, runs, history>>

TaskDone ==
    /\ pc = "done" /\ pc' = "next" /\ running' = NoTask
    /\ started' = started \ {running} /\ done' = done \cup {running}
    /\ UNCHANGED <<place, repetition, results, up, busy, runs, history>>

\* Whatever rake and its commands are at ends; the query in curl is given up.
Killed ==
    /\ running # NoTask
    /\ running' = NoTask /\ pc' = "idle" /\ place' = 1 /\ repetition' = 1
    /\ busy' = IF pc \in {"warm", "bench"} THEN [busy EXCEPT ![container] = @ \cup {query}] ELSE busy
    /\ left' = left \cup ({container} \cap up)
    /\ UNCHANGED <<done, started, results, up, runs, limited, found, spilled>>

-----------------------------------------------------------------------------
(* A workload *)

ContainerStart ==
    /\ pc = "start" /\ pc' = "service"
    /\ up' = up \cup ({container} \cap Containers)
    /\ found' = IF container \in left THEN found \cup {running} ELSE found
    /\ UNCHANGED <<done, started, running, place, repetition, results, busy, runs, limited, left, spilled>>

\* It waits until the engine listens: for ever in a container that is not there.
ServiceStart ==
    /\ pc = "service" /\ container \in up
    /\ pc' = "warm" /\ place' = 1
    /\ UNCHANGED <<done, started, running, repetition, results, up, busy, runs, history>>

\* curl ends with an answer or an error, or it runs into its time limit.
Curl ==
    \/ UNCHANGED <<busy, limited>>
    \/ busy' = [busy EXCEPT ![container] = @ \cup {query}] /\ limited' = limited \cup {running}

\* Slip: the results are appended to those that are there.
WarmUpKeeping ==
    /\ pc = "warm" /\ Curl
    /\ IF place < Len(Queries) THEN place' = place + 1 /\ UNCHANGED <<pc, repetition>>
       ELSE pc' = "bench" /\ place' = 1 /\ repetition' = 1
    /\ UNCHANGED <<done, started, running, results, up, runs, left, found, spilled>>

\* The file of the answers is written once; that of the results is opened anew.
WarmUp ==
    /\ pc = "warm" /\ Curl
    /\ IF place < Len(Queries) THEN place' = place + 1 /\ UNCHANGED <<pc, repetition, results>>
       ELSE pc' = "bench" /\ place' = 1 /\ repetition' = 1 /\ results' = [results EXCEPT ![running] = <<>>]
    /\ UNCHANGED <<done, started, running, up, runs, left, found, spilled>>

BenchQuery ==
    /\ pc = "bench" /\ Curl
    /\ results' = [results EXCEPT ![running] = Append(@, <<query, repetition>>)]
    /\ spilled' = IF busy[container] # {} THEN spilled \cup {running} ELSE spilled
    /\ IF place < Len(Queries) THEN place' = place + 1 /\ UNCHANGED <<pc, repetition>>
       ELSE /\ place' = 1
            /\ IF repetition < times THEN repetition' = repetition + 1 /\ UNCHANGED pc
               ELSE repetition' = 1 /\ pc' = "stop"
    /\ UNCHANGED <<done, started, running, up, runs, left, found>>

\* Slip: the container is left running, with its engine.
StopNot ==
    /\ pc = "stop" /\ pc' = "done"
    /\ UNCHANGED <<done, started, running, place, repetition, results, up, busy, runs, history>>

Stop ==
    /\ pc = "stop" /\ pc' = "done"
    /\ up' = up \ {container}
    /\ busy' = [busy EXCEPT ![container] = {}] /\ left' = left \ {container}
    /\ UNCHANGED <<done, started, running, place, repetition, results, runs, limited, found, spilled>>

StopFails ==
    /\ pc = "stop" /\ pc' = "done" /\ left' = left \cup {container}
    /\ UNCHANGED <<done, started, running, place, repetition, results, up, busy, runs,
                   limited, found, spilled>>

-----------------------------------------------------------------------------

\* The engine ends a query that has been given up.
EngineEnds ==
    /\ \E c \in DOMAIN busy : \E q \in busy[c] : busy' = [busy EXCEPT ![c] = @ \ {q}]
    /\ UNCHANGED <<done, started, running, pc, place, repetition, results, up, runs, history>>

BenchNext ==
    \/ Rake \/ NextTask \/ TaskDone \/ Killed
    \/ ContainerStart \/ ServiceStart \/ WarmUp \/ BenchQuery \/ Stop \/ StopFails
    \/ EngineEnds

BenchSpec == BenchInit /\ [][BenchNext]_vars

-----------------------------------------------------------------------------
(* Properties *)

\* A task with a done file has its results: a row for every query and repetition,
\* in order and once, and an engine that has answered, however often it has been
\* killed and run again, and whatever has failed (named_task, watdiv_bench).
ResultsComplete ==
    \A t \in done :
        /\ Len(results[t]) = times * Len(Queries)
        /\ \A i \in DOMAIN results[t] : \E r \in 1..times, k \in DOMAIN Queries :
              i = (r - 1) * Len(Queries) + k /\ results[t][i] = <<Queries[k], r>>
        /\ t \notin started /\ ContainerOf[t] \in Containers

\* A query is measured beside another only in a task one of whose own queries has run
\* into the time limit, or which has begun in a container that a killed task or a
\* failed stop has left running: no task hands its queries on to the next one, though
\* each may be in the same container (bench_query, Endpoint::stop).
OverlapExplained == spilled \subseteq limited \cup found
=============================================================================

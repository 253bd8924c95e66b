CONSTANTS
    B = B
    R = R
    P = P
    fuseki = fuseki
    missing = missing
    Workloads <- MCWorkloads
    ContainerOf <- MCContainerOf
    Containers = {fuseki}
    Queries <- MCQueries
    times = 2
    MaxRuns = 3
SPECIFICATION BenchSpec
INVARIANTS
    ResultsComplete
    OverlapExplained
CHECK_DEADLOCK FALSE

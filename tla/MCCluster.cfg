CONSTANTS
    A = A
    B = B
    s1 = s1
    s2 = s2
    s3 = s3
    class = class
    p = p
    p2 = p2
    o = o
    g = g
    Data <- MCData
    Molecule <- MCMolecule
    QuadsOf <- MCQuadsOf
    TemplatesOf <- MCTemplatesOf
    TypesOf <- MCTypesOf
    TypeOf <- MCTypeOf
    TmplMod = 65536
    nbOfClients = 2
    PartitionerRange = 2
    Orders <- MCOrders
    MaxStarts = 2
    MaxRestarts = 1
SPECIFICATION ClusterSpec
INVARIANTS
    ClusterTypeOK
    DealtOnce
    Balanced
    ClusterExact
    OneDataDefined
    FilesAgree
PROPERTIES
    MasterFinishes
    NodesFinish
CHECK_DEADLOCK FALSE

CONSTANTS
    TypeOf <- MCTypeOf
    Hierarchy <- MCHierarchy
    Composites <- MCComposites
    KeyOf <- MCKeyOf
    Node = {n1, n2}
    Stored <- CountStored
    MayDie = {}
    MaxTries = 2
    Capacity = 1
    MaxAsked = 2
    MaxDeaths = 1
SPECIFICATION NetSpec
INVARIANTS
    RowsExact

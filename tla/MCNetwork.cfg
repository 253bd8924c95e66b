CONSTANTS
    TypeOf <- MCTypeOf
    Hierarchy <- MCHierarchy
    Composites <- MCComposites
    KeyOf <- MCKeyOf
    Node = {n1, n2}
    Stored <- MCStored
    MayDie = {"q01", "q02s1", "q07", "q11s1"}
    MaxTries = 2
    Capacity = 1
    MaxAsked = 2
    MaxDeaths = 1
SPECIFICATION NetSpec
INVARIANTS
    NetTypeOK
    GatheredInTurn
    AnswerExact
    ResetOnlyLoses
    NothingLeft
PROPERTIES
    AllEnd

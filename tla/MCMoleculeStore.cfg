CONSTANTS
    Key <- MCKey
    NoKey = NoKey
    TypeOf <- MCTypeOf
    Inputs <- MCInputs
    TmplMod = 65536
    MaxLines = 3
SPECIFICATION FairSpec
INVARIANTS
    TypeOK
    MoleculesExact
    InvertedIndexExact
    ProvIdxExact
PROPERTIES
    LoadCompletes
    ImplementsQuadStore
CHECK_DEADLOCK FALSE

CONSTANTS
    Key <- MCKey
    NoKey = NoKey
    Any = Any
    NoFile = NoFile
    TypeOf <- MCTypeOf
    Inputs <- MCInputs
    TmplMod = 65536
    FileQueries <- MCFileQueries
    FixedQueries <- MCFixedQueries
    ProvQueries <- MCProvQueries
    Repetitions = 3
    QNum = 2
SPECIFICATION SessionSpec
INVARIANTS
    SessionTypeOK
    AnswersExact
    LookupsExact
    FilterExact
    ProvenanceSuffices
PROPERTIES
    RepetitionsAgree
CHECK_DEADLOCK FALSE

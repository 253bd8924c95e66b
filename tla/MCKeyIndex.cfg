CONSTANTS
    Uri <- MCUri
    RdfType <- MCRdfType
    SubClassOf <- MCSubClassOf
    Skipped <- Z
    Lines <- MCLines
    Inputs <- MCInputs
    SeqRange = 65536
    MaxLines = 3
SPECIFICATION Spec
INVARIANTS
    KeyTypeOK
    TrieExact
    QuadLeavesExact
    KeysExact
    InverseExact
    TypesExact
PROPERTIES
    ImplementsDictionary
CHECK_DEADLOCK FALSE

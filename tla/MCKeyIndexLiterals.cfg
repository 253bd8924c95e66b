CONSTANTS
    Uri <- LiteralUri
    RdfType <- MCRdfType
    SubClassOf <- MCSubClassOf
    Skipped <- Z
    Lines <- LiteralLines
    Inputs <- MCInputs
    SeqRange = 65536
    MaxLines = 3
SPECIFICATION Spec
INVARIANT AddedAreFound
CHECK_DEADLOCK FALSE

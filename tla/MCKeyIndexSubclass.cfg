CONSTANTS
    Uri <- MCUri
    RdfType <- MCRdfType
    SubClassOf <- MCSubClassOf
    Skipped <- Z
    Lines <- SubclassLines
    Inputs <- MCInputs
    SeqRange = 65536
    MaxLines = 3
SPECIFICATION Spec
INVARIANT MostSpecific
CHECK_DEADLOCK FALSE

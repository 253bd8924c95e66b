CONSTANTS
    Key <- MCKey
    NoKey = NoKey
    Any = Any
    TypeOf <- MCTypeOf
    Inputs <- MCInputs
    TmplMod = 65536
    Catalogue <- MCCatalogue
    Filters <- MCFilters
    Leads <- MCLeads
    PlansOf <- MCPlansOf
    ClassOf <- MCClassOf
    MayInvent <- MCMayInvent
    MayLose <- MCMayLose
    MayHide <- MCMayHide
SPECIFICATION PlanSpec
INVARIANTS
    PlanTypeOK
    NothingInvented
    NothingLost
    RowsExplained
    OneLinkExact
ACTION_CONSTRAINT OneRun
CHECK_DEADLOCK FALSE

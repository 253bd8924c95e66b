CONSTANTS
    Key <- MCKey
    NoKey = NoKey
    Any = Any
    TypeOf <- MCTypeOf
    Inputs <- MCInputs
    TmplMod = 65536
    Catalogue <- JoinCatalogue
    Filters <- MCFilters
    Leads <- MCLeads
    PlansOf <- MCPlansOf
    ClassOf <- MCClassOf
    MayInvent <- NoPlans
    MayLose <- NoPlans
    MayHide <- NoPlans
SPECIFICATION PlanSpec
INVARIANT NothingInvented
ACTION_CONSTRAINT OneRun
CHECK_DEADLOCK FALSE

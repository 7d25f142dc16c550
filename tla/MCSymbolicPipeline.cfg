SPECIFICATION FairSpec
CONSTANTS
    NStages = 3
    Context = 3
    Tokens = {t1, t2}
    NoRow = NoRow
INVARIANTS
    Agreement
    RequestFits
    BoundedAmbiguity
    SessionsInStep
    OnlyProjectedConfirmed
    StageOrder
PROPERTIES
    CommittedRowsStable
    ImplementsTokenLog
    OperationsReturn

SPECIFICATION Spec
CONSTANTS
    Word = 256
    MaxFileSize = 196
    MaxVariables = 2
    FileLens <- SmallLens
    StoreSizes <- MCStoreSizes
    FieldSizes <- MCFieldSizes
INVARIANTS
    TypeOK
    ReadsInBounds
    GuardNeverTrips
    WalkPaysForSteps
    BudgetKept
PROPERTIES
    
    Termination

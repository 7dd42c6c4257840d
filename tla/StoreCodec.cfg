SPECIFICATION Spec
CONSTANTS
    Word = 512
    MaxFileSize = 384
    MaxVariables = 2
    Name <- MCName
    Guid = {"g"}
    Attr = {7}
    Data <- MCData
    Units <- MCUnits
    Canon <- MCCanon
    DataLen <- MCDataLen
    NoData = NoData
    Inputs <- MCInputs
    FileLens <- MCLens
    SizeFields <- MCSizes
INVARIANTS
    TypeOK
    ReadBack
    CollectsPrefix
    RecordsInsideStore
    RewriteFits
    BudgetDecides

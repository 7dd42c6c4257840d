SPECIFICATION MapsSpec
CONSTANTS
    Word = 512
    MaxFileSize = 300
    MaxVariables = 3
    Name <- MCName
    Guid = {"g", "other"}
    Attr = {7}
    Data <- MCData
    Units <- MCUnits
    Canon <- MCCanon
    DataLen <- MCDataLen
    NoData = NoData
    Handle = {h1, h2}
    Images <- MCImages
    Fresh <- Formatted
    NoFile = NoFile
    Closed = Closed
    NoCall = NoCall
    Values <- MCValues
    FsGuid = "g"
    FsAttrs = 7
    Cuts <- MCCuts
    Renames <- Moves
    Faults = {"read", "open", "write", "crash"}
SYMMETRY Symmetry
INVARIANTS
    FlavorIsSticky
    RenameKeepsCopy
PROPERTIES
    SuccessIsDurable
    OthersUntouched
    AdapterAgrees
    RenameMoves
    
    ImplementsVariableStore

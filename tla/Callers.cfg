SPECIFICATION CallersSpec
CONSTANTS
    Word = 512
    MaxFileSize = 400
    MaxVariables = 6
    NoFile = NoFile
    Name <- MCName
    Guid = {"global", "image"}
    Attr <- MCAttr
    Data <- MCData
    Units <- MCUnits
    Canon <- MCCanon
    DataLen <- MCDataLen
    NoData = NoData
    Handle = {h1}
    Images <- MCImages
    Fresh <- Formatted
    Closed = Closed
    NoCall = NoCall
    Values <- MCValues
    Renames = {}
    FsGuid = "global"
    FsAttrs <- Nv
    Cuts <- MCCuts
    Faults = {"read", "open", "write", "crash"}
    KeySets <- MCKeySets
    CertLen <- MCCertLen
    SbAttrs <- Nv
    AuthWrites <- MCAuthWrites
    SigLen = 4
    NoSigner = NoSigner
    BootName <- MCBootName
    LoadOption <- MCLoadOptions
    BootVarAttrs <- Nv
INVARIANT
    AuthBinds
PROPERTIES
    PkImpliesKeys
    EnrollIsOrdered
    AddedNeverDangles
    

SPECIFICATION Spec
CONSTANTS
    Word = 1073741824
    MaxFileSize = 268435456
    MaxVariables = 65536
    NoFile = NoFile
    Name = {"a"}
    Guid = {"g"}
    Attr = {7}
    Data = {"d"}
    Units <- MCUnits
    Canon <- MCCanon
    DataLen <- MCDataLen
    NoData = NoData
    Sizes <- MCSizes
INVARIANTS
    FormatReopens
    ReopensAsWritten
    GeometryNests
    

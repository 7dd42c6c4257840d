CONSTANTS
    Half = 32
    MaxLoadOptionBytes = 48
    MaxDevicePathBytes = 32
    RawMax = 20
    Kind = {"hd", "file"}
    Unit = {"char", "repl", "bad", "nul"}
    Options <- MCOptions
    BlobLens <- MCBlobLens
    Fields = {0, 1, 3, 4, 5, 8, 9, 12, 14, 31}
    None = None
SPECIFICATION Spec
INVARIANTS
    ReadsInBounds
    GuardNeverTrips
    MarshalParses
    ReparseIsStable
    

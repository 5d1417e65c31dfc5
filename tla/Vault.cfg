SPECIFICATION Spec
CONSTANTS
    Handlers = {h1, h2}
    MaxRows = 3
    MaxKeys = 2
    FileNamesSent <- OneFileName
    FolderNamesSent <- TwoFolderNames
    MaxStorage = 2
    Overlapping = {"upload", "folder"}
    Offers = {"encrypt", "fail"}
    Exact = 3
    Expansions <- DollarExpansions
    None = None
SYMMETRY SymmetrySet
CHECK_DEADLOCK FALSE
INVARIANT TypeOK TreeShape DataInPlace NothingLeftBehind QuotaNearlyHeld
PROPERTY KeepBothIsFresh ReplacedIsTold

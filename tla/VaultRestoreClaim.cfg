SPECIFICATION Spec
CONSTANTS
    Handlers = {h1}
    MaxRows = 3
    MaxKeys = 2
    FileNamesSent <- OneFileName
    FolderNamesSent <- DollarFolderName
    MaxStorage = 2
    Overlapping = {}
    Offers = {}
    Exact = 3
    Expansions <- DollarExpansions
    None = None
CHECK_DEADLOCK FALSE
INVARIANT ChildrenFollow

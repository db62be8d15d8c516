CONSTANTS
    abuse = abuse
    spam = spam
    team = team
    wide = wide
    narrow = narrow
    inside = inside
    beside = beside
    Invalid = Invalid
    Empty = Empty
    NotFound = NotFound
    Unset = Unset
    Unknown = Unknown
    Networks = {wide, narrow}
    Addresses = {inside, beside}
    Raw <- MCRaw
    Value <- MCValue
    Tree <- MCTree
    Covers <- MCCovers
    drop_by_category <- MCDropByCategory
    drop_by_file_names <- MCDropByFileNames
    NotGiven = NotGiven
    IgnoreCountry = TRUE
    MaxLines = 2
    MaxRequests = 2
SPECIFICATION Spec
INVARIANTS
    BlocklistTypeOK
    DropIffListed
    BlamesOneList
    EveryAnswerCounted
PROPERTY
    KeepsVerdicts
CHECK_DEADLOCK FALSE

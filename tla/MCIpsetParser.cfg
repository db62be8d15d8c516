CONSTANTS
    abuse = abuse
    spam = spam
    date = date
    padded = padded
    never = never
    rfc3339 = rfc3339
    Invalid = Invalid
    Empty = Empty
    Networks = {n1, n2}
    Raw <- MCRaw
    Value <- MCValue
    MaxLines = 6
SPECIFICATION ParserSpec
INVARIANTS
    ParserTypeOK
    NetworksKeepTheirHeader
CHECK_DEADLOCK FALSE

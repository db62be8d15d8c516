CONSTANTS
    Urls = {firehol, mirror}
    Branches = {master, next}
    NoUrl = NoUrl
    MaxTime = 3
    MaxRestarts = 2
SPECIFICATION FairSpec
INVARIANTS
    SettingsTypeOK
    OneOrigin
PROPERTIES
    SettingsTakeEffect

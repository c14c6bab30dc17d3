CONSTANTS
    Users = {u1}
    Tabs = {t1, t2}
    Calls = {1, 2}
    Tokens = {1, 2}
    Devices = {d1, d2}
    Profiles = {p1, p2}
    Requests = {1, 2}
    None = None
    Asked = Asked
    Unset = Unset
    Mask = Mask
    NoList = NoList
    Scopes <- BothScopes
SYMMETRY Interchangeable
SPECIFICATION SpecAll
INVARIANTS TypeOK LogoutIsFinal StoredTokenWorks LoginPageIsClean
INVARIANTS SettingsTypeOK TokensSurvive OneProfileActive QuietShowsStored
PROPERTIES SaveChangesOnlyEdited
CHECK_DEADLOCK FALSE

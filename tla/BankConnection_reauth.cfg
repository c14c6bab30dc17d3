CONSTANTS
    Conns = {c1}
    Flows = {f1, f2}
    Validity = 2
    WarningDays = 1
    Horizon = 3
    MaxMails = 2
    Unset = Unset
SPECIFICATION Spec
PROPERTY CallbackFindsConnection
CHECK_DEADLOCK FALSE

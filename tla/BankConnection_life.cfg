CONSTANTS
    Conns = {c1, c2}
    Flows = {f1, f2}
    Validity = 2
    WarningDays = 1
    Horizon = 2
    MaxMails = 2
    Unset = Unset
SYMMETRY Interchangeable
SPECIFICATION Spec
INVARIANTS TypeOK LinkedIsComplete WarnedInTime WarnedOnce
CHECK_DEADLOCK FALSE

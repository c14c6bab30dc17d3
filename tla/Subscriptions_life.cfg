CONSTANTS
    s1 = s1  s2 = s2  x = x  z = z  p = p  q = q  m = m
    Subs = {s1, s2}
    Txs = {x, z}
    Profiles = {p, q}
    Description <- Descriptions
    Counterparty <- Counterparties
    Idents = {m}
    Mandate <- Mandates
    Iban <- Ibans
    OtherStatus = {}
    Calls = {k1, k2, k3}
    Unset = Unset  Absent = Absent  Unborn = Unborn  Gone = Gone
SYMMETRY Interchangeable
SPECIFICATION Spec
INVARIANTS TypeOK ListsAreDisjoint OverrideKept CancellationKept
PROPERTIES ListedFirst
CHECK_DEADLOCK FALSE

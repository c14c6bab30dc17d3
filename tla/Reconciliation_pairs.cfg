CONSTANTS
    u1 = u1  u2 = u2
    ha = ha  hb = hb  hc = hc
    a = a  b = b  c = c  b2 = b2
    sa = sa  sb = sb  ga = ga  gb = gb
    Users = {u1, u2}
    Hashes = {ha, hb, hc}
    Statements = {sa, sb}
    Rows = {a, b, c, b2}
    Owner <- Owners
    Hash <- Keys
    Statement <- OnPaper
    Account <- AtBank
    Visible <- Shared
    Calls = {k1, k2, k3}
    Unset = Unset
SYMMETRY Interchangeable
SPECIFICATION Spec
INVARIANTS TypeOK MarksPointToOwnRecords RolesAreUnique OneToOneUndisturbed
CHECK_DEADLOCK FALSE

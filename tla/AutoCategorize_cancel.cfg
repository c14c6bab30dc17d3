CONSTANTS
    j1 = j1  j2 = j2  j3 = j3
    t1 = t1  t2 = t2  t3 = t3
    u1 = u1  u2 = u2
    c1 = c1  c2 = c2  d1 = d1
    k1 = k1  k2 = k2
    NoJob = NoJob
    NoCat = NoCat
    Jobs = {j1, j2, j3}
    Txns = {t1}
    Cats = {c1}
    Keys = {k1}
    Users = {u1}
    Owner <- OneUserOwner
    Key <- OneUserKey
    CatsOf <- OneUserCats
    BatchSize = 1
    Cancels = {j1, j2, j3}
    Edits = {t1}
SPECIFICATION FairSpec
INVARIANTS StatusRunningIsLive ExclusiveUndisturbed
PROPERTIES EveryRunEnds
CHECK_DEADLOCK FALSE

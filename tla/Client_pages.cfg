CONSTANTS
    t1 = t1  t2 = t2  c1 = c1  m1 = m1  m2 = m2  a1 = a1
    d1 = d1  d2 = d2  k1 = k1  k2 = k2  f1 = f1  f2 = f2
    i1 = i1  i2 = i2  u1 = u1
    None = None  Asked = Asked  Unborn = Unborn  Gone = Gone
    Subs = {1, 2}
    Merchants = {m1, m2}
    Faint = {m2}
    Txns = {t1}
    Accounts = {a1}
    Requests = {1, 2}
    Scopes <- SubscriptionScopes
    PageTxns = {t1, t2}
    PageCats = {c1}
    InStatement = {t1}
    Incoming = {t2}
    Reconciled = {t2}
    TransactionScopes <- PageScopes
    Debits = {d1, d2}
    Credits = {k1, k2}
    Windows = {"w7", "w30"}
    Close <- Closeness
    ReconcileScopes <- PairScopes
    Files = {f1, f2}
    StatementScopes <- FileScopes
    Invoices = {i1, i2}
    Users = {u1}
    InvoiceScopes <- BillScopes
SPECIFICATION SpecStarted
INVARIANTS PagesTypeOK PagesShowServer FormsSentAsWritten
CHECK_DEADLOCK FALSE

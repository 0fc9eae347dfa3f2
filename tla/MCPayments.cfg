SPECIFICATION Spec
CONSTANTS
    r1 = r1  r2 = r2  n1 = n1  n2 = n2  t1 = t1  t2 = t2  ka = ka  kb = kb
    medical = medical  visa = visa  ticket = ticket  form = form  m1 = m1
    worker = worker  other = other  case1 = case1  case2 = case2
    clinic = clinic  agency = agency
    Requests = {r1, r2}
    Intents = {n1, n2}
    Keys = {ka, kb}
    Txns = {t1, t2}
    Items = {medical, visa, ticket, form}
    Milestones = {m1}
    Users = {worker, other}
    Cases = {case1, case2}
    Payees = {clinic}
    CaseOwner <- TwoOwners
    Item <- FourFees
    Amounts = {0, 1, 2}
    Webhooks <- AllWebhooks
    None = None
    MaxFaults = 0
SYMMETRY Symmetry
CHECK_DEADLOCK FALSE
INVARIANTS
    TypeOK
    PostedOnce
    ReleaseIsEarned
    HeldIsOwed
    SnapshotCatchesUp
PROPERTIES
    BookSpec

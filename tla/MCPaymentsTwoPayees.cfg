SPECIFICATION Spec
CONSTANTS
    r1 = r1  r2 = r2  n1 = n1  n2 = n2  t1 = t1  t2 = t2  ka = ka  kb = kb
    medical = medical  visa = visa  ticket = ticket  form = form  m1 = m1
    worker = worker  other = other  case1 = case1  case2 = case2
    clinic = clinic  agency = agency
    Requests = {r1, r2}
    Intents = {n1, n2}
    Keys = {ka, kb}
    Txns = {t1, t2}
    Items = {medical, visa}
    Milestones = {m1}
    Users = {worker}
    Cases = {case1}
    Payees = {clinic, agency}
    CaseOwner <- OneOwner
    Item <- TwoPayees
    Amounts = {1}
    Webhooks <- Confirmations
    None = None
    MaxFaults = 1
CHECK_DEADLOCK FALSE
INVARIANT StoredLedgerLoads

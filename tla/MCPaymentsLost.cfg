SPECIFICATION Spec
CONSTANTS
    r1 = r1  r2 = r2  n1 = n1  n2 = n2  t1 = t1  t2 = t2  ka = ka  kb = kb
    medical = medical  visa = visa  ticket = ticket  form = form  m1 = m1
    worker = worker  other = other  case1 = case1  case2 = case2
    clinic = clinic  agency = agency
    Requests = {r1, r2}
    Intents = {n1}
    Keys = {ka}
    Txns = {t1}
    Items = {medical}
    Milestones = {m1}
    Users = {worker}
    Cases = {case1}
    Payees = {clinic}
    CaseOwner <- OneOwner
    Item <- OnePayee
    Amounts = {1}
    Webhooks <- Confirmations
    None = None
    MaxFaults = 1
CHECK_DEADLOCK FALSE
INVARIANT AcknowledgedIsPosted

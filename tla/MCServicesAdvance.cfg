SPECIFICATION ServicesSpec
CONSTANTS
    r1 = r1  r2 = r2  case1 = case1  m1 = m1  s1 = s1  c1 = c1  c2 = c2
    partner = partner  author = author  reviewer = reviewer
    job1 = job1  programme1 = programme1  org1 = org1  g1 = g1  g2 = g2  risk1 = risk1
    slot1 = slot1  slot2 = slot2  complaint1 = complaint1  review1 = review1  outcome1 = outcome1
    owner = owner  staff = staff  decider = decider
    phone1 = phone1  phone2 = phone2  otp1 = otp1  otp2 = otp2
    user1 = user1  user2 = user2   d1 = d1  f1 = f1  f2 = f2
    sub1 = sub1  sub2 = sub2  acc1 = acc1  acc2 = acc2  acc3 = acc3  email1 = email1
    journey1 = journey1  journey2 = journey2  offer1 = offer1  blank = blank
    file1 = file1  file2 = file2  share1 = share1  share2 = share2  row1 = row1  row2 = row2
    Scenarios = {"cases"}
    Request = {r1, r2}
    MaxCalls <- MCMaxCalls
    MaxFaults = 1
    Cases = {case1}
    MilestoneKeys = {m1}
    Offers <- MCOffers
    Progress <- MCProgress
    Submissions = {s1}
    Changes = {c1, c2}
    Partners = {partner}
    Researchers = {author}
    Reviewers = {reviewer, author, partner}
    WorkApps = {job1}
    StudyApps = {programme1}
    Orgs = {org1}
    Grants = {g1, g2}
    Risks = {risk1}
    Slots = {slot1, slot2}
    Complaints = {complaint1}
    Reviews = {review1}
    Outcomes = {outcome1}
    Owner = owner
    Staff = {staff}
    Deciders = {decider, owner}
    Safeties = {"verified"}
    Phones = {phone1, phone2}
    Challenges = {otp1, otp2}
    Users = {user1, user2}
    Delegations = {d1}
    MaxAttempts = 1
    MaxChallenges = 1
    Mutations <- ThreeRows
    Refused = {3}
    Flushers = {f1, f2}
    MaxErrors = 1
    ProviderSubjects = {sub1, sub2}
    WebAccounts = {acc1, acc2, acc3}
    Emails = {email1}
    EmailOf <- MCEmailOf
    Journeys = {journey1, journey2}
    Files = {file1, file2}
    Shares = {share1, share2}
    Targets = {offer1}
    Blank = blank
    Reference <- MCReference
    SeedIds = {row1}
    RecordIds = {row1, row2}
CHECK_DEADLOCK FALSE
INVARIANT
    AdvanceGoesForward

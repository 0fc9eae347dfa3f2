------------------------------- MODULE Decisions -------------------------------
(***************************************************************************)
(* The calculations of the API: each is asked once, of every input within  *)
(* the bounds, and answers without any state.  A question is a part of the *)
(* input and its answer a function of the rest, so that an answer can be   *)
(* compared with the answers to related inputs.                            *)
(***************************************************************************)
EXTENDS Eligibility, Authorization, Scanner, Costs, Scholarships, PassportFacts, Cohort, Catalogue,
        Configuration, Forms, Dashboard

CONSTANTS
    RuleBooks,    \* sets of rule versions; version 1 is the rule under test
    FactBags,     \* what a profile or a call may say
    RoleSets, Permissions,
    FeeBooks,     \* functions from ids to fees
    RefundRules,
    Variants,     \* parts of a passport: without answers, with poor and with good ones
    Offers, Papers, \* scholarships, and the answers of a passport that bear on them
    MatchSets,    \* sequences of candidates of each path
    Cohorts, Queries,
    Visits,       \* worlds of reference data, each with a student who looks at it
    Changes,      \* what may have changed when a code is read
    Deployments,  \* environments an operator may configure
    Bundles, OlderProfiles, \* records of a passport, and of the profile before it
    Openings,     \* routes and courses they are matched with
    TypedAmounts, \* what is typed into a field for an amount
    Crafted,      \* submissions no form offers, as [kind, form]
    Reported      \* reviewed reports about one organization

\* The keys of the facts a rule may name, each of which a bag has, if only as absent.
FactKeys == UNION {DOMAIN bag : bag \in FactBags}
ASSUME FactsAssumption ==
    /\ \A bag \in FactBags : bag = [f \in FactKeys |-> bag[f]]
    /\ \A node \in Expressions : node.type = "check" => node.fact \in FactKeys
ASSUME RulesAssumption == \A book \in RuleBooks : \A v \in book : v.expression \in Expressions
ASSUME DeploymentsAssumption == Deployments \subseteq Environments
\* The fees of a route, which the reference data holds in whole minor units.
Payers == {"worker", "student", "employer", "institution", "agency", "government"}
ASSUME FeesAssumption ==
    \A fees \in FeeBooks :
        /\ IsFiniteSet(DOMAIN fees)
        /\ \A i \in DOMAIN fees :
               fees[i].amount \in Nat /\ fees[i].refundable \in BOOLEAN /\ fees[i].payer \in Payers
\* The answers of a passport that bear on a scholarship: yes, no or none yet, a test
\* and months.  An offer that asks for a proposal is open to doctorates.
ASSUME PapersAssumption ==
    \A p \in Papers :
        /\ DOMAIN p = {"certificates", "transcripts", "languageTest", "english", "experienceMonths", "proposal"}
        /\ {p.certificates, p.transcripts, p.languageTest, p.proposal} \subseteq {"undefined", "yes", "no"}
ASSUME OffersAssumption == \A offer \in Offers : offer.proposal => "phd" \in offer.degrees
ASSUME RefundAssumption == \A rule \in RefundRules : rule.points \in Int
\* A field for an amount takes what is not negative, in steps of a hundredth.
ASSUME TypedAmountsAssumption ==
    \A t \in TypedAmounts : t.is = "number" /\ t.mills \in Nat /\ t.mills % 10 = 0 /\ InRange(t)
\* No form need be used: then an amount is anything, a double if it is a number.
AnyAmount(t) == t \in {Blank, Words} \/ (t.is = "number" /\ t.mills \in Int /\ InRange(t))
ASSUME CraftedAssumption ==
    \A c \in Crafted :
        /\ c.kind \in Kinds
        /\ c.kind \in {"record", "cost", "outcome"} => AnyAmount(c.form.amount)

VARIABLES question, answer

vars == <<question, answer>>

Now        == 1
Unanswered == [to |-> "nothing"]

\* The fields of two records as one record.
Joined(f, g) == [k \in DOMAIN f \cup DOMAIN g |-> IF k \in DOMAIN f THEN f[k] ELSE g[k]]

PassportOf(choice) ==
    LET part(n) == Variants[n][choice[n]]
    IN  part("identity") @@ part("education") @@ part("professional") @@ part("study")
        @@ part("language") @@ part("finance") @@ part("rest")

Days         == {0, 82, 83, 90, 172, 173, 200}
Targets      == {"undefined", "unsure", "bachelor", "master", "phd", "research"}
LevelAnswers == {"undefined"} \cup {Levels[i] : i \in DOMAIN Levels}

\* What may be asked.
Asked ==
    \/ \E book \in RuleBooks : question = [of |-> "eligibility", book |-> book]
    \/ \E s \in Subjects(RoleSets, Permissions) : question = [of |-> "authorization", subject |-> s]
    \/ \E j \in JobClaims :
           /\ j.job \in {"unsaid", "unlisted"} =>
                  /\ j.employer = "unsaid" /\ j.salary = "unsaid" /\ j.role = "unsaid"
                  /\ j.cost = "unsaid" /\ j.licence = "no_agency"
           /\ question = [of |-> "scan", claims |-> j]
    \/ \E fees \in FeeBooks, e \in BOOLEAN :
           question = [of |-> "costs", fees |-> fees, employerPays |-> e]
    \/ \E c \in {"BDT", "JPY", "KWD"} : question = [of |-> "amount", currency |-> c]
    \/ \E choice \in [DOMAIN Variants -> 1..3] : question = [of |-> "readiness", choice |-> choice]
    \/ \E offer \in Offers, target \in Targets, level \in LevelAnswers :
           question = [of |-> "scholarship", offer |-> offer, aims |-> [target |-> target, level |-> level]]
    \/ \E path \in {"work", "study"} : \E c \in MatchSets[path] :
           question = [of |-> "match", path |-> path, candidates |-> c]
    \/ \E c \in Cohorts : question = [of |-> "cohort", outcomes |-> c]
    \/ \E v \in Visits : question = [of |-> "catalogue", world |-> v.world, student |-> v.student]
    \/ \E d \in Deployments : question = [of |-> "environment", env |-> d]
    \/ \E b \in Bundles : question = [of |-> "records", bundle |-> b]
    \/ \E r \in Reported : question = [of |-> "reports", reports |-> r]
    \/ \E kind \in Kinds : \E f \in Offered(TypedAmounts)[kind] :
           question = [of |-> "form", kind |-> kind, form |-> f, offered |-> TRUE]
    \/ \E c \in Crafted : question = [of |-> "form", kind |-> c.kind, form |-> c.form, offered |-> FALSE]
    \/ \E days \in SUBSET Days : question = [of |-> "follow_ups", observed |-> days]

Init == answer = Unanswered /\ Asked

Answer(subject, content) ==
    /\ answer = Unanswered /\ question.of = subject
    /\ answer' = Joined(content, [to |-> subject])
    /\ UNCHANGED question

Verdicts(book) ==
    [given \in FactBags |-> [profile \in FactBags |-> Evaluate(book, Now, given, profile)]]

AnswerEligibility == Answer("eligibility", [verdicts |-> Verdicts(question.book)])
AnswerAuthorization ==
    Answer("authorization", [may |-> [a \in Resources |-> Authorize(question.subject, a)]])
AnswerScan == Answer("scan", [scans |-> [o \in OtherClaims |-> Scan(Joined(question.claims, o))]])

\* The plan of a case, of which some items have been paid.
PaidPlan(paid) ==
    LET plan == Plan(question.fees, Now, question.employerPays)
    IN  [plan EXCEPT !.items = [i \in DOMAIN plan.items |-> [plan.items[i] EXCEPT !.paid = i \in paid]]]
AnswerCosts ==
    Answer("costs",
           [bills |-> {[plan |-> PaidPlan(P), rule |-> rule, refund |-> Refund(PaidPlan(P).items, rule)] :
                           P \in SUBSET DOMAIN question.fees, rule \in RefundRules}])

AnswerAmount ==
    Answer("amount", [written |-> [m \in {0, 1, 99, 100, 12005, -1, -99, -100, -12005} |->
                                      ToDecimal(m, question.currency)]])

Assessed(choice) ==
    LET work  == Assess(PassportOf(choice), "work")
        study == Assess(PassportOf(choice), "study")
    IN  [work |-> work, study |-> study, compared |-> MorePrepared(work, study)]
AnswerReadiness == Answer("readiness", Assessed(question.choice))
AnswerScholarship ==
    Answer("scholarship",
           [fits |-> [p \in Papers |-> EvaluateScholarship(question.offer, Joined(question.aims, p))]])
AnswerMatch ==
    Answer("match", [ranking |-> RankCandidates(question.candidates, Weights[question.path])])
AnswerCohort == Answer("cohort", [aggregates |-> [q \in Queries |-> Aggregate(question.outcomes, q)]])

\* The pages of a world without filters; a seed with problems starts no API.
AllJobs == [country |-> "any", occupation |-> "any", employerPaysOnly |-> FALSE]
Shown(w, student) ==
    [routes   |-> ListRoutes(w, "any", "any"),
     jobs     |-> ListJobs(w, AllJobs),
     work     |-> DiscoverWork(w, "any", "any"),
     programs |-> DiscoverStudy(w, student, [mode |-> "country", country |-> "any", level |-> "any"]),
     entries  |-> Ids(Directory(w))]
AnswerCatalogue ==
    Answer("catalogue",
           IF Problems(question.world) = {}
           THEN [accepted |-> TRUE, shown |-> Shown(question.world, question.student)]
           ELSE [accepted |-> FALSE])

AnswerEnvironment ==
    Answer("environment",
           [accepted |-> Accepted(question.env), storage |-> CreateStorage(question.env),
            uploads  |-> [bound \in SUBSET Bindings |-> [v \in Visitors |-> WebUpload(question.env, bound, v)]]])

\* What a bundle is worth: the readiness of each path and the score of each opening.
Worth(b) ==
    [readiness |-> [path \in {"work", "study"} |-> Assess(ReadinessPassport(b), path).percent],
     scores    |-> [o \in Openings |->
                       IF o.path = "work" THEN Score(WorkMatch(b, o), Weights.work, {"fit"})
                       ELSE Score(StudyMatch(b, o), Weights.study, {"fit"})]]
AnswerRecords == Answer("records", [worth |-> Worth(question.bundle)])

UpheldCounts == {0, 1, 5}
AnswerReports ==
    Answer("reports",
           [partner |-> PartnerAnalytics(question.reports),
            trust   |-> [c \in UpheldCounts |-> [suspended \in BOOLEAN |->
                            Institutional(question.reports, c, suspended)]]])

AnswerFollowUps ==
    Answer("follow_ups", [asked |-> [now \in Days |-> FollowUps(question.observed, now)]])

AnswerForm == Answer("form", [row |-> Submit(question.kind, question.form)])

\* A world some days later: the key may be rotated or replaced, an organization
\* suspended, a licence lost, a job withdrawn.
After(w, change) ==
    [w EXCEPT
        !.now = @ + change.days,
        !.key = [id |-> IF change.what = "rotated" THEN "new" ELSE @.id,
                 secret |-> IF change.what \in {"rotated", "replaced"} THEN "new" ELSE @.secret],
        !.organizations = {[o EXCEPT !.suspended = @ \/ change.what = o.id,
                                     !.licences = IF change.what = "licences" THEN {"revoked"} ELSE @] : o \in @},
        !.jobs = {[j EXCEPT !.status = IF change.what = j.id THEN "suspended" ELSE @] : j \in @}]

Next ==
    \/ AnswerEligibility \/ AnswerAuthorization \/ AnswerScan \/ AnswerCosts \/ AnswerAmount
    \/ AnswerReadiness \/ AnswerScholarship \/ AnswerMatch \/ AnswerCohort
    \/ AnswerCatalogue \/ AnswerEnvironment \/ AnswerRecords \/ AnswerReports
    \/ AnswerFollowUps \/ AnswerForm

Spec == Init /\ [][Next]_vars

-------------------------------------------------------------------------------
(* Properties.                                                             *)

\* A verdict that is open names what to complete, unless no version is in force; and
\* what becomes of it when the facts are completed.
OpenNames(verdict, force) ==
    verdict.result = "unknown" => verdict.missing # {} \/ force = {}
Stands(was, is, force) ==
    CASE was.result = "eligible" -> is.result = "eligible"
      [] was.result = "unknown"  -> TRUE
      [] OTHER -> \/ is.result \in {"ineligible", was.result}
                  \/ is.result = "conditional" /\ \E rule \in force : Negated[rule]
Completed(verdicts, force, given, profile) ==
    \A more \in FactBags :
        Completes(more, Stated(given, profile)) =>
            /\ verdicts[more][profile] = verdicts[given][more]
            /\ Stands(verdicts[given][profile], verdicts[more][profile], force)

\* However the facts on record are completed later, whether by the profile or by the
\* call (evaluate, evaluateForProfile), an eligible person stays eligible, and nobody
\* who is not eligible becomes so without a fact being corrected.  Two kinds of rule
\* are excepted by the code itself: one that asks whether a fact is on record, and one
\* with a negation, of which an ineligible person may become conditional.  A verdict
\* that is open names what to complete, unless no version is in force.
EligibilityStands ==
    answer.to = "eligibility" =>
        LET force == {v.expression : v \in Effective(question.book, Now)}
        IN  \A given, profile \in FactBags :
                /\ OpenNames(answer.verdicts[given][profile], force)
                /\ (\A rule \in force : Determinate(rule)) =>
                       Completed(answer.verdicts, force, given, profile)

IsBlank(k, v) == IF k = "experienceMonths" THEN v = NoMonths ELSE v \in {"undefined", "unsure"}
AnswersTo(k) ==
    CASE k = "target" -> Targets [] k = "level" -> LevelAnswers [] OTHER -> {p[k] : p \in Papers}

\* The same of a scholarship (evaluateScholarship), as one more question of the
\* passport is answered: what fits goes on fitting, what is near never fits without a
\* correction, what is out of reach or over stays so, and the score never falls.
\* Where nationality is a condition nobody is called eligible.
FitStands(was, is) ==
    /\ is.score >= was.score
    /\ CASE was.state = "unknown"       -> TRUE
         [] was.state = "near_eligible" -> is.state \in {"near_eligible", "not_eligible"}
         [] OTHER                       -> is.state = was.state
AnsweredOnce(offer, p, was) ==
    \A k \in DOMAIN p : \A later \in AnswersTo(k) :
        IsBlank(k, p[k]) /\ ~IsBlank(k, later) =>
            FitStands(was, EvaluateScholarship(offer, [p EXCEPT ![k] = later]))

\* Every fit that is answered stands, and claims no nationality.
ScholarshipStands ==
    answer.to = "scholarship" =>
        \A papers \in Papers :
            LET was == answer.fits[papers]
            IN  /\ AnsweredOnce(question.offer, Joined(question.aims, papers), was)
                /\ was.state = "eligible" => question.offer.nationality = "worldwide"

\* What is not known yet never makes a verdict: neither that of the published rules
\* nor that of the scholarship finder is taken back by an answer that was missing.
VerdictStands == EligibilityStands /\ ScholarshipStands

\* Whatever roles a subject has besides (authorize): nobody vouches for or publishes
\* what is theirs; a relative only reads what the delegation names, and nothing
\* sensitive; an administrator sees sensitive data only in a reasoned emergency
\* session; an assistant who is no administrator moves no money; somebody without any
\* tie to the record gets at it only with a second factor, a reason and an audit; and
\* sensitive data is opened for nobody but its owner and the staff of an employer
\* without a reason and an audit.
AccessProtected ==
    answer.to = "authorization" =>
        LET s       == question.subject
            outside == ~s.owner /\ s.delegation = NoGrant /\ s.relation = "none"
        IN  \A a \in Resources : answer.may[a].allowed =>
                /\ s.owner => a.action \notin {"verify", "publish"}
                /\ ~s.owner /\ s.delegation # NoGrant =>
                       /\ a.action = "read" /\ ~a.sensitive
                       /\ CASE a.type = "case"                     -> "view_progress" \in s.delegation
                            [] a.type \in {"cost_plan", "payment"} -> "view_cost" \in s.delegation
                            [] OTHER                               -> FALSE
                /\ "platform_admin" \in s.roles /\ a.sensitive => s.session = "break_glass_reasoned"
                /\ "assistant" \in s.roles /\ "platform_admin" \notin s.roles =>
                       a.action # "settle" /\ (a.type = "payment" => a.action # "write")
                /\ outside =>
                       /\ s.roles \cap {"gov_officer", "platform_admin"} # {}
                       /\ s.standing # "no_mfa" /\ answer.may[a].audited /\ answer.may[a].reasoned
                /\ ~s.owner /\ a.sensitive /\ a.action \in SensitiveActions /\ "employer_staff" \notin s.roles =>
                       answer.may[a].audited /\ answer.may[a].reasoned

\* An environment that is accepted is one the API can run in (loadEnv, createStorage):
\* it gets the storage it names, where others can reach it never the memory or the
\* secrets of development, and its gate for documents is open just when uploads are.
\* The web app, which is configured by the same names but never validates them, takes
\* a document only with every control in place, only from somebody whose address Clerk
\* has verified, and only into PostgreSQL; and it does take it where the API accepts.
EnvironmentHolds ==
    answer.to = "environment" =>
        LET e == question.env
        IN  /\ answer.accepted =>
                   /\ answer.storage = e.driver
                   /\ e.app \in {"staging", "production"} => answer.storage = "postgres" /\ e.secrets = "own"
                   /\ Gate(e) <=> e.uploads
            /\ \A bound \in SUBSET Bindings, v \in Visitors :
                   LET at == answer.uploads[bound][v]
                   IN  /\ at # "refused" => at # "d1" /\ v.session = "verified" /\ e.uploads /\ e.controls = Controls
                       /\ answer.accepted /\ e.uploads /\ bound = Bindings /\ v.session = "verified" =>
                              at = "postgres"

\* Whatever is sent to a server action, by its form or not, nobody is onboarded and no
\* outcome is stored without consent, nothing is added to the journey of somebody else
\* or to one of another path than the outcome's, and of what others will rely on
\* nothing is stored as checked: only in the records of a journey, which are the
\* person's own notes, may one call a thing verified.
SubmissionsBounded ==
    answer.to = "form" /\ answer.row # NotStored =>
        LET f   == question.form
            row == answer.row
        IN  /\ question.kind \in {"onboarding", "outcome"} => f.consent
            /\ row.table \in {"journey_records", "outcome_reports"} => f.journey \in {"own", "own_other"}
            /\ row.table = "outcome_reports" => f.journey = "own"
            /\ "status" \in DOMAIN row /\ row.status \in {"verified", "completed", "in_review"} =>
                   row.table = "journey_records"

\* Nobody gets at what is protected, whatever their roles, whatever the deployment and
\* whatever they send.
ProtectionsHold == AccessProtected /\ EnvironmentHolds /\ SubmissionsBounded

\* No offer is cleared without a person (scan, deriveVerdict): one that a statement or
\* the message speaks against is called risky or a mismatch, whatever else was
\* verified; what is illegal or asks for money is never less than HIGH_RISK and goes
\* to a person; where nobody looks at it, a statement contradicts the record.  And
\* to tell the scanner more, of anything but the job, never makes it less alarmed.
AlarmsStand ==
    answer.to = "scan" =>
        \A o \in OtherClaims :
            LET c    == question.claims
                scan == answer.scans[o]
                grave == \/ c.cost = "above" \/ c.licence \in {"expired", "revoked"}
                         \/ c.job \in {"unlisted", "suspended"}
                         \/ o.message = "wallet" \/ o.destination = "personal" \/ o.visa = "visit"
                contradicted == "other" \in {c.employer, c.salary, c.role}
            IN  /\ grave \/ contradicted \/ o.message \in {"guarantee", "cash"} \/ o.institution = "other" =>
                       scan.verdict \in {"HIGH_RISK", "MISMATCH"}
                /\ grave => scan.verdict = "HIGH_RISK"
                /\ ~scan.review => contradicted
                /\ \A more \in OtherClaims :
                       /\ scan.verdict \in {"HIGH_RISK", "MISMATCH"}
                       /\ \A k \in DOMAIN o : o[k] \in {"unsaid", "none"} \/ more[k] = o[k]
                       => answer.scans[more].verdict \in {"HIGH_RISK", scan.verdict}

\* What an agency or a government pays is in no total of a plan.
Unseen == {"agency", "government"}

\* The totals of each currency split what the case costs without counting an item
\* twice or across currencies (getPlan).
TotalsAddUp(plan, c) ==
    LET items == plan.items
        costs == {i \in DOMAIN items : items[i].currency = c}
        t     == Totals(plan, c)
    IN  /\ t.workerPaid + t.employerPaid + t.institutionPaid =
               Sum(items, {i \in costs : items[i].payer \notin Unseen})
        /\ t.workerPaid = t.refundable + t.nonRefundable
        /\ t.workerPaid = t.alreadyPaid + t.remaining /\ t.remaining >= 0

\* A refund gives an item its share to within one minor unit, never more than was paid
\* (computeRefund).
ShareGiven(item, rule, allocation) ==
    LET back == allocation.refunded
        owed == item.amount * rule.points
    IN  /\ back \in 0..item.amount
        /\ back + allocation.withheld = item.amount
        /\ back * 10000 <= owed
        /\ back > 0 \/ ~item.refundable \/ item.category \in rule.exclude \/ owed < 10000
        /\ back > 0 => owed - back * 10000 < 10000

\* So that the whole is never more than the share of the whole.
RefundAddsUp(items, rule, refund) ==
    /\ \A i \in DOMAIN refund.allocations : ShareGiven(items[i], rule, refund.allocations[i])
    /\ refund.totalRefunded * 10000 <= refund.totalPaid * rule.points
    /\ refund.totalRefunded + refund.totalWithheld = refund.totalPaid

BillAddsUp(bill, employerPays) ==
    LET items == bill.plan.items
    IN  /\ \A i \in DOMAIN items :
               employerPays /\ items[i].category = "recruitment_service_fee" =>
                   items[i].payer \notin WorkerPayers
        /\ \A c \in {items[i].currency : i \in DOMAIN items} :
               /\ TotalsAddUp(bill.plan, c)
               /\ Refundable(items, bill.rule, c) => RefundAddsUp(items, bill.rule, bill.refund)

\* Amounts of a plan stay whole (getPlan, computeRefund): its totals split what the
\* case costs, no recruitment fee reaches the worker when the employer pays it, and a
\* refund gives every item and the whole their share.
PlanAddsUp ==
    answer.to = "costs" =>
        \A bill \in answer.bills : BillAddsUp(bill, question.employerPays)

\* What is written of an amount is that amount when it is read again (Money), in a
\* currency without decimals and in one with three; what is read is never rounded, for
\* it is refused when it has more decimals than its currency.
AmountsReadBack ==
    answer.to = "amount" =>
        LET c == question.currency
        IN  /\ \A m \in DOMAIN answer.written : Parse(answer.written[m], c) = {m}
            /\ \A l \in Literals({0, 12}, 0..3) : \A m \in Parse(l, c) :
                   LET text == ToDecimal(m, c)
                   IN  /\ text.whole = l.whole
                       /\ text.fraction * 10^l.digits = l.fraction * 10^text.digits

\* What is stored of a form is what was typed, as far as doubles reach: up to a quarter
\* of the largest exact integer to the minor unit if the form can send it, and off by
\* less than one if it cannot; up to that integer, which is as far as the costs of a
\* person go, off by less than two and a half.  It has the currency chosen, is never
\* negative and never made up, but for an empty cost, which no form sends.
ExactLimit == (Half - 1) \div 2
AsTyped(offered, f, row) ==
    LET typed == f.amount
    IN  /\ row.minor >= 0 /\ typed.is = "number" =>
               /\ typed.mills <= 10 * ExactLimit =>
                      /\ 10 * row.minor - typed.mills \in -9..9
                      /\ offered => 10 * row.minor = typed.mills
               /\ typed.mills <= 10 * MaxSafe => 10 * row.minor - typed.mills \in -24..24
        /\ row.minor >= 0 /\ typed.is # "number" => row.table = "ledger_entries" /\ ~offered
        /\ row.minor = NoAmount => row.table # "ledger_entries" /\ (offered => typed = Blank)
        /\ row.minor > MaxSafe => row.table # "ledger_entries"
        /\ row.minor >= 0 /\ offered => row.currency = f.currency

\* An amount of the website is the one that was typed, within the limits above
\* (addLedgerEntryAction, addJourneyRecordAction, submitOutcomeReportAction).
AmountsAsTyped ==
    answer.to = "form" /\ "minor" \in DOMAIN answer.row =>
        AsTyped(question.offered, question.form, answer.row)

\* Amounts stay whole, on their way through a plan and as text, and from a form as far
\* as doubles are exact.
MoneyAddsUp == PlanAddsUp /\ AmountsReadBack /\ AmountsAsTyped

\* An answer never counts against the person who gives it (assessMigrationPassport,
\* rankCandidates).  Filling in a blank part of the passport lowers neither the
\* coverage nor the readiness of either path, and a good answer in the place of a poor
\* one lowers no readiness; so a fit stays a fit, and what speaks for work keeps work
\* ahead.  No path is ever called ready, as routes and programmes have the last word;
\* the preparation plan lists what is open once each, what is missing first.  Of the
\* matches, one that fits better never moves down, and passes nobody of a better
\* eligibility.
AnswersImprove ==
    /\ answer.to = "readiness" =>
           \A n \in DOMAIN Variants :
               LET better == Assessed([question.choice EXCEPT ![n] = 3])
                   poorer == Assessed([question.choice EXCEPT ![n] = 2])
               IN  /\ \A path \in {"work", "study"} :
                          /\ answer[path].percent <= better[path].percent
                          /\ question.choice[n] = 1 =>
                                 \A later \in {better, poorer} :
                                     /\ answer[path].coverage <= later[path].coverage
                                     /\ answer[path].percent <= later[path].percent
                                     /\ ReadinessFit(answer[path]) = "fit" => ReadinessFit(later[path]) = "fit"
                   /\ n = "professional" /\ answer.compared = "work" => better.compared = "work"
    /\ answer.to = "readiness" =>
           \A path \in {"work", "study"} :
               LET factors == answer[path].factors
                   plan    == PreparationPlan(answer[path])
                   listed  == {plan[k].id : k \in DOMAIN plan}
               IN  /\ answer[path].outcome # "ready"
                   /\ Len(plan) = Cardinality(listed)
                   /\ \A i \in DOMAIN factors : factors[i].state # "ready" <=> factors[i].id \in listed
                   /\ \A k, l \in DOMAIN plan : k < l /\ plan[k].priority = "confirm" =>
                          plan[l].priority = "confirm"
    /\ answer.to = "match" =>
           LET before   == question.candidates
               weights  == Weights[question.path]
               place(r, j) == CHOOSE at \in DOMAIN r : r[at] = j
           IN  \A i \in DOMAIN before, k \in DOMAIN weights :
                   LET after == RankCandidates([before EXCEPT ![i].factors[k] = "fit"], weights)
                   IN  /\ place(after, i) <= place(answer.ranking, i)
                       /\ \A j \in DOMAIN before :
                              EligibilityOrder[before[j].eligibility] < EligibilityOrder[before[i].eligibility] =>
                                  place(after, j) < place(after, i)

\* What is added to the records: a job, a credential, an occupation, a degree, a
\* document, English, a larger budget, a country.
Additions(b) ==
    LET With(part, fields) ==
            [b EXCEPT ![part] = fields @@ [version |-> b[part].version + 1] @@ b[part]]
        work  == b.work
        study == b.study
        level == {"secondary", "vocational", "bachelor", "mphil"}
    IN  {With("work", [jobs |-> work.jobs \cup {e}]) : e \in BOOLEAN}
        \cup {With("work", [credentials |-> work.credentials \cup {c}]) : c \in {"skill_certificate", "licence"}}
        \cup {With("work", [targets |-> Append(work.targets, o)]) : o \in {"electrician", "welder"}}
        \cup {With("study", [education |-> study.education \cup {e}]) :
                  e \in [level : level, certificate : BOOLEAN, transcript : BOOLEAN]}
        \cup {With("study", [documents |-> study.documents \cup {d}]) :
                  d \in {"cv", "statement", "recommendation", "proposal"}}
        \cup {With("study", [english |-> {e}]) :
                  e \in IF study.english # {} THEN {}
                       ELSE [level : {"none", "good"}, test : {TRUE}, evidence : BOOLEAN]}
        \cup {With("shared", [budget |-> n]) : n \in {m \in {100, 900} : m > b.shared.budget}}
        \cup {With("shared", [preferred |-> b.shared.preferred \cup {c}]) : c \in {"malaysia", "japan"}}

\* What is added to the records of a passport, which may make blanks next to it a no
\* (Unsaid), lowers neither the readiness of a path nor the score of any match
\* (readinessPassport, match).  The engines do not contradict each other: of what was
\* answered yes or no, the readiness of a person and the facts their eligibility rests on
\* say the same.  (Of a passport that may or may not be valid they do not: it is an open
\* question to the one and a no to the other, eligibilityProfile.)  And after the work
\* part is saved, those facts are the same whether they are read from the passport or
\* from the older profile (eligibilityProfile, updateWork).
RecordsOnlyAdd ==
    answer.to = "records" =>
        LET b    == question.bundle
            said == ReadinessPassport(b)
        IN  /\ \A more \in Additions(b) :
                   LET worth == Worth(more)
                   IN  /\ \A path \in {"work", "study"} : answer.worth.readiness[path] <= worth.readiness[path]
                       /\ \A o \in Openings : answer.worth.scores[o] <= worth.scores[o]
            /\ \A older \in OlderProfiles :
                   LET facts == ProfileFacts(b, older)
                       saved == SaveWork(b, older)
                   IN  /\ b.shared.passport = "undefined" => facts.validPassport = older.validPassport
                       /\ said.hasPassport # "undefined" => facts.validPassport = said.hasPassport
                       /\ b.work.bmet # "undefined" => facts.bmet = said.bmet
                       /\ said.experienceMonths # NoMonths => facts.months = said.experienceMonths
                       /\ said.occupation = "yes" => facts.occupation # "undefined"
                       /\ \A k \in DOMAIN facts \ {"validPassport"} : ProfileFacts(b, saved)[k] = saved[k]

\* What a person answers, or adds to the records, never counts against them.
AnswersOnlyAdd == AnswersImprove /\ RecordsOnlyAdd

\* A seed that is accepted holds what its pages name (loadSeed): no job is without its
\* employer or its route, no programme without its institution, and each source of a
\* route or of a country's figures is shown.
SeedResolves(w) ==
    /\ \A j \in w.jobs : j.employer \in Ids(w.organizations) /\ j.route \in Ids(w.routes)
    /\ \A r \in w.routes : r.sources \subseteq Ids(RouteSources(w, r))
    /\ \A p \in w.profiles : CitedByProfile(p) = Ids(ProfileSources(w, p))
    /\ \A c \in ListCourses(w) : c.institution \in Ids(w.institutions)

\* Outside development nothing made up is among the routes and jobs that are listed, the
\* entries of the directory, the programmes or the opportunities for work that are
\* discovered, and no made-up job verifies by its number (filterSynthetic and its
\* callers).  It says nothing of a page opened by the id of its record (getRoute, detail)
\* nor of the matches of a passport, where such a record is shown with a label.
NothingMadeUp(w, shown) ==
    w.env \in {"staging", "production"} =>
        LET made(rows) == {r.id : r \in {r \in rows : r.synthetic}}
        IN  /\ shown.routes \cap made(w.routes) = {} /\ shown.jobs \cap made(w.jobs) = {}
            /\ shown.entries \cap made(w.organizations \cup w.institutions) = {}
            /\ Ids(shown.programs) \cap made(w.courses) = {}
            /\ \A o \in shown.work : o.route \notin made(w.routes) /\ o.jobs \cap made(w.jobs) = {}
            /\ \A j \in w.jobs : j.synthetic => PublicVerify(w, j.number) = "not_found"

\* The same things are counted the same way (listCountries, listRoutes, discover): the
\* routes of a country are its routes for work and those for study, and each job that
\* is listed for the country of a route for work is among that route's, once.
CountsAgree(w, shown) ==
    /\ \A c \in w.countries :
           /\ RouteCount(w, c, "any") = RouteCount(w, c, "work") + RouteCount(w, c, "study")
           /\ RouteCount(w, c, "any") = Cardinality(ListRoutes(w, c, "any"))
           /\ RouteCount(w, c, "study") = Cardinality(ListRoutes(w, c, "study"))
    /\ \A o, p \in shown.work : o.jobs \cap p.jobs # {} => o = p
    /\ \A j \in w.jobs : \A r \in w.routes :
           j.id \in shown.jobs /\ j.route = r.id /\ r.country = j.country /\ r.id \in ListRoutes(w, "any", "work")
               => \E o \in shown.work : o.route = r.id /\ j.id \in o.jobs

FreshnessRank == [fresh |-> 0, ageing |-> 1, stale |-> 2, unknown |-> 3]

\* A listed job is open, and verifies unless one of its organizations may not act; a
\* code issued for it tells the truth of the day it is read, and nothing after the key
\* was changed or the code has aged (list, publicVerify, QrService): of a demand that
\* has ended, a suspended employer or a recruiter without licence it never says
\* verified, and the sources of its route have not become fresher by themselves.  Nor has
\* an organization the directory calls suspended a verified job.  That the job was
\* published is not part of what verified means: a draft and a closed job verify too
\* (publicVerify asks for none but a suspension).
VerifiedIsCurrent(w, shown) ==
    \A j \in w.jobs :
        /\ j.id \in shown.jobs => PublicVerify(w, j.number) \in {"verified", "suspended"}
        /\ \A entry \in Directory(w) :
               entry.status = "suspended" /\ entry.id \in {j.employer, j.agency} =>
                   PublicVerify(w, j.number) \notin {"verified", "expired"}
        /\ PublicVerify(w, j.number) = "verified" =>
               \A change \in Changes :
                   LET then == After(w, change)
                       said == VerifyQrToken(then, IssueQr(w, j.number))
                       is   == Row(then.jobs, j.id)
                   IN  /\ said \in {PublicVerify(then, j.number), "not_found"}
                       /\ \A r \in w.routes : \A s \in RouteSources(w, r), t \in RouteSources(then, r) :
                              s.id = t.id => FreshnessRank[s.freshness] <= FreshnessRank[t.freshness]
                       /\ then.key # w.key \/ then.now > w.now + QrMaxAge => said = "not_found"
                       /\ said = "verified" =>
                              /\ is.validTo > then.now /\ is.status # "suspended"
                              /\ \A o \in then.organizations :
                                     o.id \in {j.employer, j.agency} =>
                                         ~o.suspended /\ (o.type = "recruiting_agency" => "active" \in o.licences)

\* What a programme fits is never called more than is known of it, less than a third,
\* and grows with what the student adds (program); no institution is called verified
\* that the directory calls unverified for want of a check.
ProgramsAreModest(w, shown, student) ==
    \A c \in ListCourses(w) :
        LET was == Program(w, student, c)
            is  == Program(w, [student EXCEPT !.transcripts = TRUE], c)
        IN  /\ was.fit <= was.coverage /\ was.coverage <= 30 /\ was.fit <= is.fit
            /\ was \in shown.programs
            /\ was.trust = "verified" => ~Row(w.institutions, c.institution).synthetic
            /\ \A o \in ListInstitutions(w) :
                   o.id = c.institution /\ InstitutionStatus(o) = "partially_verified" =>
                       was.trust \in {"verified", "synthetic_demo"}

\* The website's demo stands in for the API (demoApiRequest): where the API filters
\* nothing it counts and lists the same routes, calls verified whatever the API does,
\* and what it shows besides is a demand that has ended, or what nobody checked.
DemoStandsIn(w, shown) ==
    SyntheticVisible(w) =>
        /\ \A c \in w.countries : \A purpose \in {"any", "work", "study"} :
               DemoCount(w, c, purpose) = RouteCount(w, c, purpose)
        /\ DemoRoutes(w, "any", "any") = shown.routes
        /\ \A j \in w.jobs :
               /\ j.id \in shown.jobs <=> j.id \in DemoJobs(w, AllJobs) /\ j.validTo > w.now
               /\ DemoVerify(w, j.number) = "suspended" => PublicVerify(w, j.number) = "suspended"
               /\ PublicVerify(w, j.number) = "verified" => DemoVerify(w, j.number) = "verified"
        /\ \A number \in {"BDX-1", "unlisted"} :
               DemoScan(w, number, TRUE).humanReview <=> PublicVerify(w, number) = "not_found"
        /\ \A r \in w.routes : RouteSources(w, r) \subseteq DemoRouteSources(w, r)
        /\ \A p \in w.profiles : DemoProfileSources(w, p) \subseteq ProfileSources(w, p)
        /\ \A d \in DemoDirectory(w), e \in Directory(w) :
               d.id = e.id /\ d.status # e.status => <<d.status, e.status>> = <<"partially_verified", "unverified">>

\* What is shown of reported outcomes is what was reported (comparisons, aggregate,
\* institutionalAnalytics, analytics).  Nobody is told that a term was different whose
\* report counts as a promise kept.  With fewer than five reports neither the trust of
\* the organization nor its own analytics show anything of them, and no edge that is
\* public rests on fewer.  An edge speaks for an organization only if at least half of
\* those who answered do; a promise that turns out kept never weighs against it; and
\* neither a suspension nor one more upheld complaint improves its rank.
OutcomesShownTruly ==
    answer.to = "reports" =>
        LET reports == question.reports
            kept(i) == IF reports[i].path = "work"
                       THEN [reports[i] EXCEPT !.salary = "yes", !.employer = "yes", !.arrived = "yes"]
                       ELSE [reports[i] EXCEPT !.tuition = "yes", !.enrolled = "yes"]
            Rank(t) == IF t.signal = <<>> THEN 1000 ELSE t.signal[1]
        IN  /\ \A i \in DOMAIN reports :
                   /\ PromisedMatched(reports[i]) = "yes" =>
                          \A k \in DOMAIN Compared(reports[i]) : Compared(reports[i])[k] # "different"
                   /\ PromisedMatched(reports[i]) = "yes" => Kept(reports[i])
            /\ \A c \in UpheldCounts, s \in BOOLEAN :
                   LET t == answer.trust[c][s]
                       Edges(signal) == {e \in t.edges : e.signal = signal}
                   IN  /\ Len(reports) < MinimumCohort =>
                              Edges("terms_matched") \cup Edges("positive_outcome") = {} /\ answer.partner.share = <<>>
                       /\ \A e \in t.edges : e.public /\ e.evidence \in {Len(reports), c} /\ e.weight \in -500..500
                       /\ \A e \in Edges("terms_matched") :
                              LET known == {i \in DOMAIN reports : PromisedMatched(reports[i]) # "unknown"}
                                  yes   == {i \in known : PromisedMatched(reports[i]) = "yes"}
                              IN  e.weight >= 0 <=> 2 * Cardinality(yes) >= Cardinality(known)
                       /\ \A i \in DOMAIN reports :
                              LET after == Institutional([reports EXCEPT ![i] = kept(i)], c, s)
                              IN  \A e \in t.edges, f \in after.edges :
                                      e.signal = f.signal => e.weight <= f.weight
                       /\ Rank(answer.trust[5][s]) <= Rank(t) /\ Rank(answer.trust[c][TRUE]) <= Rank(t)

\* Nobody is asked again for what they have reported (followUps): a checkpoint is
\* settled by a report of its last week before or of later, whatever else was reported,
\* the second never before the first; one that is not settled is asked for from its
\* day on.
FollowUpsHold ==
    answer.to = "follow_ups" =>
        \A now \in Days, due \in {90, 180} :
            LET status == answer.asked[now]
            IN  /\ status[due] = "recorded" <=> \E day \in question.observed : day + 7 >= due
                /\ status[180] = "recorded" => status[90] = "recorded"
                /\ status[due] = "due" => \A later \in {d \in Days : d >= now} : answer.asked[later][due] = "due"
                /\ now >= due => status[due] # "upcoming"

\* What is shown of the reference data is true: all of the above, of every seed that
\* is accepted.
CatalogueTrue ==
    answer.to = "catalogue" /\ answer.accepted =>
        LET w     == question.world
            shown == answer.shown
        IN  /\ SeedResolves(w) /\ NothingMadeUp(w, shown) /\ CountsAgree(w, shown)
            /\ VerifiedIsCurrent(w, shown)
            /\ ProgramsAreModest(w, shown, question.student) /\ DemoStandsIn(w, shown)

\* Forms and actions, which each keep lists of their own, agree: whatever a form offers
\* is stored, but for a cost beyond what is exact; a direction that was chosen shows an
\* enabled path, the one asked for if there is a choice; and what is stored is counted
\* on the workspace, and only in the count that is its own.
CountOf == [verification_requests |-> "pendingVerifications", delegations |-> "activeDelegations",
            support_tickets |-> "openSupportTickets"]
FormsTaken ==
    answer.to = "form" =>
        LET f      == question.form
            row    == answer.row
            alerts == IF row.table = "journey_records" /\ row.due THEN {[table |-> "alerts", read |-> FALSE]} ELSE {}
            counts == Counts(alerts \cup (IF row.table \in DOMAIN CountOf THEN {row} ELSE {}))
        IN  /\ question.offered =>
                   row # NotStored \/ (question.kind = "cost" /\ Rounded(f.amount) > MaxSafe)
            /\ question.kind \in {"direction", "onboarding"} /\ row # NotStored =>
                   row.active \in row.enabled /\ (f.active \in row.enabled => row.active = f.active)
            /\ \A c \in DOMAIN counts \ {"unreadAlerts"} :
                   counts[c] = IF row.table \in DOMAIN CountOf /\ CountOf[row.table] = c THEN 1 ELSE 0
            /\ counts.unreadAlerts = Cardinality(alerts)

\* A journey begins with each step once (createJourney, where task keys are unique),
\* what the passport lacks before what it leaves open.  Its progress is true at any
\* length a journey can have: a task more shows as more, the whole is shown when all is
\* done and there is no next task, and no rounding moves the chapter.
JourneysShownTruly ==
    answer.to = "readiness" =>
        \A path \in {"work", "study"} :
            LET keys    == TaskKeys(answer[path], path)
                n       == Len(keys)
                at      == [d \in 0..n |-> JourneyShown(1..d, keys)]
                lacking == {answer[path].factors[i].id :
                                i \in {i \in DOMAIN answer[path].factors : answer[path].factors[i].state = "missing"}}
            IN  /\ Cardinality({keys[k] : k \in 1..n}) = n
                /\ {keys[k] : k \in 1..Cardinality(lacking)} = {<<"readiness", id>> : id \in lacking}
                /\ \A d \in 0..n :
                       /\ at[d].percent = 100 <=> d = n
                       /\ at[d].next = 0 <=> d = n
                       /\ d > 0 => at[d - 1].percent < at[d].percent
                       /\ d < n => Chapters * d >= n * at[d].chapter /\ Chapters * d < n * (at[d].chapter + 1)

\* What is shown is true, of every seed that is accepted, every report and every journey.
ShownIsTrue == CatalogueTrue /\ OutcomesShownTruly /\ FollowUpsHold /\ FormsTaken /\ JourneysShownTruly

\* "no individual record is shown" (the privacy notice of aggregate): whatever metric
\* is shown is drawn from what several people reported.
NoIndividualShown ==
    answer.to = "cohort" =>
        \A q \in Queries : \A m \in answer.aggregates[q] : Cardinality(m.people) > 1
===============================================================================

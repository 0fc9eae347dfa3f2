----------------------------- MODULE DecisionProofs -----------------------------
(***************************************************************************)
(* Proofs about the decisions the services answer with: who gets at what   *)
(* is protected, which offers raise an alarm, what becomes of an amount of *)
(* money between its entry, its allocation and its refund, and what of a   *)
(* verdict when an answer that was missing is given.                       *)
(* A question is asked once and answered once: each theorem takes the      *)
(* kinds of question it is about one by one (NextAnswers), and rests on    *)
(* what the operators behind the answer do for every argument.             *)
(***************************************************************************)
EXTENDS Decisions, JournalProofs

\* An answer keeps the content it is given, and says what it is an answer to.
LEMMA Tagged ==
    ASSUME NEW content, NEW subject, "to" \notin DOMAIN content
    PROVE  /\ Joined(content, [to |-> subject]).to = subject
           /\ \A k \in DOMAIN content : Joined(content, [to |-> subject])[k] = content[k]
  BY DEF Joined

\* A step answers the question that was asked, and leaves the question.
LEMMA NextAnswers ==
    ASSUME Next
    PROVE  /\ question' = question
           /\ answer'.to = question.of
           /\ answer'.to = "eligibility" => AnswerEligibility
           /\ answer'.to = "authorization" => AnswerAuthorization
           /\ answer'.to = "scan" => AnswerScan
           /\ answer'.to = "costs" => AnswerCosts
           /\ answer'.to = "amount" => AnswerAmount
           /\ answer'.to = "readiness" => AnswerReadiness
           /\ answer'.to = "scholarship" => AnswerScholarship
           /\ answer'.to = "match" => AnswerMatch
           /\ answer'.to = "cohort" => AnswerCohort
           /\ answer'.to = "catalogue" => AnswerCatalogue
           /\ answer'.to = "environment" => AnswerEnvironment
           /\ answer'.to = "records" => AnswerRecords
           /\ answer'.to = "reports" => AnswerReports
           /\ answer'.to = "follow_ups" => AnswerFollowUps
           /\ answer'.to = "form" => AnswerForm
  <1>1. ASSUME AnswerEligibility
        PROVE  question' = question /\ question.of = "eligibility" /\ answer'.to = "eligibility"
    BY <1>1, Tagged DEF Answer, AnswerEligibility
  <1>2. ASSUME AnswerAuthorization
        PROVE  question' = question /\ question.of = "authorization" /\ answer'.to = "authorization"
    BY <1>2, Tagged DEF Answer, AnswerAuthorization
  <1>3. ASSUME AnswerScan
        PROVE  question' = question /\ question.of = "scan" /\ answer'.to = "scan"
    BY <1>3, Tagged DEF Answer, AnswerScan
  <1>4. ASSUME AnswerCosts
        PROVE  question' = question /\ question.of = "costs" /\ answer'.to = "costs"
    BY <1>4, Tagged DEF Answer, AnswerCosts
  <1>5. ASSUME AnswerAmount
        PROVE  question' = question /\ question.of = "amount" /\ answer'.to = "amount"
    BY <1>5, Tagged DEF Answer, AnswerAmount
  <1>6. ASSUME AnswerReadiness
        PROVE  question' = question /\ question.of = "readiness" /\ answer'.to = "readiness"
    BY <1>6, Tagged DEF Answer, AnswerReadiness, Assessed
  <1>7. ASSUME AnswerScholarship
        PROVE  question' = question /\ question.of = "scholarship" /\ answer'.to = "scholarship"
    BY <1>7, Tagged DEF Answer, AnswerScholarship
  <1>8. ASSUME AnswerMatch
        PROVE  question' = question /\ question.of = "match" /\ answer'.to = "match"
    BY <1>8, Tagged DEF Answer, AnswerMatch
  <1>9. ASSUME AnswerCohort
        PROVE  question' = question /\ question.of = "cohort" /\ answer'.to = "cohort"
    BY <1>9, Tagged DEF Answer, AnswerCohort
  <1>10. ASSUME AnswerCatalogue
        PROVE  question' = question /\ question.of = "catalogue" /\ answer'.to = "catalogue"
    BY <1>10, Tagged DEF Answer, AnswerCatalogue
  <1>11. ASSUME AnswerEnvironment
        PROVE  question' = question /\ question.of = "environment" /\ answer'.to = "environment"
    BY <1>11, Tagged DEF Answer, AnswerEnvironment
  <1>12. ASSUME AnswerRecords
        PROVE  question' = question /\ question.of = "records" /\ answer'.to = "records"
    BY <1>12, Tagged DEF Answer, AnswerRecords
  <1>13. ASSUME AnswerReports
        PROVE  question' = question /\ question.of = "reports" /\ answer'.to = "reports"
    BY <1>13, Tagged DEF Answer, AnswerReports
  <1>14. ASSUME AnswerFollowUps
        PROVE  question' = question /\ question.of = "follow_ups" /\ answer'.to = "follow_ups"
    BY <1>14, Tagged DEF Answer, AnswerFollowUps
  <1>15. ASSUME AnswerForm
        PROVE  question' = question /\ question.of = "form" /\ answer'.to = "form"
    BY <1>15, Tagged DEF Answer, AnswerForm
  <1> QED
    BY <1>1, <1>2, <1>3, <1>4, <1>5, <1>6, <1>7, <1>8, <1>9, <1>10, <1>11, <1>12, <1>13, <1>14, <1>15 DEF Next

-------------------------------------------------------------------------------
(* Nobody gets at what is protected.                                       *)

\* A denial allows nothing; what is allowed is audited and reasoned as it says.
LEMMA Granting ==
    /\ ~Deny.allowed
    /\ \A aud, reas : /\ Allow(aud, reas).allowed
                      /\ Allow(aud, reas).audited = aud /\ Allow(aud, reas).reasoned = reas
  BY DEF Deny, Allow

\* What is allowed is allowed by one clause, which the earlier ones leave to it.
LEMMA AuthorizeClauses ==
    ASSUME NEW s, NEW a, Authorize(s, a).allowed
    PROVE  /\ ~HardDenial(s, a)
           /\ s.owner => Authorize(s, a) = AsOwner(a) /\ a.action \notin {"publish", "verify"}
           /\ ~s.owner /\ (s.delegation # NoGrant \/ "family_delegate" \in s.roles) =>
                  Authorize(s, a) = AsDelegate(s, a) /\ s.delegation # NoGrant
           /\ ~s.owner /\ ~(s.delegation # NoGrant \/ "family_delegate" \in s.roles) =>
                  Authorize(s, a) = AsRole(s, a)
  <1>1. ~HardDenial(s, a)
    BY Granting DEF Authorize
  <1>2. ASSUME s.owner
        PROVE  Authorize(s, a) = AsOwner(a) /\ a.action \notin {"publish", "verify"}
    <2>1. Authorize(s, a) = AsOwner(a)
      BY <1>1, <1>2 DEF Authorize
    <2> QED
      BY <2>1, Granting DEF AsOwner
  <1>3. ASSUME ~s.owner, s.delegation # NoGrant \/ "family_delegate" \in s.roles
        PROVE  Authorize(s, a) = AsDelegate(s, a) /\ s.delegation # NoGrant
    <2>1. Authorize(s, a) = AsDelegate(s, a)
      BY <1>1, <1>3 DEF Authorize
    <2> QED
      BY <2>1, Granting DEF AsDelegate
  <1>4. ASSUME ~s.owner, ~(s.delegation # NoGrant \/ "family_delegate" \in s.roles)
        PROVE  Authorize(s, a) = AsRole(s, a)
    BY <1>1, <1>4 DEF Authorize
  <1> QED
    BY <1>1, <1>2, <1>3, <1>4

\* What a role allows to a stranger, and of sensitive data.
RoleBounds(s, a, may) ==
    /\ s.relation = "none" =>
           /\ s.roles \cap {"gov_officer", "platform_admin"} # {}
           /\ s.standing # "no_mfa" /\ may.audited /\ may.reasoned
    /\ a.sensitive /\ a.action \in SensitiveActions /\ "employer_staff" \notin s.roles =>
           may.audited /\ may.reasoned

\* The branches of AsRole, one role at a time: whatever lets somebody in who is not
\* the owner keeps to the bounds of a role.
LEMMA RoleClauses ==
    ASSUME NEW s, NEW a \in Resources, AsRole(s, a).allowed
    PROVE  RoleBounds(s, a, AsRole(s, a))
  <1>1. CASE "assistant" \in s.roles
    <2>1. AsRole(s, a) = AsAssistant(s, a)
      BY <1>1 DEF AsRole
    <2>2. s.relation = "case_consented"
      BY <2>1, Granting DEF AsAssistant
    <2>3. a.sensitive /\ a.action \in SensitiveActions => AsRole(s, a) = Allow(TRUE, TRUE)
      BY <2>1, <2>2, Granting DEF AsAssistant, SensitiveActions
    <2> QED
      BY <2>2, <2>3, Granting DEF RoleBounds
  <1>2. CASE "assistant" \notin s.roles /\ "employer_staff" \in s.roles
    <2>1. AsRole(s, a) = AsEmployer(s, a)
      BY <1>2 DEF AsRole
    <2>2. s.relation # "none"
      BY <2>1, Granting DEF AsEmployer
    <2> QED
      BY <1>2, <2>2 DEF RoleBounds
  <1>3. CASE /\ "assistant" \notin s.roles /\ "employer_staff" \notin s.roles
             /\ s.roles \cap Organization # {}
    <2>1. AsRole(s, a) = AsOrganization(s, a)
      BY <1>3 DEF AsRole
    <2>2. s.relation # "none"
      BY <2>1, Granting DEF AsOrganization
    <2>3. AsRole(s, a) = Allow(a.sensitive \/ a.action \in SensitiveActions, a.sensitive)
      BY <2>1, Granting DEF AsOrganization
    <2>4. AsRole(s, a).audited = (a.sensitive \/ a.action \in SensitiveActions)
      BY <2>3 DEF Allow
    <2>5. AsRole(s, a).reasoned = a.sensitive
      BY <2>3 DEF Allow
    <2> QED
      BY <2>2, <2>4, <2>5 DEF RoleBounds
  <1>4. CASE /\ "assistant" \notin s.roles /\ "employer_staff" \notin s.roles
             /\ s.roles \cap Organization = {} /\ "gov_officer" \in s.roles
    <2>1. AsRole(s, a) = AsGovernment(s, a)
      BY <1>4 DEF AsRole
    <2>2. s.standing = "mfa" /\ AsRole(s, a) = Allow(TRUE, TRUE)
      BY <2>1, Granting DEF AsGovernment
    <2> QED
      BY <1>4, <2>2, Granting DEF RoleBounds
  <1>5. CASE /\ "assistant" \notin s.roles /\ "employer_staff" \notin s.roles
             /\ s.roles \cap Organization = {} /\ "gov_officer" \notin s.roles /\ "support_agent" \in s.roles
    <2>1. AsRole(s, a) = AsSupport(s, a)
      BY <1>5 DEF AsRole
    <2>2. s.relation # "none" /\ a.action \notin SensitiveActions
      BY <2>1, Granting DEF AsSupport, SensitiveActions
    <2> QED
      BY <2>2 DEF RoleBounds
  <1>6. CASE /\ "assistant" \notin s.roles /\ "employer_staff" \notin s.roles
             /\ s.roles \cap Organization = {} /\ "gov_officer" \notin s.roles /\ "support_agent" \notin s.roles
    <2>1. "platform_admin" \in s.roles /\ AsRole(s, a) = AsAdmin(s, a)
      BY <1>6, Granting DEF AsRole
    <2>2. s.standing # "no_mfa" /\ AsRole(s, a) = Allow(TRUE, TRUE)
      BY <2>1, Granting DEF AsAdmin
    <2> QED
      BY <2>1, <2>2, Granting DEF RoleBounds
  <1> QED
    BY <1>1, <1>2, <1>3, <1>4, <1>5, <1>6

\* An answer about access lets nobody in where authorize may not.
LEMMA AccessStep ==
    ASSUME AnswerAuthorization
    PROVE  AccessProtected'
  <1>1. /\ question' = question
        /\ \A a \in Resources : answer'.may[a] = Authorize(question.subject, a)
    BY Tagged DEF AnswerAuthorization, Answer
  <1> PICK s : s = question.subject
    OBVIOUS
  <1> SUFFICES ASSUME NEW a \in Resources, Authorize(s, a).allowed
               PROVE  /\ s.owner => a.action \notin {"verify", "publish"}
                      /\ ~s.owner /\ s.delegation # NoGrant =>
                             /\ a.action = "read" /\ ~a.sensitive
                             /\ CASE a.type = "case"                     -> "view_progress" \in s.delegation
                                  [] a.type \in {"cost_plan", "payment"} -> "view_cost" \in s.delegation
                                  [] OTHER                               -> FALSE
                      /\ "platform_admin" \in s.roles /\ a.sensitive => s.session = "break_glass_reasoned"
                      /\ "assistant" \in s.roles /\ "platform_admin" \notin s.roles =>
                             a.action # "settle" /\ (a.type = "payment" => a.action # "write")
                      /\ ~s.owner /\ s.delegation = NoGrant /\ s.relation = "none" =>
                             /\ s.roles \cap {"gov_officer", "platform_admin"} # {}
                             /\ s.standing # "no_mfa" /\ Authorize(s, a).audited /\ Authorize(s, a).reasoned
                      /\ ~s.owner /\ a.sensitive /\ a.action \in SensitiveActions /\ "employer_staff" \notin s.roles =>
                             Authorize(s, a).audited /\ Authorize(s, a).reasoned
    BY <1>1 DEF AccessProtected
  <1>2. CASE s.owner
    BY <1>2, AuthorizeClauses DEF HardDenial
  <1>3. CASE ~s.owner /\ s.delegation # NoGrant
    <2>1. AsDelegate(s, a).allowed
      BY <1>3, AuthorizeClauses
    <2>2. a.action = "read" /\ ~a.sensitive /\ a.type \in {"cost_plan", "payment", "case"}
      BY <2>1 DEF AsDelegate, Deny
    <2>3. a.type = "case" => "view_progress" \in s.delegation
      BY <2>1 DEF AsDelegate, Deny
    <2>4. a.type \in {"cost_plan", "payment"} => "view_cost" \in s.delegation
      BY <2>1 DEF AsDelegate, Deny
    <2> QED
      BY <1>3, <2>2, <2>3, <2>4, AuthorizeClauses DEF HardDenial, SensitiveActions
  <1>4. CASE ~s.owner /\ s.delegation = NoGrant
    <2>1. Authorize(s, a) = AsRole(s, a)
      BY <1>4, AuthorizeClauses
    <2> QED
      BY <1>4, <2>1, AuthorizeClauses, RoleClauses DEF HardDenial, RoleBounds
  <1> QED
    BY <1>2, <1>3, <1>4

\* What the web app takes, it takes for a verified visitor of Clerk, behind its gate
\* and into PostgreSQL; and with all in place it takes what is allowed to be taken.
LEMMA UploadsAreGated ==
    ASSUME NEW e \in Environments, NEW bound, NEW v \in Visitors
    PROVE  /\ WebUpload(e, bound, v) # "refused" =>
                  /\ WebUpload(e, bound, v) # "d1" /\ v.session = "verified"
                  /\ e.uploads /\ e.controls = Controls
           /\ Accepted(e) /\ e.uploads /\ bound = Bindings /\ v.session = "verified" =>
                  WebUpload(e, bound, v) = "postgres"
  <1>1. ASSUME WebUpload(e, bound, v) # "refused"
        PROVE  /\ WebUser(e, v) \notin {Nobody, Refused} /\ e.uploads /\ e.controls = Controls
               /\ e.identity = "clerk" /\ e.driver = "postgres"
    BY <1>1 DEF WebUpload, WebGate, Gate, Controlled
  <1>2. ASSUME WebUpload(e, bound, v) # "refused"
        PROVE  WebUpload(e, bound, v) # "d1"
    <2>1. OperationalDatabase(e, bound) # "d1"
      BY <1>1, <1>2 DEF OperationalDatabase
    <2> QED
      BY <1>1, <1>2, <2>1 DEF WebUpload
  <1>3. ASSUME WebUpload(e, bound, v) # "refused"
        PROVE  v.session = "verified"
    BY <1>1, <1>3 DEF WebUser
  <1>4. ASSUME Accepted(e), e.uploads, bound = Bindings, v.session = "verified"
        PROVE  WebUpload(e, bound, v) = "postgres"
    <2>1. e.identity = "clerk" /\ e.driver = "postgres" /\ e.controls = Controls /\ e.clerk
      BY <1>4 DEF Accepted, Controlled
    <2>2. WebGate(e, bound)
      BY <1>4, <2>1 DEF WebGate, Gate, Controlled, Bindings
    <2>3. WebUser(e, v) = [provider |-> "clerk", mfa |-> v.factor]
      BY <1>4, <2>1 DEF WebUser
    <2>4. WebUser(e, v).provider = "clerk"
      BY <2>3
    <2>5. WebUser(e, v) \notin {Nobody, Refused}
      BY <2>4 DEF Nobody, Refused
    <2>6. OperationalDatabase(e, bound) = "postgres"
      BY <1>4, <2>1 DEF OperationalDatabase, Bindings
    <2> QED
      BY <2>2, <2>5, <2>6 DEF WebUpload
  <1> QED
    BY <1>1, <1>2, <1>3, <1>4

\* A configuration that loadEnv accepts runs on the storage it names, and in staging
\* and in production on a database and on secrets of its own; its gate is its switch.
LEMMA AcceptedRuns ==
    ASSUME NEW e \in Environments, Accepted(e)
    PROVE  /\ CreateStorage(e) = e.driver
           /\ e.app \in {"staging", "production"} => e.driver = "postgres" /\ e.secrets = "own"
           /\ Gate(e) <=> e.uploads
  <1>1. e.driver \in {"memory", "postgres"} /\ e.key \in {"none", "short", "whole"} /\ e.uploads \in BOOLEAN
    BY DEF Environments
  <1>2. CreateStorage(e) = e.driver
    BY <1>1 DEF CreateStorage, Accepted
  <1> QED
    BY <1>1, <1>2 DEF Accepted, Gate

\* An answer about a deployment tells a safe one, and one whose uploads are gated.
LEMMA EnvironmentStep ==
    ASSUME AnswerEnvironment, Asked
    PROVE  EnvironmentHolds'
  <1> PICK e : e = question.env
    OBVIOUS
  <1>1. question' = question /\ question.of = "environment"
    BY DEF AnswerEnvironment, Answer
  <1>2. e \in Environments
    BY <1>1, DeploymentsAssumption DEF Asked
  <1>3. /\ answer'.accepted = Accepted(e) /\ answer'.storage = CreateStorage(e)
        /\ \A bound \in SUBSET Bindings, v \in Visitors : answer'.uploads[bound][v] = WebUpload(e, bound, v)
    BY Tagged DEF AnswerEnvironment, Answer
  <1> QED
    BY <1>1, <1>2, <1>3, UploadsAreGated, AcceptedRuns DEF EnvironmentHolds

\* What a form's row may be, whatever it is that was sent.
RowBounds(kind, f, row) ==
    row # NotStored =>
        /\ kind \in {"onboarding", "outcome"} => f.consent
        /\ row.table \in {"journey_records", "outcome_reports"} => f.journey \in {"own", "own_other"}
        /\ row.table = "outcome_reports" => f.journey = "own"
        /\ "status" \in DOMAIN row /\ row.status \in {"verified", "completed", "in_review"} =>
               row.table = "journey_records"

\* Whatever a form holds, crafted ones too, its row keeps to the bounds of its table.
LEMMA RowsAreBounded ==
    ASSUME NEW kind \in Kinds, NEW f
    PROVE  RowBounds(kind, f, Submit(kind, f))
  <1>1. CASE kind = "record"
    BY <1>1 DEF Submit, JourneyRecord, RowBounds
  <1>2. CASE kind = "cost"
    BY <1>2 DEF Submit, LedgerEntry, RowBounds
  <1>3. CASE kind = "delegation"
    BY <1>3 DEF Submit, Delegation, RowBounds
  <1>4. CASE kind = "verification"
    BY <1>4 DEF Submit, VerificationRequest, RowBounds
  <1>5. CASE kind = "ticket"
    BY <1>5 DEF Submit, SupportTicket, RowBounds
  <1>6. CASE kind = "evidence"
    BY <1>6 DEF Submit, PartnerSubmission, RowBounds
  <1>7. CASE kind = "outcome"
    BY <1>7 DEF Submit, OutcomeReport, RowBounds
  <1>8. CASE kind = "direction"
    BY <1>8 DEF Submit, Direction, RowBounds
  <1>9. CASE kind = "onboarding"
    BY <1>9 DEF Submit, Onboarding, Direction, RowBounds
  <1>10. CASE kind = "journey"
    BY <1>10 DEF Submit, Journey, RowBounds
  <1>11. CASE kind = "blank_journey"
    BY <1>11 DEF Submit, BlankJourney, RowBounds
  <1>12. CASE kind = "start"
    BY <1>12 DEF Submit, StartCase, RowBounds
  <1>13. CASE kind = "workspace"
    BY <1>13 DEF Submit, ActiveWorkspace, RowBounds
  <1> QED
    BY <1>1, <1>2, <1>3, <1>4, <1>5, <1>6, <1>7, <1>8, <1>9, <1>10, <1>11, <1>12, <1>13 DEF Kinds

\* An answer about a form writes a row within its bounds.
LEMMA SubmissionStep ==
    ASSUME AnswerForm, Asked
    PROVE  SubmissionsBounded'
  <1>1. /\ question' = question /\ question.of = "form"
        /\ answer'.row = Submit(question.kind, question.form)
    BY Tagged DEF AnswerForm, Answer
  <1>2. question.kind \in Kinds
    BY <1>1, CraftedAssumption DEF Asked
  <1> QED
    BY <1>1, <1>2, RowsAreBounded DEF SubmissionsBounded, RowBounds

\* Initially nothing is answered, and what was asked stays asked.
LEMMA StillAsked ==
    ASSUME Asked, [Next]_vars
    PROVE  Asked'
  BY NextAnswers DEF Asked, vars

\* Nobody gets at what is protected, whatever their roles, whatever the deployment and
\* whatever they send (authorize, loadEnv, storeDocument, the server actions).
THEOREM NobodyGetsAtWhatIsProtected == Spec => []ProtectionsHold
  <1>1. Init => Asked /\ ProtectionsHold
    BY DEF Init, Unanswered, ProtectionsHold, AccessProtected, EnvironmentHolds, SubmissionsBounded
  <1>2. Asked /\ ProtectionsHold /\ [Next]_vars => (Asked /\ ProtectionsHold)'
    <2> SUFFICES ASSUME Asked, ProtectionsHold, [Next]_vars
                 PROVE  ProtectionsHold'
      BY StillAsked
    <2>1. CASE UNCHANGED vars
      BY <2>1 DEF vars, ProtectionsHold, AccessProtected, EnvironmentHolds, SubmissionsBounded
    <2>2. CASE Next
      <3>1. AccessProtected'
        BY <2>2, NextAnswers, AccessStep DEF AccessProtected
      <3>2. EnvironmentHolds'
        BY <2>2, NextAnswers, EnvironmentStep DEF EnvironmentHolds
      <3>3. SubmissionsBounded'
        BY <2>2, NextAnswers, SubmissionStep DEF SubmissionsBounded
      <3> QED
        BY <3>1, <3>2, <3>3 DEF ProtectionsHold
    <2> QED
      BY <2>1, <2>2
  <1> QED
    BY <1>1, <1>2, PTL DEF Spec

-------------------------------------------------------------------------------
(* No offer is cleared without a person.                                   *)

\* What an offer is alarming for, in the words of its statements.
Grave(s) ==
    \/ s.job # "unsaid" /\ ~Found(s)
    \/ s.job = "suspended" \/ PersonalDestination(s) \/ s.visa = "visit"
    \/ Found(s) /\ (s.cost = "above" \/ s.licence \notin {"no_agency", "no_licence", "active"})
Contradicted(s) ==
    Found(s) /\ (s.employer \notin {"unsaid", "same"} \/ s.salary \notin {"unsaid", "same"} \/ s.role \notin {"unsaid", "same"})
Doubtful(s) ==
    Contradicted(s) \/ s.message \in {"guarantee", "cash"} \/ s.institution \notin {"unsaid", "same"}

Fails(checks, key) == \E d \in checks : d.key = key /\ d.passed = "no"

\* How checks are put together, and which of them fail.
LEMMA FailingChecks ==
    ASSUME NEW key
    PROVE  /\ ~Fails({}, key)
           /\ \A A, B : Fails(A \cup B, key) <=> Fails(A, key) \/ Fails(B, key)
           /\ \A b \in BOOLEAN : \A check : Fails(When(b, check), key) <=> b /\ Fails({check}, key)
           /\ \A b \in BOOLEAN : \A of : Fails({Performed(of, b)}, key) <=> of = key /\ ~b
           /\ \A b, of : ~Fails({Undecided(of, b)}, key)
  <1>1. ~Fails({}, key) /\ \A A, B : Fails(A \cup B, key) <=> Fails(A, key) \/ Fails(B, key)
    BY DEF Fails
  <1>2. ASSUME NEW b \in BOOLEAN, NEW check
        PROVE  Fails(When(b, check), key) <=> b /\ Fails({check}, key)
    BY DEF Fails, When
  <1>3. ASSUME NEW b \in BOOLEAN, NEW of
        PROVE  Fails({Performed(of, b)}, key) <=> of = key /\ ~b
    BY DEF Fails, Performed
  <1>4. ASSUME NEW b, NEW of
        PROVE  ~Fails({Undecided(of, b)}, key)
    BY DEF Fails, Undecided
  <1> QED
    BY <1>1, <1>2, <1>3, <1>4

\* The checks of the job that fail are those whose claim the listing contradicts.
LEMMA FailedJobChecks ==
    ASSUME NEW s, NEW key
    PROVE  Fails(JobChecks(s), key) <=>
               /\ Found(s)
               /\ \/ key = "employer_match" /\ s.employer \notin {"unsaid", "same"}
                  \/ key = "salary_match" /\ s.salary \notin {"unsaid", "same"}
                  \/ key = "role_match" /\ s.role \notin {"unsaid", "same"}
                  \/ key = "cost_within_allowed" /\ s.cost = "above"
                  \/ key = "agency_licence_active" /\ s.licence \notin {"no_agency", "no_licence", "active"}
  <1>1. CASE ~Found(s)
    BY <1>1, FailingChecks DEF JobChecks
  <1>2. CASE Found(s)
    <2>1. Fails(When(s.employer # "unsaid", Performed("employer_match", s.employer = "same")), key) <=>
              key = "employer_match" /\ s.employer \notin {"unsaid", "same"}
      BY FailingChecks
    <2>2. Fails(When(s.salary # "unsaid", Performed("salary_match", s.salary = "same")), key) <=>
              key = "salary_match" /\ s.salary \notin {"unsaid", "same"}
      BY FailingChecks
    <2>3. Fails(When(s.role # "unsaid", Performed("role_match", s.role = "same")), key) <=>
              key = "role_match" /\ s.role \notin {"unsaid", "same"}
      BY FailingChecks
    <2>4. Fails(When(s.cost \in {"within", "above"}, Performed("cost_within_allowed", s.cost = "within")), key) <=>
              key = "cost_within_allowed" /\ s.cost = "above"
      <3>2. CASE s.cost \in {"within", "above"}
        <4>1. When(s.cost \in {"within", "above"}, Performed("cost_within_allowed", s.cost = "within"))
                  = {Performed("cost_within_allowed", s.cost = "within")}
          BY <3>2 DEF When
        <4> QED
          BY <3>2, <4>1, FailingChecks
      <3>3. CASE s.cost \notin {"within", "above"}
        <4>1. When(s.cost \in {"within", "above"}, Performed("cost_within_allowed", s.cost = "within")) = {}
          BY <3>3 DEF When
        <4> QED
          BY <3>3, <4>1, FailingChecks
      <3> QED
        BY <3>2, <3>3
    <2>5. ~Fails(When(s.cost = "other_currency", Undecided("cost_within_allowed", FALSE)), key)
      BY DEF Fails, When, Undecided
    <2>6. ~Fails(When(s.licence = "no_licence", Undecided("agency_licence_active", FALSE)), key)
      BY DEF Fails, When, Undecided
    <2>7. Fails(When(s.licence \notin {"no_agency", "no_licence"},
                     Performed("agency_licence_active", s.licence = "active")), key) <=>
              key = "agency_licence_active" /\ s.licence \notin {"no_agency", "no_licence", "active"}
      BY FailingChecks
    <2> QED
      BY <1>2, <2>1, <2>2, <2>3, <2>4, <2>5, <2>6, <2>7 DEF Fails, JobChecks
  <1> QED
    BY <1>1, <1>2

\* The other checks that fail are those whose claim speaks against the offer.
LEMMA FailedOtherChecks ==
    ASSUME NEW s, NEW key
    PROVE  Fails(OtherChecks(s), key) <=>
               \/ key = "job_id_exists" /\ s.job # "unsaid" /\ ~Found(s)
               \/ key = "payment_destination_authorized" /\ PersonalDestination(s)
               \/ key = "guarantee_language" /\ s.message = "guarantee"
               \/ key = "visa_class_consistent" /\ s.visa = "visit"
               \/ key = "institution_domain_match" /\ s.institution \notin {"unsaid", "same"}
  <1>1. Fails({IF s.job = "unsaid" THEN Undecided("job_id_exists", FALSE) ELSE Performed("job_id_exists", Found(s))}, key) <=>
            key = "job_id_exists" /\ s.job # "unsaid" /\ ~Found(s)
    <2> Found(s) \in BOOLEAN
      BY DEF Found
    <2> QED
      BY FailingChecks
  <1>2. Fails({IF PersonalDestination(s) THEN Performed("payment_destination_authorized", FALSE)
               ELSE Undecided("payment_destination_authorized", s.destination # "unsaid")}, key) <=>
            key = "payment_destination_authorized" /\ PersonalDestination(s)
    BY FailingChecks
  <1>3. Fails({IF s.message = "none" THEN Undecided("guarantee_language", FALSE)
               ELSE Performed("guarantee_language", s.message # "guarantee")}, key) <=>
            key = "guarantee_language" /\ s.message = "guarantee"
    BY FailingChecks
  <1>4. Fails(When(s.visa # "unsaid", Performed("visa_class_consistent", s.visa # "visit")), key) <=>
            key = "visa_class_consistent" /\ s.visa = "visit"
    BY FailingChecks
  <1>5. Fails(When(s.institution # "unsaid", Performed("institution_domain_match", s.institution = "same")), key) <=>
            key = "institution_domain_match" /\ s.institution \notin {"unsaid", "same"}
    BY FailingChecks
  <1>6. ~Fails(When(s.document = "attached", Undecided("document_authenticity", FALSE)), key)
    BY DEF Fails, When, Undecided
  <1>7. PICK A, B, C, D, E, F :
            /\ A = {IF s.job = "unsaid" THEN Undecided("job_id_exists", FALSE) ELSE Performed("job_id_exists", Found(s))}
            /\ B = {IF PersonalDestination(s) THEN Performed("payment_destination_authorized", FALSE)
                    ELSE Undecided("payment_destination_authorized", s.destination # "unsaid")}
            /\ C = {IF s.message = "none" THEN Undecided("guarantee_language", FALSE)
                    ELSE Performed("guarantee_language", s.message # "guarantee")}
            /\ D = When(s.visa # "unsaid", Performed("visa_class_consistent", s.visa # "visit"))
            /\ E = When(s.institution # "unsaid", Performed("institution_domain_match", s.institution = "same"))
            /\ F = When(s.document = "attached", Undecided("document_authenticity", FALSE))
    OBVIOUS
  <1>8. OtherChecks(s) = A \cup B \cup C \cup D \cup E \cup F
    BY <1>7, Zenon DEF OtherChecks
  <1>9. Fails(OtherChecks(s), key) <=>
            Fails(A, key) \/ Fails(B, key) \/ Fails(C, key) \/ Fails(D, key) \/ Fails(E, key) \/ Fails(F, key)
    <2> HIDE <1>7
    <2> QED
      BY <1>8 DEF Fails
  <1>10. /\ Fails(A, key) <=> key = "job_id_exists" /\ s.job # "unsaid" /\ ~Found(s)
         /\ Fails(B, key) <=> key = "payment_destination_authorized" /\ PersonalDestination(s)
         /\ Fails(C, key) <=> key = "guarantee_language" /\ s.message = "guarantee"
    BY <1>1, <1>2, <1>3, <1>7, Zenon
  <1>11. /\ Fails(D, key) <=> key = "visa_class_consistent" /\ s.visa = "visit"
         /\ Fails(E, key) <=> key = "institution_domain_match" /\ s.institution \notin {"unsaid", "same"}
         /\ ~Fails(F, key)
    BY <1>4, <1>5, <1>6, <1>7, Zenon
  <1> QED
    BY <1>9, <1>10, <1>11

\* The signals are those of the checks that fail, and of what no check stands for.
LEMMA SignalsRaised ==
    ASSUME NEW s, NEW x
    PROVE  x \in Signals(s) <=>
               \/ \E key : x = SignalOf(key) /\ (Fails(JobChecks(s), key) \/ Fails(OtherChecks(s), key))
               \/ s.job = "suspended" /\ x = Signal("job_id_not_found", "critical")
               \/ s.message = "cash" /\ x = Signal("cash_payment_requested", "high")
               \/ s.document = "attached" /\ x = Signal("offer_document_unverifiable", "medium")
  <1>1. x \in {SignalOf(c.key) : c \in {d \in ChecksOf(s) : d.passed = "no"}} <=>
            \E key : x = SignalOf(key) /\ (Fails(JobChecks(s), key) \/ Fails(OtherChecks(s), key))
    <2> HIDE DEF SignalOf, JobChecks, OtherChecks
    <2> QED
      BY DEF Fails, ChecksOf
  <1>2. x \in When(s.job = "suspended", Signal("job_id_not_found", "critical")) <=>
            s.job = "suspended" /\ x = Signal("job_id_not_found", "critical")
    BY DEF When
  <1>3. x \in When(s.message = "cash", Signal("cash_payment_requested", "high")) <=>
            s.message = "cash" /\ x = Signal("cash_payment_requested", "high")
    BY DEF When
  <1>4. x \in When(s.document = "attached", Signal("offer_document_unverifiable", "medium")) <=>
            s.document = "attached" /\ x = Signal("offer_document_unverifiable", "medium")
    BY DEF When
  <1> QED
    BY <1>1, <1>2, <1>3, <1>4 DEF Signals

\* Every check has a signal of its own, of the severity the scanner gives it.
LEMMA SignalsOfChecks ==
    /\ SignalOf("employer_match") = Signal("employer_mismatch", "high")
    /\ SignalOf("salary_match") = Signal("salary_mismatch", "high")
    /\ SignalOf("role_match") = Signal("role_mismatch", "high")
    /\ SignalOf("cost_within_allowed") = Signal("cost_above_declared", "critical")
    /\ SignalOf("agency_licence_active") = Signal("agency_not_licensed", "critical")
    /\ SignalOf("job_id_exists") = Signal("job_id_not_found", "critical")
    /\ SignalOf("payment_destination_authorized") = Signal("payment_to_personal_account", "critical")
    /\ SignalOf("guarantee_language") = Signal("guarantee_language", "high")
    /\ SignalOf("visa_class_consistent") = Signal("visa_class_inconsistent", "critical")
    /\ SignalOf("institution_domain_match") = Signal("institution_domain_mismatch", "high")
  BY DEF SignalOf

\* What is said of an offer decides which signals there are.
LEMMA SignalsSaid ==
    ASSUME NEW s
    PROVE  /\ (\E x \in Signals(s) : x.level = "critical") <=> Grave(s)
           /\ (\E x \in Signals(s) : x.kind \in Mismatch) <=> Contradicted(s)
           /\ (\E x \in Signals(s) : x.level = "high") <=> Doubtful(s)
  <1> DEFINE Raised(key) == Fails(JobChecks(s), key) \/ Fails(OtherChecks(s), key)
  <1>1. \A kind, level : Signal(kind, level).kind = kind /\ Signal(kind, level).level = level
    BY DEF Signal
  <1>2. \A x : x \in Signals(s) <=>
               \/ \E key : x = SignalOf(key) /\ Raised(key)
               \/ s.job = "suspended" /\ x = Signal("job_id_not_found", "critical")
               \/ s.message = "cash" /\ x = Signal("cash_payment_requested", "high")
               \/ s.document = "attached" /\ x = Signal("offer_document_unverifiable", "medium")
    BY SignalsRaised
  <1>3. \A key : Raised(key) <=>
            \/ key = "employer_match" /\ Found(s) /\ s.employer \notin {"unsaid", "same"}
            \/ key = "salary_match" /\ Found(s) /\ s.salary \notin {"unsaid", "same"}
            \/ key = "role_match" /\ Found(s) /\ s.role \notin {"unsaid", "same"}
            \/ key = "cost_within_allowed" /\ Found(s) /\ s.cost = "above"
            \/ key = "agency_licence_active" /\ Found(s) /\ s.licence \notin {"no_agency", "no_licence", "active"}
            \/ key = "job_id_exists" /\ s.job # "unsaid" /\ ~Found(s)
            \/ key = "payment_destination_authorized" /\ PersonalDestination(s)
            \/ key = "guarantee_language" /\ s.message = "guarantee"
            \/ key = "visa_class_consistent" /\ s.visa = "visit"
            \/ key = "institution_domain_match" /\ s.institution \notin {"unsaid", "same"}
    BY FailedJobChecks, FailedOtherChecks
  <1> HIDE DEF Raised
  <1>4. (\E x \in Signals(s) : x.level = "critical") <=>
            \/ \E key : Raised(key) /\ SignalOf(key).level = "critical"
            \/ s.job = "suspended"
    BY <1>1, <1>2
  <1>5. (\E x \in Signals(s) : x.level = "high") <=>
            \/ \E key : Raised(key) /\ SignalOf(key).level = "high"
            \/ s.message = "cash"
    BY <1>1, <1>2
  <1>6. (\E x \in Signals(s) : x.kind \in Mismatch) <=>
            \E key : Raised(key) /\ SignalOf(key).kind \in Mismatch
    BY <1>1, <1>2 DEF Mismatch
  <1>7. (\E key : Raised(key) /\ SignalOf(key).level = "critical") <=>
            \/ Raised("cost_within_allowed") \/ Raised("agency_licence_active") \/ Raised("job_id_exists")
            \/ Raised("payment_destination_authorized") \/ Raised("visa_class_consistent")
    BY <1>1, <1>3, SignalsOfChecks
  <1>8. (\E key : Raised(key) /\ SignalOf(key).level = "high") <=>
            \/ Raised("employer_match") \/ Raised("salary_match") \/ Raised("role_match")
            \/ Raised("guarantee_language") \/ Raised("institution_domain_match")
    BY <1>1, <1>3, SignalsOfChecks
  <1>9. (\E key : Raised(key) /\ SignalOf(key).kind \in Mismatch) <=>
            Raised("employer_match") \/ Raised("salary_match") \/ Raised("role_match")
    BY <1>1, <1>3, SignalsOfChecks DEF Mismatch
  <1>10. (\E x \in Signals(s) : x.level = "critical") <=> Grave(s)
    BY <1>3, <1>4, <1>7 DEF Grave
  <1>11. (\E x \in Signals(s) : x.kind \in Mismatch) <=> Contradicted(s)
    BY <1>3, <1>6, <1>9 DEF Contradicted
  <1>12. (\E x \in Signals(s) : x.level = "high") <=> Doubtful(s)
    BY <1>3, <1>5, <1>8 DEF Doubtful, Contradicted
  <1> QED
    BY <1>10, <1>11, <1>12

\* Everything that must be checked is so only when a personal destination was found.
LEMMA CheckedIsGrave ==
    ASSUME NEW s, CheckedEverythingRequired(s)
    PROVE  PersonalDestination(s)
  <1> SUFFICES ASSUME ~PersonalDestination(s)
               PROVE  FALSE
    OBVIOUS
  <1> DEFINE c == Undecided("payment_destination_authorized", s.destination # "unsaid")
  <1>1. c \in ChecksOf(s)
    <2>1. c \in {IF PersonalDestination(s) THEN Performed("payment_destination_authorized", FALSE) ELSE c}
      OBVIOUS
    <2> QED
      BY <2>1 DEF ChecksOf, OtherChecks
  <1>2. c.key = "payment_destination_authorized" /\ c.passed = "open"
    BY DEF Undecided
  <1> QED
    BY <1>1, <1>2 DEF CheckedEverythingRequired

\* The verdict is that of the gravest of what is said, and clears nothing.
LEMMA VerdictIsTheGravest ==
    ASSUME NEW s
    PROVE  /\ Scan(s).verdict =
                  IF Grave(s) THEN "HIGH_RISK"
                  ELSE IF Contradicted(s) THEN "MISMATCH"
                  ELSE IF Doubtful(s) THEN "HIGH_RISK"
                  ELSE "UNKNOWN_HUMAN_CHECK_REQUIRED"
           /\ Scan(s).review <=> Scan(s).verdict \in {"UNKNOWN_HUMAN_CHECK_REQUIRED", "HIGH_RISK"}
  <1> PICK signals : signals = Signals(s)
    OBVIOUS
  <1> PICK checked \in BOOLEAN : checked <=> CheckedEverythingRequired(s)
    OBVIOUS
  <1>1. checked => Grave(s)
    BY CheckedIsGrave DEF Grave
  <1>2. /\ (\E x \in signals : x.level = "critical") <=> Grave(s)
        /\ (\E x \in signals : x.kind \in Mismatch) <=> Contradicted(s)
        /\ (\E x \in signals : x.level = "high") <=> Doubtful(s)
    BY SignalsSaid
  <1>3. DeriveVerdict(signals, CheckedEverythingRequired(s)) =
            IF Grave(s) THEN "HIGH_RISK"
            ELSE IF Contradicted(s) THEN "MISMATCH"
            ELSE IF Doubtful(s) THEN "HIGH_RISK"
            ELSE "UNKNOWN_HUMAN_CHECK_REQUIRED"
    BY <1>1, <1>2 DEF DeriveVerdict
  <1>4. Scan(s).verdict = DeriveVerdict(signals, CheckedEverythingRequired(s))
    BY DEF Scan
  <1> QED
    BY <1>3, <1>4 DEF Scan

\* An offer has the fields of the statements about the job and of those about the rest.
LEMMA OfferFields ==
    ASSUME NEW c \in JobClaims, NEW o \in OtherClaims
    PROVE  LET s == Joined(c, o)
           IN  /\ s.job = c.job /\ s.employer = c.employer /\ s.salary = c.salary /\ s.role = c.role
               /\ s.cost = c.cost /\ s.licence = c.licence
               /\ s.message = o.message /\ s.destination = o.destination /\ s.visa = o.visa
               /\ s.institution = o.institution
  BY DEF JobClaims, OtherClaims, Joined

\* What is claimed of a job that is not known: nothing.
Claimable(c) ==
    c.job \in {"unsaid", "unlisted"} =>
        /\ c.employer = "unsaid" /\ c.salary = "unsaid" /\ c.role = "unsaid"
        /\ c.cost = "unsaid" /\ c.licence = "no_agency"

\* What the claims of an offer must say for its scan to find it grave, contradicted
\* or doubtful.
LEMMA OfferAlarms ==
    ASSUME NEW c \in JobClaims, Claimable(c), NEW o \in OtherClaims
    PROVE  /\ Grave(Joined(c, o)) <=>
                  \/ c.cost = "above" \/ c.licence \in {"expired", "revoked"}
                  \/ c.job \in {"unlisted", "suspended"}
                  \/ o.message = "wallet" \/ o.destination = "personal" \/ o.visa = "visit"
           /\ Contradicted(Joined(c, o)) <=> "other" \in {c.employer, c.salary, c.role}
           /\ Doubtful(Joined(c, o)) <=>
                  \/ "other" \in {c.employer, c.salary, c.role}
                  \/ o.message \in {"guarantee", "cash"} \/ o.institution = "other"
  <1> PICK s : s = Joined(c, o)
    OBVIOUS
  <1>1. /\ s.job = c.job /\ s.employer = c.employer /\ s.salary = c.salary /\ s.role = c.role
        /\ s.cost = c.cost /\ s.licence = c.licence
        /\ s.message = o.message /\ s.destination = o.destination /\ s.visa = o.visa
        /\ s.institution = o.institution
    BY OfferFields
  <1>2. /\ c.job \in {"unsaid", "unlisted", "listed", "suspended"}
        /\ c.employer \in Statement /\ c.salary \in Statement /\ c.role \in Statement
        /\ c.licence \in {"no_agency", "no_licence", "active", "expired", "revoked"}
        /\ o.institution \in Statement
    BY DEF JobClaims, OtherClaims
  <1>3. Found(s) <=> c.job \in {"listed", "suspended"}
    BY <1>1 DEF Found
  <1>4. Contradicted(s) <=> "other" \in {c.employer, c.salary, c.role}
    BY <1>1, <1>2, <1>3 DEF Contradicted, Claimable, Statement
  <1>5. Grave(s) <=>
            \/ c.cost = "above" \/ c.licence \in {"expired", "revoked"}
            \/ c.job \in {"unlisted", "suspended"}
            \/ o.message = "wallet" \/ o.destination = "personal" \/ o.visa = "visit"
    BY <1>1, <1>2, <1>3 DEF Grave, Claimable, PersonalDestination
  <1>6. Doubtful(s) <=>
            \/ "other" \in {c.employer, c.salary, c.role}
            \/ o.message \in {"guarantee", "cash"} \/ o.institution = "other"
    BY <1>1, <1>2, <1>4 DEF Doubtful, Statement
  <1> QED
    BY <1>4, <1>5, <1>6

\* An answer about an offer raises the alarms its claims call for.
LEMMA ScanStep ==
    ASSUME AnswerScan, Asked
    PROVE  AlarmsStand'
  <1> PICK c : c = question.claims
    OBVIOUS
  <1>1. /\ question' = question /\ question.of = "scan"
        /\ \A o \in OtherClaims : answer'.scans[o] = Scan(Joined(c, o))
    BY Tagged DEF AnswerScan, Answer
  <1>2. c \in JobClaims /\ Claimable(c)
    BY <1>1 DEF Asked, Claimable
  <1>3. ASSUME NEW o \in OtherClaims
        PROVE  LET scan == answer'.scans[o]
                   grave == \/ c.cost = "above" \/ c.licence \in {"expired", "revoked"}
                            \/ c.job \in {"unlisted", "suspended"}
                            \/ o.message = "wallet" \/ o.destination = "personal" \/ o.visa = "visit"
                   contradicted == "other" \in {c.employer, c.salary, c.role}
               IN  /\ grave \/ contradicted \/ o.message \in {"guarantee", "cash"} \/ o.institution = "other" =>
                          scan.verdict \in {"HIGH_RISK", "MISMATCH"}
                   /\ grave => scan.verdict = "HIGH_RISK"
                   /\ ~scan.review => contradicted
    <2> PICK s : s = Joined(c, o)
      OBVIOUS
    <2>1. answer'.scans[o] = Scan(s)
      BY <1>1
    <2> QED
      BY <1>2, <2>1, OfferAlarms, VerdictIsTheGravest
  <1>4. ASSUME NEW o \in OtherClaims, NEW more \in OtherClaims,
               answer'.scans[o].verdict \in {"HIGH_RISK", "MISMATCH"},
               \A k \in DOMAIN o : o[k] \in {"unsaid", "none"} \/ more[k] = o[k]
        PROVE  answer'.scans[more].verdict \in {"HIGH_RISK", answer'.scans[o].verdict}
    <2> PICK s, t : s = Joined(c, o) /\ t = Joined(c, more)
      OBVIOUS
    <2>1. answer'.scans[o] = Scan(s) /\ answer'.scans[more] = Scan(t)
      BY <1>1
    <2>2. \A k \in {"message", "destination", "visa", "institution"} :
              o[k] \in {"unsaid", "none"} \/ more[k] = o[k]
      BY <1>4 DEF OtherClaims
    <2>3. /\ o.message \in {"wallet", "guarantee", "cash"} => more.message = o.message
          /\ o.destination = "personal" => more.destination = o.destination
          /\ o.visa = "visit" => more.visa = o.visa
          /\ o.institution = "other" => more.institution = o.institution
      BY <2>2
    <2>4. /\ Grave(s) => Grave(t)
          /\ Contradicted(s) <=> Contradicted(t)
          /\ Doubtful(s) => Doubtful(t)
      BY <1>2, <2>3, OfferAlarms
    <2> QED
      BY <1>4, <2>1, <2>4, VerdictIsTheGravest
  <1> QED
    BY <1>1, <1>3, <1>4 DEF AlarmsStand

\* No offer is cleared without a person, and to tell the scanner more never makes it
\* less alarmed (scan, deriveVerdict).
THEOREM NoOfferIsClearedAlone == Spec => []AlarmsStand
  <1>1. Init => Asked /\ AlarmsStand
    BY DEF Init, Unanswered, AlarmsStand
  <1>2. Asked /\ AlarmsStand /\ [Next]_vars => (Asked /\ AlarmsStand)'
    <2> SUFFICES ASSUME Asked, AlarmsStand, [Next]_vars
                 PROVE  AlarmsStand'
      BY StillAsked
    <2>1. CASE UNCHANGED vars
      BY <2>1 DEF vars, AlarmsStand
    <2>2. CASE Next
      BY <2>2, NextAnswers, ScanStep DEF AlarmsStand
    <2> QED
      BY <2>1, <2>2
  <1> QED
    BY <1>1, <1>2, PTL DEF Spec

-------------------------------------------------------------------------------
(* Amounts stay whole.                                                     *)

\* Whether g holds the sums of f over the parts of S, each of which is that of the
\* rest of the part and any member.
ByMember(f, S, g) ==
    /\ g[{}] = 0
    /\ \A s \in SUBSET S : \A x \in s : g[s] = f[x] + g[s \ {x}]
    /\ \A s \in SUBSET S : SumOver(f, s) = g[s]

\* A sum over a finite set is a sum over the rest of it and any member.
LEMMA SumsByMember ==
    ASSUME NEW S, IsFiniteSet(S), NEW f, \A x \in S : f[x] \in Int
    PROVE  \E g \in [SUBSET S -> Int] : ByMember(f, S, g)
  <1>1. PICK g \in [SUBSET S -> Int] : g = Summing(f, S, g)
    BY SumsExist
  <1>2. \A s \in SUBSET S : IsFiniteSet(s) /\ Cardinality(s) \in Nat
    BY FS_Subset, FS_CardinalityType
  <1>3. \A s \in SUBSET S : g[s] = IF s = {} THEN 0 ELSE f[Chosen(s)] + g[s \ {Chosen(s)}]
    BY <1>1 DEF Summing
  <1>4. ASSUME NEW s \in SUBSET S
        PROVE  SumOver(f, s) = g[s]
    <2> DEFINE h == [t \in SUBSET s |-> g[t]]
    <2>1. \A t \in SUBSET s : t # {} => t \ {Chosen(t)} \in SUBSET s
      OBVIOUS
    <2>2. h = Summing(f, s, h)
      BY <1>3, <2>1 DEF Summing
    <2>3. SumOver(f, s) = h[s]
      <3> HIDE DEF h
      <3> QED
        BY <1>2, <2>2, SumIs
    <2> QED
      BY <2>3
  <1> DEFINE T == {k \in Nat : \A s \in SUBSET S : Cardinality(s) = k =>
                                   \A x \in s : g[s] = f[x] + g[s \ {x}]}
  <1>5. 0 \in T
    BY <1>2, FS_EmptySet
  <1>6. ASSUME NEW k \in Nat, k \in T
        PROVE  k + 1 \in T
    <2> SUFFICES ASSUME NEW s \in SUBSET S, Cardinality(s) = k + 1, NEW x \in s
                 PROVE  g[s] = f[x] + g[s \ {x}]
      OBVIOUS
    <2> PICK c : c = Chosen(s)
      OBVIOUS
    <2>1. c \in s /\ g[s] = f[c] + g[s \ {c}]
      BY <1>3 DEF Chosen
    <2>2. CASE x = c
      BY <2>1, <2>2
    <2>3. CASE x # c
      <3>1. Cardinality(s \ {c}) = k /\ Cardinality(s \ {x}) = k
        <4>1. IsFiniteSet(s)
          BY <1>2
        <4>2. ASSUME NEW y \in s PROVE Cardinality(s \ {y}) = k
          <5>1. Cardinality(s \ {y}) = Cardinality(s) - 1
            BY <4>1, FS_RemoveElement
          <5>2. \A n \in Nat : n + 1 - 1 = n
            OBVIOUS
          <5> QED
            BY <5>1, <5>2
        <4> QED
          BY <2>1, <4>2
      <3>2. /\ s \ {c} \in SUBSET S /\ x \in s \ {c}
            /\ s \ {x} \in SUBSET S /\ c \in s \ {x}
            /\ (s \ {c}) \ {x} = (s \ {x}) \ {c} /\ (s \ {c}) \ {x} \in SUBSET S
        BY <2>1, <2>3
      <3>3. g[s \ {c}] = f[x] + g[(s \ {c}) \ {x}] /\ g[s \ {x}] = f[c] + g[(s \ {x}) \ {c}]
        BY <1>6, <3>1, <3>2
      <3>4. f[x] \in Int /\ f[c] \in Int /\ g[(s \ {c}) \ {x}] \in Int
        BY <1>1, <2>1, <3>2
      <3>5. \A a, b, n \in Int : a + (b + n) = b + (a + n)
        OBVIOUS
      <3> PICK rest : rest = g[(s \ {c}) \ {x}]
        OBVIOUS
      <3>6. g[(s \ {x}) \ {c}] = rest
        BY <3>2
      <3>7. g[s] = f[c] + (f[x] + rest)
        BY <2>1, <3>3
      <3>8. g[s \ {x}] = f[c] + rest
        BY <3>3, <3>6
      <3>9. f[c] + (f[x] + rest) = f[x] + (f[c] + rest)
        BY <3>4, <3>5
      <3> QED
        BY <3>7, <3>8, <3>9
    <2> QED
      BY <2>2, <2>3
  <1>7. Nat \subseteq T
    <2> HIDE DEF T
    <2> QED
      BY <1>5, <1>6, NatSetInduction
  <1> QED
    BY <1>1, <1>2, <1>3, <1>4, <1>7 DEF ByMember

\* Sum is the sum of the amounts, and SumRefunded that of what is refunded.
LEMMA SumIsSumOver ==
    ASSUME NEW items, NEW S, IsFiniteSet(S), NEW f, \A i \in S : f[i] = items[i].amount /\ f[i] \in Int
    PROVE  Sum(items, S) = SumOver(f, S)
  <1> DEFINE Def(g) == [s \in SUBSET S |-> IF s = {} THEN 0
                                           ELSE items[CHOOSE x \in s : TRUE].amount + g[s \ {CHOOSE x \in s : TRUE}]]
             it == CHOOSE g : g = Def(g)
  <1>1. \A g : Summing(f, S, g) = Def(g)
    <2>1. \A s \in SUBSET S : s # {} => (CHOOSE x \in s : TRUE) \in S
      OBVIOUS
    <2> QED
      BY <2>1 DEF Summing, Chosen
  <1>2. PICK g : g = Summing(f, S, g)
    BY SumsExist
  <1>3. g = Def(g)
    BY <1>1, <1>2
  <1>4. it = Def(it)
    <2> HIDE DEF Def
    <2> QED
      BY <1>3
  <1>5. it = Summing(f, S, it)
    BY <1>1, <1>4
  <1>6. it[S] = SumOver(f, S)
    <2> HIDE DEF it
    <2> QED
      BY <1>5, SumIs
  <1> QED
    BY <1>6 DEF Sum, MapThenSumSet, MapThenFoldSet

\* Sums of items: of none it is nothing, of disjoint parts it is theirs together, and
\* where no amount is negative no sum is.
LEMMA SumsOfItems ==
    ASSUME NEW items, NEW D, IsFiniteSet(D), \A i \in D : items[i].amount \in Nat
    PROVE  /\ Sum(items, {}) = 0
           /\ \A A \in SUBSET D : Sum(items, A) \in Nat
           /\ \A A, B \in SUBSET D :
                  A \cap B = {} => Sum(items, A \cup B) = Sum(items, A) + Sum(items, B)
  <1> PICK f : f = [i \in D |-> items[i].amount]
    OBVIOUS
  <1>1. \A x \in D : f[x] = items[x].amount /\ f[x] \in Nat /\ f[x] \in Int
    OBVIOUS
  <1> PICK g \in [SUBSET D -> Int] : ByMember(f, D, g)
    BY <1>1, SumsByMember
  <1>2. /\ g[{}] = 0
        /\ \A s \in SUBSET D : \A x \in s : g[s] = f[x] + g[s \ {x}]
        /\ \A s \in SUBSET D : SumOver(f, s) = g[s]
    BY DEF ByMember
  <1>3. \A A \in SUBSET D : Sum(items, A) = g[A]
    <2> TAKE A \in SUBSET D
    <2>1. IsFiniteSet(A) /\ \A i \in A : f[i] = items[i].amount /\ f[i] \in Int
      BY <1>1, FS_Subset
    <2>2. Sum(items, A) = SumOver(f, A)
      BY <2>1, SumIsSumOver
    <2> QED
      BY <2>2, <1>2
  <1> DEFINE T == {B \in SUBSET D : g[B] \in Nat /\ \A A \in SUBSET D :
                                        A \cap B = {} => g[A \cup B] = g[A] + g[B]}
  <1>4. {} \in T
    <2>1. \A A \in SUBSET D : A \cup {} = A /\ g[A] + 0 = g[A]
      BY <1>2
    <2> QED
      BY <1>2, <2>1
  <1>5. ASSUME NEW B \in SUBSET D, B # {}, B \ {Chosen(B)} \in T
        PROVE  B \in T
    <2> PICK x : x = Chosen(B)
      OBVIOUS
    <2>1. x \in B
      BY <1>5 DEF Chosen
    <2> PICK C : C = B \ {x}
      OBVIOUS
    <2>2. C \in SUBSET D /\ g[C] \in Nat /\ \A A \in SUBSET D : A \cap C = {} => g[A \cup C] = g[A] + g[C]
      BY <1>5
    <2>3. g[B] = f[x] + g[C] /\ f[x] \in Nat
      BY <1>1, <1>2, <2>1
    <2>4. ASSUME NEW A \in SUBSET D, A \cap B = {}
          PROVE  g[A \cup B] = g[A] + g[B]
      <3>1. A \cap C = {} /\ (A \cup B) \ {x} = A \cup C /\ x \in A \cup B /\ A \cup B \in SUBSET D
        BY <2>1, <2>4
      <3>2. g[A \cup B] = f[x] + g[A \cup C]
        BY <1>2, <3>1
      <3>3. g[A \cup C] = g[A] + g[C]
        BY <2>2, <3>1
      <3>4. g[A] \in Int /\ \A a, b, n \in Int : b + (a + n) = a + (b + n)
        BY <1>2
      <3> QED
        BY <2>2, <2>3, <3>2, <3>3, <3>4
    <2>5. g[B] \in Nat
      BY <2>2, <2>3
    <2> QED
      BY <2>4, <2>5
  <1>6. SUBSET D \subseteq T
    <2> HIDE DEF T
    <2> QED
      BY <1>4, <1>5, SubsetInduction
  <1>7. \A A, B \in SUBSET D : A \cup B \in SUBSET D /\ {} \in SUBSET D
    OBVIOUS
  <1> QED
    BY <1>2, <1>3, <1>6, <1>7

\* So the sum of three disjoint parts is theirs together.
LEMMA SumOfThree ==
    ASSUME NEW items, NEW D, IsFiniteSet(D), \A i \in D : items[i].amount \in Nat,
           NEW A \in SUBSET D, NEW B \in SUBSET D, NEW C \in SUBSET D,
           A \cap B = {}, (A \cup B) \cap C = {}
    PROVE  Sum(items, (A \cup B) \cup C) = Sum(items, A) + Sum(items, B) + Sum(items, C)
  <1>1. \A X, Y \in SUBSET D : X \cap Y = {} => Sum(items, X \cup Y) = Sum(items, X) + Sum(items, Y)
    BY SumsOfItems
  <1> PICK P : P = A \cup B
    OBVIOUS
  <1>2. P \in SUBSET D
    OBVIOUS
  <1>3. Sum(items, P \cup C) = Sum(items, P) + Sum(items, C)
    BY <1>1, <1>2
  <1>4. Sum(items, P) = Sum(items, A) + Sum(items, B)
    BY <1>1
  <1> QED
    BY <1>3, <1>4

\* Whether an item of a plan is what the reference data and the case make of it.
ItemsOK(items) ==
    /\ IsFiniteSet(DOMAIN items)
    /\ \A i \in DOMAIN items :
           /\ items[i].amount \in Nat /\ items[i].refundable \in BOOLEAN
           /\ items[i].paid \in BOOLEAN /\ items[i].payer \in Payers

\* The totals of one currency split what the case costs in it.
LEMMA TotalsSplit ==
    ASSUME NEW plan, NEW c, ItemsOK(plan.items)
    PROVE  TotalsAddUp(plan, c)
  <1> PICK items : items = plan.items
    OBVIOUS
  <1> PICK D : D = DOMAIN items
    OBVIOUS
  <1> PICK In : In = {i \in D : items[i].currency = c}
    OBVIOUS
  <1> PICK W : W = {i \in In : items[i].payer \in WorkerPayers}
    OBVIOUS
  <1> PICK E : E = {i \in In : items[i].payer = "employer"}
    OBVIOUS
  <1> PICK N : N = {i \in In : items[i].payer = "institution"}
    OBVIOUS
  <1> PICK R : R = {i \in W : items[i].refundable}
    OBVIOUS
  <1> PICK A : A = {i \in W : items[i].paid}
    OBVIOUS
  <1>1. /\ Totals(plan, c).workerPaid = Sum(items, W)
        /\ Totals(plan, c).employerPaid = Sum(items, E)
        /\ Totals(plan, c).institutionPaid = Sum(items, N)
        /\ Totals(plan, c).refundable = Sum(items, R)
        /\ Totals(plan, c).nonRefundable = Sum(items, W \ R)
        /\ Totals(plan, c).alreadyPaid = Sum(items, A)
        /\ Totals(plan, c).remaining = Sum(items, W) - Sum(items, A)
    <2>1. /\ {i \in DOMAIN plan.items : plan.items[i].currency = c /\ plan.items[i].payer \in WorkerPayers} = W
          /\ {i \in DOMAIN plan.items : plan.items[i].currency = c /\ plan.items[i].payer = "employer"} = E
          /\ {i \in DOMAIN plan.items : plan.items[i].currency = c /\ plan.items[i].payer = "institution"} = N
      OBVIOUS
    <2>2. /\ {i \in DOMAIN plan.items : plan.items[i].currency = c /\
                 (plan.items[i].payer \in WorkerPayers /\ plan.items[i].refundable)} = R
          /\ {i \in DOMAIN plan.items : plan.items[i].currency = c /\
                 (plan.items[i].payer \in WorkerPayers /\ ~plan.items[i].refundable)} = W \ R
          /\ {i \in DOMAIN plan.items : plan.items[i].currency = c /\
                 (plan.items[i].payer \in WorkerPayers /\ plan.items[i].paid)} = A
      OBVIOUS
    <2> QED
      BY <2>1, <2>2 DEF Totals
  <1>2. /\ Sum(items, {}) = 0
        /\ \A B \in SUBSET D : Sum(items, B) \in Nat
        /\ \A B, C \in SUBSET D : B \cap C = {} => Sum(items, B \cup C) = Sum(items, B) + Sum(items, C)
    BY SumsOfItems DEF ItemsOK
  <1> PICK Seen : Seen = {i \in {i \in D : items[i].currency = c} : items[i].payer \notin Unseen}
    OBVIOUS
  <1>3. /\ W \in SUBSET D /\ E \in SUBSET D /\ N \in SUBSET D /\ R \in SUBSET D /\ A \in SUBSET D
        /\ W \ R \in SUBSET D /\ W \ A \in SUBSET D /\ W \cup E \in SUBSET D
    OBVIOUS
  <1>4. W \cap E = {} /\ (W \cup E) \cap N = {} /\ (W \cup E) \cup N = Seen
    <2>1. \A i \in D : items[i].payer \in Payers
      BY DEF ItemsOK
    <2> QED
      BY <2>1 DEF WorkerPayers, Unseen, Payers
  <1>5. /\ R \cap (W \ R) = {} /\ R \cup (W \ R) = W
        /\ A \cap (W \ A) = {} /\ A \cup (W \ A) = W
    OBVIOUS
  <1>6. Sum(items, Seen) = Sum(items, W) + Sum(items, E) + Sum(items, N)
    <2>1. IsFiniteSet(D) /\ \A i \in D : items[i].amount \in Nat
      BY DEF ItemsOK
    <2>2. Sum(items, (W \cup E) \cup N) = Sum(items, W) + Sum(items, E) + Sum(items, N)
      BY <2>1, <1>3, <1>4, SumOfThree
    <2> QED
      BY <2>2, <1>4
  <1>7. Sum(items, W) = Sum(items, R) + Sum(items, W \ R)
    BY <1>2, <1>3, <1>5
  <1>8. /\ Sum(items, W) = Sum(items, A) + (Sum(items, W) - Sum(items, A))
        /\ Sum(items, W) - Sum(items, A) >= 0
    <2>1. Sum(items, W) = Sum(items, A) + Sum(items, W \ A)
      BY <1>2, <1>3, <1>5
    <2>2. Sum(items, W) \in Nat /\ Sum(items, A) \in Nat /\ Sum(items, W \ A) \in Nat
      BY <1>2, <1>3
    <2> QED
      BY <2>1, <2>2
  <1> QED
    BY <1>1, <1>6, <1>7, <1>8 DEF TotalsAddUp

\* Whether an amount back is the floor of what is owed.
Floored(back, owed) == back * 10000 <= owed /\ owed - back * 10000 < 10000

\* The basis points of a rule that refunds at all.
Points == 0..10000

\* A share is the floor of what is owed, and no more than the amount.
LEMMA ShareFacts ==
    ASSUME NEW a \in Nat, NEW p \in Points
    PROVE  a * p \in Nat /\ Share(a, p) \in 0..a /\ Floored(Share(a, p), a * p)
  <1>1. \A n \in Nat : \A q \in Points : n * q \in Nat /\ n * q <= n * 10000
    BY DEF Points
  <1> DEFINE Cut(x) == x \div 10000
             Most(x, y) == x <= y * 10000
  <1>2. \A x, y \in Nat : Most(x, y) => Cut(x) \in 0..y /\ Floored(Cut(x), x)
    BY DEF Floored
  <1>3. a * p \in Nat /\ Most(a * p, a)
    BY <1>1
  <1>4. Share(a, p) = Cut(a * p)
    BY DEF Share
  <1> HIDE DEF Cut, Most
  <1> QED
    BY <1>2, <1>3, <1>4, Zenon

\* What of the amount a at p points comes back, and what is withheld, when it is given
\* or not.
Allotted(a, p, given, back, withheld) ==
    /\ back \in 0..a
    /\ back + withheld = a
    /\ back * 10000 <= a * p
    /\ back > 0 \/ ~given \/ a * p < 10000
    /\ back > 0 => a * p - back * 10000 < 10000

\* What an item is given back, and what is withheld of it.
LEMMA AllocationFacts ==
    ASSUME NEW item, NEW rule, item.amount \in Nat, rule.points \in Points
    PROVE  Allotted(item.amount, rule.points, item.refundable /\ item.category \notin rule.exclude,
                    Allocation(item, rule).refunded, Allocation(item, rule).withheld)
  <1> PICK a \in Nat : a = item.amount
    OBVIOUS
  <1> PICK p \in Points : p = rule.points
    OBVIOUS
  <1> PICK back : back = Allocation(item, rule).refunded
    OBVIOUS
  <1>1. Allocation(item, rule).withheld = a - back
    BY DEF Allocation
  <1>2. a * p \in Nat
    BY ShareFacts, Zenon
  <1>3. \A x \in 0..a : x + (a - x) = a
    OBVIOUS
  <1>4. CASE item.refundable /\ item.category \notin rule.exclude
    <2>1. back = Share(a, p)
      BY <1>4 DEF Allocation
    <2>2. back \in 0..a /\ Floored(back, a * p)
      BY <2>1, ShareFacts, Zenon
    <2>3. back > 0 \/ a * p < 10000
      <3>1. \A x, n \in Nat : Floored(x, n) => x > 0 \/ n < 10000
        BY DEF Floored
      <3> QED
        BY <1>2, <2>2, <3>1
    <2>4. Allotted(a, p, item.refundable /\ item.category \notin rule.exclude, back, a - back)
      BY <1>3, <2>2, <2>3 DEF Allotted, Floored
    <2> QED
      BY <1>1, <2>4
  <1>5. CASE ~(item.refundable /\ item.category \notin rule.exclude)
    <2>1. back = 0
      BY <1>5 DEF Allocation
    <2>2. 0 \in 0..a /\ 0 * 10000 = 0
      OBVIOUS
    <2>3. Allotted(a, p, item.refundable /\ item.category \notin rule.exclude, back, a - back)
      BY <1>2, <1>3, <1>5, <2>1, <2>2 DEF Allotted
    <2> QED
      BY <1>1, <2>3
  <1> QED
    BY <1>4, <1>5

\* SumRefunded is the sum of what is refunded.
LEMMA SumRefundedIsSumOver ==
    ASSUME NEW items, NEW S, IsFiniteSet(S), NEW f, \A i \in S : f[i] = items[i].refunded /\ f[i] \in Int
    PROVE  SumRefunded(items, S) = SumOver(f, S)
  <1> DEFINE Def(g) == [s \in SUBSET S |-> IF s = {} THEN 0
                                           ELSE items[CHOOSE x \in s : TRUE].refunded + g[s \ {CHOOSE x \in s : TRUE}]]
             it == CHOOSE g : g = Def(g)
  <1>1. \A g : Summing(f, S, g) = Def(g)
    <2>1. \A s \in SUBSET S : s # {} => (CHOOSE x \in s : TRUE) \in S
      OBVIOUS
    <2> QED
      BY <2>1 DEF Summing, Chosen
  <1>2. PICK g : g = Summing(f, S, g)
    BY SumsExist
  <1>3. g = Def(g)
    BY <1>1, <1>2
  <1>4. it = Def(it)
    <2> HIDE DEF Def
    <2> QED
      BY <1>3
  <1>5. it = Summing(f, S, it)
    BY <1>1, <1>4
  <1>6. it[S] = SumOver(f, S)
    <2> HIDE DEF it
    <2> QED
      BY <1>5, SumIs
  <1> QED
    BY <1>6 DEF SumRefunded, MapThenSumSet, MapThenFoldSet

\* Whether x is no more than p points of y.
Within(x, y, p) == x * 10000 <= y * p

\* Where each member is given back its share at most, so is the whole.
LEMMA SharesAddUp ==
    ASSUME NEW S, IsFiniteSet(S), NEW f, NEW g, NEW p \in Nat,
           \A i \in S : f[i] \in Nat, \A i \in S : g[i] \in Nat,
           \A i \in S : Within(f[i], g[i], p)
    PROVE  SumOver(f, S) \in Nat /\ SumOver(g, S) \in Nat /\ Within(SumOver(f, S), SumOver(g, S), p)
  <1>1. \A i \in S : f[i] \in Int
    OBVIOUS
  <1>2. \A i \in S : g[i] \in Int
    OBVIOUS
  <1> PICK F \in [SUBSET S -> Int] : ByMember(f, S, F)
    BY <1>1, SumsByMember
  <1> PICK G \in [SUBSET S -> Int] : ByMember(g, S, G)
    BY <1>2, SumsByMember
  <1>3. Within(0, 0, p)
    BY DEF Within
  <1>4. \A x, y, a, b \in Nat : Within(x, y, p) /\ Within(a, b, p) => Within(a + x, b + y, p)
    <2>1. \A y, b \in Nat : (b + y) * p = b * p + y * p /\ b * p \in Nat /\ y * p \in Nat
      OBVIOUS
    <2> QED
      BY <2>1 DEF Within
  <1> DEFINE T == {s \in SUBSET S : F[s] \in Nat /\ G[s] \in Nat /\ Within(F[s], G[s], p)}
  <1>5. {} \in T
    BY <1>3 DEF ByMember
  <1>6. ASSUME NEW s \in SUBSET S, s # {}, s \ {Chosen(s)} \in T
        PROVE  s \in T
    <2> PICK x : x = Chosen(s)
      OBVIOUS
    <2>1. x \in s
      BY <1>6 DEF Chosen
    <2>2. F[s] = f[x] + F[s \ {x}] /\ G[s] = g[x] + G[s \ {x}]
      BY <2>1 DEF ByMember
    <2>3. /\ f[x] \in Nat /\ g[x] \in Nat /\ F[s \ {x}] \in Nat /\ G[s \ {x}] \in Nat
          /\ Within(f[x], g[x], p) /\ Within(F[s \ {x}], G[s \ {x}], p)
      BY <1>6, <2>1
    <2>4. F[s] \in Nat /\ G[s] \in Nat
      BY <2>2, <2>3
    <2>5. Within(f[x] + F[s \ {x}], g[x] + G[s \ {x}], p)
      BY <1>4, <2>3
    <2> QED
      BY <2>2, <2>4, <2>5
  <1>7. SUBSET S \subseteq T
    <2> HIDE DEF T
    <2> QED
      BY <1>5, <1>6, SubsetInduction
  <1>8. S \in T
    <2> HIDE DEF T
    <2> QED
      BY <1>7
  <1>9. SumOver(f, S) = F[S] /\ SumOver(g, S) = G[S]
    BY DEF ByMember
  <1> QED
    BY <1>8, <1>9

\* A refund gives each item its share, and no more than the share of the whole.
LEMMA RefundsAddUp ==
    ASSUME NEW items, NEW rule, ItemsOK(items), rule.points \in Points
    PROVE  /\ \A i \in DOMAIN Refund(items, rule).allocations :
                  /\ i \in DOMAIN items
                  /\ Allotted(items[i].amount, rule.points,
                              items[i].refundable /\ items[i].category \notin rule.exclude,
                              Refund(items, rule).allocations[i].refunded,
                              Refund(items, rule).allocations[i].withheld)
           /\ Within(Refund(items, rule).totalRefunded, Refund(items, rule).totalPaid, rule.points)
           /\ Refund(items, rule).totalRefunded + Refund(items, rule).totalWithheld =
                  Refund(items, rule).totalPaid
  <1> PICK S : S = {i \in DOMAIN items : items[i].paid}
    OBVIOUS
  <1> PICK of : of = [i \in S |-> Allocation(items[i], rule)]
    OBVIOUS
  <1>1. /\ Refund(items, rule).allocations = of
        /\ Refund(items, rule).totalPaid = Sum(items, S)
        /\ Refund(items, rule).totalRefunded = SumRefunded(of, S)
        /\ Refund(items, rule).totalWithheld = Sum(items, S) - SumRefunded(of, S)
    BY DEF Refund
  <1>2. IsFiniteSet(S)
    BY FS_Subset DEF ItemsOK
  <1>3. \A i \in S : items[i].amount \in Nat
    BY DEF ItemsOK
  <1>4. ASSUME NEW i \in S
        PROVE  Allotted(items[i].amount, rule.points, items[i].refundable /\ items[i].category \notin rule.exclude,
                        of[i].refunded, of[i].withheld)
    <2>1. of[i] = Allocation(items[i], rule)
      OBVIOUS
    <2> QED
      BY <1>3, <2>1, AllocationFacts
  <1>5. \A i \in S : of[i].refunded \in Nat /\ Within(of[i].refunded, items[i].amount, rule.points)
    BY <1>3, <1>4 DEF Allotted, Within
  <1> PICK f : f = [i \in S |-> of[i].refunded]
    OBVIOUS
  <1> PICK g : g = [i \in S |-> items[i].amount]
    OBVIOUS
  <1>6. /\ \A i \in S : f[i] = of[i].refunded /\ f[i] \in Int
        /\ \A i \in S : g[i] = items[i].amount /\ g[i] \in Int
    <2>1. ASSUME NEW i \in S
          PROVE  f[i] = of[i].refunded /\ g[i] = items[i].amount
      OBVIOUS
    <2>2. \A x \in Nat : x \in Int
      OBVIOUS
    <2> QED
      BY <1>3, <1>5, <2>1, <2>2, Zenon
  <1>7. SumRefunded(of, S) = SumOver(f, S)
    BY <1>2, <1>6, SumRefundedIsSumOver
  <1>8. Sum(items, S) = SumOver(g, S)
    BY <1>2, <1>6, SumIsSumOver
  <1>9. SumOver(f, S) \in Nat /\ SumOver(g, S) \in Nat /\ Within(SumOver(f, S), SumOver(g, S), rule.points)
    <2>1. rule.points \in Nat
      <3>1. \A p \in Points : p \in Nat
        BY DEF Points
      <3> QED
        BY <3>1
    <2>2. \A i \in S : f[i] \in Nat
      BY <1>5, <1>6
    <2>3. \A i \in S : g[i] \in Nat
      BY <1>3, <1>6
    <2>4. \A i \in S : Within(f[i], g[i], rule.points)
      BY <1>5, <1>6
    <2> QED
      BY <1>2, <2>1, <2>2, <2>3, <2>4, SharesAddUp
  <1>10. \A x, y \in Nat : x + (y - x) = y
    OBVIOUS
  <1>11. DOMAIN of = S /\ S \subseteq DOMAIN items
    OBVIOUS
  <1>12. ASSUME NEW i \in DOMAIN Refund(items, rule).allocations
         PROVE  /\ i \in DOMAIN items
                /\ Allotted(items[i].amount, rule.points,
                            items[i].refundable /\ items[i].category \notin rule.exclude,
                            Refund(items, rule).allocations[i].refunded,
                            Refund(items, rule).allocations[i].withheld)
    <2>1. i \in S /\ i \in DOMAIN items
      BY <1>1, <1>11
    <2> QED
      BY <1>1, <1>4, <2>1
  <1>13. Within(Refund(items, rule).totalRefunded, Refund(items, rule).totalPaid, rule.points)
    BY <1>1, <1>7, <1>8, <1>9
  <1>14. Refund(items, rule).totalRefunded + Refund(items, rule).totalWithheld = Refund(items, rule).totalPaid
    BY <1>1, <1>7, <1>8, <1>9, <1>10
  <1> QED
    BY <1>12, <1>13, <1>14

\* The items of a plan of which some have been paid.
LEMMA PaidItems ==
    ASSUME NEW P, question.fees \in FeeBooks, question.employerPays \in BOOLEAN
    PROVE  /\ ItemsOK(PaidPlan(P).items)
           /\ \A i \in DOMAIN PaidPlan(P).items :
                  question.employerPays /\ PaidPlan(P).items[i].category = "recruitment_service_fee" =>
                      PaidPlan(P).items[i].payer = "employer"
  <1> PICK fees \in FeeBooks : fees = question.fees
    OBVIOUS
  <1> PICK e \in BOOLEAN : e = question.employerPays
    OBVIOUS
  <1> PICK plan : plan = Plan(fees, Now, e)
    OBVIOUS
  <1> PICK D : D = Applicable(fees, Now)
    OBVIOUS
  <1>1. D \subseteq DOMAIN fees
    BY DEF Applicable
  <1>2. IsFiniteSet(D)
    BY <1>1, FeesAssumption, FS_Subset
  <1>3. /\ DOMAIN plan.items = D
        /\ \A i \in D : plan.items[i] =
               [amount |-> fees[i].amount, currency |-> fees[i].currency, category |-> fees[i].category,
                refundable |-> fees[i].refundable, paid |-> FALSE,
                payer |-> IF fees[i].category = "recruitment_service_fee" /\ e THEN "employer" ELSE fees[i].payer]
    BY DEF Plan
  <1>4. PaidPlan(P).items = [i \in D |-> [plan.items[i] EXCEPT !.paid = i \in P]]
    <2>1. PaidPlan(P) = [plan EXCEPT !.items = [i \in D |-> [plan.items[i] EXCEPT !.paid = i \in P]]]
      BY <1>3 DEF PaidPlan
    <2>2. "items" \in DOMAIN plan
      BY DEF Plan
    <2> QED
      BY <2>1, <2>2
  <1>5. \A i \in D : fees[i].amount \in Nat /\ fees[i].refundable \in BOOLEAN /\ fees[i].payer \in Payers
    BY <1>1, FeesAssumption
  <1>6. "employer" \in Payers
    BY DEF Payers
  <1>7. DOMAIN PaidPlan(P).items = D
    BY <1>4
  <1>8. ASSUME NEW i \in D
        PROVE  LET item == PaidPlan(P).items[i]
               IN  /\ item.amount \in Nat /\ item.refundable \in BOOLEAN
                   /\ item.paid \in BOOLEAN /\ item.payer \in Payers
                   /\ question.employerPays /\ item.category = "recruitment_service_fee" =>
                          item.payer = "employer"
    <2> PICK fee : fee = fees[i]
      OBVIOUS
    <2> PICK payer : payer = IF fee.category = "recruitment_service_fee" /\ e THEN "employer" ELSE fee.payer
      OBVIOUS
    <2>1. plan.items[i] =
              [amount |-> fee.amount, currency |-> fee.currency, category |-> fee.category,
               refundable |-> fee.refundable, paid |-> FALSE, payer |-> payer]
      BY <1>3
    <2>2. PaidPlan(P).items[i] = [plan.items[i] EXCEPT !.paid = i \in P]
      BY <1>4
    <2>3. PaidPlan(P).items[i] =
              [amount |-> fee.amount, currency |-> fee.currency, category |-> fee.category,
               refundable |-> fee.refundable, paid |-> i \in P, payer |-> payer]
      BY <2>1, <2>2
    <2>4. payer \in Payers
      BY <1>5, <1>6
    <2>5. fee.amount \in Nat /\ fee.refundable \in BOOLEAN
      BY <1>5
    <2>6. question.employerPays /\ fee.category = "recruitment_service_fee" => payer = "employer"
      OBVIOUS
    <2>7. (i \in P) \in BOOLEAN
      OBVIOUS
    <2> QED
      BY <2>3, <2>4, <2>5, <2>6, <2>7
  <1> QED
    BY <1>2, <1>7, <1>8 DEF ItemsOK

\* Every bill adds up.
LEMMA BillsAddUp ==
    ASSUME NEW P, NEW rule, question.fees \in FeeBooks, question.employerPays \in BOOLEAN
    PROVE  BillAddsUp([plan |-> PaidPlan(P), rule |-> rule, refund |-> Refund(PaidPlan(P).items, rule)],
                      question.employerPays)
  <1> PICK plan : plan = PaidPlan(P)
    OBVIOUS
  <1> PICK items : items = plan.items
    OBVIOUS
  <1> PICK refund : refund = Refund(items, rule)
    OBVIOUS
  <1>1. /\ ItemsOK(items)
        /\ \A i \in DOMAIN items :
               question.employerPays /\ items[i].category = "recruitment_service_fee" =>
                   items[i].payer = "employer"
    BY PaidItems
  <1>2. ASSUME NEW c
        PROVE  TotalsAddUp(plan, c)
    BY <1>1, TotalsSplit
  <1>3. ASSUME NEW c, Refundable(items, rule, c)
        PROVE  RefundAddsUp(items, rule, refund)
    <2>1. rule.points \in Points
      BY <1>3 DEF Refundable, Points
    <2>2. ASSUME NEW i \in DOMAIN refund.allocations
          PROVE  ShareGiven(items[i], rule, refund.allocations[i])
      <3>1. Allotted(items[i].amount, rule.points, items[i].refundable /\ items[i].category \notin rule.exclude,
                     refund.allocations[i].refunded, refund.allocations[i].withheld)
        BY <1>1, <2>1, RefundsAddUp
      <3> QED
        BY <3>1 DEF Allotted, ShareGiven
    <2> QED
      BY <1>1, <2>1, <2>2, RefundsAddUp DEF RefundAddsUp, Within
  <1>4. "employer" \notin WorkerPayers
    BY DEF WorkerPayers
  <1> PICK bill : bill = [plan |-> plan, rule |-> rule, refund |-> refund]
    OBVIOUS
  <1>5. bill.plan = plan /\ bill.plan.items = items /\ bill.rule = rule /\ bill.refund = refund
    OBVIOUS
  <1>6. BillAddsUp(bill, question.employerPays)
    BY <1>1, <1>2, <1>3, <1>4, <1>5 DEF BillAddsUp
  <1> QED
    BY <1>6

\* An answer about costs holds plans that add up, paid and refunded too.
LEMMA CostsStep ==
    ASSUME AnswerCosts, Asked
    PROVE  PlanAddsUp'
  <1>1. /\ question' = question /\ question.of = "costs"
        /\ answer'.bills =
               {[plan |-> PaidPlan(P), rule |-> rule, refund |-> Refund(PaidPlan(P).items, rule)] :
                    P \in SUBSET DOMAIN question.fees, rule \in RefundRules}
    BY Tagged DEF AnswerCosts, Answer
  <1>2. question.fees \in FeeBooks /\ question.employerPays \in BOOLEAN
    BY <1>1 DEF Asked
  <1>3. ASSUME NEW bill \in answer'.bills
        PROVE  BillAddsUp(bill, question'.employerPays)
    <2> PICK P, rule : bill = [plan |-> PaidPlan(P), rule |-> rule, refund |-> Refund(PaidPlan(P).items, rule)]
      BY <1>1
    <2> QED
      BY <1>1, <1>2, BillsAddUp
  <1> QED
    BY <1>3 DEF PlanAddsUp

-------------------------------------------------------------------------------
(* What is written of an amount is read again as that amount.              *)

\* The powers of ten that the currencies have as their units.
LEMMA PowersOfTen ==
    ASSUME NEW e
    PROVE  /\ e = 0 => 10^e = 1
           /\ e = 1 => 10^e = 10
           /\ e = 2 => 10^e = 100
           /\ e = 3 => 10^e = 1000
  <1>1. 10^0 = 1 /\ 10^1 = 10 /\ 10^2 = 100 /\ 10^3 = 1000
    OBVIOUS
  <1>2. CASE e = 0
    BY <1>1, <1>2
  <1>3. CASE e = 1
    BY <1>1, <1>3
  <1>4. CASE e = 2
    BY <1>1, <1>4
  <1>5. CASE e = 3
    BY <1>1, <1>5
  <1> QED
    BY <1>2, <1>3, <1>4, <1>5

\* The currencies that are asked about have no decimals, two and three.
LEMMA Exponents ==
    /\ CurrencyExponent("JPY") = 0
    /\ CurrencyExponent("BDT") = 2
    /\ CurrencyExponent("KWD") = 3
  BY DEF CurrencyExponent

\* Whether, of n whole units of size e and f parts of size k, n can be told again.
Told(e, k, d) ==
    \A w, f \in Nat : f < d =>
        /\ w * e + f * k \in Nat
        /\ (w * e + f * k) \div e = w
        /\ (w * e + f * k) % e = f * k
        /\ (f * k) * d = f * e

\* The units and their fractions that tell the amounts of a currency apart.
LEMMA AllTold ==
    /\ Told(1, 1, 1)
    /\ Told(100, 100, 1) /\ Told(100, 10, 10) /\ Told(100, 1, 100)
    /\ Told(1000, 1000, 1) /\ Told(1000, 100, 10) /\ Told(1000, 10, 100) /\ Told(1000, 1, 1000)
  <1>1. Told(1, 1, 1)
    BY DEF Told
  <1>2. Told(100, 100, 1)
    BY DEF Told
  <1>3. Told(100, 10, 10)
    BY DEF Told
  <1>4. Told(100, 1, 100)
    BY DEF Told
  <1>5. Told(1000, 1000, 1)
    BY DEF Told
  <1>6. Told(1000, 100, 10)
    BY DEF Told
  <1>7. Told(1000, 10, 100)
    BY DEF Told
  <1>8. Told(1000, 1, 1000)
    BY DEF Told
  <1> QED
    BY <1>1, <1>2, <1>3, <1>4, <1>5, <1>6, <1>7, <1>8

\* The digits a currency shows tell each amount from the others.
LEMMA WrittenIsRead ==
    ASSUME NEW c \in {"BDT", "JPY", "KWD"}, NEW m \in Int
    PROVE  Parse(ToDecimal(m, c), c) = {m}
  <1> PICK e : e = CurrencyExponent(c)
    OBVIOUS
  <1> PICK p : p = 10^e
    OBVIOUS
  <1>1. e \in {0, 2, 3} /\ p \in {1, 100, 1000} /\ 10^(e - e) = 1 /\ ~(e > e)
    <2>1. e \in {0, 2, 3}
      BY Exponents
    <2>2. p \in {1, 100, 1000}
      BY <2>1, PowersOfTen
    <2>3. e - e = 0 /\ ~(e > e)
      BY <2>1
    <2> QED
      BY <2>1, <2>2, <2>3, PowersOfTen
  <1> PICK k \in Nat : k = (IF m < 0 THEN -m ELSE m)
    OBVIOUS
  <1> PICK text : text = ToDecimal(m, c)
    OBVIOUS
  <1>2. /\ text.negative = (m < 0) /\ text.whole = k \div p
        /\ text.digits = e /\ text.fraction = k % p
    BY DEF ToDecimal
  <1>3. (k \div p) * p + (k % p) * 1 = k
    <2>1. CASE p = 1
      BY <2>1
    <2>2. CASE p = 100
      BY <2>2
    <2>3. CASE p = 1000
      BY <2>3
    <2> QED
      BY <1>1, <2>1, <2>2, <2>3
  <1>4. Parse(text, c) = {IF text.negative THEN -k ELSE k}
    BY <1>1, <1>2, <1>3 DEF Parse
  <1>5. (IF text.negative THEN -k ELSE k) = m
    <2>1. CASE m < 0
      <3>1. text.negative = TRUE
        BY <1>2, <2>1
      <3>2. k = -m /\ -(-m) = m
        BY <2>1
      <3> QED
        BY <3>1, <3>2
    <2>2. CASE ~(m < 0)
      <3>1. ~text.negative
        BY <1>2, <2>2, Zenon
      <3> QED
        BY <2>2, <3>1
    <2> QED
      BY <2>1, <2>2
  <1> QED
    BY <1>4, <1>5

\* What is read is not rounded.
LEMMA ReadIsKept ==
    ASSUME NEW c \in {"BDT", "JPY", "KWD"}, NEW l \in Literals({0, 12}, 0..3), NEW m \in Parse(l, c)
    PROVE  /\ ToDecimal(m, c).whole = l.whole
           /\ ToDecimal(m, c).fraction * 10^l.digits = l.fraction * 10^ToDecimal(m, c).digits
  <1> PICK e : e = CurrencyExponent(c)
    OBVIOUS
  <1> PICK w, d, f : w = l.whole /\ d = l.digits /\ f = l.fraction
    OBVIOUS
  <1>1. l.negative \in BOOLEAN /\ w \in {0, 12} /\ d \in 0..3 /\ f \in 0..10^d - 1
    <2>1. PICK x \in 0..3 : l \in [negative : BOOLEAN, whole : {0, 12}, digits : {x}, fraction : 0..10^x - 1]
      BY Zenon DEF Literals
    <2>2. l.digits = x
      BY <2>1
    <2> QED
      BY <2>1, <2>2
  <1>2. e \in {0, 2, 3}
    BY Exponents
  <1> PICK n : n = w * 10^e + f * 10^(e - d)
    OBVIOUS
  <1>3. ~(d > e) /\ m = (IF l.negative THEN -n ELSE n)
    BY DEF Parse
  <1>4. Told(10^e, 10^(e - d), 10^d)
    <2>1. CASE d = e
      <3>1. e - d = 0
        BY <1>2, <2>1
      <3>2. CASE e = 0
        BY <2>1, <3>1, <3>2, AllTold, PowersOfTen
      <3>3. CASE e = 2
        BY <2>1, <3>1, <3>3, AllTold, PowersOfTen
      <3>4. CASE e = 3
        BY <2>1, <3>1, <3>4, AllTold, PowersOfTen
      <3> QED
        BY <1>2, <3>2, <3>3, <3>4
    <2>2. CASE e = 2 /\ d = 0
      <3>1. e - d = 2
        BY <2>2
      <3> QED
        BY <2>2, <3>1, AllTold, PowersOfTen
    <2>3. CASE e = 2 /\ d = 1
      <3>1. e - d = 1
        BY <2>3
      <3> QED
        BY <2>3, <3>1, AllTold, PowersOfTen
    <2>4. CASE e = 3 /\ d = 0
      <3>1. e - d = 3
        BY <2>4
      <3> QED
        BY <2>4, <3>1, AllTold, PowersOfTen
    <2>5. CASE e = 3 /\ d = 1
      <3>1. e - d = 2
        BY <2>5
      <3> QED
        BY <2>5, <3>1, AllTold, PowersOfTen
    <2>6. CASE e = 3 /\ d = 2
      <3>1. e - d = 1
        BY <2>6
      <3> QED
        BY <2>6, <3>1, AllTold, PowersOfTen
    <2>7. d \in {0, 1, 2, 3}
      BY <1>1
    <2> QED
      BY <1>2, <1>3, <2>1, <2>2, <2>3, <2>4, <2>5, <2>6, <2>7
  <1>5. w \in Nat /\ f \in Nat /\ f < 10^d
    <2>1. 10^d \in Nat
      <3>1. d \in {0, 1, 2, 3}
        BY <1>1
      <3> QED
        BY <3>1, PowersOfTen
    <2>2. \A x \in Nat : \A y \in 0..x - 1 : y \in Nat /\ y < x
      OBVIOUS
    <2> QED
      BY <1>1, <2>1, <2>2
  <1>6. n \in Nat /\ n \div 10^e = w /\ n % 10^e = f * 10^(e - d) /\ (f * 10^(e - d)) * 10^d = f * 10^e
    BY <1>4, <1>5 DEF Told
  <1>7. (IF m < 0 THEN -m ELSE m) = n
    BY <1>1, <1>3, <1>6
  <1>8. ToDecimal(m, c).whole = n \div 10^e /\ ToDecimal(m, c).digits = e /\ ToDecimal(m, c).fraction = n % 10^e
    BY <1>7 DEF ToDecimal
  <1> QED
    BY <1>6, <1>8

\* An answer about an amount writes it so that it is read back.
LEMMA AmountStep ==
    ASSUME AnswerAmount, Asked
    PROVE  AmountsReadBack'
  <1> PICK c : c = question.currency
    OBVIOUS
  <1> DEFINE M == {0, 1, 99, 100, 12005, -1, -99, -100, -12005}
  <1>1. /\ question' = question /\ question.of = "amount"
        /\ answer'.written = [m \in M |-> ToDecimal(m, c)]
    BY Tagged DEF AnswerAmount, Answer
  <1>2. c \in {"BDT", "JPY", "KWD"}
    BY <1>1 DEF Asked
  <1>3. \A m \in M : m \in Int
    OBVIOUS
  <1> HIDE DEF M
  <1>4. \A m \in DOMAIN answer'.written : Parse(answer'.written[m], c) = {m}
    BY <1>1, <1>2, <1>3, WrittenIsRead
  <1> QED
    BY <1>1, <1>2, <1>4, ReadIsKept DEF AmountsReadBack

-------------------------------------------------------------------------------
(* An amount that is stored is the one that was typed.                     *)

\* Of the two multiples around a number the nearer one is off by half a unit at most.
LEMMA NearerMultiple ==
    ASSUME NEW n \in Nat, NEW unit \in Nat \ {0}
    PROVE  /\ ToEven(n, unit) \in Nat
           /\ 2 * (ToEven(n, unit) * unit - n) <= unit
           /\ 2 * (n - ToEven(n, unit) * unit) <= unit
  <1>1. PICK low, rest : low = n \div unit /\ rest = n % unit
    OBVIOUS
  <1>2. low \in Nat /\ rest \in Nat /\ rest < unit /\ n = low * unit + rest
    BY <1>1
  <1>3. (low + 1) * unit = low * unit + unit /\ low * unit \in Int
    BY <1>2
  <1>4. CASE 2 * rest < unit \/ (2 * rest = unit /\ low % 2 = 0)
    <2>1. ToEven(n, unit) = low
      BY <1>1, <1>4 DEF ToEven
    <2> QED
      BY <1>2, <1>3, <1>4, <2>1
  <1>5. CASE ~(2 * rest < unit \/ (2 * rest = unit /\ low % 2 = 0))
    <2>1. ToEven(n, unit) = low + 1
      BY <1>1, <1>5 DEF ToEven
    <2>2. ~(2 * rest < unit)
      BY <1>5
    <2> QED
      BY <1>2, <1>3, <2>1, <2>2
  <1> QED
    BY <1>4, <1>5

\* The double nearest to a number in the range of doubles is off by half of the last
\* digit of its significand at most (IEEE 754).
LEMMA NearestIsNear ==
    ASSUME NEW n \in Nat, NEW q \in Nat \ {0}, n = 0 \/ \E u \in Ulps : IsUlp(u, n, q)
    PROVE  /\ Nearest(n, q) \in Nat
           /\ 2 * Half * (q * Nearest(n, q) - n) <= n
           /\ 2 * Half * (n - q * Nearest(n, q)) <= n
  <1> USE DoublesAssumption
  <1>1. CASE n = 0
    BY <1>1 DEF Nearest
  <1>2. CASE n # 0
    <2>1. PICK u : u = CHOOSE v \in Ulps : IsUlp(v, n, q)
      OBVIOUS
    <2>2. u \in Ulps /\ IsUlp(u, n, q)
      BY <1>2, <2>1
    <2>3. PICK k : k = ToEven(n, u * q)
      OBVIOUS
    <2>4. Nearest(n, q) = u * k
      BY <1>2, <2>1, <2>3 DEF Nearest
    <2>5. u \in Nat \ {0}
      BY <2>2
    <2>6. PICK unit \in Nat \ {0} : unit = u * q
      BY <2>5
    <2>7. k \in Nat /\ 2 * (k * unit - n) <= unit /\ 2 * (n - k * unit) <= unit
      BY <2>3, <2>6, NearerMultiple
    <2>8. q * (u * k) = k * unit /\ u * k \in Nat
      BY <2>5, <2>6, <2>7
    <2>9. Half * unit <= n
      BY <2>2, <2>5, <2>6 DEF IsUlp
    <2>10. \A d \in Int : 2 * d <= unit => 2 * Half * d <= n
      <3> SUFFICES ASSUME NEW d \in Int, 2 * d <= unit PROVE 2 * Half * d <= n
        OBVIOUS
      <3>1. Half * (2 * d) <= Half * unit
        OBVIOUS
      <3> QED
        BY <2>9, <3>1
    <2> QED
      BY <2>4, <2>7, <2>8, <2>10
  <1> QED
    BY <1>1, <1>2

\* The product that is rounded is off by little more than one unit of the last digit.
LEMMA ProductIsNear ==
    ASSUME NEW typed, typed.mills \in Int, InRange(typed), NEW P, P = 2 * Half
    PROVE  LET m == Magnitude(typed.mills)
               y == Nearest(100 * NumberOf(typed.mills), 1)
           IN  /\ m \in Nat /\ y \in Nat
               /\ P * P * (10 * y - m * Scale) <= (2 * P + 1) * (m * Scale)
               /\ P * P * (m * Scale - 10 * y) <= (2 * P + 1) * (m * Scale)
  <1> USE DoublesAssumption
  <1>1. PICK m : m = Magnitude(typed.mills)
    OBVIOUS
  <1>2. m \in Nat
    BY <1>1 DEF Magnitude
  <1>3. PICK M \in Nat : M = m * Scale
    BY <1>2
  <1>4. PICK x : x = NumberOf(typed.mills)
    OBVIOUS
  <1>5. PICK y : y = Nearest(100 * x, 1)
    OBVIOUS
  <1>6. P \in Nat \ {0}
    OBVIOUS
  <1>7. x \in Nat /\ P * (1000 * x - M) <= M /\ P * (M - 1000 * x) <= M
    <2>1. x = Nearest(M, 1000)
      BY <1>1, <1>3, <1>4 DEF NumberOf
    <2>2. M = 0 \/ \E u \in Ulps : IsUlp(u, M, 1000)
      BY <1>1, <1>3 DEF InRange
    <2> QED
      BY <2>1, <2>2, NearestIsNear
  <1>8. y \in Nat /\ P * (y - 100 * x) <= 100 * x /\ P * (100 * x - y) <= 100 * x
    <2>1. 100 * x = 0 \/ \E u \in Ulps : IsUlp(u, 100 * x, 1)
      BY <1>4 DEF InRange
    <2>2. 100 * x \in Nat
      BY <1>7
    <2>3. y \in Nat /\ 2 * Half * (1 * y - 100 * x) <= 100 * x
                    /\ 2 * Half * (100 * x - 1 * y) <= 100 * x
      BY <1>5, <2>1, <2>2, NearestIsNear
    <2> QED
      BY <2>3
  <1>9. /\ 1000 * x - M \in Int
        /\ 10 * y - 1000 * x \in Int
    BY <1>7, <1>8
  <1>a. PICK a \in Int : a = 1000 * x - M
    BY <1>9
  <1>b. PICK b \in Int : b = 10 * y - 1000 * x
    BY <1>9
  <1>10. P * a <= M /\ P * (-a) <= M /\ P * b <= 1000 * x /\ P * (-b) <= 1000 * x
    <2>1. P * b = 10 * (P * (y - 100 * x)) /\ P * (-b) = 10 * (P * (100 * x - y))
      BY <1>6, <1>7, <1>8, <1>a, <1>b
    <2> QED
      BY <1>3, <1>6, <1>7, <1>8, <1>a, <1>b, <2>1
  <1>11. P * (1000 * x) <= P * M + M
    BY <1>3, <1>6, <1>7
  <1>12. P * (P * b) <= P * M + M /\ P * (P * (-b)) <= P * M + M
    BY <1>3, <1>6, <1>7, <1>a, <1>b, <1>10, <1>11
  <1>13. P * (P * a) <= P * M /\ P * (P * (-a)) <= P * M
    BY <1>3, <1>6, <1>a, <1>b, <1>10
  <1>14. /\ P * P * (10 * y - M) = P * (P * a) + P * (P * b)
         /\ P * P * (M - 10 * y) = P * (P * (-a)) + P * (P * (-b))
         /\ (2 * P + 1) * M = P * M + P * M + M
    BY <1>3, <1>6, <1>7, <1>8, <1>a, <1>b
  <1>15. P * P * (10 * y - M) <= (2 * P + 1) * M /\ P * P * (M - 10 * y) <= (2 * P + 1) * M
    BY <1>3, <1>6, <1>a, <1>b, <1>12, <1>13, <1>14
  <1> QED
    BY <1>1, <1>2, <1>3, <1>4, <1>5, <1>8, <1>15

\* How far off a product may be for the rounded one to be off by less than b.
LEMMA OffByLess ==
    ASSUME NEW P \in Nat \ {0}, NEW S \in Nat \ {0}, NEW m \in Nat, NEW d \in Int, NEW e \in Nat,
           P * P * d <= (2 * P + 1) * (m * S), (2 * P + 1) * m < e * (P * P)
    PROVE  d < e * S
  <1>1. PICK A \in Nat, B \in Nat : A = P * P /\ B = (2 * P + 1) * m
    OBVIOUS
  <1>2. (2 * P + 1) * (m * S) = B * S
    BY <1>1
  <1>3. A * d <= B * S
    BY <1>1, <1>2
  <1>4. B * S < (e * A) * S
    BY <1>1
  <1>5. A * d < A * (e * S)
    BY <1>3, <1>4
  <1>6. A > 0
    BY <1>1
  <1> QED
    BY <1>5, <1>6

\* A quotient is the largest integer that does not exceed the fraction.
LEMMA Quotient ==
    ASSUME NEW a \in Int, NEW c \in Nat \ {0}
    PROVE  /\ a \div c \in Int
           /\ c * (a \div c) <= a
           /\ a < c * (a \div c) + c
  OBVIOUS

\* A number that is rounded is off by less than a minor unit as far as the product is
\* exact enough, and what a form sends is then exact; it is off by less than two and a
\* half up to the largest exact integer.
LEMMA RoundedFacts ==
    ASSUME NEW typed, typed.mills \in Int, InRange(typed)
    PROVE  /\ Rounded(typed) \in Int
           /\ typed.mills >= 0 => Rounded(typed) >= 0
           /\ Rounded(typed) >= 0 /\ typed.mills <= 10 * ExactLimit =>
                  /\ 10 * Rounded(typed) - typed.mills \in -9..9
                  /\ typed.mills % 10 = 0 => 10 * Rounded(typed) = typed.mills
           /\ Rounded(typed) >= 0 /\ typed.mills <= 10 * MaxSafe =>
                  10 * Rounded(typed) - typed.mills \in -24..24
  <1> USE DoublesAssumption
  <1>1. PICK n \in Int : n = typed.mills
    OBVIOUS
  <1>2. PICK P \in Nat \ {0} : P = 2 * Half
    OBVIOUS
  <1>3. PICK S \in Nat \ {0} : S = Scale
    OBVIOUS
  <1>4. PICK y : y = Nearest(100 * NumberOf(n), 1)
    OBVIOUS
  <1>5. PICK m : m = Magnitude(n)
    OBVIOUS
  <1>6. /\ m \in Nat /\ y \in Nat
        /\ P * P * (10 * y - m * S) <= (2 * P + 1) * (m * S)
        /\ P * P * (m * S - 10 * y) <= (2 * P + 1) * (m * S)
    BY <1>1, <1>2, <1>3, <1>4, <1>5, ProductIsNear
  <1>7. PICK h : h = Hundredfold(n)
    OBVIOUS
  <1>8. \/ n >= 0 /\ m = n /\ h = y
        \/ n < 0 /\ m = -n /\ h = -y
    BY <1>1, <1>4, <1>5, <1>7 DEF Magnitude, Hundredfold
  <1>9. h \in Int /\ m * S \in Nat /\ n * S \in Int
    BY <1>6, <1>8
  <1>10. PICK d \in Int : d = 10 * h - n * S
    BY <1>9
  <1>11. P * P * d <= (2 * P + 1) * (m * S) /\ P * P * (-d) <= (2 * P + 1) * (m * S)
    <2>1. CASE n >= 0 /\ m = n /\ h = y
      <3>1. d = 10 * y - m * S /\ -d = m * S - 10 * y
        BY <1>6, <1>9, <1>10, <2>1
      <3> QED
        BY <1>6, <3>1
    <2>2. CASE n < 0 /\ m = -n /\ h = -y
      <3>1. n * S = -(m * S)
        BY <2>2, <1>6
      <3>2. -d = 10 * y - m * S /\ d = m * S - 10 * y
        BY <1>6, <1>9, <1>10, <2>2, <3>1
      <3> QED
        BY <1>6, <3>2
    <2> QED
      BY <1>8, <2>1, <2>2
  <1>12. PICK r : r = Rounded(typed)
    OBVIOUS
  <1>13. r = (2 * h + S) \div (2 * S)
    BY <1>1, <1>3, <1>7, <1>12 DEF Rounded
  <1>14. r \in Int /\ 2 * S * r <= 2 * h + S /\ 2 * h + S < 2 * S * r + 2 * S
    <2>1. PICK a \in Int : a = 2 * h + S
      BY <1>9
    <2>2. PICK c \in Nat \ {0} : c = 2 * S
      OBVIOUS
    <2>3. r \in Int /\ c * r <= a /\ a < c * r + c
      BY <1>13, <2>1, <2>2, Quotient
    <2> QED
      BY <2>1, <2>2, <2>3
  <1>15. ASSUME NEW e \in Nat, (2 * P + 1) * m < e * (P * P)
         PROVE  10 * r - n < e + 5 /\ -(e + 5) < 10 * r - n
    <2>1. d < e * S /\ -d < e * S
      BY <1>6, <1>11, <1>15, OffByLess
    <2>2. S * (10 * r - n) <= d + 5 * S /\ d - 5 * S < S * (10 * r - n)
      <3>1. S * (10 * r - n) = 5 * (2 * S * r) - n * S
        BY <1>14
      <3> QED
        BY <1>9, <1>10, <1>14, <3>1
    <2>3. e * S + 5 * S = S * (e + 5) /\ -(e * S + 5 * S) = S * (-(e + 5))
      OBVIOUS
    <2>4. S * (10 * r - n) < S * (e + 5) /\ S * (-(e + 5)) < S * (10 * r - n)
      BY <1>14, <2>1, <2>2, <2>3
    <2> QED
      BY <1>14, <2>4
  <1>16. P >= 16 /\ 7 * (2 * P + 1) <= P * P
    <2>1. P >= 16
      BY <1>2
    <2>2. P * P >= 16 * P
      BY <2>1
    <2> QED
      BY <2>1, <2>2
  <1>17. n >= 0 => r >= 0
    <2> SUFFICES ASSUME n >= 0 PROVE r >= 0
      OBVIOUS
    <2>1. 2 * h + S > 0
      BY <1>6, <1>8
    <2>2. S * (2 * r + 2) = 2 * S * r + 2 * S
      BY <1>14
    <2>3. S * (2 * r + 2) > 0
      BY <1>9, <1>14, <2>1, <2>2
    <2>4. 2 * r + 2 > 0
      BY <1>14, <2>3
    <2> QED
      BY <1>14, <2>4
  <1>18. ASSUME n < 0, r >= 0
         PROVE  m <= 5
    <2>1. S * r >= 0
      BY <1>14, <1>18
    <2>2. 10 * y <= 5 * S
      BY <1>6, <1>8, <1>14, <1>18, <2>1
    <2>3. PICK A \in Nat \ {0} : A = P * P
      OBVIOUS
    <2>4. A * (10 * y) <= A * (5 * S)
      BY <1>6, <2>2
    <2>5. A * (m * S - 10 * y) = A * (m * S) - A * (10 * y)
      BY <1>6, <1>9
    <2>6. A * (m * S) <= (2 * P + 1) * (m * S) + A * (5 * S)
      BY <1>6, <1>9, <2>3, <2>4, <2>5
    <2>7. 7 * ((2 * P + 1) * (m * S)) <= A * (m * S)
      <3>1. PICK g \in Nat : g = m * S
        BY <1>9
      <3>2. (7 * (2 * P + 1)) * g <= A * g
        BY <1>16, <2>3
      <3> QED
        BY <3>1, <3>2
    <2>8. A * (6 * (m * S)) <= A * (35 * S)
      BY <1>9, <2>6, <2>7
    <2>9. 6 * (m * S) <= 35 * S
      BY <1>9, <2>8
    <2>10. S * (6 * m) <= S * 35
      BY <1>6, <2>9
    <2>11. 6 * m <= 35
      BY <1>6, <2>10
    <2> QED
      BY <1>6, <2>11
  <1>19. m <= 5 => (2 * P + 1) * m < 5 * (P * P) /\ (2 * P + 1) * m < 20 * (P * P)
    <2> SUFFICES ASSUME m <= 5
                 PROVE  (2 * P + 1) * m < 5 * (P * P) /\ (2 * P + 1) * m < 20 * (P * P)
      OBVIOUS
    <2>1. (2 * P + 1) * m <= (2 * P + 1) * 5
      BY <1>6
    <2> QED
      BY <1>6, <1>16, <2>1
  <1>20. r >= 0 /\ n <= 10 * ExactLimit => (2 * P + 1) * m < 5 * (P * P)
    <2> SUFFICES ASSUME r >= 0, n <= 10 * ExactLimit, n >= 0
                 PROVE  (2 * P + 1) * m < 5 * (P * P)
      BY <1>1, <1>18, <1>19
    <2>1. 2 * ExactLimit <= Half - 1 /\ ExactLimit \in Int
      BY DEF ExactLimit
    <2>2. 2 * m <= 5 * (P - 2)
      BY <1>1, <1>2, <1>6, <1>8, <2>1
    <2>3. (2 * P + 1) * (2 * m) <= (2 * P + 1) * (5 * (P - 2))
      BY <1>6, <2>2
    <2>4. (2 * P + 1) * (5 * (P - 2)) = 10 * (P * P) - 15 * P - 10
      OBVIOUS
    <2>5. (2 * P + 1) * (2 * m) = 2 * ((2 * P + 1) * m)
      BY <1>6
    <2> QED
      BY <1>6, <2>3, <2>4, <2>5
  <1>21. r >= 0 /\ n <= 10 * MaxSafe => (2 * P + 1) * m < 20 * (P * P)
    <2> SUFFICES ASSUME r >= 0, n <= 10 * MaxSafe, n >= 0
                 PROVE  (2 * P + 1) * m < 20 * (P * P)
      BY <1>1, <1>18, <1>19
    <2>1. m <= 10 * (P - 1)
      BY <1>2, <1>8 DEF MaxSafe
    <2>2. (2 * P + 1) * m <= (2 * P + 1) * (10 * (P - 1))
      BY <1>6, <2>1
    <2>3. (2 * P + 1) * (10 * (P - 1)) = 20 * (P * P) - 10 * P - 10
      OBVIOUS
    <2> QED
      BY <1>6, <2>2, <2>3
  <1>22. r >= 0 /\ n <= 10 * ExactLimit =>
             /\ 10 * r - n \in -9..9
             /\ n % 10 = 0 => 10 * r = n
    <2> SUFFICES ASSUME r >= 0, n <= 10 * ExactLimit
                 PROVE  /\ 10 * r - n \in -9..9
                        /\ n % 10 = 0 => 10 * r = n
      OBVIOUS
    <2>1. 10 * r - n < 10 /\ -10 < 10 * r - n
      BY <1>15, <1>20
    <2> QED
      BY <1>1, <1>14, <2>1
  <1>23. r >= 0 /\ n <= 10 * MaxSafe => 10 * r - n \in -24..24
    <2> SUFFICES ASSUME r >= 0, n <= 10 * MaxSafe
                 PROVE  10 * r - n \in -24..24
      OBVIOUS
    <2>1. 10 * r - n < 25 /\ -25 < 10 * r - n
      BY <1>15, <1>21
    <2> QED
      BY <1>1, <1>14, <2>1
  <1> QED
    BY <1>1, <1>12, <1>14, <1>17, <1>22, <1>23

\* What may be in the field for an amount: of a form that is used, a number in steps
\* of a hundredth, or nothing where it may be left out.
Field(offered, optional, f) ==
    /\ AnyAmount(f.amount)
    /\ offered => /\ f.currency \in Currencies
                  /\ \/ optional /\ f.amount = Blank
                     \/ /\ f.amount.is = "number" /\ InRange(f.amount)
                        /\ f.amount.mills \in Nat /\ f.amount.mills % 10 = 0

\* What holds of a number of minor units that was stored of a number typed.
Near(offered, minor, typed) ==
    /\ typed.mills <= 10 * ExactLimit => /\ 10 * minor - typed.mills \in -9..9
                                         /\ offered => 10 * minor = typed.mills
    /\ typed.mills <= 10 * MaxSafe => 10 * minor - typed.mills \in -24..24

\* The optional amount of a record or of a report.
LEMMA OptionalFacts ==
    ASSUME NEW offered \in BOOLEAN, NEW f, Field(offered, TRUE, f)
    PROVE  LET minor == OptionalMinor(f.amount)
           IN  /\ minor \in Int
               /\ minor >= 0 => f.amount.is = "number" /\ Near(offered, minor, f.amount)
               /\ minor = NoAmount /\ offered => f.amount = Blank
  <1> PICK t : t = f.amount
    OBVIOUS
  <1>1. Blank.is # "number" /\ Words.is # "number" /\ NoAmount \in Int /\ ~(NoAmount >= 0)
    BY DEF Blank, Words, NoAmount
  <1>2. CASE t.is # "number"
    <2>1. OptionalMinor(t) = NoAmount
      BY <1>2 DEF OptionalMinor
    <2>2. offered => t = Blank
      BY <1>2 DEF Field
    <2> QED
      BY <1>1, <1>2, <2>1, <2>2
  <1>3. CASE t.is = "number"
    <2>1. t.mills \in Int /\ InRange(t) /\ (offered => t.mills >= 0 /\ t.mills % 10 = 0)
      BY <1>1, <1>3 DEF Field, AnyAmount
    <2>2. CASE t.mills >= 0
      <3>1. OptionalMinor(t) = Rounded(t)
        BY <1>3, <2>2 DEF OptionalMinor
      <3>2. Rounded(t) \in Int /\ Rounded(t) >= 0 /\ Near(offered, Rounded(t), t)
        BY <2>1, <2>2, RoundedFacts DEF Near
      <3> QED
        BY <1>1, <1>3, <3>1, <3>2
    <2>3. CASE ~(t.mills >= 0)
      <3>1. OptionalMinor(t) = NoAmount
        BY <1>3, <2>3 DEF OptionalMinor
      <3> QED
        BY <1>1, <2>1, <2>3, <3>1
    <2> QED
      BY <2>2, <2>3
  <1> QED
    BY <1>2, <1>3

\* The row of a journey record holds the amount that was typed.
LEMMA RecordAsTyped ==
    ASSUME NEW offered \in BOOLEAN, NEW f, Field(offered, TRUE, f), "minor" \in DOMAIN JourneyRecord(f)
    PROVE  AsTyped(offered, f, JourneyRecord(f))
  <1> PICK minor : minor = OptionalMinor(f.amount)
    OBVIOUS
  <1> PICK row : row = JourneyRecord(f)
    OBVIOUS
  <1>1. /\ row.table = "journey_records" /\ row.minor = minor
        /\ minor # NoAmount => row.currency = f.currency
    BY DEF JourneyRecord, NotStored
  <1>2. ~(NoAmount >= 0)
    BY DEF NoAmount
  <1>3. AsTyped(offered, f, row)
    BY <1>1, <1>2, OptionalFacts DEF AsTyped, Near
  <1> QED
    BY <1>3

\* The row of an outcome report holds the amount that was typed.
LEMMA ReportAsTyped ==
    ASSUME NEW offered \in BOOLEAN, NEW f, Field(offered, TRUE, f), "minor" \in DOMAIN OutcomeReport(f)
    PROVE  AsTyped(offered, f, OutcomeReport(f))
  <1> PICK minor : minor = OptionalMinor(f.amount)
    OBVIOUS
  <1> PICK row : row = OutcomeReport(f)
    OBVIOUS
  <1>1. /\ row.table = "outcome_reports" /\ row.minor = minor
        /\ f.amount # Blank => row.currency = f.currency
    BY DEF OutcomeReport, NotStored
  <1>2. Blank.is # "number" /\ ~(NoAmount >= 0)
    BY DEF Blank, NoAmount
  <1>3. /\ minor >= 0 => f.amount.is = "number" /\ Near(offered, minor, f.amount)
        /\ minor = NoAmount /\ offered => f.amount = Blank
    BY OptionalFacts
  <1>4. minor >= 0 => row.currency = f.currency
    BY <1>1, <1>2, <1>3
  <1>5. row.table # "ledger_entries"
    BY <1>1
  <1>6. AsTyped(offered, f, row)
    BY <1>1, <1>3, <1>4, <1>5 DEF AsTyped, Near
  <1> QED
    BY <1>6

\* The row of a cost holds the amount that was typed, nothing typed being nothing paid.
LEMMA CostAsTyped ==
    ASSUME NEW offered \in BOOLEAN, NEW f, Field(offered, FALSE, f), "minor" \in DOMAIN LedgerEntry(f)
    PROVE  AsTyped(offered, f, LedgerEntry(f))
  <1> PICK t : t = f.amount
    OBVIOUS
  <1> PICK row : row = LedgerEntry(f)
    OBVIOUS
  <1>1. /\ row.table = "ledger_entries" /\ t # Words
        /\ row.minor = (IF t = Blank THEN 0 ELSE Rounded(t)) /\ row.minor \in 0..MaxSafe
        /\ f.currency # "none" => row.currency = f.currency
    BY DEF LedgerEntry, NotStored
  <1>2. Blank.is # "number"
    BY DEF Blank
  <1>3. MaxSafe \in Nat
    BY DoublesAssumption DEF MaxSafe
  <1>4. row.minor >= 0 /\ ~(row.minor > MaxSafe) /\ row.minor # NoAmount
    <2> HIDE DEF MaxSafe
    <2>1. \A x \in Nat : \A y \in 0..x : y >= 0 /\ ~(y > x) /\ y # -1
      OBVIOUS
    <2> QED
      BY <1>1, <1>3, <2>1 DEF NoAmount
  <1>5. offered => f.currency # "none"
    BY DEF Field, Currencies
  <1>6. CASE t = Blank
    <2>1. ~offered
      BY <1>2, <1>6 DEF Field
    <2> QED
      BY <1>1, <1>2, <1>4, <1>6, <2>1 DEF AsTyped
  <1>7. CASE t # Blank
    <2>1. t.is = "number" /\ t.mills \in Int /\ InRange(t) /\ (offered => t.mills % 10 = 0)
      BY <1>1, <1>7 DEF Field, AnyAmount
    <2>2. row.minor = Rounded(t)
      BY <1>1, <1>7
    <2>3. Near(offered, row.minor, t)
      BY <1>4, <2>1, <2>2, RoundedFacts DEF Near
    <2>4. AsTyped(offered, f, row)
      BY <1>1, <1>4, <1>5, <2>1, <2>3 DEF AsTyped, Near
    <2> QED
      BY <2>4
  <1> QED
    BY <1>6, <1>7

\* No other action stores an amount.
LEMMA OthersHaveNoAmount ==
    ASSUME NEW kind \in Kinds \ {"record", "cost", "outcome"}, NEW f
    PROVE  "minor" \notin DOMAIN Submit(kind, f)
  <1>1. CASE kind = "delegation"
    BY <1>1 DEF Submit, Delegation
  <1>2. CASE kind = "verification"
    BY <1>2 DEF Submit, VerificationRequest
  <1>3. CASE kind = "ticket"
    BY <1>3 DEF Submit, SupportTicket
  <1>4. CASE kind = "evidence"
    BY <1>4 DEF Submit, PartnerSubmission, NotStored
  <1>5. CASE kind = "direction"
    BY <1>5 DEF Submit, Direction, NotStored
  <1>6. CASE kind = "onboarding"
    BY <1>6 DEF Submit, Onboarding, Direction, NotStored
  <1>7. CASE kind = "journey"
    BY <1>7 DEF Submit, Journey
  <1>8. CASE kind = "blank_journey"
    BY <1>8 DEF Submit, BlankJourney
  <1>9. CASE kind = "start"
    BY <1>9 DEF Submit, StartCase
  <1>10. CASE kind = "workspace"
    BY <1>10 DEF Submit, ActiveWorkspace, NotStored
  <1> QED
    BY <1>1, <1>2, <1>3, <1>4, <1>5, <1>6, <1>7, <1>8, <1>9, <1>10 DEF Kinds

\* What may be asked about a form has a field for an amount, where the form has one.
LEMMA FormFields ==
    ASSUME Asked, question.of = "form"
    PROVE  /\ question.offered \in BOOLEAN
           /\ question.kind \in {"record", "outcome"} => Field(question.offered, TRUE, question.form)
           /\ question.kind = "cost" => Field(question.offered, FALSE, question.form)
  <1> PICK kind, f : kind = question.kind /\ f = question.form
    OBVIOUS
  <1>1. CASE question.offered = TRUE /\ kind \in Kinds /\ f \in Offered(TypedAmounts)[kind]
    <2> PICK typed : typed = TypedAmounts
      OBVIOUS
    <2>1. \A t \in typed : /\ t.is = "number" /\ t.mills \in Nat /\ t.mills % 10 = 0
                            /\ t.mills \in Int /\ InRange(t)
      BY TypedAmountsAssumption
    <2>2. AnyAmount(Blank)
      BY DEF AnyAmount
    <2>3. CASE kind = "record"
      <3>1. f \in RecordForms(typed)
        BY <1>1, <2>3 DEF Offered
      <3>2. f.currency \in Currencies /\ f.amount \in Optional(typed)
        BY <3>1 DEF RecordForms
      <3> QED
        BY <1>1, <2>1, <2>2, <2>3, <3>2 DEF Field, Optional, AnyAmount
    <2>4. CASE kind = "outcome"
      <3>1. f \in OutcomeForms(typed)
        BY <1>1, <2>4 DEF Offered
      <3>2. f.currency \in Currencies /\ f.amount \in Optional(typed)
        BY <3>1 DEF OutcomeForms
      <3> QED
        BY <1>1, <2>1, <2>2, <2>4, <3>2 DEF Field, Optional, AnyAmount
    <2>5. CASE kind = "cost"
      <3>1. f \in CostForms(typed)
        BY <1>1, <2>5 DEF Offered
      <3>2. f.currency \in Currencies /\ f.amount \in typed
        BY <3>1 DEF CostForms
      <3> QED
        BY <1>1, <2>1, <2>5, <3>2 DEF Field, AnyAmount
    <2> QED
      BY <1>1, <2>3, <2>4, <2>5
  <1>2. CASE question.offered = FALSE /\ \E c \in Crafted : kind = c.kind /\ f = c.form
    BY <1>2, CraftedAssumption DEF Field
  <1>3. \/ question.offered = TRUE /\ kind \in Kinds /\ f \in Offered(TypedAmounts)[kind]
        \/ question.offered = FALSE /\ \E c \in Crafted : kind = c.kind /\ f = c.form
    BY DEF Asked
  <1> QED
    BY <1>1, <1>2, <1>3

\* An answer about a form writes the amount that was typed into it, or none.
LEMMA FormStep ==
    ASSUME AnswerForm, Asked
    PROVE  AmountsAsTyped'
  <1> PICK kind, f : kind = question.kind /\ f = question.form
    OBVIOUS
  <1>1. question' = question /\ question.of = "form" /\ answer'.row = Submit(kind, f)
    BY Tagged DEF AnswerForm, Answer
  <1>2. kind \in Kinds
    BY <1>1, CraftedAssumption DEF Asked
  <1>3. ASSUME "minor" \in DOMAIN Submit(kind, f)
        PROVE  AsTyped(question.offered, f, Submit(kind, f))
    <2>1. CASE kind = "record"
      <3>1. Submit(kind, f) = JourneyRecord(f)
        BY <2>1 DEF Submit
      <3> QED
        BY <1>1, <1>3, <2>1, <3>1, FormFields, RecordAsTyped
    <2>2. CASE kind = "cost"
      <3>1. Submit(kind, f) = LedgerEntry(f)
        BY <2>2 DEF Submit
      <3> QED
        BY <1>1, <1>3, <2>2, <3>1, FormFields, CostAsTyped
    <2>3. CASE kind = "outcome"
      <3>1. Submit(kind, f) = OutcomeReport(f)
        BY <2>3 DEF Submit
      <3> QED
        BY <1>1, <1>3, <2>3, <3>1, FormFields, ReportAsTyped
    <2> QED
      BY <1>2, <1>3, <2>1, <2>2, <2>3, OthersHaveNoAmount
  <1> QED
    BY <1>1, <1>3 DEF AmountsAsTyped

\* Amounts stay whole, on their way through a plan and as text (getPlan, computeRefund,
\* Money), and are stored as they were typed into a form up to a quarter of the largest
\* exact integer, and nearly so up to that integer, in doubles of any precision (the
\* server actions).
THEOREM AmountsStayWhole == Spec => []MoneyAddsUp
  <1>1. Init => Asked /\ MoneyAddsUp
    BY DEF Init, Unanswered, MoneyAddsUp, PlanAddsUp, AmountsReadBack, AmountsAsTyped
  <1>2. Asked /\ MoneyAddsUp /\ [Next]_vars => (Asked /\ MoneyAddsUp)'
    <2> SUFFICES ASSUME Asked, MoneyAddsUp, [Next]_vars
                 PROVE  MoneyAddsUp'
      BY StillAsked
    <2>1. CASE UNCHANGED vars
      BY <2>1 DEF vars, MoneyAddsUp, PlanAddsUp, AmountsReadBack, AmountsAsTyped
    <2>2. CASE Next
      <3>1. PlanAddsUp'
        BY <2>2, NextAnswers, CostsStep DEF PlanAddsUp
      <3>2. AmountsReadBack'
        BY <2>2, NextAnswers, AmountStep DEF AmountsReadBack
      <3>3. AmountsAsTyped'
        BY <2>2, NextAnswers, FormStep DEF AmountsAsTyped
      <3> QED
        BY <3>1, <3>2, <3>3 DEF MoneyAddsUp
    <2> QED
      BY <2>1, <2>2
  <1> QED
    BY <1>1, <1>2, PTL DEF Spec

-------------------------------------------------------------------------------
(* Functions that are defined by recursion over trees.                     *)

\* Whether f obeys G on what is lower than k: its value at d is what G makes of d and
\* of its values at the children of d.
Below(h, D, k) == {d \in D : h[d] < k}
Obeys(f, G, ch, E) == \A d \in E : f[d] = G[<<d, [c \in ch[d] |-> f[c]]>>]
Lower(f, G, h, ch, D, V, k) == f \in [Below(h, D, k) -> V] /\ Obeys(f, G, ch, Below(h, D, k))

\* Whether h bounds the depth of the trees ch makes of D.
Trees(h, ch, D) ==
    /\ \A d \in D : h[d] \in Nat
    /\ \A d \in D : \A c \in ch[d] : c \in D /\ h[c] < h[d]

\* Whether G gives each node a value in V.
Gives(G, ch, D, V) == \A d \in D : \A s \in [ch[d] -> V] : G[<<d, s>>] \in V

\* There is such a function for each k.
LEMMA LowerExists ==
    ASSUME NEW h, NEW ch, NEW D, NEW V, NEW G, Trees(h, ch, D), Gives(G, ch, D, V),
           NEW k \in Nat
    PROVE  \E f : Lower(f, G, h, ch, D, V, k)
  <1> DEFINE T == {n \in Nat : \E f : Lower(f, G, h, ch, D, V, n)}
  <1>1. 0 \in T
    <2>1. Below(h, D, 0) = {}
      BY DEF Below, Trees
    <2>2. [d \in {} |-> d] \in [{} -> V]
      OBVIOUS
    <2>3. Lower([d \in {} |-> d], G, h, ch, D, V, 0)
      BY <2>1, <2>2 DEF Lower, Obeys
    <2> QED
      BY <2>3
  <1>2. ASSUME NEW n \in Nat, n \in T
        PROVE  n + 1 \in T
    <2> PICK f : Lower(f, G, h, ch, D, V, n)
      BY <1>2
    <2> DEFINE E == Below(h, D, n)
               F == Below(h, D, n + 1)
               g == [d \in F |-> G[<<d, [c \in ch[d] |-> f[c]]>>]]
    <2>1. /\ f \in [E -> V]
          /\ \A d \in E : f[d] = G[<<d, [c \in ch[d] |-> f[c]]>>]
      BY DEF Lower, Obeys
    <2>2. \A d \in F : d \in D /\ ch[d] \subseteq E
      BY DEF Below, Trees
    <2>3. E \subseteq F
      BY DEF Below, Trees
    <2>4. \A d \in F : [c \in ch[d] |-> f[c]] \in [ch[d] -> V]
      BY <2>1, <2>2
    <2>5. g \in [F -> V]
      BY <2>2, <2>4 DEF Gives
    <2>6. \A c \in E : g[c] = f[c]
      BY <2>1, <2>3
    <2>7. \A d \in F : [c \in ch[d] |-> g[c]] = [c \in ch[d] |-> f[c]]
      BY <2>2, <2>6
    <2>8. \A d \in F : g[d] = G[<<d, [c \in ch[d] |-> g[c]]>>]
      BY <2>7
    <2>9. Lower(g, G, h, ch, D, V, n + 1)
      BY <2>5, <2>8 DEF Lower, Obeys
    <2> QED
      BY <2>9
  <1>3. Nat \subseteq T
    <2> HIDE DEF T
    <2> QED
      BY <1>1, <1>2, NatSetInduction
  <1> QED
    BY <1>3

\* Two such functions agree where both are.
LEMMA LowerAgrees ==
    ASSUME NEW h, NEW ch, NEW D, NEW V, NEW G, Trees(h, ch, D),
           NEW k \in Nat, NEW m \in Nat, k <= m,
           NEW f, Lower(f, G, h, ch, D, V, k), NEW g, Lower(g, G, h, ch, D, V, m)
    PROVE  \A d \in Below(h, D, k) : f[d] = g[d]
  <1> DEFINE T == {n \in Nat : \A d \in D : h[d] < n /\ h[d] < k => f[d] = g[d]}
  <1>1. 0 \in T
    BY DEF Trees
  <1>2. ASSUME NEW n \in Nat, n \in T
        PROVE  n + 1 \in T
    <2> SUFFICES ASSUME NEW d \in D, h[d] < n + 1, h[d] < k
                 PROVE  f[d] = g[d]
      OBVIOUS
    <2>1. \A c \in ch[d] : f[c] = g[c]
      <3> TAKE c \in ch[d]
      <3>1. c \in D /\ h[c] < h[d] /\ h[c] \in Nat /\ h[d] \in Nat
        BY DEF Trees
      <3>2. h[c] < n /\ h[c] < k
        BY <3>1
      <3> QED
        BY <1>2, <3>1, <3>2
    <2>2. [c \in ch[d] |-> f[c]] = [c \in ch[d] |-> g[c]]
      BY <2>1
    <2>3. d \in Below(h, D, k) /\ d \in Below(h, D, m)
      BY DEF Below, Trees
    <2> QED
      BY <2>2, <2>3 DEF Lower, Obeys
  <1>3. Nat \subseteq T
    <2> HIDE DEF T
    <2> QED
      BY <1>1, <1>2, NatSetInduction
  <1>4. k \in T
    <2> HIDE DEF T
    <2> QED
      BY <1>3
  <1> QED
    BY <1>4 DEF Below

\* So there is a function of all trees that obeys G.
LEMMA RecursionExists ==
    ASSUME NEW h, NEW ch, NEW D, NEW V, NEW G, Trees(h, ch, D), Gives(G, ch, D, V)
    PROVE  \E f \in [D -> V] : Obeys(f, G, ch, D)
  <1>1. PICK F : F = [k \in Nat |-> CHOOSE f : Lower(f, G, h, ch, D, V, k)]
    OBVIOUS
  <1>2. ASSUME NEW k \in Nat
        PROVE  Lower(F[k], G, h, ch, D, V, k)
    <2>1. \E f : Lower(f, G, h, ch, D, V, k)
      BY LowerExists
    <2>2. F[k] = CHOOSE f : Lower(f, G, h, ch, D, V, k)
      BY <1>1
    <2> QED
      BY <2>1, <2>2, Zenon
  <1>3. PICK f : f = [d \in D |-> F[h[d] + 1][d]]
    OBVIOUS
  <1>4. ASSUME NEW d \in D
        PROVE  /\ h[d] + 1 \in Nat /\ d \in Below(h, D, h[d] + 1)
               /\ f[d] \in V /\ f[d] = F[h[d] + 1][d]
    <2>1. h[d] \in Nat
      BY DEF Trees
    <2>2. h[d] + 1 \in Nat /\ h[d] < h[d] + 1
      BY <2>1
    <2>3. d \in Below(h, D, h[d] + 1)
      BY <2>2 DEF Below
    <2>4. F[h[d] + 1][d] \in V
      BY <1>2, <2>2, <2>3 DEF Lower
    <2> QED
      BY <1>3, <2>2, <2>3, <2>4
  <1>5. ASSUME NEW d \in D
        PROVE  f[d] = G[<<d, [c \in ch[d] |-> f[c]]>>]
    <2>1. PICK k \in Nat : k = h[d] + 1
      BY <1>4
    <2>a. PICK g : g = F[k]
      OBVIOUS
    <2>2. Lower(g, G, h, ch, D, V, k)
      BY <1>2, <2>a
    <2>3. ASSUME NEW c \in ch[d]
          PROVE  f[c] = g[c]
      <3>1. c \in D /\ h[c] < h[d] /\ h[c] \in Nat /\ h[d] \in Nat
        BY DEF Trees
      <3>2. PICK m \in Nat : m = h[c] + 1 /\ m <= k
        BY <2>1, <3>1
      <3>3. f[c] = F[m][c] /\ c \in Below(h, D, m)
        BY <1>4, <3>1, <3>2
      <3>4. Lower(F[m], G, h, ch, D, V, m)
        BY <1>2
      <3> QED
        BY <2>2, <3>2, <3>3, <3>4, LowerAgrees
    <2>4. [c \in ch[d] |-> f[c]] = [c \in ch[d] |-> g[c]]
      BY <2>3
    <2>5. f[d] = g[d] /\ d \in Below(h, D, k)
      BY <1>4, <2>a, <2>1
    <2> QED
      BY <2>2, <2>4, <2>5 DEF Lower, Obeys
  <1>6. f \in [D -> V]
    BY <1>3, <1>4
  <1> QED
    BY <1>5, <1>6 DEF Obeys

-------------------------------------------------------------------------------
(* What is not known yet never makes a verdict: rules.                     *)

\* The nodes of every node.
Kids == [d \in Expressions |-> NodesOf(d)]

\* A rule is a tree of finite height, whose nodes are expressions.
LEMMA ExpressionTrees == Trees(Height, Kids, Expressions)
  BY ExpressionsAssumption DEF Trees, Kids

TruthValues == {"true", "false", "unknown"}

\* A comparison comes out true, false or unknown.
LEMMA CompareType ==
    ASSUME NEW actual, NEW c, c.op \in Ops
    PROVE  Compare(actual, c) \in TruthValues
  <1>3. CASE c.op = "exists"
    BY <1>3 DEF Compare, Truth, TruthValues
  <1>4. CASE c.op = "missing"
    BY <1>4 DEF Compare, Truth, TruthValues
  <1>5. CASE c.op \notin {"exists", "missing"} /\ actual = Absent
    BY <1>5 DEF Compare, TruthValues
  <1>6. CASE actual # Absent /\ c.op = "includes"
    <2>1. Compare(actual, c) \in {Truth(c.value \in actual.items), "unknown"}
      BY <1>6 DEF Compare
    <2> QED
      BY <2>1 DEF Truth, TruthValues
  <1>7. CASE actual # Absent /\ c.op \in Orders /\ actual.kind # "number"
    BY <1>7 DEF Compare, Orders, TruthValues
  <1>8. CASE actual # Absent /\ c.op \in {"eq", "neq", "in", "nin"}
    BY <1>8 DEF Compare, Orders, Truth, TruthValues
  <1>9. CASE actual # Absent /\ c.op \in Orders /\ actual.kind = "number"
    <2>1. actual # Absent /\ actual.kind = "number"
      BY <1>9
    <2>2. CASE c.op = "gt"
      BY <2>1, <2>2 DEF Compare, Orders, Truth, TruthValues
    <2>3. CASE c.op = "gte"
      BY <2>1, <2>3 DEF Compare, Orders, Truth, TruthValues
    <2>4. CASE c.op = "lt"
      BY <2>1, <2>4 DEF Compare, Orders, Truth, TruthValues
    <2>5. CASE c.op = "lte"
      BY <2>1, <2>5 DEF Compare, Orders, Truth, TruthValues
    <2> QED
      BY <1>9, <2>2, <2>3, <2>4, <2>5 DEF Orders
  <1> QED
    BY <1>3, <1>4, <1>5, <1>6, <1>7, <1>8, <1>9 DEF Ops

\* A check has no nodes, a negation has one.
LEMMA KidsOf ==
    ASSUME NEW d \in Expressions
    PROVE  /\ d.type = "check" => Kids[d] = {}
           /\ d.type \in {"all", "any"} => Kids[d] = d.nodes
           /\ d.type = "not" => Kids[d] = {d.node}
  BY DEF Kids, NodesOf

\* Outcomes that the nodes have of one another.
Walked(facts, w) == w = [node \in Expressions |-> Outcome(node, facts, w)]

\* The outcome of a node is known of the outcomes of its nodes.
LEMMA OutcomeOfNodes ==
    ASSUME NEW facts, NEW d \in Expressions, NEW w
    PROVE  /\ Outcome(d, facts, w) \in TruthValues
           /\ Outcome(d, facts, [c \in Kids[d] |-> w[c]]) = Outcome(d, facts, w)
  <1> PICK s : s = [c \in Kids[d] |-> w[c]]
    OBVIOUS
  <1>1. /\ \A O : And(O) \in TruthValues /\ Or(O) \in TruthValues
        /\ \A o : Negate(o) \in TruthValues
    BY DEF And, Or, Negate, TruthValues
  <1>2. CASE d.type = "check"
    BY <1>2, CompareType, ExpressionsAssumption DEF Outcome
  <1>3. CASE d.type = "all"
    <2>1. {s[c] : c \in d.nodes} = {w[c] : c \in d.nodes}
      BY <1>3, KidsOf
    <2> QED
      BY <1>1, <1>3, <2>1 DEF Outcome
  <1>4. CASE d.type = "any"
    <2>1. {s[c] : c \in d.nodes} = {w[c] : c \in d.nodes}
      BY <1>4, KidsOf
    <2> QED
      BY <1>1, <1>4, <2>1 DEF Outcome
  <1>5. CASE d.type = "not"
    <2>1. s[d.node] = w[d.node]
      BY <1>5, KidsOf
    <2> QED
      BY <1>1, <1>5, <2>1 DEF Outcome
  <1> QED
    BY <1>2, <1>3, <1>4, <1>5, ExpressionsAssumption

\* Any tree can be walked.
LEMMA WalkExists ==
    ASSUME NEW facts
    PROVE  \E w : Walked(facts, w)
  <1> DEFINE Arguments == UNION {{<<d, s>> : s \in [Kids[d] -> TruthValues]} : d \in Expressions}
             G == [x \in Arguments |-> Outcome(x[1], facts, x[2])]
  <1>1. ASSUME NEW d \in Expressions, NEW s \in [Kids[d] -> TruthValues]
        PROVE  G[<<d, s>>] = Outcome(d, facts, s)
    <2>1. <<d, s>> \in Arguments
      OBVIOUS
    <2> HIDE DEF Arguments
    <2> QED
      BY <2>1
  <1>2. Gives(G, Kids, Expressions, TruthValues)
    <2> HIDE DEF G, Arguments
    <2> SUFFICES ASSUME NEW d \in Expressions, NEW s \in [Kids[d] -> TruthValues]
                 PROVE  G[<<d, s>>] \in TruthValues
      BY DEF Gives
    <2>1. Outcome(d, facts, s) \in TruthValues
      BY OutcomeOfNodes
    <2> QED
      BY <1>1, <2>1
  <1> HIDE DEF G, Arguments
  <1> PICK w \in [Expressions -> TruthValues] : Obeys(w, G, Kids, Expressions)
    BY <1>2, ExpressionTrees, RecursionExists
  <1>3. ASSUME NEW d \in Expressions
        PROVE  w[d] = Outcome(d, facts, w)
    <2> PICK s : s = [c \in Kids[d] |-> w[c]]
      OBVIOUS
    <2>1. s \in [Kids[d] -> TruthValues]
      BY ExpressionTrees DEF Trees
    <2>2. w[d] = Outcome(d, facts, s)
      BY <1>1, <2>1 DEF Obeys
    <2>3. Outcome(d, facts, [c \in Kids[d] |-> w[c]]) = Outcome(d, facts, w)
      BY OutcomeOfNodes
    <2> QED
      BY <2>2, <2>3
  <1> QED
    BY <1>3 DEF Walked

\* What the walk makes of each node.
LEMMA WalkFacts ==
    ASSUME NEW facts, NEW d \in Expressions
    PROVE  /\ d.type = "check" => Walk(d, facts) = Compare(facts[d.fact], d)
           /\ d.type = "all" => Walk(d, facts) = And({Walk(c, facts) : c \in d.nodes})
           /\ d.type = "any" => Walk(d, facts) = Or({Walk(c, facts) : c \in d.nodes})
           /\ d.type = "not" => Walk(d, facts) = Negate(Walk(d.node, facts))
           /\ Walk(d, facts) \in TruthValues
  <1> PICK w : w = CHOOSE f : Walked(facts, f)
    OBVIOUS
  <1>1. Walked(facts, w)
    BY WalkExists
  <1>2. ASSUME NEW c
        PROVE  Walk(c, facts) = w[c]
    BY DEF Walk, Walked
  <1>3. Walk(d, facts) = Outcome(d, facts, w)
    BY <1>1, <1>2 DEF Walked
  <1>4. {w[c] : c \in d.nodes} = {Walk(c, facts) : c \in d.nodes}
    BY <1>2
  <1>5. Walk(d, facts) \in TruthValues
    BY <1>3, OutcomeOfNodes
  <1>6. d.type = "not" => Walk(d.node, facts) = w[d.node]
    BY <1>2
  <1> QED
    BY <1>3, <1>4, <1>5, <1>6 DEF Outcome

\* Induction over trees: what holds of a node if it holds of its nodes holds of all.
LEMMA TreeInduction ==
    ASSUME NEW h, NEW ch, NEW D, Trees(h, ch, D),
           NEW S, \A d \in D : ch[d] \subseteq S => d \in S
    PROVE  D \subseteq S
  <1> DEFINE T == {n \in Nat : \A d \in D : h[d] < n => d \in S}
  <1>1. 0 \in T
    BY DEF Trees
  <1>2. ASSUME NEW n \in Nat, n \in T
        PROVE  n + 1 \in T
    <2> SUFFICES ASSUME NEW d \in D, h[d] < n + 1
                 PROVE  d \in S
      OBVIOUS
    <2>1. ASSUME NEW c \in ch[d]
          PROVE  c \in S
      <3>1. c \in D /\ h[c] < h[d] /\ h[c] \in Nat /\ h[d] \in Nat
        BY DEF Trees
      <3>2. h[c] < n
        BY <3>1
      <3> QED
        BY <1>2, <3>1, <3>2
    <2> QED
      BY <2>1
  <1>3. Nat \subseteq T
    <2> HIDE DEF T
    <2> QED
      BY <1>1, <1>2, NatSetInduction
  <1>4. ASSUME NEW d \in D
        PROVE  d \in S
    <2>1. h[d] \in Nat /\ h[d] < h[d] + 1 /\ h[d] + 1 \in Nat
      BY DEF Trees
    <2>2. h[d] + 1 \in T
      BY <1>3, <2>1
    <2> QED
      BY <2>1, <2>2
  <1> QED
    BY <1>4

\* The checks of a node are the leaves below it.
LEMMA ChecksFacts ==
    ASSUME NEW d \in Expressions
    PROVE  /\ d.type = "check" => Checks[d] = {d}
           /\ d.type # "check" => Checks[d] = UNION {Checks[c] : c \in Kids[d]}
           /\ \A c \in Kids[d] : Checks[c] \subseteq Checks[d]
  <1> DEFINE Arguments == UNION {{<<e, s>> : s \in [Kids[e] -> SUBSET Expressions]} : e \in Expressions}
             Leaves(e, s) == IF e.type = "check" THEN {e} ELSE UNION {s[c] : c \in NodesOf(e)}
             G == [x \in Arguments |-> Leaves(x[1], x[2])]
  <1>1. ASSUME NEW e \in Expressions, NEW s \in [Kids[e] -> SUBSET Expressions]
        PROVE  G[<<e, s>>] = Leaves(e, s)
    <2>1. <<e, s>> \in Arguments
      OBVIOUS
    <2> HIDE DEF Arguments, Leaves
    <2> QED
      BY <2>1
  <1> HIDE DEF G, Arguments
  <1>2. Gives(G, Kids, Expressions, SUBSET Expressions)
    <2> SUFFICES ASSUME NEW e \in Expressions, NEW s \in [Kids[e] -> SUBSET Expressions]
                 PROVE  Leaves(e, s) \in SUBSET Expressions
      BY <1>1 DEF Gives
    <2> QED
      BY DEF Kids
  <1> PICK w \in [Expressions -> SUBSET Expressions] : Obeys(w, G, Kids, Expressions)
    BY <1>2, ExpressionTrees, RecursionExists
  <1>3. ASSUME NEW e \in Expressions
        PROVE  w[e] = Leaves(e, w)
    <2> PICK s : s = [c \in Kids[e] |-> w[c]]
      OBVIOUS
    <2>1. s \in [Kids[e] -> SUBSET Expressions]
      BY ExpressionTrees DEF Trees
    <2>2. w[e] = Leaves(e, s)
      BY <1>1, <2>1 DEF Obeys
    <2>3. {s[c] : c \in NodesOf(e)} = {w[c] : c \in NodesOf(e)}
      BY DEF Kids
    <2> QED
      BY <2>2, <2>3
  <1>4. w = [e \in Expressions |-> Leaves(e, w)]
    <2> HIDE DEF Leaves
    <2> QED
      BY <1>3
  <1>5. Checks = [e \in Expressions |-> Leaves(e, Checks)]
    <2> DEFINE Def(g) == [e \in Expressions |-> Leaves(e, g)]
               it == CHOOSE g : g = Def(g)
    <2>1. w = Def(w)
      BY <1>4
    <2>2. it = Def(it)
      <3> HIDE DEF Def
      <3> QED
        BY <2>1
    <2>3. Checks = it
      BY Zenon DEF Checks
    <2> QED
      BY <2>2, <2>3
  <1>6. Checks[d] = Leaves(d, Checks)
    <2> HIDE DEF Leaves
    <2> QED
      BY <1>5
  <1>7. Kids[d] = NodesOf(d)
    BY DEF Kids
  <1> QED
    BY <1>6, <1>7 DEF NodesOf

\* A node is negated where it is a negation or one of its nodes is negated.
LEMMA NegatedFacts ==
    ASSUME NEW d \in Expressions, ~Negated[d]
    PROVE  d.type # "not" /\ \A c \in Kids[d] : ~Negated[c]
  <1> DEFINE Arguments == UNION {{<<e, s>> : s \in [Kids[e] -> BOOLEAN]} : e \in Expressions}
             Above(e, s) == e.type = "not" \/ \E c \in NodesOf(e) : s[c]
             G == [x \in Arguments |-> Above(x[1], x[2])]
  <1>1. ASSUME NEW e \in Expressions, NEW s \in [Kids[e] -> BOOLEAN]
        PROVE  G[<<e, s>>] = Above(e, s)
    <2>1. <<e, s>> \in Arguments
      OBVIOUS
    <2> HIDE DEF Arguments, Above
    <2> QED
      BY <2>1
  <1> HIDE DEF G, Arguments
  <1>2. Gives(G, Kids, Expressions, BOOLEAN)
    <2> SUFFICES ASSUME NEW e \in Expressions, NEW s \in [Kids[e] -> BOOLEAN]
                 PROVE  Above(e, s) \in BOOLEAN
      BY <1>1 DEF Gives
    <2> QED
      OBVIOUS
  <1> PICK w \in [Expressions -> BOOLEAN] : Obeys(w, G, Kids, Expressions)
    BY <1>2, ExpressionTrees, RecursionExists
  <1>3. ASSUME NEW e \in Expressions
        PROVE  w[e] = Above(e, w)
    <2> PICK s : s = [c \in Kids[e] |-> w[c]]
      OBVIOUS
    <2>1. s \in [Kids[e] -> BOOLEAN]
      BY ExpressionTrees DEF Trees
    <2>2. w[e] = Above(e, s)
      BY <1>1, <2>1 DEF Obeys
    <2>3. \A c \in NodesOf(e) : s[c] = w[c]
      BY DEF Kids
    <2> QED
      BY <2>2, <2>3
  <1>4. w = [e \in Expressions |-> Above(e, w)]
    <2> HIDE DEF Above
    <2> QED
      BY <1>3
  <1>5. Negated = [e \in Expressions |-> Above(e, Negated)]
    <2> DEFINE Def(g) == [e \in Expressions |-> Above(e, g)]
               it == CHOOSE g : g = Def(g)
    <2>1. w = Def(w)
      BY <1>4
    <2>2. it = Def(it)
      <3> HIDE DEF Def
      <3> QED
        BY <2>1
    <2>3. Negated = it
      BY Zenon DEF Negated
    <2> QED
      BY <2>2, <2>3
  <1>6. Negated[d] = Above(d, Negated)
    <2> HIDE DEF Above
    <2> QED
      BY <1>5
  <1> QED
    BY <1>6 DEF Kids

\* A fact that is not on record answers only the question whether it is.
LEMMA AbsentIsUnknown ==
    ASSUME NEW c, c.op \notin {"exists", "missing"}
    PROVE  Compare(Absent, c) = "unknown"
  BY DEF Compare

\* What is not known of a node is not known for a check that has no answer.
LEMMA UnknownIsMissing ==
    ASSUME NEW facts, NEW d \in Expressions, Walk(d, facts) = "unknown"
    PROVE  \E c \in Checks[d] : Compare(facts[c.fact], c) = "unknown"
  <1> DEFINE S == {e \in Expressions : Walk(e, facts) = "unknown" =>
                       \E c \in Checks[e] : Compare(facts[c.fact], c) = "unknown"}
  <1>1. ASSUME NEW e \in Expressions, Kids[e] \subseteq S
        PROVE  e \in S
    <2> SUFFICES ASSUME Walk(e, facts) = "unknown"
                 PROVE  \E c \in Checks[e] : Compare(facts[c.fact], c) = "unknown"
      OBVIOUS
    <2>1. CASE e.type = "check"
      <3>1. Walk(e, facts) = Compare(facts[e.fact], e)
        BY <2>1, WalkFacts
      <3>2. e \in Checks[e]
        BY <2>1, ChecksFacts
      <3> QED
        BY <3>1, <3>2
    <2>2. CASE e.type # "check"
      <3>1. \E k \in Kids[e] : Walk(k, facts) = "unknown"
        <4>1. CASE e.type = "all"
          <5>1. "unknown" \in {Walk(k, facts) : k \in e.nodes}
            BY <4>1, WalkFacts DEF And
          <5> QED
            BY <4>1, <5>1, KidsOf
        <4>2. CASE e.type = "any"
          <5>1. "unknown" \in {Walk(k, facts) : k \in e.nodes}
            BY <4>2, WalkFacts DEF Or
          <5> QED
            BY <4>2, <5>1, KidsOf
        <4>3. CASE e.type = "not"
          <5>1. e.node \in Kids[e] /\ e.node \in Expressions
            BY <4>3, KidsOf, ExpressionTrees DEF Trees
          <5>2. Walk(e.node, facts) \in TruthValues /\ Negate(Walk(e.node, facts)) = "unknown"
            BY <4>3, <5>1, WalkFacts
          <5> QED
            BY <5>1, <5>2 DEF Negate, TruthValues
        <4> QED
          BY <2>2, <4>1, <4>2, <4>3, ExpressionsAssumption
      <3> PICK k \in Kids[e] : Walk(k, facts) = "unknown"
        BY <3>1
      <3>2. \E c \in Checks[k] : Compare(facts[c.fact], c) = "unknown"
        BY <1>1
      <3> QED
        BY <3>2, ChecksFacts
    <2> QED
      BY <2>1, <2>2
  <1>2. Expressions \subseteq S
    <2> HIDE DEF S
    <2> QED
      BY <1>1, ExpressionTrees, TreeInduction
  <1> QED
    BY <1>2

\* Without a negation, what does not hold of a node does not hold of a check.
LEMMA FalseIsFailed ==
    ASSUME NEW facts, NEW d \in Expressions, ~Negated[d], Walk(d, facts) = "false"
    PROVE  \E c \in Checks[d] : Compare(facts[c.fact], c) = "false"
  <1> DEFINE S == {e \in Expressions : ~Negated[e] /\ Walk(e, facts) = "false" =>
                       \E c \in Checks[e] : Compare(facts[c.fact], c) = "false"}
  <1>1. ASSUME NEW e \in Expressions, Kids[e] \subseteq S
        PROVE  e \in S
    <2> SUFFICES ASSUME ~Negated[e], Walk(e, facts) = "false"
                 PROVE  \E c \in Checks[e] : Compare(facts[c.fact], c) = "false"
      OBVIOUS
    <2>1. CASE e.type = "check"
      <3>1. Walk(e, facts) = Compare(facts[e.fact], e)
        BY <2>1, WalkFacts
      <3>2. e \in Checks[e]
        BY <2>1, ChecksFacts
      <3> QED
        BY <3>1, <3>2
    <2>2. CASE e.type # "check"
      <3>1. \E k \in Kids[e] : Walk(k, facts) = "false"
        <4>1. CASE e.type = "all"
          <5>1. "false" \in {Walk(k, facts) : k \in e.nodes}
            BY <4>1, WalkFacts DEF And
          <5> QED
            BY <4>1, <5>1, KidsOf
        <4>2. CASE e.type = "any"
          <5>1. PICK k : k \in e.nodes /\ k \in Kids[e] /\ k \in Expressions
            BY <4>2, KidsOf, ExpressionTrees, ExpressionsAssumption DEF Trees
          <5>2. Walk(k, facts) \in TruthValues
            BY <5>1, WalkFacts
          <5>3. {"true", "unknown"} \cap {Walk(j, facts) : j \in e.nodes} = {}
            BY <4>2, WalkFacts DEF Or
          <5> QED
            BY <5>1, <5>2, <5>3 DEF TruthValues
        <4> QED
          BY <2>2, <4>1, <4>2, NegatedFacts, ExpressionsAssumption
      <3> PICK k \in Kids[e] : Walk(k, facts) = "false"
        BY <3>1
      <3>2. \E c \in Checks[k] : Compare(facts[c.fact], c) = "false"
        BY <1>1, NegatedFacts
      <3> QED
        BY <3>2, ChecksFacts
    <2> QED
      BY <2>1, <2>2
  <1>2. Expressions \subseteq S
    <2> HIDE DEF S
    <2> QED
      BY <1>1, ExpressionTrees, TreeInduction
  <1> QED
    BY <1>2

\* Whether what is on record for the checks of a node is still on record.
StillOnRecord(d, facts, more) ==
    \A c \in Checks[d] :
        /\ c.op \notin {"exists", "missing"}
        /\ facts[c.fact] # Absent => more[c.fact] = facts[c.fact]

\* What is known of a check, or of a node, stays known when the facts are completed.
LEMMA CheckStays ==
    ASSUME NEW facts, NEW more, NEW d, StillOnRecord(d, facts, more), NEW c \in Checks[d],
           Compare(facts[c.fact], c) # "unknown"
    PROVE  more[c.fact] = facts[c.fact]
  BY AbsentIsUnknown DEF StillOnRecord

\* The same of the walk.
LEMMA WalkStays ==
    ASSUME NEW facts, NEW more, NEW d \in Expressions, StillOnRecord(d, facts, more),
           Walk(d, facts) # "unknown"
    PROVE  Walk(d, more) = Walk(d, facts)
  <1> DEFINE S == {e \in Expressions : StillOnRecord(e, facts, more) /\ Walk(e, facts) # "unknown" =>
                                           Walk(e, more) = Walk(e, facts)}
  <1>1. ASSUME NEW e \in Expressions, Kids[e] \subseteq S
        PROVE  e \in S
    <2> SUFFICES ASSUME StillOnRecord(e, facts, more), Walk(e, facts) # "unknown"
                 PROVE  Walk(e, more) = Walk(e, facts)
      OBVIOUS
    <2>1. CASE e.type = "check"
      <3>1. Walk(e, facts) = Compare(facts[e.fact], e) /\ Walk(e, more) = Compare(more[e.fact], e)
        BY <2>1, WalkFacts
      <3>2. e \in Checks[e]
        BY <2>1, ChecksFacts
      <3>3. more[e.fact] = facts[e.fact]
        BY <3>1, <3>2, CheckStays
      <3> QED
        BY <3>1, <3>3
    <2>2. ASSUME NEW k \in Kids[e]
          PROVE  /\ k \in Expressions /\ Walk(k, facts) \in TruthValues
                 /\ Walk(k, facts) # "unknown" => Walk(k, more) = Walk(k, facts)
      <3>1. k \in Expressions
        BY ExpressionTrees DEF Trees
      <3>2. StillOnRecord(k, facts, more)
        BY ChecksFacts DEF StillOnRecord
      <3> QED
        BY <1>1, <3>1, <3>2, WalkFacts
    <2>3. CASE e.type = "all"
      <3> DEFINE O == {Walk(k, facts) : k \in e.nodes}
                 P == {Walk(k, more) : k \in e.nodes}
      <3>1. Kids[e] = e.nodes /\ Walk(e, facts) = And(O) /\ Walk(e, more) = And(P)
        BY <2>3, KidsOf, WalkFacts
      <3>2. CASE "false" \in O
        <4>1. "false" \in P
          BY <2>2, <3>1, <3>2
        <4> QED
          BY <3>1, <3>2, <4>1 DEF And
      <3>3. CASE "false" \notin O
        <4>1. "unknown" \notin O
          BY <3>1, <3>3 DEF And
        <4>2. \A k \in e.nodes : Walk(k, facts) = "true"
          BY <2>2, <3>1, <3>3, <4>1 DEF TruthValues
        <4>3. P = O
          BY <2>2, <3>1, <4>2
        <4> QED
          BY <3>1, <4>3
      <3> QED
        BY <3>2, <3>3
    <2>4. CASE e.type = "any"
      <3> DEFINE O == {Walk(k, facts) : k \in e.nodes}
                 P == {Walk(k, more) : k \in e.nodes}
      <3>1. Kids[e] = e.nodes /\ Walk(e, facts) = Or(O) /\ Walk(e, more) = Or(P)
        BY <2>4, KidsOf, WalkFacts
      <3>2. CASE "true" \in O
        <4>1. "true" \in P
          BY <2>2, <3>1, <3>2
        <4> QED
          BY <3>1, <3>2, <4>1 DEF Or
      <3>3. CASE "true" \notin O
        <4>1. "unknown" \notin O
          BY <3>1, <3>3 DEF Or
        <4>2. \A k \in e.nodes : Walk(k, facts) = "false"
          BY <2>2, <3>1, <3>3, <4>1 DEF TruthValues
        <4>3. P = O
          BY <2>2, <3>1, <4>2
        <4> QED
          BY <3>1, <4>3
      <3> QED
        BY <3>2, <3>3
    <2>5. CASE e.type = "not"
      <3>1. e.node \in Kids[e]
        BY <2>5, KidsOf
      <3>2. Walk(e, facts) = Negate(Walk(e.node, facts)) /\ Walk(e, more) = Negate(Walk(e.node, more))
        BY <2>5, WalkFacts
      <3>3. Walk(e.node, facts) # "unknown"
        BY <3>2 DEF Negate
      <3> QED
        BY <2>2, <3>1, <3>2, <3>3
    <2> QED
      BY <2>1, <2>3, <2>4, <2>5, ExpressionsAssumption
  <1>2. Expressions \subseteq S
    <2> HIDE DEF S
    <2> QED
      BY <1>1, ExpressionTrees, TreeInduction
  <1> QED
    BY <1>2

\* The checks of a rule ask for facts that a bag has.
LEMMA ChecksAskForFacts ==
    ASSUME NEW d \in Expressions
    PROVE  \A c \in Checks[d] : c.fact \in FactKeys
  <1> DEFINE S == {e \in Expressions : \A c \in Checks[e] : c.fact \in FactKeys}
  <1>1. ASSUME NEW e \in Expressions, Kids[e] \subseteq S
        PROVE  e \in S
    <2>1. CASE e.type = "check"
      BY <2>1, ChecksFacts, FactsAssumption
    <2>2. CASE e.type # "check"
      BY <1>1, <2>2, ChecksFacts
    <2> QED
      BY <2>1, <2>2
  <1>2. Expressions \subseteq S
    <2> HIDE DEF S
    <2> QED
      BY <1>1, ExpressionTrees, TreeInduction
  <1> QED
    BY <1>2

\* What is stated of a profile is a bag of facts; completed later, by the profile or by
\* the call, it is what it was completed to.
LEMMA StatedFacts ==
    ASSUME NEW given \in FactBags, NEW profile \in FactBags, NEW more \in FactBags,
           Completes(more, Stated(given, profile))
    PROVE  /\ \A f \in FactKeys : Stated(given, profile)[f] # Absent =>
                                     more[f] = Stated(given, profile)[f]
           /\ Stated(more, profile) = more
           /\ Stated(given, more) = more
  <1>1. /\ DOMAIN given = FactKeys /\ DOMAIN profile = FactKeys /\ DOMAIN more = FactKeys
        /\ more = [f \in FactKeys |-> more[f]]
    BY FactsAssumption
  <1>2. \A f \in FactKeys : /\ Stated(given, profile)[f] = (IF given[f] = Absent THEN profile[f] ELSE given[f])
                            /\ Stated(given, profile)[f] # Absent => more[f] = Stated(given, profile)[f]
    BY <1>1 DEF Stated, Completes
  <1>3. \A f \in FactKeys : (IF more[f] = Absent THEN profile[f] ELSE more[f]) = more[f]
    BY <1>2
  <1>4. \A f \in FactKeys : (IF given[f] = Absent THEN more[f] ELSE given[f]) = more[f]
    BY <1>2
  <1>5. Stated(more, profile) = more
    BY <1>1, <1>3 DEF Stated
  <1>6. Stated(given, more) = more
    BY <1>1, <1>4 DEF Stated
  <1> QED
    BY <1>2, <1>5, <1>6

\* Whether the verdict of one rule stands when the facts are completed.
ResultHolds(rule, was, is) ==
    CASE was = "eligible" -> is = "eligible"
      [] was = "unknown"  -> TRUE
      [] OTHER -> is \in {"ineligible", was} \/ (is = "conditional" /\ Negated[rule])

\* It does.
LEMMA ResultStays ==
    ASSUME NEW rule \in Expressions, NEW facts, NEW more, StillOnRecord(rule, facts, more)
    PROVE  ResultHolds(rule, Result(rule, facts), Result(rule, more))
  <1>1. Walk(rule, facts) \in TruthValues
    BY WalkFacts
  <1>2. CASE Walk(rule, facts) = "unknown"
    BY <1>2 DEF Result, ResultHolds
  <1>3. CASE Walk(rule, facts) = "true"
    <2>1. Walk(rule, more) = "true"
      BY <1>3, WalkStays
    <2> QED
      BY <1>3, <2>1 DEF Result, ResultHolds
  <1>4. CASE Walk(rule, facts) = "false"
    <2>1. Walk(rule, more) = "false"
      BY <1>4, WalkStays
    <2>2. /\ Result(rule, facts) \in {"conditional", "ineligible"}
          /\ Result(rule, more) \in {"conditional", "ineligible"}
      BY <1>4, <2>1 DEF Result
    <2>3. ASSUME Result(rule, facts) = "ineligible", ~Negated[rule]
          PROVE  Result(rule, more) = "ineligible"
      <3>1. Unsatisfied(rule, facts) # {}
        BY <1>4, <2>3, FalseIsFailed DEF Unsatisfied
      <3>2. PICK c \in Unsatisfied(rule, facts) : ~c.remediable
        BY <1>4, <2>3, <3>1 DEF Result
      <3>3. c \in Checks[rule] /\ Compare(facts[c.fact], c) = "false"
        BY DEF Unsatisfied
      <3>4. more[c.fact] = facts[c.fact]
        BY <3>3, CheckStays
      <3>5. c \in Unsatisfied(rule, more)
        BY <3>3, <3>4 DEF Unsatisfied
      <3> QED
        BY <2>1, <3>2, <3>5 DEF Result
    <2> QED
      BY <2>2, <2>3 DEF ResultHolds
  <1> QED
    BY <1>1, <1>2, <1>3, <1>4 DEF TruthValues

\* An open verdict of one rule names a fact.
LEMMA OpenNamesAFact ==
    ASSUME NEW rule \in Expressions, NEW facts, Result(rule, facts) = "unknown"
    PROVE  MissingFacts(rule, facts) # {}
  <1>1. Walk(rule, facts) = "unknown"
    BY DEF Result
  <1>2. PICK c \in Checks[rule] : Compare(facts[c.fact], c) = "unknown"
    BY <1>1, UnknownIsMissing
  <1>3. c.fact \in MissingFacts(rule, facts)
    BY <1>2 DEF MissingFacts
  <1> QED
    BY <1>3

\* Whether the verdicts of a book are those of a rule.
Rules(rule, book) ==
    \A given, profile :
        /\ Evaluate(book, Now, given, profile).result = Result(rule, Stated(given, profile))
        /\ Evaluate(book, Now, given, profile).missing = MissingFacts(rule, Stated(given, profile))

\* A verdict is that of one rule in force, if there is one.
LEMMA VerdictIsOfARule ==
    ASSUME NEW book \in RuleBooks,
           NEW force, force = {v.expression : v \in Effective(book, Now)}, force # {}
    PROVE  \E rule \in force : rule \in Expressions /\ Rules(rule, book)
  <1>1. PICK rule : rule = CHOOSE r \in force : TRUE
    OBVIOUS
  <1>2. rule \in force
    BY <1>1
  <1>3. rule \in Expressions
    BY <1>2, RulesAssumption DEF Effective, InForce
  <1>4. Rules(rule, book)
    BY <1>1 DEF Evaluate, Rules
  <1> QED
    BY <1>2, <1>3, <1>4

\* An answer about eligibility stands.
LEMMA EligibilityStep ==
    ASSUME AnswerEligibility, Asked
    PROVE  EligibilityStands'
  <1>1. PICK book : book = question.book
    OBVIOUS
  <1>2. PICK verdicts : verdicts = Verdicts(book)
    OBVIOUS
  <1>3. /\ question' = question /\ question.of = "eligibility"
        /\ answer'.verdicts = verdicts
    BY <1>1, <1>2, Tagged DEF AnswerEligibility, Answer
  <1>4. book \in RuleBooks
    BY <1>1, <1>3 DEF Asked
  <1>5. \A g, p \in FactBags : verdicts[g][p] = Evaluate(book, Now, g, p)
    BY <1>2 DEF Verdicts
  <1>6. PICK force : force = {v.expression : v \in Effective(book, Now)}
    OBVIOUS
  <1>7. ASSUME NEW given \in FactBags, NEW profile \in FactBags
        PROVE  /\ OpenNames(verdicts[given][profile], force)
               /\ (\A rule \in force : Determinate(rule)) => Completed(verdicts, force, given, profile)
    <2>1. PICK facts : facts = Stated(given, profile)
      OBVIOUS
    <2>2. CASE force = {}
      <3>1. \A g, p \in FactBags :
                verdicts[g][p] = [result |-> "unknown", missing |-> {}, review |-> TRUE]
        BY <1>5, <1>6, <2>2 DEF Evaluate
      <3> QED
        BY <2>2, <3>1 DEF OpenNames, Completed, Stands
    <2>3. CASE force # {}
      <3>1. PICK rule \in force : rule \in Expressions /\ Rules(rule, book)
        BY <1>4, <1>6, <2>3, VerdictIsOfARule
      <3>2. \A g, p \in FactBags : /\ verdicts[g][p].result = Result(rule, Stated(g, p))
                                   /\ verdicts[g][p].missing = MissingFacts(rule, Stated(g, p))
        BY <1>5, <3>1 DEF Rules
      <3>3. OpenNames(verdicts[given][profile], force)
        BY <3>1, <3>2, OpenNamesAFact DEF OpenNames
      <3>4. ASSUME \A r \in force : Determinate(r),
                   NEW more \in FactBags, Completes(more, Stated(given, profile))
            PROVE  /\ verdicts[more][profile] = verdicts[given][more]
                   /\ Stands(verdicts[given][profile], verdicts[more][profile], force)
        <4>1. Stated(more, profile) = more /\ Stated(given, more) = more
          BY <3>4, StatedFacts
        <4>2. Evaluate(book, Now, more, profile) = Evaluate(book, Now, given, more)
          BY <4>1 DEF Evaluate
        <4>3. verdicts[given][profile].result = Result(rule, facts)
          BY <2>1, <3>2
        <4>4. verdicts[more][profile].result = Result(rule, more)
          BY <3>2, <4>1
        <4>5. \A f \in FactKeys : facts[f] # Absent => more[f] = facts[f]
          BY <2>1, <3>4, StatedFacts
        <4>6. StillOnRecord(rule, facts, more)
          BY <3>1, <3>4, <4>5, ChecksAskForFacts DEF StillOnRecord, Determinate
        <4>7. ResultHolds(rule, Result(rule, facts), Result(rule, more))
          BY <3>1, <4>6, ResultStays
        <4>8. Stands(verdicts[given][profile], verdicts[more][profile], force)
          BY <3>1, <4>3, <4>4, <4>7 DEF Stands, ResultHolds
        <4> QED
          BY <1>5, <4>2, <4>8
      <3> QED
        BY <3>3, <3>4 DEF Completed
    <2> QED
      BY <2>2, <2>3
  <1> QED
    BY <1>1, <1>3, <1>6, <1>7 DEF EligibilityStands

-------------------------------------------------------------------------------
(* What is not known yet never makes a verdict: scholarships.              *)

\* The conditions of an offer by name.
NamesOf(offer) ==
    {"target", "education", "documents", "language", "nationality", "research"}
    \cup (IF offer.months = 0 THEN {} ELSE {"experience"})
StateOf(offer, p, i) ==
    CASE i = "target"      -> TargetState(offer, p)
      [] i = "education"   -> PriorEducationState(p)
      [] i = "documents"   -> PapersState(p)
      [] i = "language"    -> LanguageProofState(offer, p)
      [] i = "nationality" -> (IF offer.nationality = "worldwide" THEN "ready" ELSE "unknown")
      [] i = "research"    -> ResearchState(offer, p)
      [] i = "experience"  -> AtLeast(p.experienceMonths, offer.months)
HardOf(offer, i) ==
    CASE i \in {"target", "education", "experience"} -> TRUE
      [] i = "nationality"                            -> offer.nationality = "bangladesh"
      [] OTHER                                        -> FALSE
Named(offer, p, i) == Condition(i, StateOf(offer, p, i), HardOf(offer, i))

\* They are all the conditions.
LEMMA ConditionsByName ==
    ASSUME NEW offer, NEW p
    PROVE  Conditions(offer, p) = {Named(offer, p, i) : i \in NamesOf(offer)}
  <1>1. /\ Named(offer, p, "target") = Condition("target", TargetState(offer, p), TRUE)
        /\ Named(offer, p, "education") = Condition("education", PriorEducationState(p), TRUE)
        /\ Named(offer, p, "documents") = Condition("documents", PapersState(p), FALSE)
        /\ Named(offer, p, "language") = Condition("language", LanguageProofState(offer, p), FALSE)
        /\ Named(offer, p, "nationality") =
               Condition("nationality", IF offer.nationality = "worldwide" THEN "ready" ELSE "unknown",
                         offer.nationality = "bangladesh")
        /\ Named(offer, p, "research") = Condition("research", ResearchState(offer, p), FALSE)
        /\ Named(offer, p, "experience") =
               Condition("experience", AtLeast(p.experienceMonths, offer.months), TRUE)
    BY DEF Named, StateOf, HardOf
  <1> DEFINE six == {Named(offer, p, "target"), Named(offer, p, "education"), Named(offer, p, "documents"),
                     Named(offer, p, "language"), Named(offer, p, "nationality"), Named(offer, p, "research")}
  <1>2. Conditions(offer, p) = six \cup (IF offer.months = 0 THEN {} ELSE {Named(offer, p, "experience")})
    BY <1>1, Zenon DEF Conditions
  <1>3. CASE offer.months = 0
    <2>1. NamesOf(offer) = {"target", "education", "documents", "language", "nationality", "research"}
      BY <1>3 DEF NamesOf
    <2> QED
      BY <1>2, <1>3, <2>1
  <1>4. CASE offer.months # 0
    <2>1. NamesOf(offer) =
              {"target", "education", "documents", "language", "nationality", "research", "experience"}
      BY <1>4 DEF NamesOf
    <2> QED
      BY <1>2, <1>4, <2>1
  <1> QED
    BY <1>3, <1>4

\* There are six or seven of them.
LEMMA NamesCounted ==
    ASSUME NEW offer
    PROVE  IsFiniteSet(NamesOf(offer)) /\ Cardinality(NamesOf(offer)) \in {6, 7}
  <1>1. IsFiniteSet({}) /\ Cardinality({}) = 0
    BY FS_EmptySet
  <1>2. IsFiniteSet({"target"}) /\ Cardinality({"target"}) = 1
    <2>1. {} \cup {"target"} = {"target"} /\ "target" \notin {}
      OBVIOUS
    <2> QED
      BY <1>1, <2>1, FS_AddElement
  <1>3. LET S == {"target", "education"} IN IsFiniteSet(S) /\ Cardinality(S) = 2
    <2>1. {"target"} \cup {"education"} = {"target", "education"} /\ "education" \notin {"target"}
      OBVIOUS
    <2> QED
      BY <1>2, <2>1, FS_AddElement
  <1>4. LET S == {"target", "education", "documents"} IN IsFiniteSet(S) /\ Cardinality(S) = 3
    <2>1. /\ {"target", "education"} \cup {"documents"} = {"target", "education", "documents"}
          /\ "documents" \notin {"target", "education"}
      OBVIOUS
    <2> QED
      BY <1>3, <2>1, FS_AddElement
  <1>5. LET S == {"target", "education", "documents", "language"} IN IsFiniteSet(S) /\ Cardinality(S) = 4
    <2>1. /\ {"target", "education", "documents"} \cup {"language"} =
                 {"target", "education", "documents", "language"}
          /\ "language" \notin {"target", "education", "documents"}
      OBVIOUS
    <2> QED
      BY <1>4, <2>1, FS_AddElement
  <1>6. LET S == {"target", "education", "documents", "language", "nationality"}
        IN  IsFiniteSet(S) /\ Cardinality(S) = 5
    <2>1. /\ {"target", "education", "documents", "language"} \cup {"nationality"} =
                 {"target", "education", "documents", "language", "nationality"}
          /\ "nationality" \notin {"target", "education", "documents", "language"}
      OBVIOUS
    <2> QED
      BY <1>5, <2>1, FS_AddElement
  <1>7. LET S == {"target", "education", "documents", "language", "nationality", "research"}
        IN  IsFiniteSet(S) /\ Cardinality(S) = 6
    <2>1. /\ {"target", "education", "documents", "language", "nationality"} \cup {"research"} =
                 {"target", "education", "documents", "language", "nationality", "research"}
          /\ "research" \notin {"target", "education", "documents", "language", "nationality"}
      OBVIOUS
    <2> QED
      BY <1>6, <2>1, FS_AddElement
  <1>8. CASE offer.months = 0
    <2>1. NamesOf(offer) = {"target", "education", "documents", "language", "nationality", "research"}
      BY <1>8 DEF NamesOf
    <2> QED
      BY <1>7, <2>1
  <1>9. CASE offer.months # 0
    <2> DEFINE S == {"target", "education", "documents", "language", "nationality", "research"}
    <2>1. NamesOf(offer) = S \cup {"experience"} /\ "experience" \notin S
      BY <1>9 DEF NamesOf
    <2>2. IsFiniteSet(S) /\ Cardinality(S) = 6
      BY <1>7
    <2> HIDE DEF S
    <2> QED
      BY <2>1, <2>2, FS_AddElement
  <1> QED
    BY <1>8, <1>9

\* Conditions are told apart by their names, and so as many as these.
LEMMA CountedByName ==
    ASSUME NEW offer, NEW p, NEW I \in SUBSET NamesOf(offer)
    PROVE  LET C == {Named(offer, p, i) : i \in I}
           IN  IsFiniteSet(C) /\ Cardinality(C) = Cardinality(I)
  <1>1. PICK C : C = {Named(offer, p, i) : i \in I}
    OBVIOUS
  <1>2. PICK f : f = [i \in I |-> Named(offer, p, i)]
    OBVIOUS
  <1>3. \A i \in I : f[i] = Named(offer, p, i) /\ f[i].id = i
    BY <1>2 DEF Named, Condition
  <1>4. f \in [I -> C]
    BY <1>1, <1>2
  <1>5. f \in Injection(I, C)
    BY <1>3, <1>4 DEF Injection, IsInjective
  <1>6. f \in Surjection(I, C)
    BY <1>1, <1>3, <1>4 DEF Surjection
  <1>7. ExistsBijection(I, C)
    BY <1>5, <1>6 DEF ExistsBijection, Bijection
  <1>8. IsFiniteSet(I)
    BY NamesCounted, FS_Subset
  <1> QED
    BY <1>1, <1>7, <1>8, FS_Bijection

\* The conditions in a state.
In(offer, p, state) == {i \in NamesOf(offer) : StateOf(offer, p, i) = state}

\* A state is one of three.
LEMMA StatesOfConditions ==
    ASSUME NEW offer, NEW p, NEW i \in NamesOf(offer)
    PROVE  StateOf(offer, p, i) \in {"ready", "missing", "unknown"}
  <1>1. /\ \A v : BooleanState(v) \in {"ready", "missing", "unknown"}
        /\ \A m, n : AtLeast(m, n) \in {"ready", "missing", "unknown"}
    BY DEF BooleanState, AtLeast
  <1>2. TargetState(offer, p) \in {"ready", "missing", "unknown"}
    BY DEF TargetState
  <1>3. PriorEducationState(p) \in {"ready", "missing", "unknown"}
    BY DEF PriorEducationState, AcademicLevelState
  <1>4. PapersState(p) \in {"ready", "missing", "unknown"}
    <2>1. CASE "undefined" \in {p.certificates, p.transcripts}
      BY <2>1 DEF PapersState
    <2>2. CASE "undefined" \notin {p.certificates, p.transcripts}
      BY <2>2 DEF PapersState
    <2> QED
      BY <2>1, <2>2
  <1>5. LanguageProofState(offer, p) \in {"ready", "missing", "unknown"}
    BY <1>1 DEF LanguageProofState
  <1>6. ResearchState(offer, p) \in {"ready", "missing", "unknown"}
    BY <1>1 DEF ResearchState
  <1>7. i \in {"target", "education", "documents", "language", "nationality", "research", "experience"}
    BY DEF NamesOf
  <1> QED
    BY <1>1, <1>2, <1>3, <1>4, <1>5, <1>6, <1>7 DEF StateOf

\* A fit, told by the names of the conditions.
LEMMA FitByName ==
    ASSUME NEW offer, NEW p
    PROVE  /\ EvaluateScholarship(offer, p).score =
                  Percent(Cardinality(In(offer, p, "ready")), Cardinality(NamesOf(offer)))
           /\ EvaluateScholarship(offer, p).state =
                  IF offer.cycle = "closed" THEN "deadline_missed"
                  ELSE IF \E i \in In(offer, p, "missing") : HardOf(offer, i) THEN "not_eligible"
                  ELSE IF In(offer, p, "missing") # {} THEN "near_eligible"
                  ELSE IF In(offer, p, "unknown") # {} THEN "unknown"
                  ELSE "eligible"
  <1>1. PICK all : all = Conditions(offer, p)
    OBVIOUS
  <1>2. all = {Named(offer, p, i) : i \in NamesOf(offer)}
    BY <1>1, ConditionsByName
  <1>3. \A i : Named(offer, p, i).state = StateOf(offer, p, i) /\ Named(offer, p, i).hard = HardOf(offer, i)
    BY DEF Named, Condition
  <1>4. ASSUME NEW state
        PROVE  {c \in all : c.state = state} = {Named(offer, p, i) : i \in In(offer, p, state)}
    BY <1>2, <1>3 DEF In
  <1>5. Cardinality({c \in all : c.state = "ready"}) = Cardinality(In(offer, p, "ready"))
    <2>1. In(offer, p, "ready") \in SUBSET NamesOf(offer)
      BY DEF In
    <2> QED
      BY <1>4, <2>1, CountedByName
  <1>6. Cardinality(all) = Cardinality(NamesOf(offer))
    <2>1. NamesOf(offer) \in SUBSET NamesOf(offer)
      OBVIOUS
    <2> QED
      BY <1>2, <2>1, CountedByName
  <1>7. EvaluateScholarship(offer, p).score =
            Percent(Cardinality({c \in all : c.state = "ready"}), Cardinality(all))
    BY <1>1 DEF EvaluateScholarship
  <1>8. /\ (\E c \in {c \in all : c.state = "missing"} : c.hard) <=>
                (\E i \in In(offer, p, "missing") : HardOf(offer, i))
        /\ \A state : {c \in all : c.state = state} # {} <=> In(offer, p, state) # {}
    BY <1>3, <1>4
  <1>9. EvaluateScholarship(offer, p).state =
            IF offer.cycle = "closed" THEN "deadline_missed"
            ELSE IF \E c \in {c \in all : c.state = "missing"} : c.hard THEN "not_eligible"
            ELSE IF {c \in all : c.state = "missing"} # {} THEN "near_eligible"
            ELSE IF {c \in all : c.state = "unknown"} # {} THEN "unknown"
            ELSE "eligible"
    BY <1>1 DEF EvaluateScholarship
  <1> QED
    BY <1>5, <1>6, <1>7, <1>8, <1>9

\* The answers of a passport, of which one more is given.
AnswerKeys ==
    {"target", "level", "certificates", "transcripts", "languageTest", "english", "experienceMonths", "proposal"}
Answers(p) ==
    /\ DOMAIN p = AnswerKeys
    /\ {p.certificates, p.transcripts, p.languageTest, p.proposal} \subseteq {"undefined", "yes", "no"}
    /\ p.level # "unsure"
OneMore(p, q, k) ==
    /\ k \in AnswerKeys /\ IsBlank(k, p[k]) /\ ~IsBlank(k, q[k])
    /\ \A f \in AnswerKeys : f # k => q[f] = p[f]

\* What is known of a condition stays known, except that one who aims at a doctorate
\* is asked for a proposal.
LEMMA KnownStays ==
    ASSUME NEW offer, NEW p, Answers(p), NEW q, NEW k, OneMore(p, q, k),
           NEW i \in NamesOf(offer), StateOf(offer, p, i) # "unknown"
    PROVE  StateOf(offer, q, i) = StateOf(offer, p, i) \/ (i = "research" /\ k = "target")
  <1>1. \A f \in AnswerKeys : f # k => q[f] = p[f]
    BY DEF OneMore
  <1>2. CASE i = "target"
    <2>1. StateOf(offer, p, i) = TargetState(offer, p) /\ StateOf(offer, q, i) = TargetState(offer, q)
      BY <1>2 DEF StateOf
    <2>2. k # "target"
      BY <2>1 DEF TargetState, OneMore, IsBlank
    <2>3. q.target = p.target
      BY <1>1, <2>2 DEF AnswerKeys
    <2> QED
      BY <2>1, <2>3 DEF TargetState
  <1>3. CASE i = "education"
    <2>1. StateOf(offer, p, i) = AcademicLevelState(p) /\ StateOf(offer, q, i) = AcademicLevelState(q)
      BY <1>3 DEF StateOf, PriorEducationState
    <2>2. k # "target" /\ k # "level"
      BY <2>1 DEF AcademicLevelState, OneMore, IsBlank, Answers
    <2>3. q.target = p.target /\ q.level = p.level
      BY <1>1, <2>2 DEF AnswerKeys
    <2> QED
      BY <2>1, <2>3 DEF AcademicLevelState
  <1>4. CASE i = "documents"
    <2>1. StateOf(offer, p, i) = PapersState(p) /\ StateOf(offer, q, i) = PapersState(q)
      BY <1>4 DEF StateOf
    <2>2. "undefined" \notin {p.certificates, p.transcripts}
      <3> SUFFICES ASSUME "undefined" \in {p.certificates, p.transcripts}
                   PROVE  FALSE
        OBVIOUS
      <3>1. p.certificates = "yes" /\ p.transcripts = "yes" => FALSE
        OBVIOUS
      <3> QED
        BY <2>1, <3>1 DEF PapersState
    <2>3. k # "certificates" /\ k # "transcripts"
      BY <2>2 DEF OneMore, IsBlank, Answers
    <2>4. q.certificates = p.certificates /\ q.transcripts = p.transcripts
      BY <1>1, <2>3 DEF AnswerKeys
    <2> QED
      BY <2>1, <2>4 DEF PapersState
  <1>5. CASE i = "language"
    <2>1. StateOf(offer, p, i) = LanguageProofState(offer, p) /\ StateOf(offer, q, i) = LanguageProofState(offer, q)
      BY <1>5 DEF StateOf
    <2>2. CASE offer.languageTest
      <3>1. p.languageTest # "undefined"
        BY <2>1, <2>2 DEF LanguageProofState, BooleanState
      <3>2. k # "languageTest"
        BY <3>1 DEF OneMore, IsBlank, Answers
      <3>3. q.languageTest = p.languageTest
        BY <1>1, <3>2 DEF AnswerKeys
      <3> QED
        BY <2>1, <2>2, <3>3 DEF LanguageProofState
    <2>3. CASE ~offer.languageTest
      <3>1. p.english # "undefined"
        BY <2>1, <2>3 DEF LanguageProofState
      <3>2. q.english # "undefined"
        BY <1>1, <3>1 DEF OneMore, IsBlank, AnswerKeys
      <3> QED
        BY <2>1, <2>3, <3>1, <3>2 DEF LanguageProofState
    <2> QED
      BY <2>2, <2>3
  <1>6. CASE i = "nationality"
    BY <1>6 DEF StateOf
  <1>7. CASE i = "research" /\ k # "target"
    <2>1. StateOf(offer, p, i) = ResearchState(offer, p) /\ StateOf(offer, q, i) = ResearchState(offer, q)
      BY <1>7 DEF StateOf
    <2>2. q.target = p.target
      BY <1>1, <1>7 DEF AnswerKeys
    <2>3. CASE offer.proposal /\ p.target = "phd"
      <3>1. p.proposal # "undefined"
        BY <2>1, <2>3 DEF ResearchState, BooleanState
      <3>2. k # "proposal"
        BY <3>1 DEF OneMore, IsBlank, Answers
      <3>3. q.proposal = p.proposal
        BY <1>1, <3>2 DEF AnswerKeys
      <3> QED
        BY <2>1, <2>2, <3>3 DEF ResearchState
    <2>4. CASE ~(offer.proposal /\ p.target = "phd")
      BY <2>1, <2>2, <2>4 DEF ResearchState
    <2> QED
      BY <2>3, <2>4
  <1>8. CASE i = "experience"
    <2>1. /\ StateOf(offer, p, i) = AtLeast(p.experienceMonths, offer.months)
          /\ StateOf(offer, q, i) = AtLeast(q.experienceMonths, offer.months)
      BY <1>8 DEF StateOf
    <2>2. k # "experienceMonths"
      BY <2>1 DEF AtLeast, OneMore, IsBlank
    <2>3. q.experienceMonths = p.experienceMonths
      BY <1>1, <2>2 DEF AnswerKeys
    <2> QED
      BY <2>1, <2>3
  <1>9. i \in {"target", "education", "documents", "language", "nationality", "research", "experience"}
    BY DEF NamesOf
  <1> QED
    BY <1>2, <1>3, <1>4, <1>5, <1>6, <1>7, <1>8, <1>9

\* Who has not said what they aim at is asked for no proposal; once they have, a
\* proposal is asked of them only for a doctorate, which the offer then has.
LEMMA ProposalFollowsTarget ==
    ASSUME NEW offer, offer.proposal => "phd" \in offer.degrees, NEW p, NEW q, OneMore(p, q, "target")
    PROVE  /\ StateOf(offer, p, "target") = "unknown"
           /\ StateOf(offer, p, "research") = "ready"
           /\ StateOf(offer, q, "research") # "ready" => StateOf(offer, q, "target") = "ready"
  <1>1. p.target \in {"undefined", "unsure"} /\ q.target \notin {"undefined", "unsure"}
    BY DEF OneMore, IsBlank
  <1>2. /\ StateOf(offer, p, "target") = TargetState(offer, p)
        /\ StateOf(offer, q, "target") = TargetState(offer, q)
        /\ StateOf(offer, p, "research") = ResearchState(offer, p)
        /\ StateOf(offer, q, "research") = ResearchState(offer, q)
    BY DEF StateOf
  <1>3. ResearchState(offer, q) # "ready" => q.target = "phd" /\ offer.proposal
    BY DEF ResearchState
  <1> QED
    BY <1>1, <1>2, <1>3 DEF TargetState, ResearchState

\* A percentage grows with its part.
LEMMA PercentGrows ==
    ASSUME NEW whole \in {6, 7}, NEW a \in Nat, NEW b \in Nat, a <= b
    PROVE  Percent(b, whole) >= Percent(a, whole)
  <1>1. CASE whole = 6
    BY <1>1 DEF Percent
  <1>2. CASE whole = 7
    BY <1>2 DEF Percent
  <1> QED
    BY <1>1, <1>2

\* As many conditions are ready as before, or more.
LEMMA ReadyGrows ==
    ASSUME NEW offer, offer.proposal => "phd" \in offer.degrees,
           NEW p, Answers(p), NEW q, NEW k, OneMore(p, q, k)
    PROVE  /\ Cardinality(In(offer, p, "ready")) \in Nat /\ Cardinality(In(offer, q, "ready")) \in Nat
           /\ Cardinality(In(offer, p, "ready")) <= Cardinality(In(offer, q, "ready"))
  <1>1. PICK P, Q : P = In(offer, p, "ready") /\ Q = In(offer, q, "ready")
    OBVIOUS
  <1>2. IsFiniteSet(P) /\ IsFiniteSet(Q) /\ Cardinality(P) \in Nat /\ Cardinality(Q) \in Nat
    <2>1. P \in SUBSET NamesOf(offer) /\ Q \in SUBSET NamesOf(offer)
      BY <1>1 DEF In
    <2> QED
      BY <2>1, NamesCounted, FS_Subset, FS_CardinalityType
  <1>3. \A i \in P : i \in Q \/ (i = "research" /\ k = "target")
    BY <1>1, KnownStays DEF In
  <1>4. CASE P \subseteq Q
    BY <1>1, <1>2, <1>4, FS_Subset
  <1>5. CASE ~(P \subseteq Q)
    <2>1. k = "target" /\ "research" \in P /\ "research" \notin Q
      BY <1>3, <1>5
    <2>2. "target" \in NamesOf(offer)
      BY DEF NamesOf
    <2>3. "target" \notin P /\ "target" \in Q
      BY <1>1, <2>1, <2>2, ProposalFollowsTarget DEF In
    <2>4. PICK R : R = P \ {"research"}
      OBVIOUS
    <2>5. IsFiniteSet(R) /\ Cardinality(R) = Cardinality(P) - 1
      BY <1>2, <2>1, <2>4, FS_RemoveElement
    <2>6. Cardinality(R \cup {"target"}) = Cardinality(R) + 1
      BY <2>3, <2>4, <2>5, FS_AddElement
    <2>7. R \cup {"target"} \in SUBSET Q
      BY <1>3, <2>3, <2>4
    <2>8. Cardinality(R \cup {"target"}) <= Cardinality(Q)
      BY <1>2, <2>7, FS_Subset
    <2> QED
      BY <1>1, <1>2, <2>5, <2>6, <2>8
  <1> QED
    BY <1>4, <1>5

\* A fit stands when one more question is answered.
LEMMA FitStays ==
    ASSUME NEW offer, offer.proposal => "phd" \in offer.degrees,
           NEW p, Answers(p), NEW q, NEW k, OneMore(p, q, k)
    PROVE  FitStands(EvaluateScholarship(offer, p), EvaluateScholarship(offer, q))
  <1>1. PICK was, is : was = EvaluateScholarship(offer, p) /\ is = EvaluateScholarship(offer, q)
    OBVIOUS
  <1>2. is.score >= was.score
    BY <1>1, FitByName, NamesCounted, ReadyGrows, PercentGrows
  <1>3. /\ was.state = IF offer.cycle = "closed" THEN "deadline_missed"
                       ELSE IF \E i \in In(offer, p, "missing") : HardOf(offer, i) THEN "not_eligible"
                       ELSE IF In(offer, p, "missing") # {} THEN "near_eligible"
                       ELSE IF In(offer, p, "unknown") # {} THEN "unknown"
                       ELSE "eligible"
        /\ is.state = IF offer.cycle = "closed" THEN "deadline_missed"
                      ELSE IF \E i \in In(offer, q, "missing") : HardOf(offer, i) THEN "not_eligible"
                      ELSE IF In(offer, q, "missing") # {} THEN "near_eligible"
                      ELSE IF In(offer, q, "unknown") # {} THEN "unknown"
                      ELSE "eligible"
    BY <1>1, FitByName
  <1>4. In(offer, p, "missing") \subseteq In(offer, q, "missing")
    <2> SUFFICES ASSUME NEW i \in In(offer, p, "missing")
                 PROVE  i \in In(offer, q, "missing")
      OBVIOUS
    <2>1. i \in NamesOf(offer) /\ StateOf(offer, p, i) = "missing"
      BY DEF In
    <2>2. ~(i = "research" /\ k = "target")
      BY <2>1, ProposalFollowsTarget
    <2> QED
      BY <2>1, <2>2, KnownStays DEF In
  <1>5. CASE offer.cycle = "closed"
    BY <1>1, <1>2, <1>3, <1>5 DEF FitStands
  <1>6. CASE offer.cycle # "closed" /\ \E i \in In(offer, p, "missing") : HardOf(offer, i)
    <2>1. was.state = "not_eligible" /\ is.state = "not_eligible"
      BY <1>3, <1>4, <1>6
    <2> QED
      BY <1>1, <1>2, <2>1 DEF FitStands
  <1>7. CASE /\ offer.cycle # "closed" /\ ~\E i \in In(offer, p, "missing") : HardOf(offer, i)
             /\ In(offer, p, "missing") # {}
    <2>1. was.state = "near_eligible" /\ is.state \in {"near_eligible", "not_eligible"}
      BY <1>3, <1>4, <1>7
    <2> QED
      BY <1>1, <1>2, <2>1 DEF FitStands
  <1>8. CASE offer.cycle # "closed" /\ In(offer, p, "missing") = {} /\ In(offer, p, "unknown") # {}
    <2>1. was.state = "unknown"
      BY <1>3, <1>8
    <2> QED
      BY <1>1, <1>2, <2>1 DEF FitStands
  <1>9. CASE offer.cycle # "closed" /\ In(offer, p, "missing") = {} /\ In(offer, p, "unknown") = {}
    <2>1. \A i \in NamesOf(offer) : StateOf(offer, p, i) = "ready"
      BY <1>9, StatesOfConditions DEF In
    <2>2. k # "target"
      BY <2>1, ProposalFollowsTarget DEF NamesOf
    <2>3. \A i \in NamesOf(offer) : StateOf(offer, q, i) = "ready"
      BY <2>1, <2>2, KnownStays
    <2>4. In(offer, q, "missing") = {} /\ In(offer, q, "unknown") = {}
      BY <2>3 DEF In
    <2>5. was.state = "eligible" /\ is.state = "eligible"
      BY <1>3, <1>9, <2>4
    <2> QED
      BY <1>1, <1>2, <2>5 DEF FitStands
  <1> QED
    BY <1>5, <1>6, <1>7, <1>8, <1>9

\* An answer about a scholarship stands.
LEMMA ScholarshipStep ==
    ASSUME AnswerScholarship, Asked
    PROVE  ScholarshipStands'
  <1>1. PICK offer, aims : offer = question.offer /\ aims = question.aims
    OBVIOUS
  <1>2. /\ question' = question /\ question.of = "scholarship"
        /\ \A papers \in Papers : answer'.fits[papers] = EvaluateScholarship(offer, Joined(aims, papers))
    BY <1>1, Tagged DEF AnswerScholarship, Answer
  <1>3. /\ offer \in Offers /\ DOMAIN aims = {"target", "level"}
        /\ aims.level # "unsure"
    BY <1>1, <1>2 DEF Asked, LevelAnswers, Levels
  <1>4. ASSUME NEW papers \in Papers
        PROVE  LET was == answer'.fits[papers]
               IN  /\ AnsweredOnce(offer, Joined(aims, papers), was)
                   /\ was.state = "eligible" => offer.nationality = "worldwide"
    <2>1. PICK p, was : p = Joined(aims, papers) /\ was = EvaluateScholarship(offer, p)
      OBVIOUS
    <2>2. Answers(p)
      BY <1>3, <2>1, PapersAssumption DEF Joined, Answers, AnswerKeys
    <2>3. ASSUME NEW k \in DOMAIN p, NEW later, IsBlank(k, p[k]), ~IsBlank(k, later)
          PROVE  FitStands(was, EvaluateScholarship(offer, [p EXCEPT ![k] = later]))
      <3>1. PICK q : q = [p EXCEPT ![k] = later]
        OBVIOUS
      <3>2. OneMore(p, q, k)
        BY <2>2, <2>3, <3>1 DEF OneMore, Answers
      <3> QED
        BY <1>3, <2>1, <2>2, <3>1, <3>2, FitStays, OffersAssumption
    <2>4. AnsweredOnce(offer, p, was)
      BY <2>3 DEF AnsweredOnce
    <2>5. was.state = "eligible" => offer.nationality = "worldwide"
      <3>1. was.state = "eligible" => In(offer, p, "unknown") = {}
        BY <2>1, FitByName
      <3>2. "nationality" \in NamesOf(offer)
        BY DEF NamesOf
      <3> QED
        BY <3>1, <3>2 DEF In, StateOf
    <2> QED
      BY <1>2, <2>1, <2>4, <2>5
  <1> QED
    BY <1>1, <1>2, <1>4 DEF ScholarshipStands

\* A verdict of eligibility, or of a scholarship, is never taken back by an answer that
\* was missing (evaluateForProfile, evaluateScholarship).
THEOREM VerdictsStayGiven == Spec => []VerdictStands
  <1>1. Init => Asked /\ VerdictStands
    BY DEF Init, Unanswered, VerdictStands, EligibilityStands, ScholarshipStands
  <1>2. Asked /\ VerdictStands /\ [Next]_vars => (Asked /\ VerdictStands)'
    <2> SUFFICES ASSUME Asked, VerdictStands, [Next]_vars
                 PROVE  VerdictStands'
      BY StillAsked
    <2>1. CASE UNCHANGED vars
      BY <2>1 DEF vars, VerdictStands, EligibilityStands, ScholarshipStands
    <2>2. CASE Next
      <3>1. EligibilityStands'
        BY <2>2, NextAnswers, EligibilityStep DEF EligibilityStands
      <3>2. ScholarshipStands'
        BY <2>2, NextAnswers, ScholarshipStep DEF ScholarshipStands
      <3> QED
        BY <3>1, <3>2 DEF VerdictStands
    <2> QED
      BY <2>1, <2>2
  <1> QED
    BY <1>1, <1>2, PTL DEF Spec
===============================================================================

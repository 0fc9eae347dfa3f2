--------------------------------- MODULE Forms ---------------------------------
(***************************************************************************)
(* The forms of the website's workspace: what a person can send with each  *)
(* (components/OperationalForms.tsx, the onboarding page), the server      *)
(* action it is sent to (operational-actions.ts, actions.ts) and the row   *)
(* that is stored of it (db/operations.ts).  A form is a record of its     *)
(* fields; free text is left out.  `journey` says whose the chosen journey *)
(* is: the person's own, of the path named with it ("own") or of the other *)
(* one ("own_other"), somebody else's, or none.                            *)
(***************************************************************************)
EXTENDS Integers, TLC

CONSTANTS        \* the format of doubles, whose values are counted in its smallest steps:
    Half,        \* half of what a significand may count to: 2^52
    Scale,       \* smallest steps in 1: 2^1074
    Ulps         \* the distances of neighbours, in smallest steps: powers of two

ASSUME DoublesAssumption ==
    Half \in Nat /\ Half >= 8 /\ Scale \in Nat \ {0} /\ Ulps \subseteq Nat \ {0}

Kinds == {"record", "cost", "delegation", "verification", "ticket", "evidence", "outcome",
          "direction", "onboarding", "journey", "blank_journey", "start", "workspace"}

WorkRecords  == {"job_application", "interview", "offer", "contract", "training", "permit",
                 "departure", "arrival", "work_outcome"}
StudyRecords == {"shortlist", "test", "materials", "scholarship", "funding", "study_application",
                 "admission", "student_visa", "housing", "study_outcome", "work_handoff"}

\* What the action of a record knows, which does not ask for the path.
RecordTypes ==
    {"job_application", "interview", "offer", "contract", "training", "permit", "departure",
     "arrival", "work_outcome", "shortlist", "test", "materials", "scholarship", "funding",
     "study_application", "admission", "student_visa", "housing", "study_outcome", "work_handoff"}
RecordStatuses ==
    {"planned", "preparing", "submitted", "in_review", "verified", "completed", "blocked",
     "rejected", "withdrawn"}
JourneyStages   == {"exploring", "preparing", "applying", "progressing"}
PortalTypes     == {"employer", "recruiter", "institution", "provider"}
SubmissionTypes == {"job_order", "licence", "programme", "service", "source_update"}
Outcomes        == {"positive", "mixed", "negative", "ongoing"}
Matched         == {"yes", "no", "unknown"}

-------------------------------------------------------------------------------
(* A field for an amount: nothing, something that is no number, or a       *)
(* number, in thousandths of the currency.                                 *)

Blank    == [is |-> "blank"]
Words    == [is |-> "words"]
Typed(n) == [is |-> "number", mills |-> n]

MaxSafe  == 2 * Half - 1 \* Number.MAX_SAFE_INTEGER
NoAmount == -1           \* NULL

\* The double nearest to n / q smallest steps, the even one of two: a multiple of the
\* distance of the neighbours there.
IsUlp(u, n, q) == Half * u * q <= n /\ n < 2 * Half * u * q
ToEven(n, unit) ==
    LET low == n \div unit
    IN  IF 2 * (n % unit) < unit \/ (2 * (n % unit) = unit /\ low % 2 = 0) THEN low ELSE low + 1
Nearest(n, q) ==
    IF n = 0 THEN 0
    ELSE LET u == CHOOSE u \in Ulps : IsUlp(u, n, q) IN u * ToEven(n, u * q)

\* amount * 100 of the amount that Number() makes of the text, which need not be the
\* number that was typed, nor its product the product.
Magnitude(mills)   == IF mills < 0 THEN -mills ELSE mills
NumberOf(mills)    == Nearest(Magnitude(mills) * Scale, 1000)
Hundredfold(mills) == LET m == Nearest(100 * NumberOf(mills), 1) IN IF mills < 0 THEN -m ELSE m

\* Mutant of Rounded: the fraction is cut off.
RoundedDown(typed) == Hundredfold(typed.mills) \div Scale

\* Math.round(amount * 100), which takes a half up.
Rounded(typed) == (2 * Hundredfold(typed.mills) + Scale) \div (2 * Scale)

\* The number and its product are neither too small nor too large for a double.
InRange(typed) ==
    LET Holds(n, q) == n = 0 \/ \E u \in Ulps : IsUlp(u, n, q)
    IN  Holds(Magnitude(typed.mills) * Scale, 1000) /\ Holds(100 * NumberOf(typed.mills), 1)

OptionalMinor(typed) ==
    IF typed.is = "number" THEN (IF typed.mills >= 0 THEN Rounded(typed) ELSE NoAmount)
    ELSE NoAmount

-------------------------------------------------------------------------------
(* What each form can send, given what is typed into a field for an        *)
(* amount: the options of its lists, and no required field left empty.     *)

Currencies == {"BDT", "JPY"} \* of the thirteen of the lists

Optional(typed) == {Blank} \cup typed
RecordForms(typed) ==
    UNION {[type : IF path = "work" THEN WorkRecords ELSE StudyRecords, status : RecordStatuses,
            due : {"blank", "day"}, amount : Optional(typed), currency : Currencies, journey : {"own"}] :
               path \in {"work", "study"}}
CostForms(typed)   == [amount : typed, currency : Currencies, journey : {"own", "none"}]
DelegationForms    == [permissions : SUBSET {"view_progress", "view_cost", "receive_alerts", "upload_documents"},
                       journey : {"own", "none"}]
VerificationForms  == [kind : {"job", "employer", "recruiter", "contract", "visa", "payment", "institution",
                               "programme", "admission", "scholarship", "agent"}]
TicketForms        == [priority : {"normal", "urgent", "critical"}, journey : {"own", "none"}]
EvidenceForms      == [portal : PortalTypes, submission : SubmissionTypes]
OutcomeForms(typed) ==
    [journey : {"own"}, reached : BOOLEAN, outcome : {"ongoing", "positive", "mixed", "negative"},
     promise : {"yes", "no", "unknown"}, cost : {"yes", "no", "unknown"},
     amount : Optional(typed), currency : Currencies, consent : {TRUE}]
DirectionChoices(active) ==
    [path : {"work", "study", "both"}, active : active,
     stage : {"exploring", "preparing", "applying", "progressing"}]
DirectionForms     == DirectionChoices({"work", "study"})
OnboardingForms    == {d @@ [consent |-> TRUE] : d \in DirectionChoices({"none"})}
JourneyForms       == [path : {"study"}, target : {"programme", "scholarship"}]
StartForms         == [path : {"work", "study"}, job : BOOLEAN]

Offered(typed) ==
    [record |-> RecordForms(typed), cost |-> CostForms(typed), delegation |-> DelegationForms,
     verification |-> VerificationForms, ticket |-> TicketForms, evidence |-> EvidenceForms,
     outcome |-> OutcomeForms(typed), direction |-> DirectionForms, onboarding |-> OnboardingForms,
     journey |-> JourneyForms, blank_journey |-> [path : {"work", "study"}], start |-> StartForms,
     workspace |-> [path : {"work", "study"}]]

-------------------------------------------------------------------------------
(* What each action stores.                                                *)

NotStored == [table |-> "none"]

JourneyRecord(f) ==
    LET minor == OptionalMinor(f.amount)
    IN  IF f.type \notin RecordTypes \/ f.status \notin RecordStatuses \/ f.journey \notin {"own", "own_other"}
        THEN NotStored
        ELSE [table |-> "journey_records", type |-> f.type, status |-> f.status, minor |-> minor,
              currency |-> IF minor = NoAmount THEN "none" ELSE f.currency, due |-> f.due = "day"]

LedgerEntry(f) ==
    LET minor == IF f.amount = Blank THEN 0 ELSE Rounded(f.amount)
    IN  IF f.amount = Words \/ minor \notin 0..MaxSafe THEN NotStored
        ELSE [table |-> "ledger_entries", status |-> "unverified", minor |-> minor,
              currency |-> IF f.currency = "none" THEN "BDT" ELSE f.currency]

Delegation(f) == [table |-> "delegations", status |-> "active", permissions |-> f.permissions]
VerificationRequest(f) == [table |-> "verification_requests", status |-> "submitted", kind |-> f.kind]
SupportTicket(f) == [table |-> "support_tickets", status |-> "open", priority |-> f.priority]

PartnerSubmission(f) ==
    IF f.portal \notin PortalTypes \/ f.submission \notin SubmissionTypes THEN NotStored
    ELSE [table |-> "partner_submissions", status |-> "evidence_submitted"]

\* The journey is looked for among those of the path.
OutcomeReport(f) ==
    IF ~f.consent \/ f.outcome \notin Outcomes \/ f.promise \notin Matched \/ f.cost \notin Matched
       \/ f.journey # "own"
    THEN NotStored
    ELSE [table |-> "outcome_reports", status |-> "pending_human_review",
          minor |-> OptionalMinor(f.amount),
          currency |-> IF f.amount = Blank THEN "none" ELSE f.currency]

Direction(f) ==
    LET enabled == IF f.path = "both" THEN {"work", "study"} ELSE {f.path}
    IN  IF f.path \notin {"work", "study", "both"} \/ f.stage \notin JourneyStages THEN NotStored
        ELSE [table |-> "user_profiles", enabled |-> enabled, stage |-> f.stage,
              active |-> IF f.active \in enabled THEN f.active
                         ELSE IF f.path = "study" THEN "study" ELSE "work"]

Onboarding(f) == IF f.consent THEN Direction(f) ELSE NotStored

PathOf(f) == IF f.path = "study" THEN "study" ELSE "work"
Journey(f) ==
    [table |-> "journeys", path |-> PathOf(f),
     target |-> IF f.target # "none"        THEN f.target
                ELSE IF PathOf(f) = "study" THEN "programme"
                ELSE "route"]
BlankJourney(f) == [table |-> "journeys", path |-> PathOf(f), target |-> "exploration"]

\* startCaseAction without an API; with one, it starts a case for work.
StartCase(f) == [table |-> "journeys", path |-> PathOf(f), target |-> IF f.job THEN "job" ELSE "route"]

\* Whether the path is an enabled one is for setActiveWorkspace to say.
ActiveWorkspace(f) ==
    IF f.path \notin {"work", "study"} THEN NotStored ELSE [table |-> "user_profiles", active |-> f.path]

Submit(kind, f) ==
    CASE kind = "record"        -> JourneyRecord(f)
      [] kind = "cost"          -> LedgerEntry(f)
      [] kind = "delegation"    -> Delegation(f)
      [] kind = "verification"  -> VerificationRequest(f)
      [] kind = "ticket"        -> SupportTicket(f)
      [] kind = "evidence"      -> PartnerSubmission(f)
      [] kind = "outcome"       -> OutcomeReport(f)
      [] kind = "direction"     -> Direction(f)
      [] kind = "onboarding"    -> Onboarding(f)
      [] kind = "journey"       -> Journey(f)
      [] kind = "blank_journey" -> BlankJourney(f)
      [] kind = "start"         -> StartCase(f)
      [] kind = "workspace"     -> ActiveWorkspace(f)
===============================================================================

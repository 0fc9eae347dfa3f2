-------------------------------- MODULE Scanner --------------------------------
(***************************************************************************)
(* The offer scanner: ScannerService.scan and deriveVerdict.  An offer is  *)
(* what the user states of it, reduced to how each statement compares with *)
(* the records, and what the extraction finds in the pasted message.       *)
(***************************************************************************)
EXTENDS Integers, Sequences, FiniteSets

Statement == {"unsaid", "same", "other"}

\* The statements compared with the record of the job, and those about the rest.
JobClaims ==
    [job : {"unsaid", "unlisted", "listed", "suspended"},
     employer : Statement, salary : Statement, role : Statement,
     cost : {"unsaid", "within", "above", "other_currency"},
     licence : {"no_agency", "no_licence", "active", "expired", "revoked"}]
OtherClaims ==
    [message : {"none", "plain", "wallet", "guarantee", "cash"},
     destination : {"unsaid", "business", "personal"},
     visa : {"unsaid", "work", "visit"}, institution : Statement, document : {"none", "attached"}]

Found(o) == o.job \in {"listed", "suspended"}

\* A check that was performed, with its outcome, or that could not be.
Performed(key, passed)    == [key |-> key, performed |-> TRUE, passed |-> IF passed THEN "yes" ELSE "no"]
Undecided(key, performed) == [key |-> key, performed |-> performed, passed |-> "open"]
When(condition, check) == IF condition THEN {check} ELSE {}

PersonalDestination(o) == o.message = "wallet" \/ o.destination = "personal"

\* Checks against the record of the job, of which only what was stated is compared.
JobChecks(o) ==
    IF ~Found(o) THEN {}
    ELSE When(o.employer # "unsaid", Performed("employer_match", o.employer = "same"))
    \cup When(o.salary # "unsaid", Performed("salary_match", o.salary = "same"))
    \cup When(o.role # "unsaid", Performed("role_match", o.role = "same"))
    \cup When(o.cost \in {"within", "above"}, Performed("cost_within_allowed", o.cost = "within"))
    \cup When(o.cost = "other_currency", Undecided("cost_within_allowed", FALSE))
    \cup When(o.licence = "no_licence", Undecided("agency_licence_active", FALSE))
    \cup When(o.licence \notin {"no_agency", "no_licence"},
              Performed("agency_licence_active", o.licence = "active"))

\* A destination that is not personal is looked at, with an open outcome.
OtherChecks(o) ==
         {IF o.job = "unsaid" THEN Undecided("job_id_exists", FALSE) ELSE Performed("job_id_exists", Found(o))}
    \cup {IF PersonalDestination(o) THEN Performed("payment_destination_authorized", FALSE)
          ELSE Undecided("payment_destination_authorized", o.destination # "unsaid")}
    \cup {IF o.message = "none" THEN Undecided("guarantee_language", FALSE)
          ELSE Performed("guarantee_language", o.message # "guarantee")}
    \cup When(o.visa # "unsaid", Performed("visa_class_consistent", o.visa # "visit"))
    \cup When(o.institution # "unsaid", Performed("institution_domain_match", o.institution = "same"))
    \cup When(o.document = "attached", Undecided("document_authenticity", FALSE))

ChecksOf(o) == JobChecks(o) \cup OtherChecks(o)

Signal(kind, level) == [kind |-> kind, level |-> level]

\* The signal of each check that fails, and those that no check stands for.
SignalOf(key) ==
    CASE key = "job_id_exists"                  -> Signal("job_id_not_found", "critical")
      [] key = "employer_match"                 -> Signal("employer_mismatch", "high")
      [] key = "salary_match"                   -> Signal("salary_mismatch", "high")
      [] key = "role_match"                     -> Signal("role_mismatch", "high")
      [] key = "cost_within_allowed"            -> Signal("cost_above_declared", "critical")
      [] key = "agency_licence_active"          -> Signal("agency_not_licensed", "critical")
      [] key = "payment_destination_authorized" -> Signal("payment_to_personal_account", "critical")
      [] key = "guarantee_language"             -> Signal("guarantee_language", "high")
      [] key = "visa_class_consistent"          -> Signal("visa_class_inconsistent", "critical")
      [] key = "institution_domain_match"       -> Signal("institution_domain_mismatch", "high")
Signals(o) ==
         {SignalOf(c.key) : c \in {d \in ChecksOf(o) : d.passed = "no"}}
    \cup When(o.job = "suspended", Signal("job_id_not_found", "critical"))
    \cup When(o.message = "cash", Signal("cash_payment_requested", "high"))
    \cup When(o.document = "attached", Signal("offer_document_unverifiable", "medium"))

CheckedEverythingRequired(o) ==
    /\ Found(o)
    /\ \A c \in ChecksOf(o) :
           /\ c.key \in {"job_id_exists", "payment_destination_authorized"} => c.performed
           /\ c.performed => c.passed # "open"

Mismatch == {"salary_mismatch", "role_mismatch", "employer_mismatch", "contract_differs_from_offer"}

\* Mutant of DeriveVerdict: a mismatch is looked for before a critical signal.
DeriveVerdictMismatchFirst(signals, checked) ==
    IF \E s \in signals : s.kind \in Mismatch                   THEN "MISMATCH"
    ELSE IF \E s \in signals : s.level \in {"critical", "high"} THEN "HIGH_RISK"
    ELSE IF ~checked                                            THEN "UNKNOWN_HUMAN_CHECK_REQUIRED"
    ELSE IF signals # {}                                        THEN "PARTIALLY_VERIFIED"
    ELSE "VERIFIED"

DeriveVerdict(signals, checked) ==
    IF \E s \in signals : s.level = "critical"     THEN "HIGH_RISK"
    ELSE IF \E s \in signals : s.kind \in Mismatch THEN "MISMATCH"
    ELSE IF \E s \in signals : s.level = "high"    THEN "HIGH_RISK"
    ELSE IF ~checked                               THEN "UNKNOWN_HUMAN_CHECK_REQUIRED"
    ELSE IF signals # {}                           THEN "PARTIALLY_VERIFIED"
    ELSE "VERIFIED"

Scan(o) ==
    LET verdict == DeriveVerdict(Signals(o), CheckedEverythingRequired(o))
    IN  [verdict |-> verdict,
         review  |-> verdict \in {"UNKNOWN_HUMAN_CHECK_REQUIRED", "HIGH_RISK"}]
===============================================================================

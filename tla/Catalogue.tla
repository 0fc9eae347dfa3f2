-------------------------------- MODULE Catalogue --------------------------------
(***************************************************************************)
(* What the platform shows of its reference data: the seed's own check,    *)
(* routes and countries, jobs and their public verification by number and  *)
(* by QR code, the discovery of work and of study, the service directory,  *)
(* and the demo API the website falls back on.                             *)
(*                                                                         *)
(* A world is the seed's tables (sets of rows), the complaints on record,  *)
(* the environment, the signing key and the clock in days.  The pages that *)
(* show these rows to a person are left out, as are names and wording.     *)
(***************************************************************************)
EXTENDS Integers, Sequences, FiniteSetsExt, TLC

Never == -1  \* of a source or a route that was not reviewed
None  == "none"

Ids(rows)     == {r.id : r \in rows}
Row(rows, id) == CHOOSE r \in rows : r.id = id

-------------------------------------------------------------------------------
(* The seed (loadSeed): the references it follows before it is served.     *)

\* Sources that a country profile cites.
CitedByProfile(p) == p.sources \cup p.visas \cup {f.source : f \in p.facts}

\* The rows for which loadSeed reports a problem; a fact is one that states a value.
\* It follows neither the sources of
\* requirements, risks and obligations nor those of institutions, courses and licences.
Problems(w) ==
    LET cites(r) == r.sources \subseteq Ids(w.sources)
    IN  {r.id : r \in {r \in w.routes : \/ r.rule \notin Ids(w.rules) \/ ~cites(r)
                                        \/ ~(r.fees \subseteq Ids(w.fees)) \/ r.country \notin w.countries}}
        \cup {r.id : r \in {r \in w.rules : ~cites(r)}}
        \cup {j.id : j \in {j \in w.jobs : \/ j.route \notin Ids(w.routes)
                                           \/ ~({j.employer, j.agency} \ {None} \subseteq Ids(w.organizations))
                                           \/ j.occupation \notin w.occupations}}
        \cup {f.id : f \in {f \in w.fees : \/ f.route \notin {"*"} \cup {r.of : r \in w.routes} \/ ~cites(f)
                                           \/ f.payee \notin {None} \cup Ids(w.organizations)}}
        \cup {c.id : c \in {c \in w.courses : c.institution \notin Ids(w.institutions)}}
        \cup {p.id : p \in {p \in w.profiles : \/ p.country \notin w.countries
                                               \/ ~(CitedByProfile(p) \subseteq Ids(w.sources))
                                               \/ \E f \in p.facts : f.researched /\ ~f.dated}}

-------------------------------------------------------------------------------
(* Routes, countries and sources (CatalogueService).                       *)

\* isSyntheticVisible and filterSynthetic.
SyntheticVisible(w)      == w.env \in {"development", "test"}
FilterSynthetic(rows, w) == {r \in rows : SyntheticVisible(w) \/ ~r.synthetic}

\* freshnessOf.
FreshnessOf(reviewed, cadence, now) ==
    IF reviewed = Never THEN "unknown"
    ELSE IF now - reviewed <= cadence THEN "fresh"
    ELSE IF now - reviewed <= cadence * 2 THEN "ageing" ELSE "stale"

PublishedRoutes(w) == FilterSynthetic({r \in w.routes : r.published}, w)

\* listCountries: a route that is not for study counts as work.
RouteCount(w, country, purpose) ==
    Cardinality({r \in PublishedRoutes(w) :
                    /\ r.country = country
                    /\ CASE purpose = "any" -> TRUE
                         [] purpose = "study" -> r.purpose = "study"
                         [] OTHER -> r.purpose # "study"})

\* listRoutes: the purpose is compared as it is.
ListRoutes(w, country, purpose) ==
    {r.id : r \in {r \in PublishedRoutes(w) : country \in {"any", r.country} /\ purpose \in {"any", r.purpose}}}

\* sourceSummaries: an id of no source is skipped.
SourceSummaries(w, ids) ==
    {[id |-> s.id, freshness |-> FreshnessOf(s.reviewed, s.cadence, w.now)] :
        s \in {s \in w.sources : s.id \in ids}}

\* The sources that getRoute names with a route, and those getCountryProfile names.
RouteSources(w, r)   == SourceSummaries(w, r.sources \cup r.requirements \cup r.risks)
ProfileSources(w, p) == SourceSummaries(w, CitedByProfile(p))

-------------------------------------------------------------------------------
(* Jobs (JobsService) and their QR codes (QrService).                      *)

\* organizationCanTransact; any licence counts that is active.
CanTransact(o) == ~o.suspended /\ (o.type = "recruiting_agency" => "active" \in o.licences)

\* list.
ListJobs(w, filter) ==
    {j.id : j \in {j \in FilterSynthetic({j \in w.jobs : j.status = "published"}, w) :
                       /\ j.validTo > w.now
                       /\ filter.country \in {"any", j.country}
                       /\ filter.occupation \in {"any", j.occupation}
                       /\ filter.employerPaysOnly => j.feeBy = "employer"}}

\* Mutant of PublicStatus: whoever recruits for the job is not looked at.
PublicStatusOfJob(w, j) ==
    IF j.status = "suspended" THEN "suspended" ELSE IF j.validTo <= w.now THEN "expired" ELSE "verified"

\* The status publicVerify gives a job; that it was published is not asked for.
PublicStatus(w, j) ==
    IF \/ j.status = "suspended"
       \/ \E o \in w.organizations : o.id = j.employer /\ o.suspended
       \/ \E o \in w.organizations : o.id = j.agency /\ ~CanTransact(o)
    THEN "suspended"
    ELSE IF j.validTo <= w.now THEN "expired" ELSE "verified"

\* publicVerify: of any number, whether there is such a job or not.
PublicVerify(w, number) ==
    LET known == FilterSynthetic({j \in w.jobs : j.number = number}, w)
    IN  IF known = {} THEN "not_found" ELSE PublicStatus(w, CHOOSE j \in known : TRUE)

QrMaxAge == 30

\* issue, with the job's number, when the status is verified; and verify.
IssueQr(w, number)  == [number |-> number, kid |-> w.key.id, signedBy |-> w.key.secret, at |-> w.now]
VerifyQr(w, token) ==
    IF token.kid # w.key.id THEN "unknown_key"
    ELSE IF token.signedBy # w.key.secret THEN "bad_signature"
    ELSE IF w.now - token.at > QrMaxAge THEN "expired" ELSE "valid"

\* verifyQrToken: what a code says is looked up again when it is scanned.
VerifyQrToken(w, token) ==
    IF VerifyQr(w, token) = "valid" THEN PublicVerify(w, token.number) ELSE "not_found"

-------------------------------------------------------------------------------
(* Discovery (WorkService.discover, StudyService.program and discover).    *)

\* salaryRange: of jobs in one currency only.
SalaryRange(jobs) ==
    IF Cardinality({j.currency : j \in jobs}) # 1 THEN {}
    ELSE {[from |-> Min({j.salary : j \in jobs}), to |-> Max({j.salary : j \in jobs}), of |-> Cardinality(jobs)]}

\* The open jobs of a route: in its country, and published for that version of it.
RouteJobs(w, r, occupation) ==
    LET listed == ListJobs(w, [country |-> r.country, occupation |-> occupation, employerPaysOnly |-> FALSE])
    IN  {j \in w.jobs : j.id \in listed /\ j.route = r.id}

\* The opportunities of discover; an open job stands for an employer's offer.
DiscoverWork(w, country, occupation) ==
    {[route |-> r.id, jobs |-> Ids(RouteJobs(w, r, occupation)),
      salaries |-> SalaryRange(RouteJobs(w, r, occupation)),
      hasEmployerOffer |-> RouteJobs(w, r, occupation) # {},
      reviewed |-> ~r.synthetic /\ r.humanVerified] :
        r \in {r \in w.routes : /\ r.id \in ListRoutes(w, "any", "work")
                                /\ country \in {"any", r.country}}}

\* levelMatches: what a target level and a degree as written have to do with each other.
LevelMatches(target, degree) ==
    CASE target = "phd"      -> degree \in {"phd", "doctorate"}
      [] target = "master"   -> degree \in {"master", "msc"}
      [] target = "bachelor" -> degree \in {"bachelor", "bsc"}
      [] OTHER               -> degree \in {"professional", "mba"}

ProgramWeights ==
    [degree_level |-> 20, previous_degree_rule |-> 25, subject_credit_prerequisites |-> 25,
     language_rule |-> 20, document_evidence |-> 10]

\* The factors of a programme; three are for the institution to confirm.
ProgramFactors(student, course) ==
    [degree_level |-> IF student.target \in {"undefined", "unsure"} THEN "unknown"
                      ELSE IF LevelMatches(student.target, course.degree) THEN "meets" ELSE "missing",
     previous_degree_rule |-> "unknown", subject_credit_prerequisites |-> "unknown",
     language_rule |-> "unknown",
     document_evidence |-> IF student.transcripts THEN "meets" ELSE "missing"]

\* program.
Program(w, student, course) ==
    LET factors     == ProgramFactors(student, course)
        weigh(S)    == MapThenSumSet(LAMBDA k : ProgramWeights[k], {k \in DOMAIN factors : factors[k] \in S})
        institution == Row(w.institutions, course.institution)
    IN  [id |-> course.id, fit |-> weigh({"meets"}), coverage |-> weigh({"meets", "missing"}),
         eligibility |-> IF student.transcripts THEN "unknown_institution_confirmation" ELSE "document_missing",
         trust |-> IF institution.synthetic THEN "synthetic_demo"
                   ELSE IF institution.verified THEN "verified" ELSE "review_required",
         sources |-> SourceSummaries(w, course.sources \cup institution.sources)]

ListInstitutions(w) == FilterSynthetic(w.institutions, w)
ListCourses(w)      == FilterSynthetic(w.courses, w)

\* discover of StudyService: nothing is verified of scholarships and of what follows.
DiscoverStudy(w, student, query) ==
    {Program(w, student, c) :
        c \in {c \in ListCourses(w) :
                  /\ query.mode \notin {"scholarship", "post_study"}
                  /\ query.country = "any" \/ \E i \in ListInstitutions(w) :
                                                  i.id = c.institution /\ i.country = query.country
                  /\ query.mode = "degree" /\ query.level # "any" =>
                         query.level # "unsure" /\ LevelMatches(query.level, c.degree)}}

-------------------------------------------------------------------------------
(* The service directory (OperationsService.serviceDirectory).             *)

OfficialStatus(o) ==
    IF o.suspended THEN "suspended"
    ELSE IF o.methods \cap {"authority_confirmation", "transaction_evidence"} # {} THEN "verified"
    ELSE IF o.methods # {} THEN "partially_verified" ELSE "unverified"

InstitutionStatus(i) == IF i.verified /\ i.sources # {} THEN "partially_verified" ELSE "unverified"

\* How many complaints name an organization, and how many of them are shown as incidents.
Complaints(w, id) == {c \in w.complaints : c.organization = id}
Incidents(w, id)  == {c \in Complaints(w, id) : c.safety \in {"corroborated", "verified", "resolved"}}

Directory(w) ==
    {[id |-> o.id, status |-> OfficialStatus(o), complaints |-> Cardinality(Complaints(w, o.id)),
      incidents |-> Cardinality(Incidents(w, o.id))] : o \in FilterSynthetic(w.organizations, w)}
    \cup {[id |-> i.id, status |-> InstitutionStatus(i), complaints |-> Cardinality(Complaints(w, i.id)),
           incidents |-> Cardinality(Incidents(w, i.id))] : i \in ListInstitutions(w)}

-------------------------------------------------------------------------------
(* The demo API of the website: the same seed, read without environment.   *)

DemoCount(w, country, purpose) ==
    Cardinality({r \in w.routes :
                    /\ r.published /\ r.country = country
                    /\ CASE purpose = "any" -> TRUE
                         [] purpose = "work" -> r.purpose # "study"
                         [] OTHER -> r.purpose = purpose})

DemoRoutes(w, country, purpose) ==
    {r.id : r \in {r \in w.routes : r.published /\ country \in {"any", r.country} /\ purpose \in {"any", r.purpose}}}

\* routeDetail adds what the obligations after arrival cite; a profile names only its own.
DemoRouteSources(w, r)   == SourceSummaries(w, r.sources \cup r.requirements \cup r.risks \cup r.obligations)
DemoProfileSources(w, p) == SourceSummaries(w, p.sources)

\* publishedJobs: one whose demand has ended is still there.
DemoJobs(w, filter) ==
    {j.id : j \in {j \in w.jobs : /\ j.status = "published"
                                  /\ filter.country \in {"any", j.country}
                                  /\ filter.occupation \in {"any", j.occupation}
                                  /\ filter.employerPaysOnly => j.feeBy = "employer"}}

\* publicVerification: the organizations are not looked at.
DemoVerify(w, number) ==
    LET known == {j \in w.jobs : j.number = number}
    IN  IF known = {} THEN "not_found"
        ELSE LET j == CHOOSE j \in known : TRUE
             IN  IF j.status = "suspended" THEN "suspended"
                 ELSE IF j.validTo <= w.now THEN "expired" ELSE "verified"

\* scan: a number of the list decides before the message does.
DemoScan(w, number, risky) ==
    LET matched == number \in {j.number : j \in w.jobs}
    IN  [verdict |-> IF matched THEN "PARTIALLY_VERIFIED" ELSE IF risky THEN "HIGH_RISK"
                     ELSE "UNKNOWN_HUMAN_CHECK_REQUIRED",
         humanReview |-> ~matched, signals |-> risky]

DemoDirectory(w) ==
    {[id |-> o.id, status |-> OfficialStatus(o)] : o \in w.organizations}
    \cup {[id |-> i.id, status |-> IF i.verified THEN "partially_verified" ELSE "unverified"] : i \in w.institutions}
===============================================================================

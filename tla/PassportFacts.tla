------------------------------ MODULE PassportFacts ------------------------------
(***************************************************************************)
(* What the records of a passport say to the engines (PassportService,     *)
(* WorkService.eligibilityProfile): the answers of the readiness engine,   *)
(* the facts of the published rules, and the factors of each match.        *)
(*                                                                         *)
(* A bundle has a shared, a work and a study part.  Jobs are the set of    *)
(* whether each is evidenced, documents the set of those on file, English  *)
(* the first entry about it, if any, and the budget is in thousands.       *)
(***************************************************************************)
EXTENDS Readiness

NoBudget == -1

\* What an empty list says once its part of the passport was ever saved.
Unsaid(part)                == IF part.version > 1 THEN "no" ELSE "undefined"
YesNo(b)                    == IF b THEN "yes" ELSE "no"
Said(present, part)         == IF present THEN "yes" ELSE Unsaid(part)
Some(rows, evidenced, part) == IF rows = {} THEN Unsaid(part) ELSE YesNo(evidenced)

HighestEducation(education) ==
    LET plain(level) == CASE level = "vocational" -> "diploma" [] level = "mphil" -> "master" [] OTHER -> level
    IN  IF education = {} THEN "undefined"
        ELSE Levels[Max({RankOf(plain(e.level)) : e \in education})]

ReadinessPassport(b) ==
    LET s == b.shared
        w == b.work
        a == b.study
    IN  [hasPassport        |-> CASE s.passport \in {"undefined", "unknown"} -> "undefined"
                                  [] OTHER -> YesNo(s.passport = "valid"),
         passportMonths     |-> s.passportMonths,
         level              |-> HighestEducation(a.education),
         certificates       |-> Some(a.education, \E e \in a.education : e.certificate, a),
         transcripts        |-> Some(a.education, \E e \in a.education : e.transcript, a),
         occupation         |-> Said(w.targets # <<>>, w),
         experienceMonths   |-> w.months,
         experienceEvidence |-> Some(w.jobs, TRUE \in w.jobs, w),
         skill              |-> Some(w.credentials, "skill_certificate" \in w.credentials, w),
         bmet               |-> w.bmet,
         police             |-> w.police,
         target             |-> IF a.target = "professional" THEN "unsure" ELSE a.target,
         cv                 |-> Said("cv" \in a.documents, a),
         statement          |-> Said("statement" \in a.documents, a),
         recommendations    |-> Said("recommendation" \in a.documents, a),
         proposal           |-> Said("proposal" \in a.documents, a),
         english            |-> IF a.english = {} THEN "undefined" ELSE (CHOOSE e \in a.english : TRUE).level,
         languageTest       |-> Some({e \in a.english : e.test}, \E e \in a.english : e.evidence, a),
         willingToLearn     |-> s.learn,
         budget             |-> IF s.budget = NoBudget THEN "undefined" ELSE "stated",
         funds              |-> s.funds,
         needsScholarship   |-> s.scholarship,
         fundingPlan        |-> s.plan,
         startMonths        |-> s.start]

\* eligibilityProfile and buildFactBag: what is stated in the passport comes before the
\* older profile; "undefined" is no fact.  Every passport status but valid is a no.
First(stated, older) == IF stated = "undefined" THEN older ELSE stated
ProfileFacts(b, older) ==
    [occupation    |-> IF b.work.targets # <<>> THEN b.work.targets[1] ELSE First(b.work.current, older.occupation),
     months        |-> IF b.work.months # NoMonths THEN b.work.months ELSE older.months,
     validPassport |-> IF b.shared.passport = "undefined" THEN older.validPassport ELSE YesNo(b.shared.passport = "valid"),
     bmet          |-> First(b.work.bmet, older.bmet),
     police        |-> First(b.work.police, older.police),
     skills        |-> IF b.work.credentials # {} THEN b.work.credentials ELSE older.skills]

\* What an update of the work part leaves in the older profile (updateWork).
SaveWork(b, older) ==
    [older EXCEPT !.occupation = IF b.work.targets # <<>> THEN b.work.targets[1] ELSE b.work.current,
                  !.months = b.work.months, !.bmet = b.work.bmet, !.police = b.work.police,
                  !.skills = b.work.credentials]

\* The factors that match gives each candidate.
PreferenceState(shared, country) ==
    IF country \in shared.excluded       THEN "gap"
    ELSE IF country \in shared.preferred THEN "fit"
    ELSE "unknown"
Affordable(shared, price) ==
    IF shared.budget = NoBudget \/ price = {}                          THEN "unknown"
    ELSE IF MapThenSumSet(LAMBDA p : p.amount, price) <= shared.budget THEN "fit"
    ELSE "gap"

\* A route with the occupations of its published jobs and its resolved fees.
WorkMatch(b, route) ==
    [eligibility |-> "unknown",
     factors |-> [occupation |-> IF b.work.targets = <<>> \/ route.occupations = {}                               THEN "unknown"
                                 ELSE IF \E i \in DOMAIN b.work.targets : b.work.targets[i] \in route.occupations THEN "fit"
                                 ELSE "gap",
                  readiness  |-> ReadinessFit(Assess(ReadinessPassport(b), "work")),
                  economics  |-> Affordable(b.shared, route.fees),
                  preference |-> PreferenceState(b.shared, route.country)]]

\* targetMatchesDegree: every other target is taken for a professional one.
DegreeFor(target) == IF target \in {"phd", "master", "bachelor"} THEN target ELSE "professional"
StudyMatch(b, course) ==
    [eligibility |-> "unknown",
     factors |-> [academic   |-> IF b.study.target \in {"undefined", "unsure"}     THEN "unknown"
                                 ELSE IF course.degree = DegreeFor(b.study.target) THEN "fit"
                                 ELSE "gap",
                  readiness  |-> ReadinessFit(Assess(ReadinessPassport(b), "study")),
                  funding    |-> Affordable(b.shared, course.tuition),
                  preference |-> PreferenceState(b.shared, course.country),
                  prerequisites |-> "unknown"]]
===============================================================================

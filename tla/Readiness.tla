------------------------------- MODULE Readiness -------------------------------
(***************************************************************************)
(* The readiness engine of the passport (packages/domain passport.ts), its *)
(* preparation plan, and the ranking of matches (matching.ts with the      *)
(* factors of PassportService.match).                                      *)
(*                                                                         *)
(* A passport is a record of answers: "undefined", "yes" or "no", a level, *)
(* or a number of months with NoMonths for an answer that was not given.   *)
(***************************************************************************)
EXTENDS Integers, Sequences, FiniteSetsExt, TLC

NoMonths == -1

Factor(id, weight, state) == [id |-> id, weight |-> weight, state |-> state]

BooleanState(v) == CASE v = "undefined" -> "unknown" [] v = "yes" -> "ready" [] OTHER -> "missing"

AtLeast(months, needed) ==
    IF months = NoMonths     THEN "unknown"
    ELSE IF months >= needed THEN "ready"
    ELSE "missing"

PassportState(p) == IF p.hasPassport = "yes" THEN AtLeast(p.passportMonths, 12)
                                             ELSE BooleanState(p.hasPassport)

Levels == <<"secondary", "higher_secondary", "diploma", "bachelor", "master", "doctorate">>
RankOf(level) == CHOOSE i \in 1..Len(Levels) : Levels[i] = level

AcademicLevelState(p) ==
    LET required == CASE p.target = "bachelor" -> 2 [] p.target = "master" -> 4 [] OTHER -> 5
    IN  IF p.target \in {"undefined", "unsure"} \/ p.level = "undefined" THEN "unknown"
        ELSE IF RankOf(p.level) >= required THEN "ready" ELSE "missing"

ExperienceState(p) ==
    CASE p.experienceMonths = NoMonths -> "unknown"
      [] p.experienceMonths > 0        -> BooleanState(p.experienceEvidence)
      [] OTHER                         -> "missing"

LanguageState(p) ==
    CASE p.english = "undefined"                           -> "unknown"
      [] p.english = "none" /\ p.willingToLearn # "yes"    -> "missing"
      [] OTHER                                             -> "ready"

BudgetState(p) == IF p.budget = "undefined" THEN "unknown" ELSE "ready"

ProposalState(p) ==
    CASE p.target = "phd"       -> BooleanState(p.proposal)
      [] p.target = "undefined" -> "unknown"
      [] OTHER                  -> "ready"

FundingState(p) ==
    CASE p.needsScholarship = "yes" -> BooleanState(p.fundingPlan)
      [] p.needsScholarship = "no"  -> BudgetState(p)
      [] OTHER                      -> "unknown"

\* The last factor of each path is for a route or a programme to decide.
WorkFactors(p) ==
    <<Factor("valid_passport", 12, PassportState(p)),
      Factor("education_evidence", 7, BooleanState(p.certificates)),
      Factor("occupation_selected", 12, BooleanState(p.occupation)),
      Factor("experience_evidence", 11, ExperienceState(p)),
      Factor("skill_certificate", 8, BooleanState(p.skill)),
      Factor("language_profile", 10, LanguageState(p)),
      Factor("migration_budget", 8, BudgetState(p)),
      Factor("bmet_registration", 10, BooleanState(p.bmet)),
      Factor("police_clearance", 7, BooleanState(p.police)),
      Factor("start_timeline", 7, AtLeast(p.startMonths, 6)),
      Factor("route_specific_work_rules", 8, "unknown")>>

StudyFactors(p) ==
    <<Factor("valid_passport", 10, PassportState(p)),
      Factor("academic_level", 13, AcademicLevelState(p)),
      Factor("academic_certificates", 7, BooleanState(p.certificates)),
      Factor("academic_transcripts", 10, BooleanState(p.transcripts)),
      Factor("verified_language_test", 11, BooleanState(p.languageTest)),
      Factor("academic_cv", 7, BooleanState(p.cv)),
      Factor("statement", 7, BooleanState(p.statement)),
      Factor("recommendations", 6, BooleanState(p.recommendations)),
      Factor("research_proposal", 6, ProposalState(p)),
      Factor("funding_plan", 10, FundingState(p)),
      Factor("proof_of_funds", 8, BooleanState(p.funds)),
      Factor("start_timeline", 6, AtLeast(p.startMonths, 6)),
      Factor("program_prerequisites", 9, "unknown")>>

\* Math.round of a percentage.
Percent(part, whole) == IF whole = 0 THEN 0 ELSE (200 * part + whole) \div (2 * whole)

Weight(factors, states) ==
    MapThenSumSet(LAMBDA i : factors[i].weight,
                  {i \in DOMAIN factors : factors[i].state \in states})

\* Mutant of Preparedness: out of the factors that are known.
PreparednessKnown(factors) ==
    Percent(Weight(factors, {"ready"}), Weight(factors, {"ready", "missing"}))

\* The weight that is ready, out of all: what is unknown counts as not ready.
Preparedness(factors) ==
    Percent(Weight(factors, {"ready"}), Weight(factors, {"ready", "missing", "unknown"}))

\* assessMigrationPassport.
Assess(p, path) ==
    LET factors == IF path = "work" THEN WorkFactors(p) ELSE StudyFactors(p)
        percent == Preparedness(factors)
    IN  [factors  |-> factors,
         percent  |-> percent,
         coverage |-> Percent(Weight(factors, {"ready", "missing"}),
                            Weight(factors, {"ready", "missing", "unknown"})),
         outcome  |-> IF Weight(factors, {"missing", "unknown"}) = 0 THEN "ready"
                      ELSE IF Weight(factors, {"missing"}) = 0       THEN "needs_review"
                      ELSE IF percent >= 58                          THEN "near_ready"
                      ELSE "needs_preparation"]

\* buildPreparationPlan: what is missing by weight, then what is unknown by weight.
PreparationPlan(assessment) ==
    LET factors == assessment.factors
        open    == SelectSeq([i \in 1..Len(factors) |-> i],
                             LAMBDA i : factors[i].state \in {"missing", "unknown"})
        Before(i, j) ==
            IF factors[i].state # factors[j].state THEN factors[i].state = "missing"
            ELSE IF factors[i].weight # factors[j].weight THEN factors[i].weight > factors[j].weight
            ELSE i < j
        sorted == SortSeq(open, Before)
    IN  [k \in 1..Len(sorted) |->
            LET f == factors[sorted[k]]
            IN  [id |-> f.id, state |-> f.state, weight |-> f.weight,
                 priority |-> IF f.state = "unknown"           THEN "confirm"
                              ELSE IF k <= 3 \/ f.weight >= 10 THEN "now"
                              ELSE "next"]]

\* compareJourneyReadiness.
MorePrepared(work, study) ==
    LET difference == work.percent - study.percent
    IN  IF work.coverage < 35 /\ study.coverage < 35 THEN "insufficient_data"
        ELSE IF difference \in -7..7                 THEN "balanced"
        ELSE IF difference > 0                       THEN "work"
        ELSE "study"

-------------------------------------------------------------------------------
(* Matching: a candidate is an eligibility with a state for each factor.   *)

Weights ==
    [work  |-> [occupation |-> 25, readiness |-> 30, economics |-> 25, preference |-> 20],
     study |-> [academic |-> 30, readiness |-> 25, funding |-> 25, preference |-> 10,
                prerequisites |-> 10]]
MatchStates  == {"fit", "gap", "unknown"}

\* readinessState: the factor that an assessment gives every candidate.
ReadinessFit(assessment) ==
    IF assessment.coverage < 35      THEN "unknown"
    ELSE IF assessment.percent >= 65 THEN "fit"
    ELSE "gap"

EligibilityOrder == [eligible |-> 0, conditional |-> 1, unknown |-> 2, ineligible |-> 3]

Score(candidate, weights, states) ==
    LET Of(S) == MapThenSumSet(LAMBDA k : weights[k], {k \in DOMAIN weights : candidate.factors[k] \in S})
    IN  Percent(Of(states), Of(MatchStates))

\* rankCandidates: the ids of the candidates in the order shown.
RankCandidates(candidates, weights) ==
    LET rank(i)     == EligibilityOrder[candidates[i].eligibility]
        score(i)    == Score(candidates[i], weights, {"fit"})
        coverage(i) == Score(candidates[i], weights, {"fit", "gap"})
        Before(i, j) ==
            IF rank(i) # rank(j) THEN rank(i) < rank(j)
            ELSE IF score(i) # score(j) THEN score(i) > score(j)
            ELSE IF coverage(i) # coverage(j) THEN coverage(i) > coverage(j)
            ELSE i < j
    IN  SortSeq([i \in 1..Len(candidates) |-> i], Before)
===============================================================================

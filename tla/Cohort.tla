--------------------------------- MODULE Cohort ---------------------------------
(***************************************************************************)
(* Outcomes that people report and what is shown of them: the comparison   *)
(* with what was promised, to the person; and of reviewed ones aggregates  *)
(* and the trust and analytics of an organization (OutcomesService,        *)
(* SupplyService.analytics).  Outcomes are a sequence of records: of a     *)
(* person, with a cost where one is known, and with an answer to each      *)
(* question or "unknown".                                                  *)
(***************************************************************************)
EXTENDS Integers, Sequences, FiniteSetsExt, TLC

MinimumCohort == 5  \* MINIMUM_AGGREGATE_COHORT

\* The outcomes with a verified review that a query selects.
Selected(outcomes, query) ==
    SelectSeq(outcomes, LAMBDA o :
        /\ o.verified
        /\ query.country \in {"any", o.country}
        /\ query.currency \in {"any", o.currency})

\* The currency asked for, or the only one of the cohort.
CurrencyOf(cohort, query) ==
    LET known == {cohort[i].currency : i \in DOMAIN cohort} \ {"none"}
    IN  IF query.currency # "any"      THEN query.currency
        ELSE IF Cardinality(known) = 1 THEN CHOOSE c \in known : TRUE
        ELSE "none"

Median(values) ==
    LET sorted == SortSeq(values, <)
        middle == Len(sorted) \div 2
    IN  IF Len(sorted) % 2 = 1 THEN sorted[middle + 1]
        ELSE (sorted[middle] + sorted[middle + 1]) \div 2

People(part) == {part[i].person : i \in DOMAIN part}

\* Median, minimum and maximum of the costs in the currency of the cohort.
CostMetric(cohort, query) ==
    LET currency == CurrencyOf(cohort, query)
        priced   == SelectSeq(cohort, LAMBDA o : currency # "none" /\ o.currency = currency)
        costs    == [i \in 1..Len(priced) |-> priced[i].cost]
    IN  [people |-> People(priced),
         value  |-> IF costs = <<>> THEN <<>>
                    ELSE <<Median(costs), Min({costs[i] : i \in DOMAIN costs}),
                           Max({costs[i] : i \in DOMAIN costs})>>]

\* The share of a yes, in tenths of a percent by Math.round, of those with an answer.
ShareMetric(cohort, asked) ==
    LET known == SelectSeq(cohort, LAMBDA o : o[asked] # "unknown")
        yes   == SelectSeq(known, LAMBDA o : o[asked] = "yes")
    IN  [people |-> People(known),
         value  |-> IF known = <<>> THEN <<>>
                    ELSE <<(2000 * Len(yes) + Len(known)) \div (2 * Len(known))>>]

\* The metrics shown: none below the minimum cohort, and none without a value.
Aggregate(outcomes, query) ==
    LET cohort == Selected(outcomes, query)
    IN  IF Len(cohort) < MinimumCohort THEN {}
        ELSE {m \in {CostMetric(cohort, query), ShareMetric(cohort, "promised"),
                     ShareMetric(cohort, "positive")} : m.value # <<>>}

-------------------------------------------------------------------------------
(* Reports: what a person answers, each "yes", "no" or "unknown", tuition  *)
(* being whether what was paid is what the programme names.                *)

Truths == {"yes", "no", "unknown"}
WorkReports  == [path : {"work"}, salary : Truths, employer : Truths, arrived : Truths]
StudyReports == [path : {"study"}, tuition : Truths, enrolled : Truths, graduated : Truths]
Both(a, b)   == IF a /\ b THEN "yes" ELSE "no"

\* resolveWorkOutcome, resolveStudyOutcome.
PromisedMatched(o) ==
    IF o.path = "work" /\ o.salary = "unknown" /\ o.employer = "unknown" THEN "unknown"
    ELSE IF o.path = "work"                                              THEN Both(o.salary = "yes", o.employer # "no")
    ELSE IF o.tuition = "unknown"                                        THEN o.enrolled
    ELSE Both(o.enrolled = "yes", o.tuition = "yes")
PositiveOutcome(o) ==
    IF o.path = "study"           THEN (IF o.enrolled = "unknown" THEN o.graduated ELSE o.enrolled)
    ELSE IF o.arrived = "unknown" THEN "unknown"
    ELSE Both(o.arrived = "yes", o.employer # "no")

\* comparisons: what the person sees next to the promise.
ComparisonState(v) == CASE v = "yes" -> "matched" [] v = "no" -> "different" [] OTHER -> "unknown"
Compared(o) ==
    IF o.path = "work" THEN [salary |-> ComparisonState(o.salary), employer |-> ComparisonState(o.employer)]
    ELSE [tuition |-> ComparisonState(o.tuition), enrolment |-> ComparisonState(o.enrolled)]

\* The reviewed reports about one organization, each of another person.
Resolved(reports) ==
    [i \in DOMAIN reports |->
        [verified |-> TRUE, country |-> "any", currency |-> "none", cost |-> 0, person |-> i,
         promised |-> PromisedMatched(reports[i]), positive |-> PositiveOutcome(reports[i])]]

\* followUps: the checkpoints of a case or application by the days since it began, by
\* the last day that anything was reported of; one report may settle both.
FollowUps(observed, now) ==
    [due \in {90, 180} |->
        IF observed # {} /\ Max(observed) >= due - 7 THEN "recorded"
        ELSE IF due <= now                           THEN "due"
        ELSE "upcoming"]

\* trustEdge: a share of 50.0 percent weighs nothing, one of 100.0 percent 500.
TrustEdge(signal, weight, evidence) ==
    [signal |-> signal, weight |-> weight, evidence |-> evidence, public |-> evidence >= MinimumCohort]

\* institutionalAnalytics, with the complaints that were upheld.
Institutional(reports, complaints, suspended) ==
    LET size     == Len(reports)
        share(k) == IF size < MinimumCohort THEN <<>> ELSE ShareMetric(Resolved(reports), k).value
        edge(signal, k) == {TrustEdge(signal, v - 500, size) : v \in {share(k)[i] : i \in DOMAIN share(k)}}
    IN  [edges    |-> edge("terms_matched", "promised") \cup edge("positive_outcome", "positive")
                      \cup {TrustEdge("upheld_complaint", -500, n) : n \in {complaints} \ 0..(MinimumCohort - 1)},
         eligible |-> share("promised") # <<>>,
         signal   |-> IF suspended \/ complaints > 0 THEN <<0>> ELSE share("promised")]

\* analytics of the partner, who sees the share of all that were reviewed.
Kept(o) == IF o.path = "work" THEN o.salary = "yes" /\ o.employer # "no" ELSE o.enrolled = "yes"
PartnerAnalytics(reports) ==
    LET size == Len(reports)
        kept == Len(SelectSeq(reports, Kept))
    IN  [size  |-> size,
         share |-> IF size < MinimumCohort THEN <<>> ELSE <<(2000 * kept + size) \div (2 * size)>>]
===============================================================================

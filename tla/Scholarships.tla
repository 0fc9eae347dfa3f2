------------------------------ MODULE Scholarships ------------------------------
(***************************************************************************)
(* How a passport fits a scholarship (apps/web lib/scholarships.ts), with  *)
(* the answers of a passport as in Readiness.  An offer has degrees, a     *)
(* cycle, a nationality, months of experience (0 where none are asked),    *)
(* and whether it asks for a language test and for a research proposal.    *)
(***************************************************************************)
EXTENDS Readiness

Offer(degrees, cycle, nationality, months, languageTest, proposal) ==
    [degrees |-> degrees, cycle |-> cycle, nationality |-> nationality, months |-> months,
     languageTest |-> languageTest, proposal |-> proposal]

\* SCHOLARSHIPS, in what the finder tells apart.
Daad            == Offer({"master"}, "upcoming", "worldwide", 0, TRUE, FALSE)
ErasmusMundus   == Offer({"master"}, "upcoming", "worldwide", 0, TRUE, FALSE)
Chevening       == Offer({"master"}, "closed", "bangladesh", 24, FALSE, FALSE)
Mext            == Offer({"bachelor", "master", "phd", "research"}, "verify", "bangladesh", 0, FALSE, TRUE)
AustraliaAwards == Offer({"master", "research"}, "closed", "bangladesh", 24, TRUE, FALSE)
Fulbright       == Offer({"master", "research"}, "verify", "bangladesh", 0, TRUE, FALSE)
NlScholarship   == Offer({"bachelor", "master"}, "institution_specific", "non_eea", 0, TRUE, FALSE)
Catalogued      == {Daad, ErasmusMundus, Chevening, Mext, AustraliaAwards, Fulbright, NlScholarship}

TargetState(offer, p) ==
    IF p.target \in {"undefined", "unsure"} THEN "unknown"
    ELSE IF p.target \in offer.degrees      THEN "ready"
    ELSE "missing"

\* The rule of priorEducationState is that of the readiness engine.
PriorEducationState(p) == AcademicLevelState(p)

PapersState(p) ==
    CASE "undefined" \in {p.certificates, p.transcripts} -> "unknown"
      [] p.certificates = "yes" /\ p.transcripts = "yes" -> "ready"
      [] OTHER                                           -> "missing"

LanguageProofState(offer, p) ==
    IF offer.languageTest THEN BooleanState(p.languageTest)
    ELSE IF p.english # "undefined" THEN "ready" ELSE "unknown"

ResearchState(offer, p) ==
    IF offer.proposal /\ p.target = "phd" THEN BooleanState(p.proposal) ELSE "ready"

Condition(id, state, hard) == [id |-> id, state |-> state, hard |-> hard]

\* No factor stands for experience where none is asked.
Conditions(offer, p) ==
    {Condition("target", TargetState(offer, p), TRUE),
     Condition("education", PriorEducationState(p), TRUE),
     Condition("documents", PapersState(p), FALSE),
     Condition("language", LanguageProofState(offer, p), FALSE),
     Condition("nationality", IF offer.nationality = "worldwide" THEN "ready" ELSE "unknown",
               offer.nationality = "bangladesh"),
     Condition("research", ResearchState(offer, p), FALSE)}
    \cup IF offer.months = 0 THEN {}
         ELSE {Condition("experience", AtLeast(p.experienceMonths, offer.months), TRUE)}

\* evaluateScholarship, for somebody who has a passport.
EvaluateScholarship(offer, p) ==
    LET all == Conditions(offer, p)
        of(state) == {c \in all : c.state = state}
    IN  [score |-> Percent(Cardinality(of("ready")), Cardinality(all)),
         state |-> IF offer.cycle = "closed"               THEN "deadline_missed"
                   ELSE IF \E c \in of("missing") : c.hard THEN "not_eligible"
                   ELSE IF of("missing") # {}              THEN "near_eligible"
                   ELSE IF of("unknown") # {}              THEN "unknown"
                   ELSE "eligible"]
===============================================================================

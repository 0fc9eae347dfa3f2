------------------------------ MODULE MCDecisions ------------------------------
(***************************************************************************)
(* Bounded inputs for Decisions.                                           *)
(***************************************************************************)
EXTENDS Decisions

\* Rules about an age and the languages spoken, of which a profile may say nothing,
\* a number or a list.
Facts      == {"age", "languages"}
MCFactBags == [Facts -> {Absent, Number(1), Number(2), List({Number(1)})}]

Leaves ==
    {Check("age1", "gte", "age", Number(2), TRUE), Check("age2", "gte", "age", Number(2), FALSE),
     Check("age3", "lt", "age", Number(2), FALSE), Check("age4", "in", "age", List({Number(1)}), TRUE),
     Check("age5", "eq", "age", Number(1), TRUE), Check("age6", "exists", "age", Absent, TRUE),
     Check("lang1", "includes", "languages", Number(1), TRUE),
     Check("lang2", "missing", "languages", Absent, FALSE),
     Check("lang3", "neq", "languages", Number(2), FALSE),
     Check("lang4", "nin", "languages", List({Number(1), Number(2)}), TRUE),
     Check("lang5", "gt", "languages", Number(1), TRUE), Check("lang6", "lte", "languages", Number(1), FALSE)}

Not(rule) == [type |-> "not", node |-> rule]
Group(type, rules) == [type |-> type, nodes |-> rules]

Pairs == {Group(t, {x, y}) : t \in {"all", "any"}, x \in Leaves, y \in Leaves \cup {Not(z) : z \in Leaves}}
Rules == Leaves \cup {Not(x) : x \in Leaves} \cup Pairs
         \cup {Not(Group("any", {x, y})) : x, y \in Leaves}

Version(n, status, from, to, rule) ==
    [version |-> n, status |-> status, from |-> from, to |-> to, expression |-> rule]
TheLeaf  == Check("age1", "gte", "age", Number(2), TRUE)
TheOther == Check("lang1", "includes", "languages", Number(1), FALSE)
RECURSIVE HeightOf(_)
HeightOf(node) ==
    IF NodesOf(node) = {} THEN 0 ELSE 1 + Max({HeightOf(child) : child \in NodesOf(node)})
MCHeight == [node \in Rules \cup {TheOther} \cup {Group("any", {x, y}) : x, y \in Leaves} |-> HeightOf(node)]

MCRuleBooks ==
    {{Version(1, "published", 0, {}, rule)} : rule \in Rules}
    \cup {{Version(1, status, from, to, TheLeaf), Version(2, other, 0, {}, TheOther)} :
              status, other \in {"published", "draft", "withdrawn"}, from \in 0..2, to \in {{}, {1}, {2}}}

\* At most two roles at once.
MCRoleSets    == {{a, b} : a, b \in Roles} \cup {{}}
MCPermissions == {{}, {"view_cost"}, {"view_progress"}}

\* A fee that varies in what matters to the totals, and one that varies in what
\* makes it apply.
FirstFees ==
    [amount : {1, 9999}, currency : {"BDT", "USD"}, category : {"recruitment_service_fee", "visa_fee"},
     payer : {"worker", "employer", "agency"}, refundable : BOOLEAN, listed : {TRUE}, from : {0},
     to : {{}}, unresolved : {FALSE}, lawful : {"unknown"}]
SecondFees ==
    [amount : {20001}, currency : {"BDT"}, category : {"visa_fee"}, payer : {"student", "institution"},
     refundable : BOOLEAN, listed : BOOLEAN, from : {1, 2}, to : {{}, {1}}, unresolved : BOOLEAN,
     lawful : {"yes"}]
MCFeeBooks    == {<<f, g>> : f \in FirstFees, g \in SecondFees}
MCRefundRules == [points : {0, 3333, 5000, 10000, 10001}, exclude : {{}, {"visa_fee"}}]

MCVariants ==
    [identity |->
         <<[hasPassport |-> "undefined", passportMonths |-> NoMonths],
           [hasPassport |-> "yes", passportMonths |-> 11],
           [hasPassport |-> "yes", passportMonths |-> 12]>>,
     education |->
         <<[level |-> "undefined", certificates |-> "undefined", transcripts |-> "undefined"],
           [level |-> "secondary", certificates |-> "no", transcripts |-> "no"],
           [level |-> "bachelor", certificates |-> "yes", transcripts |-> "no"]>>,
     professional |->
         <<[occupation |-> "undefined", experienceMonths |-> NoMonths,
            experienceEvidence |-> "undefined", skill |-> "undefined"],
           [occupation |-> "yes", experienceMonths |-> 1, experienceEvidence |-> "no", skill |-> "no"],
           [occupation |-> "yes", experienceMonths |-> 1, experienceEvidence |-> "yes", skill |-> "no"]>>,
     study |->
         <<[target |-> "undefined", proposal |-> "undefined", cv |-> "undefined",
            statement |-> "undefined", recommendations |-> "undefined"],
           [target |-> "phd", proposal |-> "no", cv |-> "no", statement |-> "yes",
            recommendations |-> "no"],
           [target |-> "master", proposal |-> "no", cv |-> "yes", statement |-> "yes",
            recommendations |-> "yes"]>>,
     language |->
         <<[english |-> "undefined", willingToLearn |-> "undefined", languageTest |-> "undefined"],
           [english |-> "none", willingToLearn |-> "no", languageTest |-> "no"],
           [english |-> "none", willingToLearn |-> "yes", languageTest |-> "no"]>>,
     finance |->
         <<[budget |-> "undefined", needsScholarship |-> "undefined", fundingPlan |-> "undefined",
            funds |-> "undefined"],
           [budget |-> "low", needsScholarship |-> "yes", fundingPlan |-> "no", funds |-> "no"],
           [budget |-> "low", needsScholarship |-> "yes", fundingPlan |-> "yes", funds |-> "yes"]>>,
     rest |->
         <<[bmet |-> "undefined", police |-> "undefined", startMonths |-> NoMonths],
           [bmet |-> "no", police |-> "yes", startMonths |-> 3],
           [bmet |-> "yes", police |-> "yes", startMonths |-> 6]>>]

\* The offers of the catalogue, and one that is open to all and asks for everything, so
\* that each condition can decide.
MCOffers ==
    Catalogued \cup {Offer({"bachelor", "master", "phd", "research"}, "open", "worldwide", 24, TRUE, TRUE)}
MCPapers ==
    [certificates : {"undefined", "yes", "no"}, transcripts : {"undefined", "yes", "no"},
     languageTest : {"undefined", "yes", "no"}, english : {"undefined", "none"},
     experienceMonths : {NoMonths, 23, 24}, proposal : {"undefined", "yes", "no"}]

\* Three matches, with scores and coverages that differ and that tie.  No study match
\* is eligible before its prerequisites are known.
WorkFits ==
    {[occupation |-> "fit", readiness |-> "gap", economics |-> "unknown", preference |-> "fit"],
     [occupation |-> "gap", readiness |-> "gap", economics |-> "fit", preference |-> "fit"],
     [occupation |-> "unknown", readiness |-> "unknown", economics |-> "fit", preference |-> "gap"]}
StudyFits ==
    [academic : {"fit", "gap"}, readiness : {"unknown"}, funding : MatchStates, preference : {"fit", "gap"},
     prerequisites : {"unknown"}]
MCMatchSets ==
    [work  |-> [1..3 -> [eligibility : DOMAIN EligibilityOrder, factors : WorkFits]],
     study |-> [1..2 -> [eligibility : {"unknown"}, factors : StudyFits]]]
NoMatches == [work |-> {}, study |-> {}]

\* Four to six outcomes of as many people, of which some state a cost and some end well.
MCCohorts ==
    UNION {{[i \in 1..n |-> [verified |-> TRUE, country |-> "malaysia",
                             currency |-> IF i \in known THEN "BDT" ELSE "none", cost |-> i * i,
                             person |-> i, promised |-> "yes",
                             positive |-> IF i \in known THEN "no" ELSE "unknown"]] :
               known \in SUBSET (1..n)} : n \in 4..6}
MCQueries == [country : {"any", "malaysia", "japan"}, currency : {"any", "BDT"}]

\* The seed: a route for work, an employer and a recruiter, and a job of both.
TheSource == [id |-> "portal", reviewed |-> 0, cadence |-> 10]
TheRoute  == [id |-> "route", of |-> "work_visa", country |-> "malaysia", purpose |-> "work", published |-> TRUE,
              rule |-> "rule", sources |-> {"portal"}, fees |-> {"fee"}, requirements |-> {},
              risks |-> {"portal"}, obligations |-> {"portal"}, synthetic |-> FALSE, humanVerified |-> TRUE]
Employer  == [id |-> "employer", type |-> "foreign_employer", suspended |-> FALSE, licences |-> {},
              methods |-> {}, synthetic |-> FALSE]
Agency    == [Employer EXCEPT !.id = "agency", !.type = "recruiting_agency", !.licences = {"expired", "active"}]
TheJob    == [id |-> "job", number |-> "BDX-1", route |-> "route", country |-> "malaysia", occupation |-> "electrician",
              employer |-> "employer", agency |-> "agency", status |-> "published", validTo |-> 30,
              feeBy |-> "employer", salary |-> 150, currency |-> "MYR", synthetic |-> FALSE]
TheFee    == [id |-> "fee", route |-> "*", sources |-> {}, payee |-> None]
School    == [id |-> "school", country |-> "japan", verified |-> TRUE, sources |-> {"portal"}, synthetic |-> FALSE]
Course    == [id |-> "course", institution |-> "school", degree |-> "msc", sources |-> {}, synthetic |-> FALSE]
Profile   == [id |-> "profile", country |-> "japan", sources |-> {"portal"}, visas |-> {"portal"}, facts |-> {}]
Seed ==
    [env |-> "production", now |-> 5, key |-> [id |-> "k1", secret |-> "s1"], countries |-> {"malaysia", "japan"},
     occupations |-> {"electrician", "welder"}, sources |-> {TheSource},
     rules |-> {[id |-> "rule", sources |-> {"portal"}]}, fees |-> {TheFee}, routes |-> {TheRoute},
     organizations |-> {Employer, Agency}, jobs |-> {TheJob}, institutions |-> {School}, courses |-> {Course},
     profiles |-> {Profile}, complaints |-> {}]
Student == [target |-> "master", transcripts |-> FALSE]
Envs    == {"development", "production"}

\* Two routes in what the lists tell apart.
RouteWorlds ==
    {[Seed EXCEPT !.env = env,
                  !.routes = {[TheRoute EXCEPT !.purpose = p, !.published = s, !.synthetic = y],
                              [TheRoute EXCEPT !.id = "other", !.purpose = q, !.published = t, !.country = c]}] :
        env \in Envs, p, q \in {"work", "study", "training"}, s, t, y \in BOOLEAN, c \in Seed.countries}

\* A job in what its verification tells apart, next to a second one.
JobWorlds ==
    {[Seed EXCEPT !.env = env,
                  !.organizations = {[Employer EXCEPT !.suspended = s, !.methods = {"document_review"}],
                                     [Agency EXCEPT !.licences = l, !.synthetic = y]},
                  !.jobs = {[TheJob EXCEPT !.agency = a, !.status = st, !.validTo = v, !.country = c, !.synthetic = y],
                            [TheJob EXCEPT !.id = "second", !.number = "BDX-2", !.currency = "BDT"]}] :
        env \in Envs, s, y \in BOOLEAN, l \in {{}, {"expired"}, {"expired", "active"}}, a \in {"agency", None},
        st \in {"draft", "published", "suspended"}, v \in {5, 6, 30}, c \in Seed.countries}

\* Institutions and organizations with what is known of them, and a complaint of either.
DirectoryWorlds ==
    {[Seed EXCEPT !.env = env, !.institutions = {[School EXCEPT !.verified = v, !.sources = s, !.synthetic = y]},
                  !.courses = {[Course EXCEPT !.degree = d]},
                  !.organizations = {[Employer EXCEPT !.suspended = p, !.methods = m], Agency},
                  !.complaints = {[id |-> "c", organization |-> o, safety |-> f]}] :
        env \in Envs, v, y, p \in BOOLEAN, s \in {{}, {"portal"}}, d \in {"msc", "phd", "mba"},
        m \in {{}, {"document_review"}, {"document_review", "authority_confirmation"}},
        o \in {"school", "employer"}, f \in {"under_review", "resolved"}}

\* Seeds with one reference that leads nowhere.
Dangling ==
    {[Seed EXCEPT !.rules = {}], [Seed EXCEPT !.sources = {}], [Seed EXCEPT !.fees = {}],
     [Seed EXCEPT !.organizations = {Agency}], [Seed EXCEPT !.organizations = {Employer}],
     [Seed EXCEPT !.routes = {}], [Seed EXCEPT !.institutions = {}], [Seed EXCEPT !.countries = {"malaysia"}],
     [Seed EXCEPT !.occupations = {"welder"}], [Seed EXCEPT !.fees = {[TheFee EXCEPT !.route = "study_visa"]}],
     [Seed EXCEPT !.profiles = {[Profile EXCEPT !.visas = {"blog"}]}],
     [Seed EXCEPT !.profiles = {[Profile EXCEPT !.facts = {[source |-> "portal", researched |-> TRUE, dated |-> FALSE]}]}]}

MCVisits ==
    {[world |-> w, student |-> Student] : w \in {Seed} \cup Dangling \cup RouteWorlds \cup JobWorlds}
    \cup {[world |-> w, student |-> s] :
              w \in DirectoryWorlds, s \in [target : {"unsure", "master", "phd"}, transcripts : BOOLEAN]}
MCChanges ==
    [days : {0, 10, 31}, what : {"nothing", "rotated", "replaced", "employer", "agency", "licences", "job"}]

\* Every environment that has all of the controls, all but one, or none.
MCDeployments == {e \in Environments : Cardinality(Controls \ e.controls) \in {0, 1, Cardinality(Controls)}}

\* Records that vary in one part.
Shared == [version |-> 1, passport |-> "undefined", passportMonths |-> 12, budget |-> NoBudget, funds |-> "yes",
           scholarship |-> "no", plan |-> "undefined", learn |-> "no", start |-> 6, preferred |-> {}, excluded |-> {}]
Work   == [version |-> 1, targets |-> <<>>, current |-> "undefined", months |-> 12, jobs |-> {}, credentials |-> {},
           bmet |-> "undefined", police |-> "yes"]
Study  == [version |-> 1, target |-> "master", education |-> {}, documents |-> {}, english |-> {}]
Degree(level, certificate) == [level |-> level, certificate |-> certificate, transcript |-> FALSE]
MCBundles ==
    {[shared |-> s, work |-> Work, study |-> Study] :
        s \in {[Shared EXCEPT !.version = v, !.passport = p, !.budget = b, !.preferred = c, !.excluded = d] :
                 v \in {1, 2}, p \in {"undefined", "unknown", "valid", "expired"}, b \in {NoBudget, 100},
                 c, d \in {{}, {"malaysia"}}}}
    \cup {[shared |-> Shared, work |-> w, study |-> Study] :
        w \in {[Work EXCEPT !.version = v, !.targets = t, !.current = c, !.months = m, !.jobs = j, !.credentials = k,
                          !.bmet = b] :
                 v \in {1, 2}, t \in {<<>>, <<"welder">>, <<"electrician">>}, c \in {"undefined", "electrician"}, m \in {NoMonths, 0, 12},
                 j \in {{}, {FALSE}, {TRUE}}, k \in {{}, {"licence"}}, b \in {"undefined", "yes", "no"}}}
    \cup {[shared |-> Shared, work |-> Work, study |-> a] :
        a \in {[Study EXCEPT !.version = v, !.target = t, !.education = e, !.documents = d, !.english = g] :
                 v \in {1, 2}, t \in {"undefined", "bachelor", "master", "phd", "professional"},
                 e \in {{}, {Degree("secondary", FALSE)}, {Degree("bachelor", TRUE)},
                       {Degree("diploma", TRUE), Degree("mphil", FALSE)}},
                 d \in {{}, {"cv"}},
                 g \in {{}, {[level |-> "good", test |-> FALSE, evidence |-> TRUE]},
                       {[level |-> "none", test |-> TRUE, evidence |-> FALSE]}}}}
MCOlderProfiles ==
    [occupation : {"undefined", "welder"}, months : {NoMonths, 6}, validPassport : {"undefined", "yes"},
     bmet : {"undefined", "no"}, police : {"undefined"}, skills : {{}, {"welding"}}]
Price(n) == [id |-> n, amount |-> n]
MCOpenings ==
    {[path |-> "work", country |-> "malaysia", occupations |-> {"electrician"}, fees |-> {Price(60), Price(50)}],
     [path |-> "work", country |-> "japan", occupations |-> {}, fees |-> {}],
     [path |-> "study", country |-> "japan", degree |-> "master", tuition |-> {Price(100)}],
     [path |-> "study", country |-> "malaysia", degree |-> "professional", tuition |-> {}]}

\* Four to six reports, of which two say one thing and the others another.
MCReported ==
    UNION {{[i \in 1..n |-> IF i <= 2 THEN a ELSE b] : a, b \in kind} :
               n \in {4, 5}, kind \in {WorkReports, StudyReports}}

Nothing == {}

\* Doubles of nine binary digits, whose integers are exact up to 511.
MCUlps == {2^i : i \in 0..20}

\* Amounts of which the product is too small (0.31 times a hundred), on both sides of the
\* limits up to which they are stored as typed and of the largest exact integer, and one
\* that is stored as another (2.02).
MCTypedAmounts ==
    {Typed(10 * n) : n \in {0, 1, 27, 31, ExactLimit, ExactLimit + 1, 202, MaxSafe, MaxSafe + 1}}

OddAmounts == {Blank, Words} \cup {Typed(n) : n \in {-10, -6, -4, 4, 6, 1006, 1234}}
MCCrafted ==
    {[kind |-> "record", form |-> f] : f \in
        [type : {"offer", "citizenship"}, status : {"verified", "published"}, due : {"words", "day"},
         amount : OddAmounts, currency : {"BDT", "none"}, journey : {"own", "own_other", "other", "none"}]}
    \cup {[kind |-> "cost", form |-> f] : f \in
        [amount : OddAmounts, currency : {"BDT", "none"}, journey : {"own", "other", "none"}]}
    \cup {[kind |-> "outcome", form |-> f] : f \in
        [journey : {"own", "own_other", "other", "none"}, reached : {FALSE}, outcome : {"positive", "great"},
         promise : {"yes", "maybe"}, cost : {"no", "maybe"}, amount : OddAmounts, currency : {"JPY", "none"},
         consent : BOOLEAN]}
    \cup {[kind |-> k, form |-> f] : k \in {"direction", "onboarding"}, f \in
        [path : {"work", "study", "both", "unsure"}, active : {"none", "work", "study", "both"},
         stage : {"exploring", "done"}, consent : BOOLEAN]}
    \cup {[kind |-> "evidence", form |-> f] : f \in
        [portal : {"employer", "government"}, submission : {"licence", "verdict"}]}
    \cup {[kind |-> "verification", form |-> [kind |-> "anything"]],
          [kind |-> "ticket", form |-> [priority |-> "anything", journey |-> "other"]],
          [kind |-> "delegation", form |-> [permissions |-> {"settle"}, journey |-> "other"]],
          [kind |-> "workspace", form |-> [path |-> "both"]],
          [kind |-> "journey", form |-> [path |-> "both", target |-> "none"]],
          [kind |-> "journey", form |-> [path |-> "study", target |-> "none"]]}
===============================================================================

---------------------------- MODULE CaseLifecycle ----------------------------
(***************************************************************************)
(* Mobility cases: CasesService.create and act with the state machine of   *)
(* packages/domain/src/cases.ts and the cost plan of CostsService.         *)
(* A call of act reads the case, and transition writes back that copy.     *)
(***************************************************************************)
EXTENDS Requests, Sequences, SequencesExt

CONSTANTS
    Cases,          \* cases of one owner; nobody else can act on them
    MilestoneKeys,  \* MILESTONE_ORDER
    Offers,         \* the routes and jobs a case may be created for
    Progress        \* how far along the path a case may be initially

VARIABLES mobilityCase  \* storage.cases, with the tasks, milestones and plan of each

caseVars == <<mobilityCase>>

HappyPath ==
    <<"DRAFT", "ELIGIBILITY_CHECKED", "OPPORTUNITY_SELECTED", "DOCUMENTS_PREPARING",
      "APPLICATION_READY", "SUBMITTED", "EMPLOYER_OR_INSTITUTION_REVIEW",
      "SELECTED_OR_ADMITTED", "CONTRACT_OR_OFFER_ACCEPTED", "PERMIT_OR_VISA_PREPARATION",
      "VISA_SUBMITTED", "VISA_DECIDED", "BANGLADESH_CLEARANCE", "PRE_DEPARTURE",
      "DEPARTED", "ARRIVED", "POST_ARRIVAL_VERIFIED", "ACTIVE">>
Interrupts == <<"REJECTED", "WITHDRAWN", "CANCELLED", "DISPUTED", "PAUSED">>
Final      == {"WITHDRAWN", "CANCELLED"}

Members(list) == {list[i] : i \in 1..Len(list)}
CaseStates    == Members(HappyPath) \cup Members(Interrupts)

\* The element after state on the path, as a list of at most one element.
Forward(state) ==
    LET Here == {i \in 1..Len(HappyPath) - 1 : HappyPath[i] = state}
    IN  IF Here = {} THEN <<>> ELSE <<HappyPath[(CHOOSE i \in Here : TRUE) + 1]>>

\* The interrupts other than state, in their order.
OtherInterrupts(state) ==
    LET Here == {i \in 1..Len(Interrupts) : Interrupts[i] = state}
    IN  IF Here = {} THEN Interrupts ELSE RemoveAt(Interrupts, CHOOSE i \in Here : TRUE)

NextCaseStates(state) ==
    CASE state \in Final -> <<>>
      [] state \in {"PAUSED", "DISPUTED"} -> HappyPath \o <<"WITHDRAWN", "CANCELLED">>
      [] OTHER -> Forward(state) \o OtherInterrupts(state)

ASSUME CaseAssumption == Progress \subseteq 0..Len(HappyPath) - 1

\* Whether a case may be opened for an offer: a published route that accepts
\* applications, a country that is open, and a job that is published and valid.
MayStart(o) ==
    /\ o.published
    /\ o.status \notin {"temporarily_paused", "closed", "unknown_needs_review"}
    /\ o.country \in {"unlisted", "open"}
    /\ o.job \in {"none", "valid"}

NoCase  == [state |-> "none"]
Pending == [status |-> "pending", evidence |-> FALSE, attested |-> FALSE]
NewCase == [state |-> HappyPath[1], history |-> <<>>, parts |-> {}, done |-> FALSE,
            milestones |-> [k \in MilestoneKeys |-> Pending]]
Parts   == {"tasks", "milestones", "items", "plan"}

Entry(from, to, asked) == [from |-> from, to |-> to, asked |-> asked]

\* A case that has come n steps along the path.
CaseAt(n) ==
    [NewCase EXCEPT !.state = HappyPath[n + 1], !.parts = Parts,
                    !.history = [i \in 1..n |-> Entry(HappyPath[i], HappyPath[i + 1], TRUE)]]

CaseInit ==
    mobilityCase \in [Cases -> {NoCase} \cup {CaseAt(n) : n \in Progress}]

Exists(c) == mobilityCase[c] # NoCase

-------------------------------------------------------------------------------
(* create: the case, then its tasks, milestones, cost items and plan.  The *)
(* records of one loop are written as one step.                            *)

CreateCase(r, c) ==
    /\ ~Exists(c)
    /\ \E o \in Offers : MayStart(o)
    /\ Begin(r, c, [at |-> "put_tasks"])
    /\ mobilityCase' = [mobilityCase EXCEPT ![c] = NewCase]

Put(r, part) ==
    mobilityCase' = [mobilityCase EXCEPT ![req[r].on].parts = @ \cup {part}]

PutTasks(r)      == At(r, "put_tasks") /\ Put(r, "tasks") /\ Goto(r, [at |-> "put_milestones"])
PutMilestones(r) == At(r, "put_milestones") /\ Put(r, "milestones") /\ Goto(r, [at |-> "put_items"])
PutItems(r)      == At(r, "put_items") /\ Put(r, "items") /\ Goto(r, [at |-> "put_plan"])
PutPlan(r)       == At(r, "put_plan") /\ Put(r, "plan") /\ Answer(r)

(* act.                                                                    *)

\* Another put of the task with its status done: the copy differs in nothing else.
CompleteTask(r, c) ==
    /\ Exists(c) /\ "tasks" \in mobilityCase[c].parts
    /\ Single(r, c)
    /\ mobilityCase' = [mobilityCase EXCEPT ![c].done = TRUE]

ReadMilestone(r, c, k, next) ==
    /\ Exists(c) /\ "milestones" \in mobilityCase[c].parts
    /\ Begin(r, c, With(next, [key |-> k, copy |-> mobilityCase[c].milestones[k]]))
    /\ UNCHANGED caseVars

\* Evidence submitted again without documents keeps those of the copy.
SubmitMilestoneEvidence(r, c, k) ==
    \E given \in BOOLEAN : ReadMilestone(r, c, k, [at |-> "put_evidence", given |-> given])
VerifyMilestone(r, c, k) == ReadMilestone(r, c, k, [at |-> "put_verified"])

PutMilestone(r, milestone) ==
    /\ mobilityCase' = [mobilityCase EXCEPT ![req[r].on].milestones[req[r].key] = milestone]
    /\ Answer(r)

PutEvidence(r) ==
    /\ At(r, "put_evidence")
    /\ PutMilestone(r, [req[r].copy EXCEPT !.status = "evidence_submitted",
                                           !.evidence = @ \/ req[r].given])
PutVerified(r) ==
    /\ At(r, "put_verified")
    /\ PutMilestone(r, [req[r].copy EXCEPT !.status = "verified", !.attested = TRUE])

ReadCase(r, c, target, asked) ==
    /\ target \in Members(NextCaseStates(mobilityCase[c].state))
    /\ Begin(r, c, [at |-> "put_case", copy |-> mobilityCase[c],
                    target |-> target, asked |-> asked])
    /\ UNCHANGED caseVars

\* Without a target state the first of the next states is taken.
Advance(r, c, target) ==
    /\ Exists(c)
    /\ ReadCase(r, c, target, TRUE)
AdvanceUntargeted(r, c) ==
    /\ Exists(c) /\ NextCaseStates(mobilityCase[c].state) # <<>>
    /\ ReadCase(r, c, NextCaseStates(mobilityCase[c].state)[1], FALSE)
Withdraw(r, c) == Advance(r, c, "WITHDRAWN")

\* Mutant of PutCase: the state changes but the history of the stored case grows.
PutCaseMerging(r) ==
    /\ At(r, "put_case")
    /\ mobilityCase' = [mobilityCase EXCEPT
           ![req[r].on].state = req[r].target,
           ![req[r].on].history = Append(@, Entry(req[r].copy.state, req[r].target, req[r].asked))]
    /\ Answer(r)

\* transition: the copy with its new state and history replaces the case.  Tasks,
\* milestones and plan are records of their own.
PutCase(r) ==
    /\ At(r, "put_case")
    /\ LET entry == Entry(req[r].copy.state, req[r].target, req[r].asked)
       IN  mobilityCase' = [mobilityCase EXCEPT
               ![req[r].on].state = req[r].target,
               ![req[r].on].history = Append(req[r].copy.history, entry)]
    /\ Answer(r)

CaseCall(r, c) ==
    \/ CreateCase(r, c)
    \/ CompleteTask(r, c)
    \/ \E k \in MilestoneKeys : SubmitMilestoneEvidence(r, c, k) \/ VerifyMilestone(r, c, k)
    \/ \E s \in CaseStates : Advance(r, c, s)
    \/ AdvanceUntargeted(r, c)
    \/ Withdraw(r, c)

CaseStep(r) ==
    \/ PutTasks(r) \/ PutMilestones(r) \/ PutItems(r) \/ PutPlan(r)
    \/ PutEvidence(r) \/ PutVerified(r)
    \/ PutCase(r)

CaseNext == \E r \in Request : CaseStep(r) \/ \E c \in Cases : CaseCall(r, c)

-------------------------------------------------------------------------------
(* Properties.                                                             *)

CaseTypeOK ==
    \A c \in Cases : Exists(c) =>
        /\ mobilityCase[c].state \in CaseStates
        /\ mobilityCase[c].parts \subseteq Parts
        /\ mobilityCase[c].done \in BOOLEAN
        /\ mobilityCase[c].milestones \in
               [MilestoneKeys -> [status : {"pending", "evidence_submitted", "verified"},
                                  evidence : BOOLEAN, attested : BOOLEAN]]

\* The history of a stored case (transition) is a walk of the state machine from
\* DRAFT to the state of the case, although concurrent calls write back stale
\* copies: an overtaken write loses a step, it never joins two halves, and no
\* walk leads out of a final state or skips a step of the path.
HistoryIsWalk ==
    \A c \in Cases : Exists(c) =>
        LET h == mobilityCase[c].history
            StateAfter(i) == IF i = 0 THEN "DRAFT" ELSE h[i].to
            OnPath(s) == s \in Members(HappyPath)
        IN  /\ mobilityCase[c].state = StateAfter(Len(h))
            /\ \A i \in 1..Len(h) :
                   /\ h[i].from = StateAfter(i - 1)
                   /\ h[i].from \notin {"WITHDRAWN", "CANCELLED"}
                   /\ OnPath(h[i].from) /\ OnPath(h[i].to) => Forward(h[i].from) = <<h[i].to>>
                   /\ h[i].from = "REJECTED" => ~OnPath(h[i].to)

\* advance without a target state takes the case one step along the path
\* (cases.test.ts, 'advances one step along the happy path').
AdvanceGoesForward ==
    \A c \in Cases : Exists(c) =>
        \A i \in 1..Len(mobilityCase[c].history) :
            LET e == mobilityCase[c].history[i]
            IN  e.asked \/ Forward(e.from) = <<e.to>>
===============================================================================

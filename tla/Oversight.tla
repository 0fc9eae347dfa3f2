------------------------------- MODULE Oversight -------------------------------
(***************************************************************************)
(* Complaints and human reviews (OperationsService), outcomes and their    *)
(* reviews (Work-, Study- and OutcomesService).  A decision is a record of *)
(* its own, written after a check that there is none yet.                  *)
(***************************************************************************)
EXTENDS Requests, Sequences

CONSTANTS
    Complaints, Reviews, Outcomes,
    Owner,     \* the applicant all of them belong to
    Staff,     \* users who may handle complaints
    Deciders,  \* users who may decide reviews, with MFA; Owner may be one
    Safeties   \* safety states an update of a complaint may name

VARIABLES
    complaint,       \* storage.complaints
    complaintEvents, \* the types of the complaintEvents of each, in order
    humanReview,     \* status of storage.humanReviews
    reviewDecisions, \* the reviewers of the humanReviewDecisions of each
    outcome,         \* workOutcomes and studyOutcomes on record
    outcomeReviews   \* the reviewers of the outcomeReviews of each

oversightVars ==
    <<complaint, complaintEvents, humanReview, reviewDecisions, outcome, outcomeReviews>>

NoComplaint == [status |-> "none"]

OversightInit ==
    /\ complaint = [c \in Complaints |-> NoComplaint]
    /\ complaintEvents = [c \in Complaints |-> <<>>]
    /\ humanReview = [v \in Reviews |-> "none"]
    /\ reviewDecisions = [v \in Reviews |-> <<>>]
    /\ outcome = {}
    /\ outcomeReviews = [o \in Outcomes |-> <<>>]

\* The status and the event of each action on a complaint.
Mapping ==
    [add_evidence                  |-> <<"evidence", "evidence_added">>,
     triage                        |-> <<"triage", "triaged">>,
     request_organization_response |-> <<"organization_response", "organization_response">>,
     record_organization_response  |-> <<"review", "organization_response">>,
     escalate                      |-> <<"review", "escalated">>,
     review                        |-> <<"review", "reviewed">>,
     resolve                       |-> <<"resolved", "resolved">>,
     dismiss                       |-> <<"dismissed", "reviewed">>,
     record_refund                 |-> <<"resolved", "refund_recorded">>,
     record_remedy                 |-> <<"resolved", "remedy_recorded">>]
StatusOf(action) == Mapping[action][1]
EventOf(action)  == Mapping[action][2]

-------------------------------------------------------------------------------
(* Complaints.                                                             *)

CreateComplaint(r, c, evidence) ==
    /\ complaint[c] = NoComplaint
    /\ Begin(r, c, [at |-> "put_event", event |-> "submitted"])
    /\ complaint' = [complaint EXCEPT ![c] =
           [status |-> IF evidence THEN "evidence" ELSE "submitted",
            safety |-> "reported", assigned |-> "nobody"]]
    /\ UNCHANGED <<complaintEvents, humanReview, reviewDecisions, outcome, outcomeReviews>>

\* Any action in any status: a resolved complaint can be taken up again.  Whoever
\* may call the action may name the safety state, the complainant too.
UpdateComplaint(r, u, c, action, safety) ==
    /\ complaint[c] # NoComplaint
    /\ IF action = "add_evidence" THEN u = Owner ELSE u \in Staff
    /\ Begin(r, c, [at |-> "put_complaint", user |-> u, action |-> action, safety |-> safety,
                    copy |-> complaint[c]])
    /\ UNCHANGED oversightVars

\* Mutant of PutComplaint: the status is written and the event forgotten.
PutComplaintSilently(r) ==
    /\ At(r, "put_complaint")
    /\ complaint' = [complaint EXCEPT ![req[r].on] =
           [req[r].copy EXCEPT !.status = StatusOf(req[r].action)]]
    /\ Answer(r)
    /\ UNCHANGED <<complaintEvents, humanReview, reviewDecisions, outcome, outcomeReviews>>

PutComplaint(r) ==
    /\ At(r, "put_complaint")
    /\ complaint' = [complaint EXCEPT ![req[r].on] =
           [req[r].copy EXCEPT
                !.status = StatusOf(req[r].action),
                !.safety = IF req[r].safety # "unsaid"      THEN req[r].safety
                           ELSE IF req[r].action = "triage" THEN "reviewing"
                           ELSE @,
                !.assigned = IF req[r].user \in Staff THEN req[r].user ELSE @]]
    /\ Goto(r, [at |-> "put_event", event |-> EventOf(req[r].action)])
    /\ UNCHANGED <<complaintEvents, humanReview, reviewDecisions, outcome, outcomeReviews>>

PutComplaintEvent(r) ==
    /\ At(r, "put_event")
    /\ complaintEvents' = [complaintEvents EXCEPT ![req[r].on] = Append(@, req[r].event)]
    /\ Answer(r)
    /\ UNCHANGED <<complaint, humanReview, reviewDecisions, outcome, outcomeReviews>>

(* Human reviews.                                                          *)

CreateReview(r, v) ==
    /\ humanReview[v] = "none"
    /\ Single(r, v)
    /\ humanReview' = [humanReview EXCEPT ![v] = "queued"]
    /\ UNCHANGED <<complaint, complaintEvents, reviewDecisions, outcome, outcomeReviews>>

DecideReview(r, u, v) ==
    /\ humanReview[v] \notin {"none", "decided"}
    /\ Begin(r, v, [at |-> "put_review_decision", user |-> u])
    /\ UNCHANGED oversightVars

PutReviewDecision(r) ==
    /\ At(r, "put_review_decision")
    /\ reviewDecisions' = [reviewDecisions EXCEPT ![req[r].on] = Append(@, req[r].user)]
    /\ Goto(r, [at |-> "put_review"])
    /\ UNCHANGED <<complaint, complaintEvents, humanReview, outcome, outcomeReviews>>

PutReview(r) ==
    /\ At(r, "put_review")
    /\ humanReview' = [humanReview EXCEPT ![req[r].on] = "decided"]
    /\ Answer(r)
    /\ UNCHANGED <<complaint, complaintEvents, reviewDecisions, outcome, outcomeReviews>>

(* Outcomes.                                                               *)

RecordOutcome(r, o) ==
    /\ o \notin outcome
    /\ Single(r, o)
    /\ outcome' = outcome \cup {o}
    /\ UNCHANGED <<complaint, complaintEvents, humanReview, reviewDecisions, outcomeReviews>>

ReviewOutcome(r, u, o) ==
    /\ o \in outcome
    /\ u # Owner
    /\ outcomeReviews[o] = <<>>
    /\ Begin(r, o, [at |-> "put_outcome_review", user |-> u])
    /\ UNCHANGED oversightVars

PutOutcomeReview(r) ==
    /\ At(r, "put_outcome_review")
    /\ outcomeReviews' = [outcomeReviews EXCEPT ![req[r].on] = Append(@, req[r].user)]
    /\ Answer(r)
    /\ UNCHANGED <<complaint, complaintEvents, humanReview, reviewDecisions, outcome>>

OversightCall(r) ==
    \/ \E c \in Complaints, e \in BOOLEAN : CreateComplaint(r, c, e)
    \/ \E u \in Staff \cup {Owner}, c \in Complaints, x \in DOMAIN Mapping,
          safety \in Safeties \cup {"unsaid"} : UpdateComplaint(r, u, c, x, safety)
    \/ \E v \in Reviews : CreateReview(r, v)
    \/ \E u \in Deciders, v \in Reviews : DecideReview(r, u, v)
    \/ \E o \in Outcomes : RecordOutcome(r, o)
    \/ \E u \in Deciders, o \in Outcomes : ReviewOutcome(r, u, o)

OversightStep(r) ==
    \/ PutComplaint(r) \/ PutComplaintEvent(r)
    \/ PutReviewDecision(r) \/ PutReview(r)
    \/ PutOutcomeReview(r)

OversightNext == \E r \in Request : OversightStep(r) \/ OversightCall(r)

-------------------------------------------------------------------------------
(* Properties.                                                             *)

OversightTypeOK ==
    /\ \A c \in Complaints : complaint[c] = NoComplaint \/
           complaint[c] \in [status : {"submitted"} \cup {StatusOf(x) : x \in DOMAIN Mapping},
                             safety : {"reported", "reviewing"} \cup Safeties, assigned : Staff \cup {"nobody"}]
    /\ humanReview \in [Reviews -> {"none", "queued", "decided"}]

\* Decisions are single and on record.  In every interleaving a review says decided
\* only after its decision was written, and nobody reviews an outcome of his own.
\* On what no two requests worked at the same time, and where nothing failed, there
\* is one decision or review at most, and at rest the last event of a complaint
\* is one that leads to its status.
DecidedOnce ==
    LET AtRest(x) == \A r \in Request : req[r] = Idle \/ req[r].on # x
    IN  /\ \A v \in Reviews :
               /\ humanReview[v] = "decided" => reviewDecisions[v] # <<>>
               /\ Undisturbed(v) => Len(reviewDecisions[v]) <= 1
        /\ \A o \in Outcomes :
               /\ \A i \in 1..Len(outcomeReviews[o]) : outcomeReviews[o][i] # Owner
               /\ Undisturbed(o) => Len(outcomeReviews[o]) <= 1
        /\ \A c \in Complaints : complaint[c] # NoComplaint /\ Undisturbed(c) /\ AtRest(c) =>
               LET last == complaintEvents[c][Len(complaintEvents[c])]
               IN  \/ last = "submitted" /\ complaint[c].status \in {"submitted", "evidence"}
                   \/ \E x \in DOMAIN Mapping : Mapping[x] = <<complaint[c].status, last>>
===============================================================================

----------------------------- MODULE Publication -----------------------------
(***************************************************************************)
(* Partner submissions (SupplyService) and publication changes with their  *)
(* review (OperationsService): a submission is handed in by writing a      *)
(* change and then the submission, and decided by writing the change and   *)
(* then the submission that names it.                                      *)
(***************************************************************************)
EXTENDS Requests

CONSTANTS
    Submissions, Changes,
    Partners,     \* members of one organization that can transact, with MFA
    Researchers,  \* users allowed to write changes, with MFA
    Reviewers     \* users allowed to decide changes, with MFA; any may overlap

\* Ids of records are distinct, and none of them is the word for no change.
ASSUME PublicationAssumption == Submissions \cap Changes = {} /\ "none" \notin Changes

VARIABLES
    submission,  \* storage.partnerSubmissions
    change,      \* storage.publicationChanges
    fees,        \* storage.partnerFeeDeclarations: the submission of each, or "none"
    decisions    \* history: the decisions written

publicationVars == <<submission, change, fees, decisions>>

NoSubmission == [status |-> "none"]
NoChange     == [status |-> "none"]

PublicationInit ==
    /\ submission = [s \in Submissions |-> NoSubmission]
    /\ change = [c \in Changes |-> NoChange]
    /\ fees = {} /\ decisions = {}

\* A new id (uuidv7).
HasFresh    == \E c \in Changes : change[c] = NoChange
FreshChange == CHOOSE c \in Changes : change[c] = NoChange

Change(status, author, resource) == [status |-> status, author |-> author, resource |-> resource]

-------------------------------------------------------------------------------
(* SupplyService.                                                          *)

CreateSubmission(r, s) ==
    /\ submission[s] = NoSubmission
    /\ Single(r, s)
    /\ submission' = [submission EXCEPT ![s] =
           [status |-> "draft", change |-> "none", level |-> "evidence_submitted"]]
    /\ UNCHANGED <<change, fees, decisions>>

DeclareFee(r, s) ==
    /\ s \notin fees
    /\ Single(r, s)
    /\ fees' = fees \cup {s}
    /\ UNCHANGED <<submission, change, decisions>>

SubmitForReview(r, u, s) ==
    /\ submission[s].status \in {"draft", "rejected"}
    /\ Begin(r, s, [at |-> "put_change", user |-> u, copy |-> submission[s]])
    /\ UNCHANGED publicationVars

PutChange(r) ==
    /\ At(r, "put_change") /\ HasFresh
    /\ change' = [change EXCEPT ![FreshChange] = Change("in_review", req[r].user, req[r].on)]
    /\ Goto(r, [at |-> "put_submission", change |-> FreshChange])
    /\ UNCHANGED <<submission, fees, decisions>>

PutSubmission(r) ==
    /\ At(r, "put_submission")
    /\ submission' = [submission EXCEPT ![req[r].on] =
           [req[r].copy EXCEPT !.status = "in_review", !.change = req[r].change]]
    /\ Answer(r)
    /\ UNCHANGED <<change, fees, decisions>>

(* OperationsService.                                                      *)

CreatePublicationChange(r, u) ==
    /\ HasFresh
    /\ Single(r, FreshChange)
    /\ change' = [change EXCEPT ![FreshChange] = Change("draft", u, FreshChange)]
    /\ UNCHANGED <<submission, fees, decisions>>

SubmitPublicationChange(r, u, c) ==
    /\ change[c].status = "draft" /\ change[c].author = u
    /\ Begin(r, change[c].resource, [at |-> "put_in_review", change |-> c, copy |-> change[c]])
    /\ UNCHANGED publicationVars

PutInReview(r) ==
    /\ At(r, "put_in_review")
    /\ change' = [change EXCEPT ![req[r].change] = [req[r].copy EXCEPT !.status = "in_review"]]
    /\ Answer(r)
    /\ UNCHANGED <<submission, fees, decisions>>

\* Mutant of ReviewPublicationChange: a reviewer may decide a change of his own.
ReviewPublicationChangeOwn(r, u, c, decision) ==
    /\ change[c].status = "in_review"
    /\ Begin(r, change[c].resource, [at |-> "put_decision", user |-> u, change |-> c,
                                     copy |-> change[c], decision |-> decision])
    /\ UNCHANGED publicationVars

ReviewPublicationChange(r, u, c, decision) ==
    /\ change[c].status = "in_review"
    /\ change[c].author # u
    /\ Begin(r, change[c].resource, [at |-> "put_decision", user |-> u, change |-> c,
                                     copy |-> change[c], decision |-> decision])
    /\ UNCHANGED publicationVars

PutDecision(r) ==
    /\ At(r, "put_decision")
    /\ change' = [change EXCEPT ![req[r].change] = [req[r].copy EXCEPT !.status = req[r].decision]]
    /\ decisions' = decisions \cup
           {[change |-> req[r].change, by |-> req[r].user, decision |-> req[r].decision]}
    /\ Goto(r, [at |-> "find_submission"])
    /\ UNCHANGED <<submission, fees>>

Named(c) == {s \in Submissions : submission[s].status # "none" /\ submission[s].change = c}

FindSubmission(r) ==
    /\ At(r, "find_submission")
    /\ \/ \E s \in Named(req[r].change) :
              Goto(r, [at |-> "put_reviewed", submission |-> s, found |-> submission[s]])
       \/ Named(req[r].change) = {} /\ Answer(r)
    /\ UNCHANGED publicationVars

PutReviewed(r) ==
    /\ At(r, "put_reviewed")
    /\ submission' = [submission EXCEPT ![req[r].submission] =
           [req[r].found EXCEPT !.status = req[r].decision,
                                !.level = IF req[r].decision = "approved" THEN "human_verified"
                                                                           ELSE "evidence_submitted"]]
    /\ Answer(r)
    /\ UNCHANGED <<change, fees, decisions>>

PublicationCall(r) ==
    \/ \E s \in Submissions : CreateSubmission(r, s)
    \/ \E s \in {"none"} \cup {t \in Submissions : submission[t] # NoSubmission} : DeclareFee(r, s)
    \/ \E u \in Partners, s \in Submissions : SubmitForReview(r, u, s)
    \/ \E u \in Researchers : CreatePublicationChange(r, u)
    \/ \E u \in Researchers, c \in Changes : SubmitPublicationChange(r, u, c)
    \/ \E u \in Reviewers, c \in Changes, d \in {"approved", "rejected"} :
           ReviewPublicationChange(r, u, c, d)

PublicationStep(r) ==
    \/ PutChange(r) \/ PutSubmission(r)
    \/ PutInReview(r)
    \/ PutDecision(r) \/ FindSubmission(r) \/ PutReviewed(r)

PublicationNext == \E r \in Request : PublicationStep(r) \/ PublicationCall(r)

-------------------------------------------------------------------------------
(* Properties.                                                             *)

PublicationTypeOK ==
    /\ \A s \in Submissions : submission[s] = NoSubmission \/
           submission[s] \in [status : {"draft", "in_review", "approved", "rejected"},
                              change : Changes \cup {"none"},
                              level : {"evidence_submitted", "human_verified"}]
    /\ \A c \in Changes : change[c] = NoChange \/
           change[c] \in [status : {"draft", "in_review", "approved", "rejected"},
                          author : Partners \cup Researchers, resource : Submissions \cup Changes]
    /\ fees \subseteq Submissions \cup {"none"}

\* What a submission says of its review is true, however reviews and hand-ins
\* overlap: a decided submission names a change on which someone other than the
\* author took that decision.  When nothing overlapped and nothing failed, a
\* submission and the change it names end with the same status.
SubmissionFollowsReview ==
    \A s \in Submissions : submission[s].status # "none" =>
        LET named == submission[s].change
        IN  /\ submission[s].status \in {"approved", "rejected"} =>
                   \E d \in decisions : /\ d.change = named
                                        /\ d.decision = submission[s].status
                                        /\ d.by # change[named].author
            /\ submission[s].level = "human_verified" => submission[s].status = "approved"
            /\ Undisturbed(s) /\ (\A r \in Request : req[r] = Idle \/ req[r].on # s)
                   => named = "none" \/ change[named].status = submission[s].status
===============================================================================

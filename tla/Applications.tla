----------------------------- MODULE Applications -----------------------------
(***************************************************************************)
(* Applications for jobs and study programmes of one applicant (Work- and  *)
(* StudyService), the partners' access to them and their pipeline          *)
(* (SupplyService).  Partner and applicant write the same record: each     *)
(* reads it, decides, and writes back its copy with a new status.          *)
(***************************************************************************)
EXTENDS Requests

CONSTANTS
    WorkApps, StudyApps,
    Orgs,    \* organizations that take part in every application and can transact
    Grants,  \* ids of grants, each with its consent
    Risks,   \* scans of the applicant that raise a risk about the job
    Slots    \* ids of entries of the shortlist, all of one programme

VARIABLES
    application, \* the status of workApplications and studyApplications
    hasCase,     \* applications whose case has been created
    scans,       \* scans stored with verdict HIGH_RISK or UNKNOWN_HUMAN_CHECK_REQUIRED
    offerDecisions,
    grant,       \* partnerAccessGrants
    consent,     \* consents, by grant
    events,      \* partnerPipelineEvents
    shortlist    \* studyShortlists

applicationVars ==
    <<application, hasCase, scans, offerDecisions, grant, consent, events, shortlist>>

Apps == WorkApps \cup StudyApps

WorkStatus ==
    [screen |-> "screening", invite_interview |-> "interview", record_offer |-> "offer_received",
     reject |-> "rejected", withdraw_offer |-> "withdrawn"]
StudyStatus ==
    [screen |-> "institution_review", invite_interview |-> "institution_review",
     record_offer |-> "conditional_offer", reject |-> "rejected",
     withdraw_offer |-> "withdrawn", record_enrolment |-> "accepted"]
StatusAfter(a) == IF a \in WorkApps THEN WorkStatus ELSE StudyStatus

Statuses == {"submitted", "accepted", "withdrawn"}
        \cup {WorkStatus[x] : x \in DOMAIN WorkStatus}
        \cup {StudyStatus[x] : x \in DOMAIN StudyStatus}

NoGrant == [status |-> "none"]
Grant(a, o) == [status |-> "active", app |-> a, org |-> o]

\* Initially applications may have come as far as an offer, with access granted.
ApplicationsInit ==
    /\ application \in [Apps -> {"none", "submitted", "offer_received"}]
    /\ \A a \in StudyApps : application[a] # "offer_received"
    /\ hasCase = {a \in Apps : application[a] # "none"}
    /\ scans = {} /\ offerDecisions = {} /\ events = {} /\ shortlist = {}
    /\ \E a \in Apps, o \in Orgs, g \in Grants :
           /\ grant \in {[h \in Grants |-> NoGrant],
                         [h \in Grants |-> IF h = g THEN Grant(a, o) ELSE NoGrant]}
           /\ application[a] = "offer_received" => grant[g] # NoGrant
           /\ grant[g] # NoGrant => application[a] # "none"
    /\ consent = [g \in Grants |-> IF grant[g] = NoGrant THEN "none" ELSE "granted"]

Active(g) == grant[g].status = "active"
Revoked   == {g \in Grants : grant[g].status = "revoked"}

-------------------------------------------------------------------------------
(* createApplication of both services: the case, then the application.     *)

\* What each service asks of an eligibility and its acknowledgement.
MayApply(a, eligibility, acknowledged) ==
    IF a \in WorkApps
    THEN eligibility # "ineligible" /\ (eligibility = "eligible" \/ acknowledged)
    ELSE eligibility = "unknown" => acknowledged

\* Mutant of CreateApplication: the application is written without its case.
CreateApplicationOnly(r, a) ==
    /\ application[a] = "none" /\ a \notin hasCase
    /\ Begin(r, a, [at |-> "put_application"])
    /\ UNCHANGED applicationVars

CreateApplication(r, a) ==
    /\ application[a] = "none" /\ a \notin hasCase
    /\ \E e \in {"eligible", "conditional", "unknown", "ineligible"}, k \in BOOLEAN : MayApply(a, e, k)
    /\ Begin(r, a, [at |-> "put_application"])
    /\ hasCase' = hasCase \cup {a}
    /\ UNCHANGED <<application, scans, offerDecisions, grant, consent, events, shortlist>>

PutApplication(r) ==
    /\ At(r, "put_application")
    /\ application' = [application EXCEPT ![req[r].on] = "submitted"]
    /\ Answer(r)
    /\ UNCHANGED <<hasCase, scans, offerDecisions, grant, consent, events, shortlist>>

(* WorkService.decideOffer.                                                *)

\* The scanner stores a scan that matches the job of the application.
Scan(r, x) ==
    /\ x \notin scans
    /\ Single(r, x)
    /\ scans' = scans \cup {x}
    /\ UNCHANGED <<application, hasCase, offerDecisions, grant, consent, events, shortlist>>

DecideOffer(r, a, decision, acknowledged) ==
    /\ application[a] = "offer_received"
    /\ Begin(r, a, [at |-> "list_scans", decision |-> decision, acknowledged |-> acknowledged,
                    known |-> scans])
    /\ UNCHANGED applicationVars

\* Mutant of ListScans: the acknowledgement is not compared with the review.
ListScansOnly(r) ==
    /\ At(r, "list_scans")
    /\ Goto(r, [at |-> "put_decision", unresolved |-> scans])
    /\ UNCHANGED applicationVars

\* offerReview: an acceptance must acknowledge every risk on record by now.
ListScans(r) ==
    /\ At(r, "list_scans")
    /\ IF req[r].decision = "accepted" /\ ~(scans \subseteq req[r].acknowledged)
       THEN Answer(r)
       ELSE Goto(r, [at |-> "put_decision", unresolved |-> scans])
    /\ UNCHANGED applicationVars

PutOfferDecision(r) ==
    /\ At(r, "put_decision")
    /\ offerDecisions' = offerDecisions \cup
           {[app |-> req[r].on, decision |-> req[r].decision, known |-> req[r].known,
             unresolved |-> req[r].unresolved, acknowledged |-> req[r].acknowledged]}
    /\ Goto(r, [at |-> "put_decided"])
    /\ UNCHANGED <<application, hasCase, scans, grant, consent, events, shortlist>>

\* Only the status of an application is ever rewritten: the copy is the record.
PutDecided(r) ==
    /\ At(r, "put_decided")
    /\ application' = [application EXCEPT ![req[r].on] =
           IF req[r].decision = "accepted" THEN "accepted" ELSE "withdrawn"]
    /\ Answer(r)
    /\ UNCHANGED <<hasCase, scans, offerDecisions, grant, consent, events, shortlist>>

(* SupplyService.                                                          *)

GrantAccess(r, a, o) ==
    /\ application[a] # "none"
    /\ ~\E g \in Grants : Active(g) /\ grant[g].app = a /\ grant[g].org = o
    /\ Begin(r, a, [at |-> "put_consent", org |-> o])
    /\ UNCHANGED applicationVars

FreshGrants == {g \in Grants : consent[g] = "none" /\ grant[g] = NoGrant}

PutConsent(r) ==
    /\ At(r, "put_consent") /\ FreshGrants # {}
    /\ LET g == CHOOSE g \in FreshGrants : TRUE
       IN  /\ consent' = [consent EXCEPT ![g] = "granted"]
           /\ Goto(r, [at |-> "put_grant", grant |-> g])
    /\ UNCHANGED <<application, hasCase, scans, offerDecisions, grant, events, shortlist>>

PutGrant(r) ==
    /\ At(r, "put_grant")
    /\ grant' = [grant EXCEPT ![req[r].grant] = Grant(req[r].on, req[r].org)]
    /\ Answer(r)
    /\ UNCHANGED <<application, hasCase, scans, offerDecisions, consent, events, shortlist>>

RevokeAccess(r, g) ==
    /\ Active(g)
    /\ Begin(r, grant[g].app, [at |-> "put_revoked", grant |-> g, copy |-> grant[g]])
    /\ UNCHANGED applicationVars

PutRevoked(r) ==
    /\ At(r, "put_revoked")
    /\ grant' = [grant EXCEPT ![req[r].grant] = [req[r].copy EXCEPT !.status = "revoked"]]
    /\ Goto(r, [at |-> "put_withdrawn"])
    /\ UNCHANGED <<application, hasCase, scans, offerDecisions, consent, events, shortlist>>

PutWithdrawn(r) ==
    /\ At(r, "put_withdrawn")
    /\ consent' = [consent EXCEPT ![req[r].grant] = "withdrawn"]
    /\ Answer(r)
    /\ UNCHANGED <<application, hasCase, scans, offerDecisions, grant, events, shortlist>>

\* Mutant of UpdatePipeline: a revoked grant is found as well.
UpdatePipelineAnyGrant(r, g, action) ==
    /\ grant[g] # NoGrant
    /\ action \in DOMAIN StatusAfter(grant[g].app)
    /\ Begin(r, grant[g].app, [at |-> "put_status", grant |-> g, action |-> action, dead |-> Revoked])
    /\ UNCHANGED applicationVars

\* The partner of grant g moves its application to any status of the pipeline.
UpdatePipeline(r, g, action) ==
    /\ Active(g)
    /\ action \in DOMAIN StatusAfter(grant[g].app)
    /\ Begin(r, grant[g].app, [at |-> "put_status", grant |-> g, action |-> action, dead |-> Revoked])
    /\ UNCHANGED applicationVars

PutStatus(r) ==
    /\ At(r, "put_status")
    /\ application' = [application EXCEPT ![req[r].on] = StatusAfter(req[r].on)[req[r].action]]
    /\ Goto(r, [at |-> "put_event"])
    /\ UNCHANGED <<hasCase, scans, offerDecisions, grant, consent, events, shortlist>>

PutEvent(r) ==
    /\ At(r, "put_event")
    /\ events' = events \cup
           {[app |-> req[r].on, action |-> req[r].action, grant |-> req[r].grant, dead |-> req[r].dead]}
    /\ Answer(r)
    /\ UNCHANGED <<application, hasCase, scans, offerDecisions, grant, consent, shortlist>>

(* StudyService.addShortlist and removeShortlist.                          *)

AddShortlist(r) ==
    /\ shortlist # Slots
    /\ Begin(r, "shortlist",
             [at |-> "put_slot",
              slot |-> CHOOSE i \in (IF shortlist = {} THEN Slots ELSE shortlist) : TRUE,
              new |-> shortlist = {}])
    /\ UNCHANGED applicationVars

\* A new entry has an id of its own.
PutSlot(r) ==
    /\ At(r, "put_slot")
    /\ LET free == Slots \ shortlist
           slot == IF req[r].new /\ free # {} THEN CHOOSE i \in free : TRUE ELSE req[r].slot
       IN  shortlist' = shortlist \cup {slot}
    /\ Answer(r)
    /\ UNCHANGED <<application, hasCase, scans, offerDecisions, grant, consent, events>>

RemoveShortlist(r, i) ==
    /\ i \in shortlist
    /\ Single(r, "shortlist")
    /\ shortlist' = shortlist \ {i}
    /\ UNCHANGED <<application, hasCase, scans, offerDecisions, grant, consent, events>>

ApplicationsCall(r) ==
    \/ \E a \in Apps : CreateApplication(r, a)
    \/ \E x \in Risks : Scan(r, x)
    \/ \E a \in WorkApps, d \in {"accepted", "declined"}, K \in SUBSET scans : DecideOffer(r, a, d, K)
    \/ \E a \in Apps, o \in Orgs : GrantAccess(r, a, o)
    \/ \E g \in Grants : RevokeAccess(r, g)
    \/ \E g \in Grants, x \in DOMAIN WorkStatus \cup DOMAIN StudyStatus : UpdatePipeline(r, g, x)
    \/ AddShortlist(r)
    \/ \E i \in Slots : RemoveShortlist(r, i)

ApplicationsStep(r) ==
    \/ PutApplication(r)
    \/ ListScans(r) \/ PutOfferDecision(r) \/ PutDecided(r)
    \/ PutConsent(r) \/ PutGrant(r) \/ PutRevoked(r) \/ PutWithdrawn(r)
    \/ PutStatus(r) \/ PutEvent(r)
    \/ PutSlot(r)

ApplicationsNext == \E r \in Request : ApplicationsStep(r) \/ ApplicationsCall(r)

-------------------------------------------------------------------------------
(* Properties.                                                             *)

ApplicationsTypeOK ==
    /\ application \in [Apps -> Statuses \cup {"none"}]
    /\ \A a \in Apps : application[a] # "none" => a \in hasCase
    /\ consent \in [Grants -> {"none", "granted", "withdrawn"}]
    /\ shortlist \subseteq Slots

\* An accepted job was accepted by the applicant (decideOffer) in full knowledge:
\* whatever partner and applicant write over each other, there is a decision that
\* acknowledges every risk on record when it was asked for.
AcceptedKnowingly ==
    \A a \in WorkApps : application[a] = "accepted" =>
        \E d \in offerDecisions : /\ d.app = a /\ d.decision = "accepted"
                                  /\ d.known \subseteq d.acknowledged

\* A partner never acts (updatePipeline) under a grant that was revoked before its
\* call began; a grant stands on a consent on record, and at rest, when nothing
\* failed, a consent is withdrawn exactly with its grant.
GrantsFollowConsent ==
    /\ \A e \in events : e.grant \notin e.dead
    /\ \A g \in Grants : grant[g] # NoGrant =>
           /\ consent[g] # "none"
           /\ Active(g) => consent[g] = "granted"
           /\ (\A r \in Request : req[r] = Idle) /\ grant[g].app \notin faulted
                  => (Active(g) <=> consent[g] = "granted")
===============================================================================

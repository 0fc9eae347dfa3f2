----------------------------- MODULE SupplyProofs -----------------------------
(***************************************************************************)
(* Proofs about applications and the partners' access to them, about       *)
(* partner submissions and their review, about oversight, and about the    *)
(* accounts of the people behind the services (signing in by a one-time    *)
(* code, profiles and delegations): what holds of records that two calls   *)
(* read, decide on and write over each other.                              *)
(***************************************************************************)
EXTENDS ServicesProofs

-------------------------------------------------------------------------------
(* Applications: offers that are accepted, and the partners' grants. *)

\* Somebody decided to accept, acknowledging every risk on record when he asked.
Knowing(a) ==
    \E d \in offerDecisions : d.app = a /\ d.decision = "accepted" /\ d.known \subseteq d.acknowledged

\* An acceptance under way acknowledges what it has to, and a partner's call has
\* an action of the pipeline.  (The locals that a later step reads are named: only
\* a field that is there survives a step.)
OfferRequest(r) ==
    req[r] # Idle =>
        /\ At(r, "list_scans") \/ At(r, "put_decision") =>
               {"decision", "known", "acknowledged"} \subseteq DOMAIN req[r]
        /\ At(r, "list_scans") => req[r].known \subseteq scans
        /\ At(r, "put_decision") /\ req[r].decision = "accepted" =>
               req[r].known \subseteq req[r].acknowledged
        /\ At(r, "put_decided") /\ req[r].decision = "accepted" => Knowing(req[r].on)
        /\ At(r, "put_status") => req[r].action \in DOMAIN StatusAfter(req[r].on)

OfferInv ==
    /\ DOMAIN application = Apps
    /\ \A a \in WorkApps : application[a] = "accepted" => Knowing(a)
    /\ scenario = "applications" => RequestInv /\ \A r \in Request : OfferRequest(r)

GrantRecord == [status : {"active", "revoked"}, app : Apps, org : Orgs]

\* A call of grantAccess has an id of its own with the consent on record, one of
\* revokeAccess holds a copy of its grant, and one of updatePipeline began under a
\* grant that was not revoked.
AccessRequest(r) ==
    req[r] # Idle =>
        /\ At(r, "put_grant") =>
               /\ req[r].grant \in Grants
               /\ grant[req[r].grant] = NoGrant /\ consent[req[r].grant] = "granted"
               /\ \A q \in Request : q # r /\ At(q, "put_grant") => req[q].grant # req[r].grant
        /\ At(r, "put_consent") \/ At(r, "put_grant") =>
               "org" \in DOMAIN req[r] /\ req[r].on \in Apps /\ req[r].org \in Orgs
        /\ At(r, "put_revoked") =>
               /\ "grant" \in DOMAIN req[r]
               /\ req[r].grant \in Grants /\ grant[req[r].grant] \in GrantRecord
               /\ req[r].copy \in GrantRecord
               /\ req[r].copy.app = grant[req[r].grant].app
               /\ req[r].on = grant[req[r].grant].app
        /\ At(r, "put_withdrawn") =>
               /\ req[r].grant \in Grants /\ grant[req[r].grant] \in GrantRecord
               /\ grant[req[r].grant].status = "revoked"
               /\ req[r].on = grant[req[r].grant].app
        /\ At(r, "put_status") \/ At(r, "put_event") =>
               {"grant", "dead"} \subseteq DOMAIN req[r] /\ req[r].grant \notin req[r].dead

\* The consent of a revoked grant is about to be withdrawn.
Withdrawing(g) == \E r \in Request : req[r] # Idle /\ At(r, "put_withdrawn") /\ req[r].grant = g

AccessInv ==
    /\ DOMAIN grant = Grants /\ DOMAIN consent = Grants
    /\ \A e \in events : e.grant \notin e.dead
    /\ \A g \in Grants :
           /\ grant[g] \in GrantRecord \cup {NoGrant}
           /\ grant[g] # NoGrant => consent[g] \in {"granted", "withdrawn"}
           /\ consent[g] = "withdrawn" => grant[g].status = "revoked"
           /\ scenario # "applications" => grant[g] = NoGrant
    /\ scenario = "applications" =>
           /\ \A r \in Request : AccessRequest(r)
           /\ \A g \in Grants : grant[g].status = "revoked" /\ consent[g] = "granted" =>
                  grant[g].app \in faulted \/ Withdrawing(g)

ApplicationsInv == OfferInv /\ AccessInv

\* The initial states satisfy the invariant of the applications.
LEMMA ApplicationsStart == ServicesInit => ApplicationsInv
<1> SUFFICES ASSUME ServicesInit PROVE ApplicationsInv
  OBVIOUS
<1>1. ApplicationsInit /\ RequestsInit
  BY DEF ServicesInit
<1>2. RequestInv /\ \A r \in Request : req[r] = Idle
  BY <1>1, RequestsStart
<1>3. OfferInv
  BY <1>1, <1>2 DEF ApplicationsInit, OfferInv, OfferRequest, Apps
<1>4. PICK a \in Apps, o \in Orgs, g \in Grants :
          /\ grant \in {[h \in Grants |-> NoGrant],
                        [h \in Grants |-> IF h = g THEN Grant(a, o) ELSE NoGrant]}
          /\ grant[g] # NoGrant => application[a] # "none"
  BY <1>1 DEF ApplicationsInit
<1>5. consent = [h \in Grants |-> IF grant[h] = NoGrant THEN "none" ELSE "granted"] /\ events = {}
  BY <1>1 DEF ApplicationsInit
<1>6. Grant(a, o) \in GrantRecord /\ Grant(a, o).status = "active"
  BY DEF Grant, GrantRecord
<1>7. ASSUME NEW h \in Grants
      PROVE  /\ grant[h] \in GrantRecord \cup {NoGrant} /\ grant[h].status # "revoked"
             /\ scenario # "applications" => grant[h] = NoGrant
  <2>1. grant[h] = NoGrant \/ (grant[h] = Grant(a, o) /\ h = g)
    <3>1. CASE grant = [x \in Grants |-> NoGrant]
      BY <3>1
    <3>2. CASE grant = [x \in Grants |-> IF x = g THEN Grant(a, o) ELSE NoGrant]
      BY <3>2
    <3> QED
      BY <1>4, <3>1, <3>2
  <2>2. scenario # "applications" => grant[h] = NoGrant
    BY <1>4, <2>1 DEF ServicesInit
  <2> QED
    BY <1>6, <2>1, <2>2 DEF NoGrant
<1>8. DOMAIN grant = Grants
  BY <1>4
<1> QED
  BY <1>2, <1>3, <1>5, <1>7, <1>8 DEF ApplicationsInv, AccessInv, AccessRequest

\* A partner's action never makes an application for a job accepted.
LEMMA PipelineStatus ==
    ASSUME NEW a \in WorkApps, NEW action \in DOMAIN StatusAfter(a)
    PROVE  StatusAfter(a)[action] # "accepted"
BY DEF StatusAfter, WorkStatus

\* An absent grant is not a grant.
LEMMA NoGrantIsNone == NoGrant \notin GrantRecord /\ \A x \in GrantRecord : x # NoGrant
BY DEF NoGrant, GrantRecord

\* One step of a request on the applications.
LEMMA ApplicationsMoves ==
    ASSUME ApplicationsInv, scenario = "applications", scenario' = scenario,
           NEW r \in Request, ApplicationsStep(r) \/ ApplicationsCall(r)
    PROVE  ApplicationsInv'
<1> DEFINE RestKept == \A q \in Request \ {r} : req'[q] = req[q]
<1>1. RequestInv /\ \A q \in Request : OfferRequest(q) /\ AccessRequest(q)
  BY DEF ApplicationsInv, OfferInv, AccessInv
\* It is enough to look at the request and at what it wrote.
<1>2. ASSUME RequestInv', RestKept, scans \subseteq scans', offerDecisions \subseteq offerDecisions',
             OfferRequest(r)', DOMAIN application' = Apps,
             \A a \in WorkApps : application'[a] = "accepted" =>
                                     application[a] = "accepted" \/ Knowing(a)'
      PROVE  OfferInv'
  <2>1. \A a : Knowing(a) => Knowing(a)'
    BY <1>2 DEF Knowing
  <2>2. \A q \in Request \ {r} : OfferRequest(q)'
    BY <1>1, <1>2, <2>1 DEF OfferRequest, At
  <2> QED
    BY <1>2, <2>1, <2>2 DEF OfferInv, ApplicationsInv
<1>3. ASSUME RequestInv', RestKept, UNCHANGED <<grant, consent, faulted>>, AccessRequest(r)',
             \A e \in events' : e.grant \notin e.dead,
             req[r].at # "put_withdrawn", req'[r].at # "put_grant"
      PROVE  AccessInv'
  <2>1. \A q \in Request \ {r} : AccessRequest(q)'
    BY <1>1, <1>3 DEF AccessRequest, At
  <2>2. \A g : Withdrawing(g) => Withdrawing(g)'
    BY <1>3 DEF Withdrawing, At
  <2> QED
    BY <1>3, <2>1, <2>2 DEF AccessInv, ApplicationsInv
\* A step that answers the call, or is the whole of one, and writes no grant.
<1>4. ASSUME Answer(r), UNCHANGED <<scans, offerDecisions, grant, consent>>,
             \A e \in events' : e.grant \notin e.dead,
             req[r].at # "put_withdrawn", DOMAIN application' = Apps,
             \A a \in WorkApps : application'[a] = "accepted" => application[a] = "accepted" \/ Knowing(a)
      PROVE  ApplicationsInv'
  <2>1. /\ RequestInv' /\ req'[r] = Idle /\ RestKept /\ faulted' = faulted
    BY <1>1, <1>4, RequestsEnd DEF Answer
  <2>2. OfferRequest(r)' /\ AccessRequest(r)' /\ req'[r].at # "put_grant"
    BY <2>1 DEF OfferRequest, AccessRequest, Idle
  <2>3. \A a : Knowing(a) => Knowing(a)'
    BY <1>4 DEF Knowing
  <2> QED
    BY <1>2, <1>3, <1>4, <2>1, <2>2, <2>3 DEF ApplicationsInv
<1>5. ASSUME NEW x, Single(r, x), scans \subseteq scans',
             UNCHANGED <<application, offerDecisions, grant, consent, events>>
      PROVE  ApplicationsInv'
  <2>1. RequestInv' /\ req' = req /\ faulted' = faulted /\ req[r] = Idle
    BY <1>1, <1>5, RequestsSingle DEF Single
  <2>2. OfferRequest(r)' /\ AccessRequest(r)'
    BY <2>1 DEF OfferRequest, AccessRequest
  <2> QED
    BY <1>2, <1>3, <1>5, <2>1, <2>2 DEF ApplicationsInv, OfferInv, AccessInv, Idle
\* A step of a call that goes on and writes neither a grant nor an application.
<1>6. ASSUME RequestInv', RestKept, faulted' = faulted,
             scans' = scans, offerDecisions \subseteq offerDecisions',
             UNCHANGED <<application, grant, consent, events>>,
             OfferRequest(r)', AccessRequest(r)',
             req[r].at # "put_withdrawn", req'[r].at # "put_grant"
      PROVE  ApplicationsInv'
  BY <1>2, <1>3, <1>6 DEF ApplicationsInv, OfferInv, AccessInv
\* The calls.
<1>7. ASSUME NEW a \in Apps, CreateApplication(r, a)
      PROVE  ApplicationsInv'
  <2>1. /\ req'[r] = With([at |-> "put_application"], [on |-> a]) /\ RestKept
        /\ req[r] = Idle /\ faulted' = faulted
    BY <1>1, <1>7, BeginWrites DEF CreateApplication
  <2>2. {"at", "on"} \subseteq DOMAIN req'[r] /\ req'[r].at = "put_application" /\ req'[r].on = a
    BY <2>1 DEF With
  <2>3. RequestInv'
    BY <1>1, <1>7, <2>2, BeginKeeps DEF CreateApplication
  <2>4. OfferRequest(r)' /\ AccessRequest(r)'
    BY <2>2 DEF OfferRequest, AccessRequest, At
  <2> QED
    BY <1>6, <1>7, <2>1, <2>2, <2>3, <2>4 DEF CreateApplication, Idle
<1>8. ASSUME NEW x \in Risks, Scan(r, x)
      PROVE  ApplicationsInv'
  BY <1>5, <1>8 DEF Scan
<1>9. ASSUME NEW a \in WorkApps, NEW d \in {"accepted", "declined"}, NEW K \in SUBSET scans,
             DecideOffer(r, a, d, K)
      PROVE  ApplicationsInv'
  <2>1. /\ req'[r] = With([at |-> "list_scans", decision |-> d, acknowledged |-> K,
                           known |-> scans], [on |-> a]) /\ RestKept
        /\ req[r] = Idle /\ faulted' = faulted
    BY <1>1, <1>9, BeginWrites DEF DecideOffer
  <2>2. /\ {"at", "on"} \subseteq DOMAIN req'[r] /\ req'[r].at = "list_scans" /\ req'[r].on = a
        /\ req'[r].known = scans
        /\ {"decision", "known", "acknowledged"} \subseteq DOMAIN req'[r]
    BY <2>1 DEF With
  <2>3. RequestInv'
    BY <1>1, <1>9, <2>2, BeginKeeps DEF DecideOffer
  <2>4. OfferRequest(r)' /\ AccessRequest(r)'
    BY <1>9, <2>2 DEF OfferRequest, AccessRequest, At, DecideOffer, applicationVars
  <2> QED
    BY <1>6, <1>9, <2>1, <2>2, <2>3, <2>4 DEF DecideOffer, Idle, applicationVars
<1>10. ASSUME NEW a \in Apps, NEW o \in Orgs, GrantAccess(r, a, o)
       PROVE  ApplicationsInv'
  <2>1. /\ req'[r] = With([at |-> "put_consent", org |-> o], [on |-> a]) /\ RestKept
        /\ req[r] = Idle /\ faulted' = faulted
    BY <1>1, <1>10, BeginWrites DEF GrantAccess
  <2>2. /\ {"at", "on"} \subseteq DOMAIN req'[r] /\ req'[r].at = "put_consent" /\ req'[r].on = a
        /\ req'[r].org = o /\ "org" \in DOMAIN req'[r]
    BY <2>1 DEF With
  <2>3. RequestInv'
    BY <1>1, <1>10, <2>2, BeginKeeps DEF GrantAccess
  <2>4. OfferRequest(r)' /\ AccessRequest(r)'
    BY <2>2 DEF OfferRequest, AccessRequest, At
  <2> QED
    BY <1>6, <1>10, <2>1, <2>2, <2>3, <2>4 DEF GrantAccess, Idle, applicationVars
<1>11. ASSUME NEW g \in Grants, RevokeAccess(r, g)
       PROVE  ApplicationsInv'
  <2>1. /\ req'[r] = With([at |-> "put_revoked", grant |-> g, copy |-> grant[g]],
                          [on |-> grant[g].app]) /\ RestKept
        /\ req[r] = Idle /\ faulted' = faulted
    BY <1>1, <1>11, BeginWrites DEF RevokeAccess
  <2>2. /\ {"at", "on"} \subseteq DOMAIN req'[r] /\ req'[r].at = "put_revoked"
        /\ req'[r].on = grant[g].app /\ req'[r].grant = g /\ req'[r].copy = grant[g]
        /\ "grant" \in DOMAIN req'[r]
    BY <2>1 DEF With
  <2>3. RequestInv'
    BY <1>1, <1>11, <2>2, BeginKeeps DEF RevokeAccess
  <2>4. grant[g] \in GrantRecord /\ UNCHANGED applicationVars
    BY <1>11 DEF RevokeAccess, Active, ApplicationsInv, AccessInv, NoGrant
  <2>5. OfferRequest(r)' /\ AccessRequest(r)'
    BY <2>2, <2>4 DEF OfferRequest, AccessRequest, At, applicationVars
  <2> QED
    BY <1>6, <2>1, <2>2, <2>3, <2>4, <2>5 DEF Idle, applicationVars
<1>12. ASSUME NEW g \in Grants, NEW action, UpdatePipeline(r, g, action)
       PROVE  ApplicationsInv'
  <2>1. /\ req'[r] = With([at |-> "put_status", grant |-> g, action |-> action, dead |-> Revoked],
                          [on |-> grant[g].app]) /\ RestKept
        /\ req[r] = Idle /\ faulted' = faulted
    BY <1>1, <1>12, BeginWrites DEF UpdatePipeline
  <2>2. /\ {"at", "on"} \subseteq DOMAIN req'[r] /\ req'[r].at = "put_status"
        /\ req'[r].on = grant[g].app /\ req'[r].grant = g /\ req'[r].action = action
        /\ req'[r].dead = Revoked /\ {"grant", "dead"} \subseteq DOMAIN req'[r]
    BY <2>1 DEF With
  <2>3. RequestInv'
    BY <1>1, <1>12, <2>2, BeginKeeps DEF UpdatePipeline
  <2>4. g \notin Revoked /\ action \in DOMAIN StatusAfter(grant[g].app) /\ UNCHANGED applicationVars
    BY <1>12 DEF UpdatePipeline, Active, Revoked
  <2>5. OfferRequest(r)' /\ AccessRequest(r)'
    BY <2>2, <2>4 DEF OfferRequest, AccessRequest, At, applicationVars
  <2> QED
    BY <1>6, <2>1, <2>2, <2>3, <2>4, <2>5 DEF Idle, applicationVars
<1>13. ASSUME AddShortlist(r)
       PROVE  ApplicationsInv'
  <2> DEFINE i == CHOOSE j \in (IF shortlist = {} THEN Slots ELSE shortlist) : TRUE
             new == shortlist = {}
  <2>0. Begin(r, "shortlist", [at |-> "put_slot", slot |-> i, new |-> new])
    BY <1>13 DEF AddShortlist
  <2> HIDE DEF i, new
  <2>1. /\ req'[r] = With([at |-> "put_slot", slot |-> i, new |-> new], [on |-> "shortlist"])
        /\ RestKept /\ req[r] = Idle /\ faulted' = faulted
    BY <1>1, <2>0, BeginWrites
  <2>2. {"at", "on"} \subseteq DOMAIN req'[r] /\ req'[r].at = "put_slot" /\ req'[r].on = "shortlist"
    BY <2>1 DEF With
  <2>3. RequestInv'
    BY <1>1, <2>0, <2>2, BeginKeeps
  <2>4. OfferRequest(r)' /\ AccessRequest(r)'
    BY <2>2 DEF OfferRequest, AccessRequest, At
  <2> QED
    BY <1>6, <1>13, <2>1, <2>2, <2>3, <2>4 DEF AddShortlist, Idle, applicationVars
<1>14. ASSUME NEW i \in Slots, RemoveShortlist(r, i)
       PROVE  ApplicationsInv'
  BY <1>5, <1>14 DEF RemoveShortlist
\* The steps.
<1>15. ASSUME PutApplication(r)
       PROVE  ApplicationsInv'
  <2>1. DOMAIN application' = Apps
    BY <1>15 DEF PutApplication, ApplicationsInv, OfferInv
  <2>2. \A a \in WorkApps : application'[a] = "accepted" => application[a] = "accepted"
    BY <1>15 DEF PutApplication, ApplicationsInv, OfferInv, Apps
  <2> QED
    BY <1>4, <1>15, <2>1, <2>2 DEF PutApplication, At, ApplicationsInv, AccessInv
<1>16. ASSUME ListScans(r)
       PROVE  ApplicationsInv'
  <2>1. /\ req[r] # Idle /\ At(r, "list_scans") /\ req[r].known \subseteq scans
        /\ {"decision", "known", "acknowledged"} \subseteq DOMAIN req[r]
    BY <1>1, <1>16, AtIsBusy DEF ListScans, OfferRequest
  <2>2. CASE Answer(r)
    BY <1>4, <1>16, <2>1, <2>2 DEF ListScans, At, ApplicationsInv, AccessInv, OfferInv, applicationVars
  <2>3. CASE /\ Goto(r, [at |-> "put_decision", unresolved |-> scans])
             /\ req[r].decision = "accepted" => scans \subseteq req[r].acknowledged
    <3>1. /\ req'[r] = With([at |-> "put_decision", unresolved |-> scans], req[r])
          /\ RestKept /\ faulted' = faulted
      BY <1>1, <2>3, GotoWrites
    <3>2. /\ {"at", "on"} \subseteq DOMAIN req'[r] /\ req'[r].at = "put_decision"
          /\ req'[r].on = req[r].on
          /\ {"decision", "known", "acknowledged"} \subseteq DOMAIN req'[r]
          /\ req'[r].decision = "accepted" => req'[r].known \subseteq req'[r].acknowledged
      BY <1>1, <2>1, <2>3, <3>1 DEF With, RequestInv
    <3>3. RequestInv'
      BY <1>1, <2>1, <2>3, <3>2, GotoKeeps
    <3>4. OfferRequest(r)' /\ AccessRequest(r)'
      BY <3>2 DEF OfferRequest, AccessRequest, At
    <3> QED
      BY <1>6, <1>16, <2>1, <3>1, <3>2, <3>3, <3>4 DEF ListScans, At, applicationVars
  <2> QED
    BY <1>16, <2>2, <2>3 DEF ListScans
<1>17. ASSUME PutOfferDecision(r)
       PROVE  ApplicationsInv'
  <2>1. /\ req[r] # Idle /\ At(r, "put_decision")
        /\ {"decision", "known", "acknowledged"} \subseteq DOMAIN req[r]
        /\ req[r].decision = "accepted" => req[r].known \subseteq req[r].acknowledged
    BY <1>1, <1>17, AtIsBusy DEF PutOfferDecision, OfferRequest
  <2>2. req'[r] = With([at |-> "put_decided"], req[r]) /\ RestKept /\ faulted' = faulted
    BY <1>1, <1>17, GotoWrites DEF PutOfferDecision
  <2>3. /\ {"at", "on"} \subseteq DOMAIN req'[r] /\ req'[r].at = "put_decided"
        /\ req'[r].on = req[r].on /\ req'[r].decision = req[r].decision
    BY <1>1, <2>1, <2>2 DEF With, RequestInv
  <2>4. RequestInv'
    BY <1>1, <1>17, <2>1, <2>3, GotoKeeps DEF PutOfferDecision
  <2> DEFINE d == [app |-> req[r].on, decision |-> req[r].decision, known |-> req[r].known,
                   unresolved |-> req[r].unresolved, acknowledged |-> req[r].acknowledged]
  <2>5. d \in offerDecisions' /\ offerDecisions \subseteq offerDecisions'
    BY <1>17 DEF PutOfferDecision
  <2>6. req[r].decision = "accepted" => Knowing(req[r].on)'
    BY <2>1, <2>3, <2>5 DEF Knowing
  <2>7. OfferRequest(r)' /\ AccessRequest(r)'
    BY <2>3, <2>6 DEF OfferRequest, AccessRequest, At
  <2> QED
    BY <1>6, <1>17, <2>1, <2>2, <2>3, <2>4, <2>5, <2>7 DEF PutOfferDecision, At
<1>18. ASSUME PutDecided(r)
       PROVE  ApplicationsInv'
  <2>1. /\ req[r] # Idle /\ req[r].at = "put_decided"
        /\ req[r].decision = "accepted" => Knowing(req[r].on)
    BY <1>1, <1>18, AtIsBusy DEF PutDecided, OfferRequest, At
  <2>2. DOMAIN application' = Apps
    BY <1>18 DEF PutDecided, ApplicationsInv, OfferInv
  <2>3. \A a \in WorkApps : application'[a] = "accepted" => application[a] = "accepted" \/ Knowing(a)
    BY <1>18, <2>1 DEF PutDecided, ApplicationsInv, OfferInv, Apps
  <2> QED
    BY <1>4, <1>18, <2>1, <2>2, <2>3 DEF PutDecided, ApplicationsInv, AccessInv
<1>19. ASSUME PutStatus(r)
       PROVE  ApplicationsInv'
  <2>1. /\ req[r] # Idle /\ At(r, "put_status")
        /\ req[r].action \in DOMAIN StatusAfter(req[r].on)
        /\ {"grant", "dead"} \subseteq DOMAIN req[r] /\ req[r].grant \notin req[r].dead
    BY <1>1, <1>19, AtIsBusy DEF PutStatus, OfferRequest, AccessRequest
  <2>2. req'[r] = With([at |-> "put_event"], req[r]) /\ RestKept /\ faulted' = faulted
    BY <1>1, <1>19, GotoWrites DEF PutStatus
  <2>3. /\ {"at", "on"} \subseteq DOMAIN req'[r] /\ req'[r].at = "put_event"
        /\ req'[r].on = req[r].on /\ req'[r].grant = req[r].grant /\ req'[r].dead = req[r].dead
        /\ {"grant", "dead"} \subseteq DOMAIN req'[r]
    BY <1>1, <2>1, <2>2 DEF With, RequestInv
  <2>4. RequestInv'
    BY <1>1, <1>19, <2>1, <2>3, GotoKeeps DEF PutStatus
  <2>5. OfferRequest(r)' /\ AccessRequest(r)'
    BY <2>1, <2>3 DEF OfferRequest, AccessRequest, At
  <2>6. DOMAIN application' = Apps
    BY <1>19 DEF PutStatus, ApplicationsInv, OfferInv
  <2>7. \A a \in WorkApps : application'[a] = "accepted" => application[a] = "accepted"
    <3>1. \A a \in WorkApps : a # req[r].on => application'[a] = application[a]
      BY <1>19 DEF PutStatus
    <3>2. req[r].on \in WorkApps => application'[req[r].on] # "accepted"
      BY <1>19, <2>1, PipelineStatus DEF PutStatus, ApplicationsInv, OfferInv, Apps
    <3> QED
      BY <3>1, <3>2
  <2>8. OfferInv'
    BY <1>2, <1>19, <2>2, <2>4, <2>5, <2>6, <2>7 DEF PutStatus
  <2>9. AccessInv'
    BY <1>3, <1>19, <2>1, <2>2, <2>3, <2>4, <2>5 DEF PutStatus, At, ApplicationsInv, AccessInv
  <2> QED
    BY <2>8, <2>9 DEF ApplicationsInv
<1>20. ASSUME PutEvent(r)
       PROVE  ApplicationsInv'
  <2>1. req[r] # Idle /\ req[r].at = "put_event" /\ req[r].grant \notin req[r].dead
    BY <1>1, <1>20, AtIsBusy DEF PutEvent, AccessRequest, At
  <2>2. \A e \in events' : e.grant \notin e.dead
    BY <1>20, <2>1 DEF PutEvent, ApplicationsInv, AccessInv
  <2> QED
    BY <1>4, <1>20, <2>1, <2>2 DEF PutEvent, ApplicationsInv, OfferInv
<1>21. ASSUME PutSlot(r)
       PROVE  ApplicationsInv'
  BY <1>4, <1>21 DEF PutSlot, At, ApplicationsInv, OfferInv, AccessInv
\* The steps that write grants and consents: the others' grants are as they were.
<1>22. ASSUME PutConsent(r)
       PROVE  ApplicationsInv'
  <2> DEFINE g == CHOOSE h \in FreshGrants : TRUE
  <2>1. g \in Grants /\ consent[g] = "none" /\ grant[g] = NoGrant
    BY <1>22 DEF PutConsent, FreshGrants
  <2>2. consent' = [consent EXCEPT ![g] = "granted"] /\ Goto(r, [at |-> "put_grant", grant |-> g])
    BY <1>22 DEF PutConsent
  <2>3. /\ UNCHANGED <<application, scans, offerDecisions, grant, events>>
        /\ At(r, "put_consent") /\ req[r] # Idle
    BY <1>22, AtIsBusy DEF PutConsent
  <2> HIDE DEF g
  <2>4. req'[r] = With([at |-> "put_grant", grant |-> g], req[r]) /\ RestKept /\ faulted' = faulted
    BY <1>1, <2>2, GotoWrites
  <2>5. "org" \in DOMAIN req[r] /\ req[r].on \in Apps /\ req[r].org \in Orgs
    BY <1>1, <2>3 DEF AccessRequest
  <2>6. /\ {"at", "on", "org"} \subseteq DOMAIN req'[r] /\ req'[r].at = "put_grant"
        /\ req'[r].on = req[r].on /\ req'[r].grant = g /\ req'[r].org = req[r].org
    BY <1>1, <2>3, <2>4, <2>5 DEF With, RequestInv
  <2>7. RequestInv'
    BY <1>1, <2>2, <2>3, <2>6, GotoKeeps
  <2>8. OfferInv'
    <3>1. OfferRequest(r)'
      BY <2>6 DEF OfferRequest, At
    <3> QED
      BY <1>2, <2>3, <2>4, <2>7, <3>1 DEF ApplicationsInv, OfferInv
  <2>9. \A h \in Grants : consent'[h] = IF h = g THEN "granted" ELSE consent[h]
    BY <2>2 DEF ApplicationsInv, AccessInv
  <2>10. \A q \in Request \ {r} : At(q, "put_grant") => req[q].grant # g
    BY <1>1, <2>1, AtIsBusy DEF AccessRequest
  <2>11. \A q \in Request \ {r} : AccessRequest(q)'
    BY <1>1, <2>3, <2>4, <2>6, <2>9, <2>10 DEF AccessRequest, At
  <2>12. AccessRequest(r)'
    BY <2>1, <2>3, <2>4, <2>5, <2>6, <2>9, <2>10 DEF AccessRequest, At
  <2>13. \A h : Withdrawing(h) => Withdrawing(h)'
    BY <2>3, <2>4 DEF Withdrawing, At
  <2>14. DOMAIN consent' = Grants
    BY <2>2 DEF ApplicationsInv, AccessInv
  <2>15. AccessInv'
    BY <2>1, <2>3, <2>4, <2>9, <2>11, <2>12, <2>13, <2>14 DEF ApplicationsInv, AccessInv, NoGrant
  <2> QED
    BY <2>8, <2>15 DEF ApplicationsInv
<1>23. ASSUME PutGrant(r)
       PROVE  ApplicationsInv'
  <2>1. PICK g : g = req[r].grant
    OBVIOUS
  <2>2. /\ req[r] # Idle /\ At(r, "put_grant") /\ g \in Grants
        /\ grant[g] = NoGrant /\ consent[g] = "granted"
        /\ req[r].on \in Apps /\ req[r].org \in Orgs
    BY <1>1, <1>23, <2>1, AtIsBusy DEF PutGrant, AccessRequest
  <2>3. /\ Grant(req[r].on, req[r].org) \in GrantRecord
        /\ Grant(req[r].on, req[r].org).status = "active"
    BY <2>2 DEF Grant, GrantRecord
  <2>4. \A h \in Grants : grant'[h] = IF h = g THEN Grant(req[r].on, req[r].org) ELSE grant[h]
    BY <1>23, <2>1 DEF PutGrant, ApplicationsInv, AccessInv
  <2>5. RequestInv' /\ req'[r] = Idle /\ RestKept /\ faulted' = faulted
    BY <1>1, <1>23, RequestsEnd DEF PutGrant, Answer
  <2>6. OfferInv'
    <3>1. OfferRequest(r)'
      BY <2>5 DEF OfferRequest
    <3> QED
      BY <1>2, <1>23, <2>5, <3>1 DEF PutGrant, ApplicationsInv, OfferInv
  <2>7. \A q \in Request \ {r} : At(q, "put_grant") => req[q].grant # g
    BY <1>1, <2>1, <2>2 DEF AccessRequest
  <2>8. \A q \in Request \ {r} : AccessRequest(q)'
    BY <1>1, <1>23, <2>2, <2>4, <2>5, <2>7, NoGrantIsNone DEF PutGrant, AccessRequest, At, Idle
  <2>9. AccessRequest(r)'
    BY <2>5 DEF AccessRequest
  <2>10. \A h : Withdrawing(h) => Withdrawing(h)'
    BY <2>2, <2>5 DEF Withdrawing, At
  <2>11. AccessInv'
    BY <1>23, <2>2, <2>3, <2>4, <2>5, <2>8, <2>9, <2>10 DEF PutGrant, ApplicationsInv, AccessInv, NoGrant
  <2> QED
    BY <2>6, <2>11 DEF ApplicationsInv
<1>24. ASSUME PutRevoked(r)
       PROVE  ApplicationsInv'
  <2>1. PICK g : g = req[r].grant
    OBVIOUS
  <2>2. /\ req[r] # Idle /\ At(r, "put_revoked") /\ g \in Grants /\ "grant" \in DOMAIN req[r]
        /\ grant[g] \in GrantRecord /\ req[r].copy \in GrantRecord
        /\ req[r].copy.app = grant[g].app /\ req[r].on = grant[g].app
    BY <1>1, <1>24, <2>1, AtIsBusy DEF PutRevoked, AccessRequest
  <2>3. PICK x : x = [req[r].copy EXCEPT !.status = "revoked"]
    OBVIOUS
  <2>4. x \in GrantRecord /\ x.status = "revoked" /\ x.app = grant[g].app
    BY <2>2, <2>3 DEF GrantRecord
  <2>5. \A h \in Grants : grant'[h] = IF h = g THEN x ELSE grant[h]
    BY <1>24, <2>1, <2>3 DEF PutRevoked, ApplicationsInv, AccessInv
  <2>6. req'[r] = With([at |-> "put_withdrawn"], req[r]) /\ RestKept /\ faulted' = faulted
    BY <1>1, <1>24, GotoWrites DEF PutRevoked
  <2>7. /\ {"at", "on", "grant"} \subseteq DOMAIN req'[r] /\ req'[r].at = "put_withdrawn"
        /\ req'[r].on = req[r].on /\ req'[r].grant = g
    BY <1>1, <2>1, <2>2, <2>6 DEF With, RequestInv
  <2>8. RequestInv'
    BY <1>1, <1>24, <2>2, <2>7, GotoKeeps DEF PutRevoked
  <2>9. OfferInv'
    <3>1. OfferRequest(r)'
      BY <2>7 DEF OfferRequest, At
    <3> QED
      BY <1>2, <1>24, <2>6, <2>8, <3>1 DEF PutRevoked, ApplicationsInv, OfferInv
  <2>10. \A q \in Request \ {r} : AccessRequest(q)'
    BY <1>1, <1>24, <2>2, <2>4, <2>5, <2>6, <2>7, NoGrantIsNone DEF PutRevoked, AccessRequest, At
  <2>11. AccessRequest(r)'
    BY <2>2, <2>4, <2>5, <2>7 DEF AccessRequest, At
  <2>12. \A h : Withdrawing(h) => Withdrawing(h)'
    BY <2>2, <2>6 DEF Withdrawing, At
  <2>13. Withdrawing(g)'
    BY <2>7 DEF Withdrawing, At, Idle
  <2>14. AccessInv'
    <3>1. /\ consent' = consent /\ events' = events /\ faulted' = faulted
          /\ DOMAIN grant' = Grants /\ DOMAIN consent' = Grants
          /\ \A e \in events' : e.grant \notin e.dead
      BY <1>24, <2>6 DEF PutRevoked, ApplicationsInv, AccessInv
    <3>2. ASSUME NEW h \in Grants
          PROVE  /\ grant'[h] \in GrantRecord \cup {NoGrant}
                 /\ grant'[h] # NoGrant => consent'[h] \in {"granted", "withdrawn"}
                 /\ consent'[h] = "withdrawn" => grant'[h].status = "revoked"
      <4>1. CASE h = g
        BY <2>2, <2>4, <2>5, <3>1, <4>1, NoGrantIsNone DEF ApplicationsInv, AccessInv
      <4>2. CASE h # g
        BY <2>5, <3>1, <4>2 DEF ApplicationsInv, AccessInv
      <4> QED
        BY <4>1, <4>2
    <3>3. ASSUME NEW h \in Grants, grant'[h].status = "revoked", consent'[h] = "granted"
          PROVE  grant'[h].app \in faulted' \/ Withdrawing(h)'
      <4>1. CASE h = g
        BY <2>13, <4>1
      <4>2. CASE h # g
        BY <2>5, <2>12, <3>1, <3>3, <4>2 DEF ApplicationsInv, AccessInv
      <4> QED
        BY <4>1, <4>2
    <3>4. \A q \in Request : AccessRequest(q)'
      BY <2>10, <2>11
    <3> QED
      BY <3>1, <3>2, <3>3, <3>4 DEF AccessInv
  <2> QED
    BY <2>9, <2>14 DEF ApplicationsInv
<1>25. ASSUME PutWithdrawn(r)
       PROVE  ApplicationsInv'
  <2>1. PICK g : g = req[r].grant
    OBVIOUS
  <2>2. /\ req[r] # Idle /\ At(r, "put_withdrawn") /\ g \in Grants
        /\ grant[g] \in GrantRecord /\ grant[g].status = "revoked"
    BY <1>1, <1>25, <2>1, AtIsBusy DEF PutWithdrawn, AccessRequest
  <2>3. \A h \in Grants : consent'[h] = IF h = g THEN "withdrawn" ELSE consent[h]
    BY <1>25, <2>1 DEF PutWithdrawn, ApplicationsInv, AccessInv
  <2>4. RequestInv' /\ req'[r] = Idle /\ RestKept /\ faulted' = faulted
    BY <1>1, <1>25, RequestsEnd DEF PutWithdrawn, Answer
  <2>5. OfferInv'
    <3>1. OfferRequest(r)'
      BY <2>4 DEF OfferRequest
    <3> QED
      BY <1>2, <1>25, <2>4, <3>1 DEF PutWithdrawn, ApplicationsInv, OfferInv
  <2>6. \A q \in Request \ {r} : AccessRequest(q)'
    BY <1>1, <1>25, <2>2, <2>3, <2>4, NoGrantIsNone DEF PutWithdrawn, AccessRequest, At, Idle
  <2>7. AccessRequest(r)'
    BY <2>4 DEF AccessRequest
  <2>8. \A h \in Grants \ {g} : Withdrawing(h) => Withdrawing(h)'
    BY <2>1, <2>4 DEF Withdrawing, At
  <2>9. AccessInv'
    BY <1>25, <2>2, <2>3, <2>4, <2>6, <2>7, <2>8 DEF PutWithdrawn, ApplicationsInv, AccessInv
  <2> QED
    BY <2>5, <2>9 DEF ApplicationsInv
<1> QED
  BY <1>7, <1>8, <1>9, <1>10, <1>11, <1>12, <1>13, <1>14, <1>15, <1>16, <1>17, <1>18, <1>19,
     <1>20, <1>21, <1>22, <1>23, <1>24, <1>25 DEF ApplicationsStep, ApplicationsCall

\* Every step keeps the invariant of the applications.
LEMMA ApplicationsInvStep ==
    ASSUME ApplicationsInv, [ServicesNext]_vars
    PROVE  ApplicationsInv'
<1>1. /\ scenario' = scenario
      /\ \/ scenario = "applications" /\ ApplicationsNext
         \/ (\E r \in Request : Dies(r)) /\ UNCHANGED applicationVars
         \/ UNCHANGED requestVars /\ UNCHANGED applicationVars
         \/ scenario # "applications" /\ UNCHANGED applicationVars
  BY DEF ServicesNext, Move, Publish, Apply, Oversee, Account, Prepare, SignIn, Settle,
         TrackJourneys, Keep, Persist, Synchronize, Only, Die, vars
<1>2. CASE scenario = "applications" /\ ApplicationsNext
  BY <1>1, <1>2, ApplicationsMoves DEF ApplicationsNext
<1>3. ASSUME NEW r \in Request, Dies(r), UNCHANGED applicationVars
      PROVE  ApplicationsInv'
  <2>1. CASE scenario = "applications"
    <3>1. /\ RequestInv' /\ req'[r] = Idle /\ \A q \in Request \ {r} : req'[q] = req[q]
      BY <1>3, <2>1, RequestsEnd DEF ApplicationsInv, OfferInv
    <3>2. faulted' = faulted \cup {req[r].on} /\ req[r] # Idle
      BY <1>3 DEF Dies
    <3>3. OfferRequest(r)' /\ AccessRequest(r)'
      BY <3>1 DEF OfferRequest, AccessRequest
    <3>4. \A q \in Request \ {r} : OfferRequest(q)' /\ AccessRequest(q)'
      BY <1>3, <2>1, <3>1 DEF OfferRequest, AccessRequest, At, Idle, Knowing, ApplicationsInv,
                              OfferInv, AccessInv, applicationVars
    <3>5. ASSUME NEW g \in Grants, Withdrawing(g)
          PROVE  Withdrawing(g)' \/ grant[g].app \in faulted'
      BY <2>1, <3>1, <3>2, <3>5 DEF Withdrawing, At, ApplicationsInv, AccessInv, AccessRequest
    <3>6. OfferInv'
      BY <1>1, <1>3, <3>1, <3>3, <3>4 DEF ApplicationsInv, OfferInv, Knowing, applicationVars
    <3>7. AccessInv'
      BY <1>1, <1>3, <2>1, <3>2, <3>3, <3>4, <3>5 DEF ApplicationsInv, AccessInv, applicationVars
    <3> QED
      BY <3>6, <3>7 DEF ApplicationsInv
  <2>2. CASE scenario # "applications"
    BY <1>1, <1>3, <2>2 DEF ApplicationsInv, OfferInv, AccessInv, Knowing, applicationVars
  <2> QED
    BY <2>1, <2>2
<1>4. CASE UNCHANGED requestVars /\ UNCHANGED applicationVars
  BY <1>1, <1>4 DEF ApplicationsInv, OfferInv, AccessInv, Knowing, OfferRequest, AccessRequest,
                    RequestInv, Withdrawing, At, applicationVars, requestVars
<1>5. CASE scenario # "applications" /\ UNCHANGED applicationVars
  BY <1>1, <1>5 DEF ApplicationsInv, OfferInv, AccessInv, Knowing, applicationVars
<1> QED
  BY <1>1, <1>2, <1>3, <1>4, <1>5

\* An accepted job was accepted by the applicant with every risk on record when he
\* asked acknowledged, whatever partner and applicant write over each other
\* (WorkService.decideOffer, SupplyService.updatePipeline).
THEOREM OffersAreKnown == ServicesSpec => []AcceptedKnowingly
<1>1. ApplicationsInv => AcceptedKnowingly
  BY DEF ApplicationsInv, OfferInv, AcceptedKnowingly, Knowing
<1> QED
  BY <1>1, ApplicationsStart, ApplicationsInvStep, PTL DEF ServicesSpec

\* No partner acts under a grant that was revoked before its call began, and grants
\* stand on their consents (SupplyService.grantAccess, revokeAccess).
THEOREM GrantsHold == ServicesSpec => []GrantsFollowConsent
<1>1. ASSUME ApplicationsInv
      PROVE  GrantsFollowConsent
  <2>1. AccessInv
    BY <1>1 DEF ApplicationsInv
  <2>2. ASSUME NEW g \in Grants, grant[g] # NoGrant
        PROVE  /\ consent[g] # "none"
               /\ Active(g) => consent[g] = "granted"
    BY <2>1, <2>2 DEF AccessInv, Active
  <2>3. ASSUME NEW g \in Grants, grant[g] # NoGrant,
               \A r \in Request : req[r] = Idle, grant[g].app \notin faulted
        PROVE  Active(g) <=> consent[g] = "granted"
    <3>1. scenario = "applications" /\ ~Withdrawing(g)
      BY <2>1, <2>3 DEF AccessInv, Withdrawing
    <3>2. grant[g].status \in {"active", "revoked"}
      BY <2>1, <2>3 DEF AccessInv, GrantRecord
    <3> QED
      BY <2>1, <2>2, <2>3, <3>1, <3>2 DEF AccessInv, Active
  <2> QED
    BY <2>1, <2>2, <2>3 DEF GrantsFollowConsent, AccessInv
<1> QED
  BY <1>1, ApplicationsStart, ApplicationsInvStep, PTL DEF ServicesSpec

-------------------------------------------------------------------------------
(* Partner submissions, the changes they are handed in with, and their     *)
(* reviews.                                                                *)

SubmissionRecord ==
    [status : {"draft", "in_review", "approved", "rejected"}, change : Changes \cup {"none"},
     level : {"evidence_submitted", "human_verified"}]
ChangeRecord ==
    [status : {"draft", "in_review", "approved", "rejected"},
     author : Partners \cup Researchers, resource : Submissions \cup Changes]

Stored(s) == submission[s] # NoSubmission
\* Change c is about record x; who wrote it and what about never change.
Of(c, x) == c \in Changes /\ change[c] \in ChangeRecord /\ change[c].resource = x
Decided(c, decision) ==
    /\ c \in Changes /\ change[c] \in ChangeRecord
    /\ \E d \in decisions : d.change = c /\ d.decision = decision /\ d.by # change[c].author

\* What is stored: a submission names a change about it, and if it is decided, on
\* that change somebody other than its author took that decision.
RecordsInv ==
    /\ DOMAIN submission = Submissions /\ DOMAIN change = Changes
    /\ \A s \in Submissions : Stored(s) =>
           /\ submission[s] \in SubmissionRecord
           /\ submission[s].change = "none" \/ Of(submission[s].change, s)
           /\ submission[s].status \in {"approved", "rejected"} =>
                  Decided(submission[s].change, submission[s].status)
           /\ submission[s].level = "human_verified" => submission[s].status = "approved"
    /\ \A c \in Changes : change[c] # NoChange =>
           /\ change[c] \in ChangeRecord
           /\ change[c].resource \in Submissions =>
                  Stored(change[c].resource) /\ change[c].status # "draft"

\* What a request in flight holds, whatever else was written since it was read.
ReviewRequest(r) ==
    req[r] # Idle =>
        /\ req[r].at \in {"put_change", "put_submission", "put_in_review", "put_decision",
                          "find_submission", "put_reviewed"}
        /\ At(r, "put_change") \/ At(r, "put_submission") =>
               /\ {"user", "copy"} \subseteq DOMAIN req[r]
               /\ req[r].user \in Partners
               /\ req[r].on \in Submissions /\ Stored(req[r].on)
               /\ req[r].copy \in SubmissionRecord /\ req[r].copy.level = "evidence_submitted"
        /\ At(r, "put_change") => req[r].copy.status \in {"draft", "rejected"}
        /\ ~At(r, "put_change") => "change" \in DOMAIN req[r] /\ Of(req[r].change, req[r].on)
        /\ At(r, "put_in_review") => req[r].on \notin Submissions
        /\ At(r, "put_in_review") \/ At(r, "put_decision") =>
               /\ req[r].copy \in ChangeRecord
               /\ req[r].copy.author = change[req[r].change].author
               /\ req[r].copy.resource = req[r].on
        /\ At(r, "put_decision") => req[r].user # req[r].copy.author
        /\ At(r, "put_decision") \/ At(r, "find_submission") \/ At(r, "put_reviewed") =>
               "decision" \in DOMAIN req[r] /\ req[r].decision \in {"approved", "rejected"}
        /\ At(r, "find_submission") \/ At(r, "put_reviewed") =>
               Decided(req[r].change, req[r].decision)
        /\ At(r, "put_reviewed") =>
               /\ req[r].submission = req[r].on /\ req[r].on \in Submissions
               /\ Stored(req[r].on)
               /\ req[r].found \in SubmissionRecord /\ req[r].found.change = req[r].change

\* The changes that wait for the review of submission s.
Waiting(s) == {c \in Changes : Of(c, s) /\ change[c].status = "in_review"}

\* Submission and change agree, and no other change waits.
Quiet(s) ==
    /\ submission[s].change = "none" \/ change[submission[s].change].status = submission[s].status
    /\ Waiting(s) \subseteq {submission[s].change}

\* How far the only request in flight on an undisturbed submission has come.
Halfway(r, s) ==
    /\ At(r, "put_change") => req[r].copy = submission[s] /\ Quiet(s)
    /\ At(r, "put_submission") =>
           change[req[r].change].status = "in_review" /\ Waiting(s) \subseteq {req[r].change}
    /\ At(r, "put_decision") => change[req[r].change].status = "in_review" /\ Quiet(s)
    /\ At(r, "find_submission") \/ At(r, "put_reviewed") =>
           /\ submission[s].change = req[r].change
           /\ change[req[r].change].status = req[r].decision
           /\ Waiting(s) = {}

Alone(s) == \A r \in Request : req[r] = Idle \/ req[r].on # s

Agreed(s) ==
    Stored(s) /\ Undisturbed(s) =>
        /\ Alone(s) => Quiet(s)
        /\ \A r \in Request : req[r] # Idle /\ req[r].on = s => Halfway(r, s)

PublicationInv ==
    /\ RecordsInv
    /\ scenario # "publication" => \A s \in Submissions : ~Stored(s)
    /\ scenario = "publication" =>
           RequestInv /\ (\A r \in Request : ReviewRequest(r)) /\ (\A s \in Submissions : Agreed(s))

\* The initial states satisfy the invariant of the publication.
LEMMA PublicationStart == ServicesInit => PublicationInv
<1> SUFFICES ASSUME ServicesInit PROVE PublicationInv
  OBVIOUS
<1>1. PublicationInit /\ RequestsInit
  BY DEF ServicesInit
<1>2. RequestInv /\ \A r \in Request : req[r] = Idle
  BY <1>1, RequestsStart
<1>3. RecordsInv /\ \A s \in Submissions : ~Stored(s)
  BY <1>1 DEF PublicationInit, RecordsInv, Stored
<1> QED
  BY <1>2, <1>3 DEF PublicationInv, ReviewRequest, Agreed

\* One step of a request on submissions and changes.
LEMMA PublicationMoves ==
    ASSUME PublicationInv, scenario = "publication", scenario' = scenario,
           NEW r \in Request, PublicationStep(r) \/ PublicationCall(r)
    PROVE  PublicationInv'
<1> DEFINE RestKept == \A q \in Request \ {r} : req'[q] = req[q]
<1>1. /\ RequestInv /\ RecordsInv
      /\ \A q \in Request : ReviewRequest(q)
      /\ \A s \in Submissions : Agreed(s)
  BY DEF PublicationInv
<1>2. NoChange \notin ChangeRecord /\ NoSubmission \notin SubmissionRecord
  BY DEF NoChange, NoSubmission, ChangeRecord, SubmissionRecord
\* It is enough to look at the record of the step.
<1>3. ASSUME NEW x, RequestInv', RestKept, contested \subseteq contested', faulted \subseteq faulted',
             RecordsInv', decisions \subseteq decisions',
             req[r] = Idle => (Others(r, x) => x \in contested'),
             req[r] # Idle => req[r].on = x,
             req'[r] # Idle => req'[r].on = x,
             \A s \in Submissions : s # x => submission'[s] = submission[s],
             \A s \in Submissions : Stored(s) => Stored(s)',
             \A c \in Changes :
                 \/ change'[c] = change[c]
                 \/ /\ change'[c] \in ChangeRecord /\ change'[c].resource = x
                    /\ change[c] # NoChange =>
                           change[c].resource = x /\ change[c].author = change'[c].author,
             ReviewRequest(r)',
             x \in Submissions /\ Undisturbed(x)' /\ Stored(x)' =>
                 IF req'[r] = Idle THEN Quiet(x)' ELSE Halfway(r, x)'
      PROVE  PublicationInv'
  <2>1. \A c, y : Of(c, y) => Of(c, y)' /\ change'[c].author = change[c].author
    BY <1>2, <1>3 DEF Of
  <2>2. \A c, d : Decided(c, d) => Decided(c, d)'
    <3> SUFFICES ASSUME NEW c, NEW d, Decided(c, d) PROVE Decided(c, d)'
      OBVIOUS
    <3>1. Of(c, change[c].resource)
      BY DEF Of, Decided
    <3> QED
      BY <1>3, <2>1, <3>1 DEF Decided, Of
  <2>3. \A q \in Request \ {r} : ReviewRequest(q)'
    BY <1>1, <1>3, <2>1, <2>2 DEF ReviewRequest, At
  <2>4. ASSUME NEW s \in Submissions, s # x
        PROVE  Agreed(s)'
    <3>1. Waiting(s)' = Waiting(s)
      BY <1>2, <1>3, <2>1, <2>4 DEF Waiting, Of
    <3>2. \A c : Of(c, s) => change'[c] = change[c]
      BY <1>2, <1>3, <2>4 DEF Of
    <3>3. Stored(s) => submission[s].change = "none" \/ Of(submission[s].change, s)
      BY <1>1 DEF RecordsInv
    <3>4. Stored(s) => (Quiet(s)' <=> Quiet(s))
      BY <1>3, <2>4, <3>1, <3>2, <3>3 DEF Quiet
    <3>5. ASSUME NEW q \in Request, req'[q] # Idle, req'[q].on = s, Stored(s), Halfway(q, s)
          PROVE  Halfway(q, s)'
      <4>1. q # r /\ req'[q] = req[q]
        BY <1>3, <2>4, <3>5
      <4>2. ~At(q, "put_change") => Of(req[q].change, s)
        BY <1>1, <3>5, <4>1 DEF ReviewRequest
      <4> QED
        BY <1>3, <2>4, <3>1, <3>2, <3>4, <3>5, <4>1, <4>2 DEF Halfway, At
    <3>6. Undisturbed(s)' => Undisturbed(s)
      BY <1>3 DEF Undisturbed
    <3>7. Alone(s)' => Alone(s)
      BY <1>3, <2>4 DEF Alone
    <3>8. \A q \in Request : req'[q] # Idle /\ req'[q].on = s => req[q] # Idle /\ req[q].on = s
      BY <1>3, <2>4
    <3>9. Stored(s)' => Stored(s)
      BY <1>3, <2>4 DEF Stored
    <3> QED
      BY <1>1, <3>4, <3>5, <3>6, <3>7, <3>8, <3>9 DEF Agreed
  <2>5. ASSUME x \in Submissions
        PROVE  Agreed(x)'
    <3> SUFFICES ASSUME Stored(x)', Undisturbed(x)'
                 PROVE  /\ Alone(x)' => Quiet(x)'
                        /\ \A q \in Request : req'[q] # Idle /\ req'[q].on = x => Halfway(q, x)'
      BY DEF Agreed
    <3>1. \A q \in Request \ {r} : req[q] = Idle \/ req[q].on # x
      BY <1>1, <1>3 DEF RequestInv, Undisturbed, Others
    <3>2. \A q \in Request : req'[q] # Idle /\ req'[q].on = x => q = r
      BY <1>3, <3>1
    <3> QED
      BY <1>3, <2>5, <3>2 DEF Alone
  <2> QED
    BY <1>3, <2>3, <2>4, <2>5 DEF PublicationInv
\* A call that begins finds the submission quiet, if nothing disturbs it.
<1>4. ASSUME NEW x \in Submissions, Stored(x), req[r] = Idle,
             contested' = IF Others(r, x) THEN contested \cup {x} ELSE contested,
             faulted' = faulted, Undisturbed(x)'
      PROVE  Quiet(x)
  <2>1. Undisturbed(x) /\ ~Others(r, x)
    BY <1>4 DEF Undisturbed
  <2>2. Alone(x)
    BY <1>4, <2>1 DEF Alone, Others
  <2> QED
    BY <1>1, <1>4, <2>1, <2>2 DEF Agreed
<1>5. ASSUME NEW x \in Submissions, Stored(x), req[r] # Idle, req[r].on = x,
             UNCHANGED <<contested, faulted>>, Undisturbed(x)'
      PROVE  Halfway(r, x)
  BY <1>1, <1>5 DEF Agreed, Undisturbed
<1>6. ASSUME UNCHANGED <<submission, change>>, decisions \subseteq decisions'
      PROVE  RecordsInv'
  <2>1. \A c, d : Decided(c, d) => Decided(c, d)'
    BY <1>6 DEF Decided
  <2> QED
    BY <1>1, <1>6, <2>1 DEF RecordsInv, Of, Stored
\* The calls.
<1>7. ASSUME NEW s \in Submissions, CreateSubmission(r, s)
      PROVE  PublicationInv'
  <2>1. RequestInv' /\ req' = req /\ req[r] = Idle
    BY <1>1, <1>7, RequestsSingle DEF CreateSubmission, Single
  <2>2. /\ contested' = IF Others(r, s) THEN contested \cup {s} ELSE contested
        /\ faulted' = faulted /\ UNCHANGED <<change, fees, decisions>>
    BY <1>7 DEF CreateSubmission, Single
  <2>3. /\ submission[s] = NoSubmission
        /\ submission'[s] = [status |-> "draft", change |-> "none", level |-> "evidence_submitted"]
        /\ \A t \in Submissions : t # s => submission'[t] = submission[t]
        /\ DOMAIN submission' = Submissions
    BY <1>1, <1>7 DEF CreateSubmission, RecordsInv
  <2>4. submission'[s] \in SubmissionRecord /\ submission'[s] # NoSubmission
    BY <1>2, <2>3 DEF SubmissionRecord
  <2>5. RecordsInv'
    BY <1>1, <2>2, <2>3, <2>4 DEF RecordsInv, Stored, Of, Decided
  <2>6. ReviewRequest(r)'
    BY <2>1 DEF ReviewRequest
  <2>7. Quiet(s)'
    BY <1>1, <1>2, <2>2, <2>3 DEF Quiet, Waiting, Of, RecordsInv, Stored
  <2>8. \A t \in Submissions : Stored(t) => Stored(t)'
    BY <2>3 DEF Stored
  <2> QED
    BY <1>3, <2>1, <2>2, <2>3, <2>5, <2>6, <2>7, <2>8
<1>8. ASSUME NEW s, DeclareFee(r, s)
      PROVE  PublicationInv'
  <2>1. /\ RequestInv' /\ req' = req /\ req[r] = Idle
        /\ contested' = IF Others(r, s) THEN contested \cup {s} ELSE contested
        /\ faulted' = faulted /\ UNCHANGED <<submission, change, decisions>>
    BY <1>1, <1>8, RequestsSingle DEF DeclareFee, Single
  <2>2. RecordsInv' /\ ReviewRequest(r)'
    BY <1>6, <2>1 DEF ReviewRequest
  <2>3. s \in Submissions /\ Undisturbed(s)' /\ Stored(s)' => Quiet(s)'
    BY <1>4, <2>1 DEF Stored, Quiet, Waiting, Of
  <2> QED
    BY <1>3, <2>1, <2>2, <2>3 DEF Stored
<1>9. ASSUME NEW u \in Partners, NEW s \in Submissions, SubmitForReview(r, u, s)
      PROVE  PublicationInv'
  <2>1. /\ req'[r] = With([at |-> "put_change", user |-> u, copy |-> submission[s]], [on |-> s])
        /\ RestKept /\ req[r] = Idle /\ faulted' = faulted
        /\ contested' = IF Others(r, s) THEN contested \cup {s} ELSE contested
    BY <1>1, <1>9, BeginWrites DEF SubmitForReview
  <2>2. /\ {"at", "on", "user", "copy"} \subseteq DOMAIN req'[r] /\ req'[r].at = "put_change"
        /\ req'[r].on = s /\ req'[r].user = u /\ req'[r].copy = submission[s]
    BY <2>1 DEF With
  <2>3. RequestInv'
    BY <1>1, <1>9, <2>2, BeginKeeps DEF SubmitForReview
  <2>4. UNCHANGED <<submission, change, decisions>> /\ submission[s].status \in {"draft", "rejected"}
    BY <1>9 DEF SubmitForReview, publicationVars
  <2>5. Stored(s)
    BY <2>4 DEF Stored, NoSubmission
  <2>6. submission[s] \in SubmissionRecord /\ submission[s].level = "evidence_submitted"
    BY <1>1, <2>4, <2>5 DEF RecordsInv, SubmissionRecord
  <2>7. RecordsInv'
    BY <1>6, <2>4
  <2>8. ReviewRequest(r)'
    BY <2>2, <2>4, <2>5, <2>6 DEF ReviewRequest, At, Stored
  <2>9. Undisturbed(s)' => Halfway(r, s)'
    BY <1>4, <2>1, <2>2, <2>4, <2>5 DEF Halfway, At, Quiet, Waiting, Of
  <2> QED
    BY <1>3, <2>1, <2>2, <2>3, <2>4, <2>7, <2>8, <2>9 DEF Stored, Idle
<1>10. ASSUME NEW u \in Researchers, CreatePublicationChange(r, u)
       PROVE  PublicationInv'
  <2>1. PICK c : c = FreshChange
    OBVIOUS
  <2>2. c \in Changes /\ change[c] = NoChange
    BY <1>10, <2>1 DEF CreatePublicationChange, HasFresh, FreshChange
  <2>3. /\ RequestInv' /\ req' = req /\ req[r] = Idle
        /\ contested' = IF Others(r, c) THEN contested \cup {c} ELSE contested
        /\ faulted' = faulted /\ UNCHANGED <<submission, decisions>>
    BY <1>1, <1>10, <2>1, RequestsSingle DEF CreatePublicationChange, Single
  <2>4. PICK new : new = Change("draft", u, c)
    OBVIOUS
  <2>5. /\ new \in ChangeRecord /\ new.resource = c /\ new.status = "draft" /\ c \notin Submissions
    BY <2>2, <2>4, PublicationAssumption DEF Change, ChangeRecord
  <2>6. /\ change'[c] = new /\ DOMAIN change' = Changes
        /\ \A b \in Changes : b # c => change'[b] = change[b]
    BY <1>1, <1>10, <2>1, <2>2, <2>4 DEF CreatePublicationChange, RecordsInv
  <2>7. RecordsInv'
    <3>1. \A b, y : Of(b, y) => Of(b, y)'
      BY <1>2, <2>2, <2>6 DEF Of
    <3>2. \A b, d : Decided(b, d) => Decided(b, d)'
      BY <1>2, <2>2, <2>3, <2>6 DEF Decided
    <3>3. \A b \in Changes : change'[b] # NoChange =>
              /\ change'[b] \in ChangeRecord
              /\ change'[b].resource \in Submissions =>
                     Stored(change'[b].resource) /\ change'[b].status # "draft"
      BY <1>1, <2>5, <2>6 DEF RecordsInv
    <3> QED
      BY <1>1, <2>3, <2>6, <3>1, <3>2, <3>3 DEF RecordsInv, Stored
  <2>8. ReviewRequest(r)'
    BY <2>3 DEF ReviewRequest
  <2> QED
    BY <1>3, <2>2, <2>3, <2>5, <2>6, <2>7, <2>8 DEF Stored
<1>11. ASSUME NEW u \in Researchers, NEW c \in Changes, SubmitPublicationChange(r, u, c)
       PROVE  PublicationInv'
  <2>1. PICK x : x = change[c].resource
    OBVIOUS
  <2>2. /\ req'[r] = With([at |-> "put_in_review", change |-> c, copy |-> change[c]], [on |-> x])
        /\ RestKept /\ req[r] = Idle /\ faulted' = faulted
        /\ contested' = IF Others(r, x) THEN contested \cup {x} ELSE contested
    BY <1>1, <1>11, <2>1, BeginWrites DEF SubmitPublicationChange
  <2>3. /\ {"at", "on", "change", "copy"} \subseteq DOMAIN req'[r] /\ req'[r].at = "put_in_review"
        /\ req'[r].on = x /\ req'[r].change = c /\ req'[r].copy = change[c]
    BY <2>2 DEF With
  <2>4. RequestInv'
    BY <1>1, <1>11, <2>1, <2>3, BeginKeeps DEF SubmitPublicationChange
  <2>5. UNCHANGED <<submission, change, decisions>> /\ change[c].status = "draft"
    BY <1>11 DEF SubmitPublicationChange, publicationVars
  <2>6. Of(c, x) /\ x \notin Submissions
    BY <1>1, <2>1, <2>5 DEF RecordsInv, Of, NoChange
  <2>7. RecordsInv'
    BY <1>6, <2>5
  <2>8. ReviewRequest(r)'
    BY <2>3, <2>5, <2>6 DEF ReviewRequest, At, Of
  <2> QED
    BY <1>3, <2>2, <2>3, <2>4, <2>5, <2>6, <2>7, <2>8 DEF Stored
<1>12. ASSUME NEW u, NEW c \in Changes, NEW d \in {"approved", "rejected"},
              ReviewPublicationChange(r, u, c, d)
       PROVE  PublicationInv'
  <2>1. PICK x : x = change[c].resource
    OBVIOUS
  <2>2. /\ req'[r] = With([at |-> "put_decision", user |-> u, change |-> c, copy |-> change[c],
                           decision |-> d], [on |-> x])
        /\ RestKept /\ req[r] = Idle /\ faulted' = faulted
        /\ contested' = IF Others(r, x) THEN contested \cup {x} ELSE contested
    BY <1>1, <1>12, <2>1, BeginWrites DEF ReviewPublicationChange
  <2>3. /\ {"at", "on", "change", "copy", "decision"} \subseteq DOMAIN req'[r]
        /\ req'[r].at = "put_decision" /\ req'[r].on = x /\ req'[r].user = u
        /\ req'[r].change = c /\ req'[r].copy = change[c] /\ req'[r].decision = d
    BY <2>2 DEF With
  <2>4. RequestInv'
    BY <1>1, <1>12, <2>1, <2>3, BeginKeeps DEF ReviewPublicationChange
  <2>5. /\ UNCHANGED <<submission, change, decisions>>
        /\ change[c].status = "in_review" /\ change[c].author # u
    BY <1>12 DEF ReviewPublicationChange, publicationVars
  <2>6. Of(c, x)
    BY <1>1, <2>1, <2>5 DEF RecordsInv, Of, NoChange
  <2>7. RecordsInv'
    BY <1>6, <2>5
  <2>8. ReviewRequest(r)'
    BY <2>3, <2>5, <2>6 DEF ReviewRequest, At, Of
  <2>9. x \in Submissions /\ Undisturbed(x)' /\ Stored(x) => Halfway(r, x)'
    BY <1>4, <2>2, <2>3, <2>5 DEF Halfway, At, Quiet, Waiting, Of
  <2> QED
    BY <1>3, <2>2, <2>3, <2>4, <2>5, <2>7, <2>8, <2>9 DEF Stored, Idle
\* The steps.  A change that a step writes is about the record of its request.
<1>13. ASSUME NEW c \in Changes, NEW new \in ChangeRecord, change' = [change EXCEPT ![c] = new],
              submission' = submission, decisions \subseteq decisions',
              new.resource \in Submissions => Stored(new.resource) /\ new.status # "draft",
              change[c] # NoChange => new.resource = change[c].resource /\ new.author = change[c].author
       PROVE  RecordsInv'
  <2>1. /\ change'[c] = new /\ DOMAIN change' = Changes
        /\ \A b \in Changes : b # c => change'[b] = change[b]
    BY <1>1, <1>13 DEF RecordsInv
  <2>2. \A b, y : Of(b, y) => Of(b, y)' /\ change'[b].author = change[b].author
    BY <1>2, <1>13, <2>1 DEF Of
  <2>3. \A b, d : Decided(b, d) => Decided(b, d)'
    <3> SUFFICES ASSUME NEW b, NEW d, Decided(b, d) PROVE Decided(b, d)'
      OBVIOUS
    <3>1. Of(b, change[b].resource)
      BY DEF Of, Decided
    <3> QED
      BY <1>13, <2>2, <3>1 DEF Decided, Of
  <2>4. \A b \in Changes : change'[b] # NoChange =>
            /\ change'[b] \in ChangeRecord
            /\ change'[b].resource \in Submissions =>
                   Stored(change'[b].resource) /\ change'[b].status # "draft"
    BY <1>1, <1>13, <2>1 DEF RecordsInv
  <2> QED
    BY <1>1, <1>13, <2>1, <2>2, <2>3, <2>4 DEF RecordsInv, Stored
<1>14. ASSUME NEW s \in Submissions, NEW new \in SubmissionRecord, Stored(s),
              submission' = [submission EXCEPT ![s] = new], UNCHANGED <<change, decisions>>,
              new.change = "none" \/ Of(new.change, s),
              new.status \in {"approved", "rejected"} => Decided(new.change, new.status),
              new.level = "human_verified" => new.status = "approved"
       PROVE  /\ RecordsInv' /\ submission'[s] = new
              /\ \A t \in Submissions : t # s => submission'[t] = submission[t]
              /\ \A t \in Submissions : Stored(t) => Stored(t)'
  <2>1. /\ submission'[s] = new /\ DOMAIN submission' = Submissions
        /\ \A t \in Submissions : t # s => submission'[t] = submission[t]
    BY <1>1, <1>14 DEF RecordsInv
  <2>2. \A t \in Submissions : Stored(t) => Stored(t)'
    BY <1>2, <1>14, <2>1 DEF Stored
  <2>3. \A t \in Submissions : Stored(t)' => Stored(t)
    BY <1>14, <2>1 DEF Stored
  <2>4. (\A b, y : Of(b, y)' <=> Of(b, y)) /\ (\A b, d : Decided(b, d)' <=> Decided(b, d))
    BY <1>14 DEF Of, Decided
  <2> QED
    BY <1>1, <1>14, <2>1, <2>2, <2>3, <2>4 DEF RecordsInv
<1>15. ASSUME PutChange(r)
       PROVE  PublicationInv'
  <2>1. PICK c, s : c = FreshChange /\ s = req[r].on
    OBVIOUS
  <2>2. /\ req[r] # Idle /\ At(r, "put_change") /\ s \in Submissions /\ Stored(s)
        /\ {"user", "copy"} \subseteq DOMAIN req[r] /\ req[r].user \in Partners
        /\ req[r].copy \in SubmissionRecord /\ req[r].copy.level = "evidence_submitted"
        /\ req[r].copy.status \in {"draft", "rejected"}
    BY <1>1, <1>15, <2>1, AtIsBusy DEF PutChange, ReviewRequest
  <2>3. c \in Changes /\ change[c] = NoChange
    BY <1>15, <2>1 DEF PutChange, HasFresh, FreshChange
  <2>4. PICK new : new = Change("in_review", req[r].user, s)
    OBVIOUS
  <2>5. /\ change' = [change EXCEPT ![c] = new] /\ Goto(r, [at |-> "put_submission", change |-> c])
        /\ UNCHANGED <<submission, decisions>>
    BY <1>15, <2>1, <2>4 DEF PutChange
  <2>6. new \in ChangeRecord /\ new.resource = s /\ new.status = "in_review"
    BY <2>2, <2>4 DEF Change, ChangeRecord
  <2>7. /\ change'[c] = new /\ \A b \in Changes : b # c => change'[b] = change[b]
    BY <1>1, <2>3, <2>5 DEF RecordsInv
  <2>8. /\ req'[r] = With([at |-> "put_submission", change |-> c], req[r]) /\ RestKept
        /\ UNCHANGED <<contested, faulted>>
    BY <1>1, <2>5, GotoWrites
  <2>9. /\ {"at", "on", "user", "copy", "change"} \subseteq DOMAIN req'[r]
        /\ req'[r].at = "put_submission" /\ req'[r].on = s /\ req'[r].user = req[r].user
        /\ req'[r].copy = req[r].copy /\ req'[r].change = c
    BY <1>1, <2>1, <2>2, <2>8 DEF With, RequestInv
  <2>10. RequestInv'
    BY <1>1, <2>1, <2>2, <2>5, <2>9, GotoKeeps
  <2>11. RecordsInv'
    BY <1>13, <2>2, <2>3, <2>5, <2>6
  <2>12. Of(c, s)'
    BY <2>3, <2>6, <2>7 DEF Of
  <2>13. ReviewRequest(r)'
    BY <2>2, <2>5, <2>9, <2>12 DEF ReviewRequest, At, Stored
  <2>14. Undisturbed(s)' => Halfway(r, s)'
    <3> SUFFICES ASSUME Undisturbed(s)' PROVE Halfway(r, s)'
      OBVIOUS
    <3>1. req[r].copy = submission[s] /\ Quiet(s)
      BY <1>5, <2>1, <2>2, <2>8 DEF Halfway
    <3>2. Waiting(s) = {}
      <4> SUFFICES ASSUME NEW b \in Waiting(s) PROVE FALSE
        OBVIOUS
      <4>1. submission[s].change = b /\ b \in Changes /\ change[b].status = "in_review"
        BY <3>1 DEF Quiet, Waiting
      <4> QED
        BY <2>2, <3>1, <4>1, PublicationAssumption DEF Quiet
    <3>3. Waiting(s)' \subseteq {c}
      BY <2>7, <3>2 DEF Waiting, Of
    <3> QED
      BY <2>6, <2>7, <2>9, <3>3 DEF Halfway, At
  <2>15. \A b \in Changes : change'[b] = change[b] \/ b = c
    BY <2>7
  <2> QED
    BY <1>3, <2>1, <2>2, <2>3, <2>5, <2>6, <2>7, <2>8, <2>9, <2>10, <2>11, <2>13, <2>14, <2>15
       DEF Stored, Idle
<1>16. ASSUME PutSubmission(r)
       PROVE  PublicationInv'
  <2>1. PICK s, c : s = req[r].on /\ c = req[r].change
    OBVIOUS
  <2>2. /\ req[r] # Idle /\ At(r, "put_submission") /\ s \in Submissions /\ Stored(s)
        /\ req[r].copy \in SubmissionRecord /\ req[r].copy.level = "evidence_submitted" /\ Of(c, s)
    BY <1>1, <1>16, <2>1, AtIsBusy DEF PutSubmission, ReviewRequest, At
  <2>3. PICK new : new = [req[r].copy EXCEPT !.status = "in_review", !.change = c]
    OBVIOUS
  <2>4. /\ new \in SubmissionRecord /\ new.status = "in_review" /\ new.change = c
        /\ new.level = "evidence_submitted"
    BY <2>2, <2>3 DEF SubmissionRecord, Of
  <2>5. /\ submission' = [submission EXCEPT ![s] = new] /\ Answer(r)
        /\ UNCHANGED <<change, decisions>>
    BY <1>16, <2>1, <2>3 DEF PutSubmission
  <2>6. RequestInv' /\ req'[r] = Idle /\ RestKept /\ UNCHANGED <<contested, faulted>>
    BY <1>1, <2>5, RequestsEnd DEF Answer
  <2>7. /\ RecordsInv' /\ submission'[s] = new
        /\ \A t \in Submissions : t # s => submission'[t] = submission[t]
        /\ \A t \in Submissions : Stored(t) => Stored(t)'
    BY <1>14, <2>2, <2>4, <2>5
  <2>8. Undisturbed(s)' => Quiet(s)'
    <3> SUFFICES ASSUME Undisturbed(s)' PROVE Quiet(s)'
      OBVIOUS
    <3>1. change[c].status = "in_review" /\ Waiting(s) \subseteq {c}
      BY <1>5, <2>1, <2>2, <2>6 DEF Halfway
    <3>2. Waiting(s)' = Waiting(s)
      BY <2>5 DEF Waiting, Of
    <3> QED
      BY <2>4, <2>5, <2>7, <3>1, <3>2 DEF Quiet
  <2>9. ReviewRequest(r)'
    BY <2>6 DEF ReviewRequest
  <2> QED
    BY <1>3, <2>1, <2>2, <2>5, <2>6, <2>7, <2>8, <2>9
<1>17. ASSUME PutInReview(r)
       PROVE  PublicationInv'
  <2>1. PICK x, c : x = req[r].on /\ c = req[r].change
    OBVIOUS
  <2>2. /\ req[r] # Idle /\ At(r, "put_in_review") /\ x \notin Submissions /\ Of(c, x)
        /\ req[r].copy \in ChangeRecord /\ req[r].copy.author = change[c].author
        /\ req[r].copy.resource = x
    BY <1>1, <1>17, <2>1, AtIsBusy DEF PutInReview, ReviewRequest, At
  <2>3. PICK new : new = [req[r].copy EXCEPT !.status = "in_review"]
    OBVIOUS
  <2>4. /\ new \in ChangeRecord /\ new.status = "in_review" /\ new.resource = x
        /\ new.author = change[c].author
    BY <2>2, <2>3 DEF ChangeRecord
  <2>5. /\ change' = [change EXCEPT ![c] = new] /\ Answer(r)
        /\ UNCHANGED <<submission, decisions>>
    BY <1>17, <2>1, <2>3 DEF PutInReview
  <2>6. RequestInv' /\ req'[r] = Idle /\ RestKept /\ UNCHANGED <<contested, faulted>>
    BY <1>1, <2>5, RequestsEnd DEF Answer
  <2>7. RecordsInv'
    BY <1>13, <2>2, <2>4, <2>5 DEF Of
  <2>8. \A b \in Changes : change'[b] = change[b] \/ (b = c /\ change'[b] = new)
    BY <1>1, <2>2, <2>5 DEF RecordsInv
  <2>9. ReviewRequest(r)'
    BY <2>6 DEF ReviewRequest
  <2> QED
    BY <1>3, <2>1, <2>2, <2>4, <2>5, <2>6, <2>7, <2>8, <2>9 DEF Stored, Of
<1>18. ASSUME PutDecision(r)
       PROVE  PublicationInv'
  <2>1. PICK x, c, d : x = req[r].on /\ c = req[r].change /\ d = req[r].decision
    OBVIOUS
  <2>2. /\ req[r] # Idle /\ At(r, "put_decision") /\ Of(c, x) /\ d \in {"approved", "rejected"}
        /\ {"change", "decision"} \subseteq DOMAIN req[r]
        /\ req[r].copy \in ChangeRecord /\ req[r].copy.author = change[c].author
        /\ req[r].copy.resource = x /\ req[r].user # req[r].copy.author
    BY <1>1, <1>18, <2>1, AtIsBusy DEF PutDecision, ReviewRequest, At
  <2>3. PICK new : new = [req[r].copy EXCEPT !.status = d]
    OBVIOUS
  <2>4. /\ new \in ChangeRecord /\ new.status = d /\ new.resource = x
        /\ new.author = change[c].author
    BY <2>2, <2>3 DEF ChangeRecord
  <2>5. /\ change' = [change EXCEPT ![c] = new] /\ Goto(r, [at |-> "find_submission"])
        /\ decisions' = decisions \cup {[change |-> c, by |-> req[r].user, decision |-> d]}
        /\ submission' = submission
    BY <1>18, <2>1, <2>3 DEF PutDecision
  <2>6. /\ req'[r] = With([at |-> "find_submission"], req[r]) /\ RestKept
        /\ UNCHANGED <<contested, faulted>>
    BY <1>1, <2>5, GotoWrites
  <2>7. /\ {"at", "on", "change", "decision"} \subseteq DOMAIN req'[r]
        /\ req'[r].at = "find_submission" /\ req'[r].on = x
        /\ req'[r].change = c /\ req'[r].decision = d
    BY <1>1, <2>1, <2>2, <2>6 DEF With, RequestInv
  <2>8. RequestInv'
    BY <1>1, <2>1, <2>2, <2>5, <2>7, GotoKeeps
  <2>9. x \in Submissions => Stored(x)
    BY <1>1, <2>2 DEF RecordsInv, Of, NoChange, ChangeRecord
  <2>10. RecordsInv'
    BY <1>13, <2>2, <2>4, <2>5, <2>9 DEF Of
  <2>11. change'[c] = new /\ \A b \in Changes : b # c => change'[b] = change[b]
    BY <1>1, <2>2, <2>5 DEF RecordsInv, Of
  <2>12. Of(c, x)' /\ Decided(c, d)'
    <3>1. c \in Changes /\ change'[c] \in ChangeRecord /\ change'[c].resource = x
      BY <2>2, <2>4, <2>11 DEF Of
    <3>2. PICK e : e = [change |-> c, by |-> req[r].user, decision |-> d]
      OBVIOUS
    <3>3. e \in decisions' /\ e.change = c /\ e.decision = d /\ e.by # change'[c].author
      BY <2>2, <2>4, <2>5, <2>11, <3>2
    <3> QED
      BY <3>1, <3>3 DEF Of, Decided
  <2>13. ReviewRequest(r)'
    BY <2>2, <2>7, <2>12 DEF ReviewRequest, At
  <2>14. x \in Submissions /\ Undisturbed(x)' /\ Stored(x) => Halfway(r, x)'
    <3> SUFFICES ASSUME x \in Submissions, Undisturbed(x)', Stored(x) PROVE Halfway(r, x)'
      OBVIOUS
    <3>1. change[c].status = "in_review" /\ Quiet(x)
      BY <1>5, <2>1, <2>2, <2>6 DEF Halfway
    <3>2. Waiting(x) \subseteq {c} /\ submission[x].change = c
      BY <2>2, <3>1 DEF Quiet, Waiting, Of
    <3>3. Waiting(x)' = {}
      BY <2>2, <2>4, <2>11, <3>2 DEF Waiting, Of
    <3> QED
      BY <2>4, <2>5, <2>7, <2>11, <3>2, <3>3 DEF Halfway, At
  <2>15. \A b \in Changes : change'[b] = change[b] \/ b = c
    BY <2>11
  <2> QED
    BY <1>3, <2>1, <2>2, <2>4, <2>5, <2>6, <2>7, <2>8, <2>10, <2>11, <2>13, <2>14, <2>15
       DEF Stored, Idle, Of
<1>19. ASSUME FindSubmission(r)
       PROVE  PublicationInv'
  <2>1. PICK x, c, d : x = req[r].on /\ c = req[r].change /\ d = req[r].decision
    OBVIOUS
  <2>2. /\ req[r] # Idle /\ At(r, "find_submission") /\ Of(c, x)
        /\ {"change", "decision"} \subseteq DOMAIN req[r]
        /\ d \in {"approved", "rejected"} /\ Decided(c, d)
    BY <1>1, <1>19, <2>1, AtIsBusy DEF FindSubmission, ReviewRequest, At
  <2>3. UNCHANGED <<submission, change, decisions>> /\ RecordsInv'
    BY <1>6, <1>19 DEF FindSubmission, publicationVars
  <2>4. \A s \in Named(c) : /\ s = x /\ s \in Submissions /\ Stored(s)
                            /\ submission[s] \in SubmissionRecord /\ submission[s].change = c
    BY <1>1, <2>2, PublicationAssumption DEF Named, RecordsInv, Stored, NoSubmission, Of
  <2>5. ASSUME NEW s \in Named(c),
               Goto(r, [at |-> "put_reviewed", submission |-> s, found |-> submission[s]])
        PROVE  PublicationInv'
    <3>1. /\ req'[r] = With([at |-> "put_reviewed", submission |-> s, found |-> submission[s]], req[r])
          /\ RestKept /\ UNCHANGED <<contested, faulted>>
      BY <1>1, <2>5, GotoWrites
    <3>2. /\ {"at", "on", "change", "decision"} \subseteq DOMAIN req'[r]
          /\ req'[r].at = "put_reviewed" /\ req'[r].on = x /\ req'[r].change = c
          /\ req'[r].decision = d /\ req'[r].submission = s /\ req'[r].found = submission[s]
      BY <1>1, <2>1, <2>2, <3>1 DEF With, RequestInv
    <3>3. RequestInv'
      BY <1>1, <2>1, <2>2, <2>5, <3>2, GotoKeeps
    <3>4. ReviewRequest(r)'
      BY <2>2, <2>3, <2>4, <3>2 DEF ReviewRequest, At, Of, Decided, Stored
    <3>5. Undisturbed(x)' => Halfway(r, x)'
      <4> SUFFICES ASSUME Undisturbed(x)' PROVE Halfway(r, x)'
        OBVIOUS
      <4>1. Halfway(r, x)
        BY <1>5, <2>1, <2>2, <2>4, <3>1
      <4> QED
        BY <2>1, <2>2, <2>3, <3>2, <4>1 DEF Halfway, At, Waiting, Of
    <3> QED
      BY <1>3, <2>1, <2>2, <2>3, <3>1, <3>2, <3>3, <3>4, <3>5 DEF Stored, Idle
  <2>6. ASSUME Named(c) = {}, Answer(r)
        PROVE  PublicationInv'
    <3>1. RequestInv' /\ req'[r] = Idle /\ RestKept /\ UNCHANGED <<contested, faulted>>
      BY <1>1, <2>6, RequestsEnd DEF Answer
    <3>2. ~(x \in Submissions /\ Undisturbed(x)' /\ Stored(x))
      <4> SUFFICES ASSUME x \in Submissions, Undisturbed(x)', Stored(x) PROVE FALSE
        OBVIOUS
      <4>1. submission[x].change = c
        BY <1>5, <2>1, <2>2, <3>1 DEF Halfway
      <4>2. submission[x].status # "none"
        BY <1>1 DEF RecordsInv, SubmissionRecord
      <4> QED
        BY <2>6, <4>1, <4>2 DEF Named
    <3>3. ReviewRequest(r)'
      BY <3>1 DEF ReviewRequest
    <3> QED
      BY <1>3, <2>1, <2>2, <2>3, <3>1, <3>2, <3>3 DEF Stored
  <2> QED
    BY <1>19, <2>1, <2>5, <2>6 DEF FindSubmission
<1>20. ASSUME PutReviewed(r)
       PROVE  PublicationInv'
  <2>1. PICK s, c, d : s = req[r].on /\ c = req[r].change /\ d = req[r].decision
    OBVIOUS
  <2>2. /\ req[r] # Idle /\ At(r, "put_reviewed") /\ Of(c, s) /\ s \in Submissions /\ Stored(s)
        /\ d \in {"approved", "rejected"} /\ Decided(c, d) /\ req[r].submission = s
        /\ req[r].found \in SubmissionRecord /\ req[r].found.change = c
    BY <1>1, <1>20, <2>1, AtIsBusy DEF PutReviewed, ReviewRequest, At
  <2>3. PICK new : new = [req[r].found EXCEPT
                              !.status = d,
                              !.level = IF d = "approved" THEN "human_verified"
                                                          ELSE "evidence_submitted"]
    OBVIOUS
  <2>4. /\ new \in SubmissionRecord /\ new.status = d /\ new.change = c
        /\ new.level = "human_verified" => d = "approved"
    BY <2>2, <2>3 DEF SubmissionRecord
  <2>5. /\ submission' = [submission EXCEPT ![s] = new] /\ Answer(r)
        /\ UNCHANGED <<change, decisions>>
    BY <1>20, <2>1, <2>2, <2>3 DEF PutReviewed
  <2>6. RequestInv' /\ req'[r] = Idle /\ RestKept /\ UNCHANGED <<contested, faulted>>
    BY <1>1, <2>5, RequestsEnd DEF Answer
  <2>7. /\ RecordsInv' /\ submission'[s] = new
        /\ \A t \in Submissions : t # s => submission'[t] = submission[t]
        /\ \A t \in Submissions : Stored(t) => Stored(t)'
    BY <1>14, <2>2, <2>4, <2>5
  <2>8. Undisturbed(s)' => Quiet(s)'
    <3> SUFFICES ASSUME Undisturbed(s)' PROVE Quiet(s)'
      OBVIOUS
    <3>1. change[c].status = d /\ Waiting(s) = {}
      BY <1>5, <2>1, <2>2, <2>6 DEF Halfway
    <3>2. Waiting(s)' = Waiting(s)
      BY <2>5 DEF Waiting, Of
    <3> QED
      BY <2>4, <2>5, <2>7, <3>1, <3>2 DEF Quiet
  <2>9. ReviewRequest(r)'
    BY <2>6 DEF ReviewRequest
  <2> QED
    BY <1>3, <2>1, <2>2, <2>5, <2>6, <2>7, <2>8, <2>9
<1> QED
  BY <1>7, <1>8, <1>9, <1>10, <1>11, <1>12, <1>15, <1>16, <1>17, <1>18, <1>19, <1>20
     DEF PublicationStep, PublicationCall

\* Every step keeps the invariant of the publication.
LEMMA PublicationInvStep ==
    ASSUME PublicationInv, [ServicesNext]_vars
    PROVE  PublicationInv'
<1>1. /\ scenario' = scenario
      /\ \/ scenario = "publication" /\ PublicationNext
         \/ (\E r \in Request : Dies(r)) /\ UNCHANGED publicationVars
         \/ UNCHANGED requestVars /\ UNCHANGED publicationVars
         \/ scenario # "publication" /\ UNCHANGED publicationVars
  BY DEF ServicesNext, Move, Publish, Apply, Oversee, Account, Prepare, SignIn, Settle,
         TrackJourneys, Keep, Persist, Synchronize, Only, Die, vars
<1>2. CASE scenario = "publication" /\ PublicationNext
  BY <1>1, <1>2, PublicationMoves DEF PublicationNext
<1>3. ASSUME UNCHANGED publicationVars
      PROVE  /\ RecordsInv' /\ \A s \in Submissions : Stored(s)' <=> Stored(s)
             /\ \A s : Quiet(s)' <=> Quiet(s)
  BY <1>3 DEF PublicationInv, RecordsInv, Stored, Of, Decided, Quiet, Waiting, publicationVars
<1>4. ASSUME NEW r \in Request, Dies(r), UNCHANGED publicationVars
      PROVE  PublicationInv'
  <2>1. CASE scenario = "publication"
    <3>1. /\ RequestInv' /\ req'[r] = Idle /\ \A q \in Request \ {r} : req'[q] = req[q]
      BY <1>4, <2>1, RequestsEnd DEF PublicationInv
    <3>2. contested' = contested /\ faulted' = faulted \cup {req[r].on} /\ req[r] # Idle
      BY <1>4 DEF Dies
    <3>3. \A q \in Request : ReviewRequest(q)'
      BY <1>4, <2>1, <3>1 DEF PublicationInv, ReviewRequest, At, Of, Decided, Stored, publicationVars
    <3>4. ASSUME NEW s \in Submissions
          PROVE  Agreed(s)'
      <4>1. Undisturbed(s)' => Undisturbed(s) /\ s # req[r].on
        BY <3>2 DEF Undisturbed
      <4>2. s # req[r].on => (Alone(s)' => Alone(s))
        BY <3>1 DEF Alone
      <4>3. \A q \in Request : req'[q] # Idle => req'[q] = req[q]
        BY <3>1
      <4>4. \A q \in Request : req'[q] # Idle /\ Halfway(q, s) => Halfway(q, s)'
        BY <1>3, <1>4, <4>3 DEF Halfway, At, Waiting, Of, publicationVars
      <4> QED
        BY <1>3, <1>4, <2>1, <4>1, <4>2, <4>3, <4>4 DEF PublicationInv, Agreed
    <3> QED
      BY <1>1, <1>3, <1>4, <2>1, <3>1, <3>3, <3>4 DEF PublicationInv
  <2>2. CASE scenario # "publication"
    BY <1>1, <1>3, <1>4, <2>2 DEF PublicationInv
  <2> QED
    BY <2>1, <2>2
<1>5. CASE UNCHANGED requestVars /\ UNCHANGED publicationVars
  <2>1. \A s : Agreed(s)' <=> Agreed(s)
    BY <1>3, <1>5 DEF Agreed, Undisturbed, Alone, Halfway, At, Stored, Quiet, Waiting, Of,
                      requestVars, publicationVars
  <2>2. \A r : ReviewRequest(r)' <=> ReviewRequest(r)
    BY <1>5 DEF ReviewRequest, At, Of, Decided, Stored, requestVars, publicationVars
  <2>3. RequestInv => RequestInv'
    BY <1>5 DEF RequestInv, requestVars
  <2> QED
    BY <1>1, <1>3, <1>5, <2>1, <2>2, <2>3 DEF PublicationInv
<1>6. CASE scenario # "publication" /\ UNCHANGED publicationVars
  BY <1>1, <1>3, <1>6 DEF PublicationInv
<1> QED
  BY <1>1, <1>2, <1>4, <1>5, <1>6

\* A decided submission names a change on which somebody other than its author took
\* that decision, however reviews and hand-ins overlap, and without overlap and
\* failure the two end with one status (SupplyService, OperationsService).
THEOREM ReviewsStand == ServicesSpec => []SubmissionFollowsReview
<1>1. ASSUME PublicationInv
      PROVE  SubmissionFollowsReview
  <2>1. \A s \in Submissions : submission[s].status # "none" => Stored(s) /\ scenario = "publication"
    BY <1>1 DEF Stored, NoSubmission, PublicationInv
  <2>2. \A s \in Submissions : Stored(s) /\ Undisturbed(s) /\ Alone(s) => Quiet(s)
    BY <1>1, <2>1 DEF PublicationInv, Agreed
  <2>3. RecordsInv
    BY <1>1 DEF PublicationInv
  <2> QED
    BY <2>1, <2>2, <2>3 DEF SubmissionFollowsReview, RecordsInv, Decided, Quiet, Alone
<1> QED
  BY <1>1, PublicationStart, PublicationInvStep, PTL DEF ServicesSpec

-------------------------------------------------------------------------------
(* Oversight: complaints and their events, human reviews and the reviews   *)
(* of outcomes.                                                            *)

EventTypes == {"submitted"} \cup {EventOf(x) : x \in DOMAIN Mapping}

\* An event that leads to the status.
Tells(event, status) ==
    \/ event = "submitted" /\ status \in {"submitted", "evidence"}
    \/ \E x \in DOMAIN Mapping : Mapping[x] = <<status, event>>

Busy(x, step) == \E r \in Request : req[r] # Idle /\ req[r].on = x /\ At(r, step)

\* A review is decided by one call at most, unless two of them overlapped or one
\* died: while it is open and no call is about to close it, nobody has decided.
ReviewedOnce(v) ==
    Undisturbed(v) =>
        /\ Len(reviewDecisions[v]) <= 1
        /\ humanReview[v] # "decided" /\ ~Busy(v, "put_review") => reviewDecisions[v] = <<>>
        /\ Busy(v, "put_review_decision") => reviewDecisions[v] = <<>>

OutcomeReviewedOnce(o) ==
    Undisturbed(o) =>
        /\ Len(outcomeReviews[o]) <= 1
        /\ Busy(o, "put_outcome_review") => outcomeReviews[o] = <<>>

\* The last event of a complaint, or the one about to be written, tells its status.
Told(c) ==
    Undisturbed(c) /\ complaint[c] # NoComplaint =>
        /\ ~Busy(c, "put_event") =>
               Tells(complaintEvents[c][Len(complaintEvents[c])], complaint[c].status)
        /\ \A r \in Request : req[r] # Idle /\ req[r].on = c /\ At(r, "put_event") =>
               Tells(req[r].event, complaint[c].status)

\* What the oversight keeps on record, whatever overlaps.
OversightRecords ==
    /\ DOMAIN complaint = Complaints /\ DOMAIN complaintEvents = Complaints
    /\ DOMAIN humanReview = Reviews /\ DOMAIN reviewDecisions = Reviews
    /\ DOMAIN outcomeReviews = Outcomes
    /\ \A c \in Complaints : /\ "status" \in DOMAIN complaint[c]
                             /\ complaintEvents[c] \in Seq(EventTypes)
    /\ \A v \in Reviews : /\ reviewDecisions[v] \in Seq(Deciders)
                          /\ humanReview[v] = "decided" => reviewDecisions[v] # <<>>
    /\ \A o \in Outcomes : outcomeReviews[o] \in Seq(Deciders \ {Owner})

OversightRequest(r) ==
    req[r] # Idle =>
        /\ At(r, "put_event") =>
               "event" \in DOMAIN req[r] /\ req[r].event \in EventTypes /\ req[r].on \in Complaints
        /\ At(r, "put_complaint") =>
               /\ {"action", "copy"} \subseteq DOMAIN req[r] /\ req[r].action \in DOMAIN Mapping
               /\ "status" \in DOMAIN req[r].copy /\ req[r].on \in Complaints
        /\ At(r, "put_review_decision") =>
               "user" \in DOMAIN req[r] /\ req[r].user \in Deciders /\ req[r].on \in Reviews
        /\ At(r, "put_review") => req[r].on \in Reviews /\ reviewDecisions[req[r].on] # <<>>
        /\ At(r, "put_outcome_review") =>
               req[r].user \in Deciders \ {Owner} /\ req[r].on \in Outcomes

OversightInv ==
    /\ OversightRecords
    /\ scenario # "oversight" =>
           /\ \A c \in Complaints : complaint[c] = NoComplaint
           /\ \A v \in Reviews : reviewDecisions[v] = <<>>
           /\ \A o \in Outcomes : outcomeReviews[o] = <<>>
    /\ scenario = "oversight" =>
           /\ RequestInv /\ \A r \in Request : OversightRequest(r)
           /\ \A v \in Reviews : ReviewedOnce(v)
           /\ \A o \in Outcomes : OutcomeReviewedOnce(o)
           /\ \A c \in Complaints : Told(c)

\* The initial states satisfy the invariant of the oversight.
LEMMA OversightStart == ServicesInit => OversightInv
<1> SUFFICES ASSUME ServicesInit PROVE OversightInv
  OBVIOUS
<1>1. OversightInit /\ RequestsInit
  BY DEF ServicesInit
<1>2. RequestInv /\ \A r \in Request : req[r] = Idle
  BY <1>1, RequestsStart
<1>3. /\ OversightRecords
      /\ \A c \in Complaints : complaint[c] = NoComplaint
      /\ \A v \in Reviews : reviewDecisions[v] = <<>>
      /\ \A o \in Outcomes : outcomeReviews[o] = <<>>
  <2>1. \A S : <<>> \in Seq(S)
    OBVIOUS
  <2> QED
    BY <1>1, <2>1 DEF OversightInit, OversightRecords, NoComplaint
<1>4. Len(<<>>) = 0
  OBVIOUS
<1> QED
  BY <1>2, <1>3, <1>4 DEF OversightInv, OversightRequest, ReviewedOnce, OutcomeReviewedOnce, Told, Busy

\* The table of actions: each has a status and an event that tells it.
LEMMA MappingTells ==
    ASSUME NEW x \in DOMAIN Mapping
    PROVE  Tells(EventOf(x), StatusOf(x)) /\ StatusOf(x) # "none" /\ EventOf(x) \in EventTypes
<1>1. Mapping[x] = <<StatusOf(x), EventOf(x)>> /\ StatusOf(x) # "none"
  BY DEF Mapping, StatusOf, EventOf
<1> QED
  BY <1>1 DEF Tells, EventTypes

\* One step of a request of the oversight.
LEMMA OversightMoves ==
    ASSUME OversightInv, scenario = "oversight", scenario' = scenario,
           NEW r \in Request, OversightStep(r) \/ OversightCall(r)
    PROVE  OversightInv'
<1> DEFINE RestKept == \A q \in Request \ {r} : req'[q] = req[q]
           StepOf(x) ==
               /\ RequestInv' /\ RestKept /\ contested \subseteq contested' /\ faulted \subseteq faulted'
               /\ req[r] = Idle => (Others(r, x) => x \in contested')
               /\ req[r] # Idle => req[r].on = x
               /\ req'[r] # Idle => req'[r].on = x
           Takes(steps) == (req[r] # Idle /\ req[r].at \in steps) \/ (req'[r] # Idle /\ req'[r].at \in steps)
<1>1. /\ RequestInv /\ OversightRecords
      /\ \A q \in Request : OversightRequest(q)
      /\ \A v \in Reviews : ReviewedOnce(v)
      /\ \A o \in Outcomes : OutcomeReviewedOnce(o)
      /\ \A c \in Complaints : Told(c)
  BY DEF OversightInv
\* No other request is on the record of a step, unless it is contested.
<1>2. ASSUME NEW x, StepOf(x), Undisturbed(x)'
      PROVE  /\ \A q \in Request \ {r} : req[q] = Idle \/ req[q].on # x
             /\ \A step : Busy(x, step)' => req'[r] # Idle /\ req'[r].at = step
             /\ \A step : req'[r] # Idle /\ req'[r].at = step => Busy(x, step)'
             /\ \A step : Busy(x, step) => req[r] # Idle /\ req[r].at = step
             /\ Undisturbed(x)
  <2>1. \A q \in Request \ {r} : req[q] = Idle \/ req[q].on # x
    BY <1>1, <1>2 DEF RequestInv, Undisturbed, Others
  <2> QED
    BY <1>2, <2>1 DEF Busy, At, Undisturbed
\* The other records, and the kinds of records that a step does not write.
<1>3. ASSUME NEW x, StepOf(x), NEW y, y # x
      PROVE  /\ \A step : Busy(y, step)' <=> Busy(y, step)
             /\ \A q \in Request : req'[q] # Idle /\ req'[q].on = y => req'[q] = req[q]
             /\ Undisturbed(y)' => Undisturbed(y)
  BY <1>3 DEF Busy, At, Undisturbed
<1>4. ASSUME NEW x, StepOf(x), NEW steps, ~Takes(steps)
      PROVE  \A y : \A step \in steps : Busy(y, step)' <=> Busy(y, step)
  BY <1>4 DEF Busy, At
<1>5. ASSUME NEW x, StepOf(x), ~Takes({"put_review", "put_review_decision"}),
             reviewDecisions' = reviewDecisions,
             \A v \in Reviews : humanReview'[v] # "decided" => humanReview[v] # "decided"
      PROVE  \A v \in Reviews : ReviewedOnce(v)'
  <2>1. \A v : /\ Busy(v, "put_review")' <=> Busy(v, "put_review")
               /\ Busy(v, "put_review_decision")' <=> Busy(v, "put_review_decision")
    BY <1>4, <1>5
  <2> QED
    BY <1>1, <1>5, <2>1 DEF ReviewedOnce, Undisturbed
<1>6. ASSUME NEW x, StepOf(x), ~Takes({"put_outcome_review"}), outcomeReviews' = outcomeReviews
      PROVE  \A o \in Outcomes : OutcomeReviewedOnce(o)'
  <2>1. \A o : Busy(o, "put_outcome_review")' <=> Busy(o, "put_outcome_review")
    BY <1>4, <1>6
  <2> QED
    BY <1>1, <1>6, <2>1 DEF OutcomeReviewedOnce, Undisturbed
<1>7. ASSUME NEW x, StepOf(x), ~Takes({"put_event"}), UNCHANGED <<complaint, complaintEvents>>
      PROVE  \A c \in Complaints : Told(c)'
  <2>1. \A c : Busy(c, "put_event")' <=> Busy(c, "put_event")
    BY <1>4, <1>7
  <2>2. \A q \in Request : req'[q] # Idle /\ At(q, "put_event")' => req'[q] = req[q]
    BY <1>7 DEF At
  <2> QED
    BY <1>1, <1>7, <2>1, <2>2 DEF Told, Undisturbed, At
\* What the requests hold stays true as decisions are added.
<1>8. ASSUME NEW x, StepOf(x), OversightRecords', OversightRequest(r)',
             \A v \in Reviews : reviewDecisions[v] # <<>> => reviewDecisions'[v] # <<>>,
             \A v \in Reviews : ReviewedOnce(v)', \A o \in Outcomes : OutcomeReviewedOnce(o)',
             \A c \in Complaints : Told(c)'
      PROVE  OversightInv'
  <2>1. \A q \in Request \ {r} : OversightRequest(q)'
    BY <1>1, <1>8 DEF OversightRequest, At
  <2> QED
    BY <1>8, <2>1 DEF OversightInv
\* Complaints.
<1>9. ASSUME NEW c \in Complaints, NEW e \in BOOLEAN, CreateComplaint(r, c, e)
      PROVE  OversightInv'
  <2>1. /\ req'[r] = With([at |-> "put_event", event |-> "submitted"], [on |-> c])
        /\ RestKept /\ req[r] = Idle /\ faulted' = faulted
        /\ contested' = IF Others(r, c) THEN contested \cup {c} ELSE contested
    BY <1>1, <1>9, BeginWrites DEF CreateComplaint
  <2>2. /\ {"at", "on", "event"} \subseteq DOMAIN req'[r] /\ req'[r].at = "put_event"
        /\ req'[r].on = c /\ req'[r].event = "submitted"
    BY <2>1 DEF With
  <2>3. RequestInv'
    BY <1>1, <1>9, <2>2, BeginKeeps DEF CreateComplaint
  <2>4. StepOf(c)
    BY <2>1, <2>2, <2>3
  <2>5. /\ UNCHANGED <<complaintEvents, humanReview, reviewDecisions, outcomeReviews>>
        /\ DOMAIN complaint' = Complaints
        /\ complaint'[c].status \in {"submitted", "evidence"} /\ "status" \in DOMAIN complaint'[c]
        /\ \A d \in Complaints : d # c => complaint'[d] = complaint[d]
    BY <1>1, <1>9 DEF CreateComplaint, OversightRecords
  <2>6. OversightRecords'
    BY <1>1, <2>5 DEF OversightRecords
  <2>7. OversightRequest(r)'
    BY <2>2 DEF OversightRequest, At, EventTypes
  <2>8. \A d \in Complaints : Told(d)'
    <3>1. Told(c)'
      BY <1>2, <2>1, <2>2, <2>4, <2>5 DEF Told, Tells, At, Idle
    <3>2. \A d \in Complaints : d # c => Told(d)'
      BY <1>1, <1>3, <2>4, <2>5 DEF Told, At
    <3> QED
      BY <3>1, <3>2
  <2>9. ~Takes({"put_review", "put_review_decision", "put_outcome_review"})
    BY <2>1, <2>2
  <2> QED
    BY <1>5, <1>6, <1>8, <2>4, <2>5, <2>6, <2>7, <2>8, <2>9
<1>10. ASSUME NEW u, NEW c \in Complaints, NEW action \in DOMAIN Mapping, NEW safety,
              UpdateComplaint(r, u, c, action, safety)
       PROVE  OversightInv'
  <2>1. /\ req'[r] = With([at |-> "put_complaint", user |-> u, action |-> action,
                           safety |-> safety, copy |-> complaint[c]], [on |-> c])
        /\ RestKept /\ req[r] = Idle /\ faulted' = faulted
        /\ contested' = IF Others(r, c) THEN contested \cup {c} ELSE contested
    BY <1>1, <1>10, BeginWrites DEF UpdateComplaint
  <2>2. /\ {"at", "on", "action", "copy"} \subseteq DOMAIN req'[r] /\ req'[r].at = "put_complaint"
        /\ req'[r].on = c /\ req'[r].action = action /\ req'[r].copy = complaint[c]
    BY <2>1 DEF With
  <2>3. RequestInv'
    BY <1>1, <1>10, <2>2, BeginKeeps DEF UpdateComplaint
  <2>4. StepOf(c) /\ ~Takes({"put_event", "put_review", "put_review_decision", "put_outcome_review"})
    BY <2>1, <2>2, <2>3
  <2>5. UNCHANGED <<complaint, complaintEvents, humanReview, reviewDecisions, outcomeReviews>>
    BY <1>10 DEF UpdateComplaint, oversightVars
  <2>6. OversightRecords'
    BY <1>1, <2>5 DEF OversightRecords
  <2>7. OversightRequest(r)'
    BY <1>1, <2>2 DEF OversightRequest, At, OversightRecords
  <2> QED
    BY <1>5, <1>6, <1>7, <1>8, <2>4, <2>5, <2>6, <2>7
<1>11. ASSUME PutComplaint(r)
       PROVE  OversightInv'
  <2>1. PICK c, action : c = req[r].on /\ action = req[r].action
    OBVIOUS
  <2>2. /\ req[r] # Idle /\ At(r, "put_complaint") /\ c \in Complaints
        /\ {"action", "copy"} \subseteq DOMAIN req[r] /\ action \in DOMAIN Mapping
        /\ "status" \in DOMAIN req[r].copy
    BY <1>1, <1>11, <2>1, AtIsBusy DEF PutComplaint, OversightRequest
  <2>3. PICK new : /\ complaint' = [complaint EXCEPT ![c] = new]
                   /\ "status" \in DOMAIN new /\ new.status = StatusOf(action)
    <3> DEFINE safety == IF req[r].safety # "unsaid"      THEN req[r].safety
                         ELSE IF req[r].action = "triage" THEN "reviewing"
                         ELSE req[r].copy.safety
               assigned == IF req[r].user \in Staff THEN req[r].user ELSE req[r].copy.assigned
               new == [req[r].copy EXCEPT !.status = StatusOf(action), !.safety = safety,
                                          !.assigned = assigned]
    <3>1. complaint' = [complaint EXCEPT ![c] = new]
      BY <1>11, <2>1 DEF PutComplaint
    <3> HIDE DEF safety, assigned
    <3>2. "status" \in DOMAIN new /\ new.status = StatusOf(action)
      BY <2>2
    <3> QED
      BY <3>1, <3>2
  <2>4. /\ Goto(r, [at |-> "put_event", event |-> EventOf(action)])
        /\ UNCHANGED <<complaintEvents, humanReview, reviewDecisions, outcomeReviews>>
    BY <1>11, <2>1 DEF PutComplaint
  <2>5. /\ req'[r] = With([at |-> "put_event", event |-> EventOf(action)], req[r])
        /\ RestKept /\ UNCHANGED <<contested, faulted>>
    BY <1>1, <2>4, GotoWrites
  <2>6. /\ {"at", "on", "event"} \subseteq DOMAIN req'[r] /\ req'[r].at = "put_event"
        /\ req'[r].on = c /\ req'[r].event = EventOf(action)
    BY <1>1, <2>1, <2>2, <2>5 DEF With, RequestInv
  <2>7. RequestInv'
    BY <1>1, <2>1, <2>2, <2>4, <2>6, GotoKeeps
  <2>8. StepOf(c) /\ ~Takes({"put_review", "put_review_decision", "put_outcome_review"})
    BY <2>1, <2>2, <2>5, <2>6, <2>7 DEF At
  <2>9. /\ complaint'[c] = new /\ DOMAIN complaint' = Complaints
        /\ \A d \in Complaints : d # c => complaint'[d] = complaint[d]
    BY <1>1, <2>2, <2>3 DEF OversightRecords
  <2>10. OversightRecords'
    BY <1>1, <2>3, <2>4, <2>9 DEF OversightRecords
  <2>11. OversightRequest(r)'
    BY <2>2, <2>6, MappingTells DEF OversightRequest, At
  <2>12. \A d \in Complaints : Told(d)'
    <3>1. Told(c)'
      BY <1>2, <2>2, <2>3, <2>5, <2>6, <2>8, <2>9, MappingTells DEF Told, At, Idle
    <3>2. \A d \in Complaints : d # c => Told(d)'
      BY <1>1, <1>3, <2>4, <2>8, <2>9 DEF Told, At
    <3> QED
      BY <3>1, <3>2
  <2> QED
    BY <1>5, <1>6, <1>8, <2>4, <2>8, <2>10, <2>11, <2>12
<1>12. ASSUME PutComplaintEvent(r)
       PROVE  OversightInv'
  <2>1. PICK c, event : c = req[r].on /\ event = req[r].event
    OBVIOUS
  <2>2. req[r] # Idle /\ At(r, "put_event") /\ c \in Complaints /\ event \in EventTypes
    BY <1>1, <1>12, <2>1, AtIsBusy DEF PutComplaintEvent, OversightRequest
  <2>3. /\ complaintEvents' = [complaintEvents EXCEPT ![c] = Append(@, event)] /\ Answer(r)
        /\ UNCHANGED <<complaint, humanReview, reviewDecisions, outcomeReviews>>
    BY <1>12, <2>1 DEF PutComplaintEvent
  <2>4. RequestInv' /\ req'[r] = Idle /\ RestKept /\ UNCHANGED <<contested, faulted>>
    BY <1>1, <2>3, RequestsEnd DEF Answer
  <2>5. StepOf(c) /\ ~Takes({"put_review", "put_review_decision", "put_outcome_review"})
    BY <2>1, <2>2, <2>4 DEF At
  <2>6. complaintEvents[c] \in Seq(EventTypes)
    BY <1>1, <2>2 DEF OversightRecords
  <2>7. /\ complaintEvents'[c] = Append(complaintEvents[c], event)
        /\ DOMAIN complaintEvents' = Complaints
        /\ \A d \in Complaints : d # c => complaintEvents'[d] = complaintEvents[d]
    BY <1>1, <2>2, <2>3 DEF OversightRecords
  <2>8. /\ complaintEvents'[c] \in Seq(EventTypes)
        /\ complaintEvents'[c][Len(complaintEvents'[c])] = event
    BY <2>2, <2>6, <2>7
  <2>9. OversightRecords'
    BY <1>1, <2>3, <2>7, <2>8 DEF OversightRecords
  <2>10. OversightRequest(r)'
    BY <2>4 DEF OversightRequest
  <2>11. \A d \in Complaints : Told(d)'
    <3>1. ASSUME Undisturbed(c)', complaint[c] # NoComplaint
          PROVE  Tells(event, complaint[c].status)
      BY <1>1, <1>2, <2>1, <2>2, <2>5, <3>1 DEF Told, At
    <3>2. Told(c)'
      BY <1>2, <2>3, <2>4, <2>5, <2>8, <3>1 DEF Told, At
    <3>3. \A d \in Complaints : d # c => Told(d)'
      BY <1>1, <1>3, <2>3, <2>5, <2>7 DEF Told, At
    <3> QED
      BY <3>2, <3>3
  <2> QED
    BY <1>5, <1>6, <1>8, <2>3, <2>5, <2>9, <2>10, <2>11
\* Human reviews.
<1>13. ASSUME NEW v \in Reviews, CreateReview(r, v)
       PROVE  OversightInv'
  <2>1. RequestInv' /\ req' = req /\ req[r] = Idle
    BY <1>1, <1>13, RequestsSingle DEF CreateReview, Single
  <2>2. /\ contested' = IF Others(r, v) THEN contested \cup {v} ELSE contested
        /\ faulted' = faulted
        /\ UNCHANGED <<complaint, complaintEvents, reviewDecisions, outcomeReviews>>
    BY <1>13 DEF CreateReview, Single
  <2>3. StepOf(v) /\ ~Takes({"put_event", "put_review", "put_review_decision", "put_outcome_review"})
    BY <2>1, <2>2
  <2>4. /\ humanReview[v] = "none" /\ humanReview'[v] = "queued" /\ DOMAIN humanReview' = Reviews
        /\ \A w \in Reviews : w # v => humanReview'[w] = humanReview[w]
    BY <1>1, <1>13 DEF CreateReview, OversightRecords
  <2>5. OversightRecords'
    BY <1>1, <2>2, <2>4 DEF OversightRecords
  <2>6. OversightRequest(r)'
    BY <2>1 DEF OversightRequest
  <2> QED
    BY <1>5, <1>6, <1>7, <1>8, <2>2, <2>3, <2>4, <2>5, <2>6
<1>14. ASSUME NEW u \in Deciders, NEW v \in Reviews, DecideReview(r, u, v)
       PROVE  OversightInv'
  <2>1. /\ req'[r] = With([at |-> "put_review_decision", user |-> u], [on |-> v])
        /\ RestKept /\ req[r] = Idle /\ faulted' = faulted
        /\ contested' = IF Others(r, v) THEN contested \cup {v} ELSE contested
    BY <1>1, <1>14, BeginWrites DEF DecideReview
  <2>2. /\ {"at", "on", "user"} \subseteq DOMAIN req'[r] /\ req'[r].at = "put_review_decision"
        /\ req'[r].on = v /\ req'[r].user = u
    BY <2>1 DEF With
  <2>3. RequestInv'
    BY <1>1, <1>14, <2>2, BeginKeeps DEF DecideReview
  <2>4. StepOf(v) /\ ~Takes({"put_event", "put_outcome_review"})
    BY <2>1, <2>2, <2>3
  <2>5. /\ UNCHANGED <<complaint, complaintEvents, humanReview, reviewDecisions, outcomeReviews>>
        /\ humanReview[v] # "decided"
    BY <1>14 DEF DecideReview, oversightVars
  <2>6. OversightRecords'
    BY <1>1, <2>5 DEF OversightRecords
  <2>7. OversightRequest(r)'
    BY <2>2 DEF OversightRequest, At
  <2>8. \A w \in Reviews : ReviewedOnce(w)'
    <3>1. ReviewedOnce(v)'
      <4> SUFFICES ASSUME Undisturbed(v)'
                   PROVE  Len(reviewDecisions[v]) <= 1 /\ reviewDecisions[v] = <<>>
        BY <2>5 DEF ReviewedOnce
      <4>1. Undisturbed(v) /\ ~Busy(v, "put_review")
        BY <1>2, <2>1, <2>4
      <4> QED
        BY <1>1, <2>5, <4>1 DEF ReviewedOnce
    <3>2. \A w \in Reviews : w # v => ReviewedOnce(w)'
      BY <1>1, <1>3, <2>4, <2>5 DEF ReviewedOnce
    <3> QED
      BY <3>1, <3>2
  <2> QED
    BY <1>6, <1>7, <1>8, <2>4, <2>5, <2>6, <2>7, <2>8
<1>15. ASSUME PutReviewDecision(r)
       PROVE  OversightInv'
  <2>1. PICK v, u : v = req[r].on /\ u = req[r].user
    OBVIOUS
  <2>2. /\ req[r] # Idle /\ At(r, "put_review_decision") /\ v \in Reviews /\ u \in Deciders
    BY <1>1, <1>15, <2>1, AtIsBusy DEF PutReviewDecision, OversightRequest
  <2>3. /\ reviewDecisions' = [reviewDecisions EXCEPT ![v] = Append(@, u)]
        /\ Goto(r, [at |-> "put_review"])
        /\ UNCHANGED <<complaint, complaintEvents, humanReview, outcomeReviews>>
    BY <1>15, <2>1 DEF PutReviewDecision
  <2>4. /\ req'[r] = With([at |-> "put_review"], req[r]) /\ RestKept
        /\ UNCHANGED <<contested, faulted>>
    BY <1>1, <2>3, GotoWrites
  <2>5. {"at", "on"} \subseteq DOMAIN req'[r] /\ req'[r].at = "put_review" /\ req'[r].on = v
    BY <1>1, <2>1, <2>2, <2>4 DEF With, RequestInv
  <2>6. RequestInv'
    BY <1>1, <2>1, <2>2, <2>3, <2>5, GotoKeeps
  <2>7. StepOf(v) /\ ~Takes({"put_event", "put_outcome_review"})
    BY <2>1, <2>2, <2>4, <2>5, <2>6 DEF At
  <2>8. reviewDecisions[v] \in Seq(Deciders)
    BY <1>1, <2>2 DEF OversightRecords
  <2>9. /\ reviewDecisions'[v] = Append(reviewDecisions[v], u) /\ DOMAIN reviewDecisions' = Reviews
        /\ \A w \in Reviews : w # v => reviewDecisions'[w] = reviewDecisions[w]
    BY <1>1, <2>2, <2>3 DEF OversightRecords
  <2>10. /\ reviewDecisions'[v] \in Seq(Deciders) /\ reviewDecisions'[v] # <<>>
         /\ Len(reviewDecisions'[v]) = Len(reviewDecisions[v]) + 1
    BY <2>2, <2>8, <2>9
  <2>11. OversightRecords'
    BY <1>1, <2>3, <2>9, <2>10 DEF OversightRecords
  <2>12. OversightRequest(r)'
    BY <2>2, <2>5, <2>10 DEF OversightRequest, At
  <2>13. \A w \in Reviews : ReviewedOnce(w)'
    <3>1. ReviewedOnce(v)'
      <4> SUFFICES ASSUME Undisturbed(v)'
                   PROVE  Len(reviewDecisions'[v]) <= 1 /\ Busy(v, "put_review")'
                          /\ ~Busy(v, "put_review_decision")'
        BY DEF ReviewedOnce
      <4>1. Undisturbed(v) /\ Busy(v, "put_review_decision")
        BY <1>2, <2>1, <2>2, <2>7 DEF Busy
      <4>2. reviewDecisions[v] = <<>>
        BY <1>1, <2>2, <4>1 DEF ReviewedOnce
      <4>3. Len(reviewDecisions'[v]) <= 1
        BY <2>10, <4>2
      <4> QED
        BY <1>2, <2>5, <2>7, <4>3 DEF Idle
    <3>2. \A w \in Reviews : w # v => ReviewedOnce(w)'
      BY <1>1, <1>3, <2>3, <2>7, <2>9 DEF ReviewedOnce
    <3> QED
      BY <3>1, <3>2
  <2>14. \A w \in Reviews : reviewDecisions[w] # <<>> => reviewDecisions'[w] # <<>>
    BY <2>9, <2>10
  <2> QED
    BY <1>6, <1>7, <1>8, <2>3, <2>7, <2>11, <2>12, <2>13, <2>14
<1>16. ASSUME PutReview(r)
       PROVE  OversightInv'
  <2>1. PICK v : v = req[r].on
    OBVIOUS
  <2>2. req[r] # Idle /\ At(r, "put_review") /\ v \in Reviews /\ reviewDecisions[v] # <<>>
    BY <1>1, <1>16, <2>1, AtIsBusy DEF PutReview, OversightRequest
  <2>3. /\ humanReview' = [humanReview EXCEPT ![v] = "decided"] /\ Answer(r)
        /\ UNCHANGED <<complaint, complaintEvents, reviewDecisions, outcomeReviews>>
    BY <1>16, <2>1 DEF PutReview
  <2>4. RequestInv' /\ req'[r] = Idle /\ RestKept /\ UNCHANGED <<contested, faulted>>
    BY <1>1, <2>3, RequestsEnd DEF Answer
  <2>5. StepOf(v) /\ ~Takes({"put_event", "put_outcome_review"})
    BY <2>1, <2>2, <2>4 DEF At
  <2>6. /\ humanReview'[v] = "decided" /\ DOMAIN humanReview' = Reviews
        /\ \A w \in Reviews : w # v => humanReview'[w] = humanReview[w]
    BY <1>1, <2>2, <2>3 DEF OversightRecords
  <2>7. OversightRecords'
    BY <1>1, <2>2, <2>3, <2>6 DEF OversightRecords
  <2>8. OversightRequest(r)'
    BY <2>4 DEF OversightRequest
  <2>9. \A w \in Reviews : ReviewedOnce(w)'
    <3>1. ReviewedOnce(v)'
      <4> SUFFICES ASSUME Undisturbed(v)'
                   PROVE  Len(reviewDecisions[v]) <= 1 /\ ~Busy(v, "put_review_decision")'
        BY <2>3, <2>6 DEF ReviewedOnce
      <4> QED
        BY <1>1, <1>2, <2>2, <2>4, <2>5 DEF ReviewedOnce
    <3>2. \A w \in Reviews : w # v => ReviewedOnce(w)'
      BY <1>1, <1>3, <2>3, <2>5, <2>6 DEF ReviewedOnce
    <3> QED
      BY <3>1, <3>2
  <2> QED
    BY <1>6, <1>7, <1>8, <2>3, <2>5, <2>7, <2>8, <2>9
\* Outcomes.
<1>17. ASSUME NEW o \in Outcomes, RecordOutcome(r, o)
       PROVE  OversightInv'
  <2>1. RequestInv' /\ req' = req /\ req[r] = Idle
    BY <1>1, <1>17, RequestsSingle DEF RecordOutcome, Single
  <2>2. /\ contested' = IF Others(r, o) THEN contested \cup {o} ELSE contested
        /\ faulted' = faulted
        /\ UNCHANGED <<complaint, complaintEvents, humanReview, reviewDecisions, outcomeReviews>>
    BY <1>17 DEF RecordOutcome, Single
  <2>3. StepOf(o) /\ ~Takes({"put_event", "put_review", "put_review_decision", "put_outcome_review"})
    BY <2>1, <2>2
  <2>4. OversightRecords' /\ OversightRequest(r)'
    BY <1>1, <2>1, <2>2 DEF OversightRecords, OversightRequest
  <2> QED
    BY <1>5, <1>6, <1>7, <1>8, <2>2, <2>3, <2>4
<1>18. ASSUME NEW u \in Deciders, NEW o \in Outcomes, ReviewOutcome(r, u, o)
       PROVE  OversightInv'
  <2>1. /\ req'[r] = With([at |-> "put_outcome_review", user |-> u], [on |-> o])
        /\ RestKept /\ req[r] = Idle /\ faulted' = faulted
        /\ contested' = IF Others(r, o) THEN contested \cup {o} ELSE contested
    BY <1>1, <1>18, BeginWrites DEF ReviewOutcome
  <2>2. /\ {"at", "on", "user"} \subseteq DOMAIN req'[r] /\ req'[r].at = "put_outcome_review"
        /\ req'[r].on = o /\ req'[r].user = u
    BY <2>1 DEF With
  <2>3. RequestInv'
    BY <1>1, <1>18, <2>2, BeginKeeps DEF ReviewOutcome
  <2>4. StepOf(o) /\ ~Takes({"put_event", "put_review", "put_review_decision"})
    BY <2>1, <2>2, <2>3
  <2>5. /\ UNCHANGED <<complaint, complaintEvents, humanReview, reviewDecisions, outcomeReviews>>
        /\ outcomeReviews[o] = <<>> /\ u # Owner
    BY <1>18 DEF ReviewOutcome, oversightVars
  <2>6. OversightRecords' /\ OversightRequest(r)'
    BY <1>1, <2>2, <2>5 DEF OversightRecords, OversightRequest, At
  <2>7. \A p \in Outcomes : OutcomeReviewedOnce(p)'
    <3>1. OutcomeReviewedOnce(o)'
      BY <2>5 DEF OutcomeReviewedOnce
    <3>2. \A p \in Outcomes : p # o => OutcomeReviewedOnce(p)'
      BY <1>1, <1>3, <2>4, <2>5 DEF OutcomeReviewedOnce
    <3> QED
      BY <3>1, <3>2
  <2> QED
    BY <1>5, <1>7, <1>8, <2>4, <2>5, <2>6, <2>7
<1>19. ASSUME PutOutcomeReview(r)
       PROVE  OversightInv'
  <2>1. PICK o, u : o = req[r].on /\ u = req[r].user
    OBVIOUS
  <2>2. /\ req[r] # Idle /\ At(r, "put_outcome_review") /\ o \in Outcomes
        /\ u \in Deciders \ {Owner}
    BY <1>1, <1>19, <2>1, AtIsBusy DEF PutOutcomeReview, OversightRequest
  <2>3. /\ outcomeReviews' = [outcomeReviews EXCEPT ![o] = Append(@, u)] /\ Answer(r)
        /\ UNCHANGED <<complaint, complaintEvents, humanReview, reviewDecisions>>
    BY <1>19, <2>1 DEF PutOutcomeReview
  <2>4. RequestInv' /\ req'[r] = Idle /\ RestKept /\ UNCHANGED <<contested, faulted>>
    BY <1>1, <2>3, RequestsEnd DEF Answer
  <2>5. StepOf(o) /\ ~Takes({"put_event", "put_review", "put_review_decision"})
    BY <2>1, <2>2, <2>4 DEF At
  <2>6. outcomeReviews[o] \in Seq(Deciders \ {Owner})
    BY <1>1, <2>2 DEF OversightRecords
  <2>7. /\ outcomeReviews'[o] = Append(outcomeReviews[o], u) /\ DOMAIN outcomeReviews' = Outcomes
        /\ \A p \in Outcomes : p # o => outcomeReviews'[p] = outcomeReviews[p]
    BY <1>1, <2>2, <2>3 DEF OversightRecords
  <2>8. /\ outcomeReviews'[o] \in Seq(Deciders \ {Owner})
        /\ Len(outcomeReviews'[o]) = Len(outcomeReviews[o]) + 1
    BY <2>2, <2>6, <2>7
  <2>9. OversightRecords' /\ OversightRequest(r)'
    BY <1>1, <2>3, <2>4, <2>7, <2>8 DEF OversightRecords, OversightRequest
  <2>10. \A p \in Outcomes : OutcomeReviewedOnce(p)'
    <3>1. OutcomeReviewedOnce(o)'
      <4> SUFFICES ASSUME Undisturbed(o)'
                   PROVE  Len(outcomeReviews'[o]) <= 1 /\ ~Busy(o, "put_outcome_review")'
        BY DEF OutcomeReviewedOnce
      <4>1. Undisturbed(o) /\ Busy(o, "put_outcome_review") /\ ~Busy(o, "put_outcome_review")'
        BY <1>2, <2>1, <2>2, <2>4, <2>5 DEF Busy
      <4>2. outcomeReviews[o] = <<>>
        BY <1>1, <2>2, <4>1 DEF OutcomeReviewedOnce
      <4> QED
        BY <2>8, <4>1, <4>2
    <3>2. \A p \in Outcomes : p # o => OutcomeReviewedOnce(p)'
      BY <1>1, <1>3, <2>5, <2>7 DEF OutcomeReviewedOnce
    <3> QED
      BY <3>1, <3>2
  <2> QED
    BY <1>5, <1>7, <1>8, <2>3, <2>5, <2>9, <2>10
<1> QED
  BY <1>9, <1>10, <1>11, <1>12, <1>13, <1>14, <1>15, <1>16, <1>17, <1>18, <1>19
     DEF OversightStep, OversightCall

\* Every step keeps the invariant of the oversight.
LEMMA OversightInvStep ==
    ASSUME OversightInv, [ServicesNext]_vars
    PROVE  OversightInv'
<1>1. /\ scenario' = scenario
      /\ \/ scenario = "oversight" /\ OversightNext
         \/ (\E r \in Request : Dies(r)) /\ UNCHANGED oversightVars
         \/ UNCHANGED requestVars /\ UNCHANGED oversightVars
         \/ scenario # "oversight" /\ UNCHANGED oversightVars
  BY DEF ServicesNext, Move, Publish, Apply, Oversee, Account, Prepare, SignIn, Settle,
         TrackJourneys, Keep, Persist, Synchronize, Only, Die, vars
<1>2. CASE scenario = "oversight" /\ OversightNext
  BY <1>1, <1>2, OversightMoves DEF OversightNext
<1>3. ASSUME UNCHANGED oversightVars
      PROVE  OversightRecords' /\ UNCHANGED <<complaint, complaintEvents, humanReview,
                                              reviewDecisions, outcomeReviews>>
  BY <1>3 DEF OversightInv, OversightRecords, oversightVars
<1>4. ASSUME NEW r \in Request, Dies(r), UNCHANGED oversightVars
      PROVE  OversightInv'
  <2>1. CASE scenario = "oversight"
    <3>1. /\ RequestInv' /\ req'[r] = Idle /\ \A q \in Request \ {r} : req'[q] = req[q]
      BY <1>4, <2>1, RequestsEnd DEF OversightInv
    <3>2. contested' = contested /\ faulted' = faulted \cup {req[r].on} /\ req[r] # Idle
      BY <1>4 DEF Dies
    <3>3. \A q \in Request : OversightRequest(q)'
      BY <1>3, <1>4, <2>1, <3>1 DEF OversightInv, OversightRequest, At
    <3>4. \A x : Undisturbed(x)' => Undisturbed(x) /\ x # req[r].on
      BY <3>2 DEF Undisturbed
    <3>5. \A x, step : x # req[r].on => (Busy(x, step)' <=> Busy(x, step))
      BY <3>1 DEF Busy, At
    <3>6. \A v \in Reviews : ReviewedOnce(v)'
      BY <1>3, <1>4, <2>1, <3>4, <3>5 DEF OversightInv, ReviewedOnce
    <3>7. \A o \in Outcomes : OutcomeReviewedOnce(o)'
      BY <1>3, <1>4, <2>1, <3>4, <3>5 DEF OversightInv, OutcomeReviewedOnce
    <3>8. \A c \in Complaints : Told(c)'
      BY <1>3, <1>4, <2>1, <3>1, <3>4, <3>5 DEF OversightInv, Told, At
    <3> QED
      BY <1>1, <1>3, <1>4, <2>1, <3>1, <3>3, <3>6, <3>7, <3>8 DEF OversightInv
  <2>2. CASE scenario # "oversight"
    BY <1>1, <1>3, <1>4, <2>2 DEF OversightInv
  <2> QED
    BY <2>1, <2>2
<1>5. CASE UNCHANGED requestVars /\ UNCHANGED oversightVars
  <2>1. UNCHANGED <<req, contested, faulted>>
    BY <1>5 DEF requestVars
  <2> QED
    BY <1>1, <1>3, <1>5, <2>1 DEF OversightInv, OversightRequest, ReviewedOnce, OutcomeReviewedOnce,
                                  Told, Busy, At, Undisturbed, RequestInv
<1>6. CASE scenario # "oversight" /\ UNCHANGED oversightVars
  BY <1>1, <1>3, <1>6 DEF OversightInv
<1> QED
  BY <1>1, <1>2, <1>4, <1>5, <1>6

\* A review says decided only after its decision was written, nobody reviews an
\* outcome of his own, and without overlap and failure there is one decision and the
\* last event of a complaint tells its status (OperationsService, OutcomesService).
THEOREM DecisionsAreSingle == ServicesSpec => []DecidedOnce
<1>1. ASSUME OversightInv
      PROVE  DecidedOnce
  <2>1. OversightRecords
    BY <1>1 DEF OversightInv
  <2>2. ASSUME NEW v \in Reviews
        PROVE  /\ humanReview[v] = "decided" => reviewDecisions[v] # <<>>
               /\ Undisturbed(v) => Len(reviewDecisions[v]) <= 1
    <3>1. Len(<<>>) <= 1
      OBVIOUS
    <3> QED
      BY <1>1, <2>1, <3>1 DEF OversightInv, OversightRecords, ReviewedOnce
  <2>3. ASSUME NEW o \in Outcomes
        PROVE  /\ \A i \in 1..Len(outcomeReviews[o]) : outcomeReviews[o][i] # Owner
               /\ Undisturbed(o) => Len(outcomeReviews[o]) <= 1
    <3>1. Len(<<>>) <= 1
      OBVIOUS
    <3>2. outcomeReviews[o] \in Seq(Deciders \ {Owner})
      BY <2>1 DEF OversightRecords
    <3>3. \A i \in 1..Len(outcomeReviews[o]) : outcomeReviews[o][i] \in Deciders \ {Owner}
      BY <3>2, ElementOfSeq
    <3> QED
      BY <1>1, <3>1, <3>3 DEF OversightInv, OutcomeReviewedOnce
  <2>4. ASSUME NEW c \in Complaints, complaint[c] # NoComplaint, Undisturbed(c),
               \A r \in Request : req[r] = Idle \/ req[r].on # c
        PROVE  Tells(complaintEvents[c][Len(complaintEvents[c])], complaint[c].status)
    BY <1>1, <2>4 DEF OversightInv, Told, Busy
  <2> QED
    BY <2>2, <2>3, <2>4 DEF DecidedOnce, Tells
<1> QED
  BY <1>1, OversightStart, OversightInvStep, PTL DEF ServicesSpec


-------------------------------------------------------------------------------
(* Accounts: what holds of a request, whatever overlaps. *)

ChallengeRecord ==
    [phone : Phones, age : {"live", "expired", "aged"}, attempts : Nat, consumed : BOOLEAN]

DelegationRecord ==
    [status : {"invited", "active", "revoked"}, principal : Users, phone : Phones,
     delegate : Users \cup {"none"}]

Guess     == {"put_attempt", "put_consumed"}
Entering  == {"find_user", "put_user", "put_profile", "put_account_consent", "put_session"}
ForUser   == {"put_profile", "put_account_consent", "put_session", "put_missing_profile"}
OnPhone   == Guess \cup Entering \cup {"put_challenge", "put_missing_profile"}
Inviting  == {"put_delegation_consent", "find_delegate", "put_delegation"}

\* A request knows the challenge that was answered, a user of its phone, and the
\* relative whom the invited phone belongs to.
AccountRequest(r) ==
    req[r] # Idle =>
        /\ req[r].at \in OnPhone => req[r].on \in Phones
        /\ req[r].at \in Guess \cup Entering =>
               /\ "challenge" \in DOMAIN req[r] /\ req[r].challenge \in Challenges
               /\ challenge[req[r].challenge] # NoChallenge
               /\ challenge[req[r].challenge].phone = req[r].on
        /\ req[r].at \in Guess => "copy" \in DOMAIN req[r] /\ req[r].copy \in ChallengeRecord
        /\ req[r].at \in ForUser =>
               "user" \in DOMAIN req[r] /\ req[r].user \in Users /\ user[req[r].user] = req[r].on
        /\ At(r, "put_session") => req[r].user \in consented
        /\ req[r].at \in Inviting =>
               /\ req[r].on \in Users /\ user[req[r].on] # "none"
               /\ "phone" \in DOMAIN req[r] /\ req[r].phone \in Phones
        /\ req[r].at \in {"find_delegate", "put_delegation"} =>
               "delegation" \in DOMAIN req[r] /\ req[r].delegation \in Delegations
        /\ At(r, "put_delegation") =>
               \/ req[r].delegate = "none"
               \/ req[r].delegate \in Users /\ user[req[r].delegate] = req[r].phone

\* A session was opened for the phone its code was sent to, and a relative who acts
\* for a user has the phone that was invited.
SessionInv(s) ==
    /\ s.user \in consented /\ s.user \in Users
    /\ s.challenge \in Challenges /\ challenge[s.challenge] # NoChallenge
    /\ user[s.user] = challenge[s.challenge].phone

DelegationInv(d) ==
    /\ delegation[d] \in DelegationRecord \/ delegation[d].status \in {"none", "consented"}
    /\ delegation[d].status = "active" =>
           /\ delegation[d].delegate \in Users
           /\ user[delegation[d].delegate] = delegation[d].phone
           /\ user[delegation[d].principal] # "none"

AccountRecords ==
    /\ challenge \in [Challenges -> ChallengeRecord \cup {NoChallenge}]
    /\ IsFiniteSet({h \in Challenges : challenge[h] # NoChallenge})
    /\ user \in [Users -> Phones \cup {"none"}]
    /\ profiles \in [Users -> Nat] /\ guesses \in [Challenges -> Nat]
    /\ \A u \in Users : user[u] = "none" => profiles[u] = 0
    /\ \A h \in Challenges : challenge[h] = NoChallenge => guesses[h] = 0
    /\ DOMAIN delegation = Delegations
    /\ \A d \in Delegations : DelegationInv(d)
    /\ \A s \in sessions : SessionInv(s)

-------------------------------------------------------------------------------
(* What holds of a phone or a user whose requests never overlapped. *)

SessionsOf(h) == {s \in sessions : s.challenge = h}

\* The one request on it still finds what it has read.
QuietRequest(r) ==
    req[r] # Idle /\ req[r].on \notin contested =>
        /\ At(r, "put_challenge") => Cardinality(InWindow(req[r].on)) < MaxChallenges
        /\ req[r].at \in Guess =>
               LET h == req[r].challenge
               IN  /\ challenge[h].attempts = req[r].copy.attempts
                   /\ ~challenge[h].consumed /\ ~req[r].copy.consumed
                   /\ SessionsOf(h) = {}
                   /\ req[r].on \notin faulted =>
                          guesses[h] <= challenge[h].attempts + 1 /\ guesses[h] <= MaxAttempts
        /\ req[r].at \in Entering =>
               challenge[req[r].challenge].consumed /\ SessionsOf(req[r].challenge) = {}
        /\ At(r, "put_user") => Owners(req[r].on) = {}
        /\ req[r].at \in {"put_profile", "put_missing_profile"} => profiles[req[r].user] = 0
        /\ req[r].at \in Inviting => OpenTo(req[r].on, req[r].phone) = {}

\* A code of the phone is being compared.
Comparing(h) == \E r \in Request : req[r] # Idle /\ req[r].at \in Guess /\ req[r].challenge = h

QuietChallenge(p, h) ==
    /\ OneAtMost(SessionsOf(h))
    /\ SessionsOf(h) # {} => challenge[h].consumed
    /\ p \notin faulted =>
           /\ guesses[h] <= MaxAttempts
           /\ ~challenge[h].consumed /\ ~Comparing(h) => guesses[h] <= challenge[h].attempts

CodesHold(p) ==
    /\ \A h \in Issued(p) : QuietChallenge(p, h)
    /\ Cardinality(InWindow(p)) <= MaxChallenges

OwnersHold(p) ==
    /\ OneAtMost(Owners(p))
    /\ \A u \in Owners(p) : profiles[u] <= 1

QuietPhone(p) == CodesHold(p) /\ OwnersHold(p)

QuietUser(u) == \A p \in Phones : OneAtMost(OpenTo(u, p))

AccountsHold ==
    /\ RequestInv /\ AccountRecords
    /\ \A r \in Request : AccountRequest(r) /\ QuietRequest(r)
    /\ \A p \in Phones \ contested : QuietPhone(p)
    /\ \A u \in Users \ contested : QuietUser(u)

\* While another service is exercised nobody has signed in.
Untouched ==
    /\ challenge = [h \in Challenges |-> NoChallenge]
    /\ user = [u \in Users |-> "none"]
    /\ sessions = {}
    /\ delegation = [d \in Delegations |-> NoDelegation]

AccountsInv == IF scenario = "accounts" THEN AccountsHold ELSE Untouched

-------------------------------------------------------------------------------
(* What a step leaves alone. *)

\* No step takes back a challenge, the phone of a user or a consent.
Stays ==
    /\ \A h \in Challenges : challenge[h] # NoChallenge =>
           challenge'[h] # NoChallenge /\ challenge'[h].phone = challenge[h].phone
    /\ \A u \in Users : user[u] # "none" => user'[u] = user[u]
    /\ consented \subseteq consented'

\* What belongs to x is as it was, but that codes may age and delegations end.
CodesApart(x) ==
    /\ InWindow(x)' \subseteq InWindow(x)
    /\ Issued(x)' = Issued(x)
    /\ \A h \in Issued(x) : /\ challenge'[h].attempts = challenge[h].attempts
                            /\ challenge'[h].consumed = challenge[h].consumed
                            /\ guesses'[h] = guesses[h]
                            /\ SessionsOf(h)' = SessionsOf(h)

OwnersApart(x) == Owners(x)' = Owners(x) /\ \A u \in Owners(x) : profiles'[u] = profiles[u]

UserApart(x) == \A p \in Phones : OpenTo(x, p)' \subseteq OpenTo(x, p)

Apart(x) ==
    /\ x \in Phones => CodesApart(x) /\ OwnersApart(x)
    /\ x \in Users => UserApart(x)

\* A request that waits keeps what it knows, whatever another does.
LEMMA KeptRequest ==
    ASSUME AccountRecords, Stays, NEW q \in Request, AccountRequest(q), req'[q] = req[q]
    PROVE  AccountRequest(q)'
<1> SUFFICES ASSUME req[q] # Idle PROVE AccountRequest(q)'
  BY DEF AccountRequest
<1>1. "none" \notin Phones
  BY AccountsAssumption
<1>2. /\ At(q, "put_challenge")' <=> At(q, "put_challenge")
      /\ At(q, "put_session")' <=> At(q, "put_session")
      /\ At(q, "put_delegation")' <=> At(q, "put_delegation")
  BY DEF At
<1>3. req[q].at \in Guess \cup Entering =>
          /\ "challenge" \in DOMAIN req[q] /\ req[q].challenge \in Challenges
          /\ challenge'[req[q].challenge] # NoChallenge
          /\ challenge'[req[q].challenge].phone = req[q].on
  BY DEF AccountRequest, Stays
<1>4. req[q].at \in OnPhone => req[q].on \in Phones
  BY DEF AccountRequest
<1>5. req[q].at \in ForUser => req[q].at \in OnPhone
  BY DEF ForUser, OnPhone, Entering, Guess
<1>6. req[q].at \in ForUser =>
          "user" \in DOMAIN req[q] /\ req[q].user \in Users /\ user'[req[q].user] = req[q].on
  BY <1>1, <1>4, <1>5 DEF AccountRequest, Stays
<1>7. req[q].at \in Inviting =>
          /\ req[q].on \in Users /\ user'[req[q].on] # "none"
          /\ "phone" \in DOMAIN req[q] /\ req[q].phone \in Phones
  BY DEF AccountRequest, Stays
<1>8. At(q, "put_delegation") =>
          \/ req[q].delegate = "none"
          \/ req[q].delegate \in Users /\ user'[req[q].delegate] = req[q].phone
  <2>1. At(q, "put_delegation") => req[q].at \in Inviting
    BY DEF At, Inviting
  <2>2. At(q, "put_delegation") =>
            \/ req[q].delegate = "none"
            \/ req[q].delegate \in Users /\ user[req[q].delegate] = req[q].phone
    BY DEF AccountRequest
  <2>3. req[q].at \in Inviting => req[q].phone # "none"
    BY <1>1, <1>7
  <2> QED
    BY <2>1, <2>2, <2>3 DEF Stays
<1>9. At(q, "put_session") => req[q].user \in consented'
  BY DEF AccountRequest, Stays
<1>10. /\ req[q].at \in Guess => "copy" \in DOMAIN req[q] /\ req[q].copy \in ChallengeRecord
       /\ req[q].at \in {"find_delegate", "put_delegation"} =>
              "delegation" \in DOMAIN req[q] /\ req[q].delegation \in Delegations
  BY DEF AccountRequest
<1> QED
  BY <1>2, <1>3, <1>4, <1>6, <1>7, <1>8, <1>9, <1>10 DEF AccountRequest

\* A window that only shrinks holds no more codes.
LEMMA WindowShrinks ==
    ASSUME AccountRecords, NEW p, InWindow(p)' \subseteq InWindow(p)
    PROVE  /\ Cardinality(InWindow(p)) \in Nat /\ Cardinality(InWindow(p)') \in Nat
           /\ Cardinality(InWindow(p)') <= Cardinality(InWindow(p))
<1>1. InWindow(p) \subseteq {h \in Challenges : challenge[h] # NoChallenge}
  BY DEF InWindow, Issued
<1>2. IsFiniteSet(InWindow(p))
  BY <1>1, FS_Subset DEF AccountRecords
<1> QED
  BY <1>2, FS_Subset, FS_CardinalityType

\* Neither does it lose what it has found, as long as the step is about another record.
LEMMA KeptQuiet ==
    ASSUME AccountRecords, NEW q \in Request, AccountRequest(q), QuietRequest(q), req'[q] = req[q],
           Apart(req[q].on), contested \subseteq contested', faulted \subseteq faulted'
    PROVE  QuietRequest(q)'
<1> SUFFICES ASSUME req[q] # Idle, req[q].on \notin contested'
             PROVE  QuietRequest(q)'
  BY DEF QuietRequest
<1>1. PICK x, a : x = req[q].on /\ a = req[q].at
  OBVIOUS
<1>2. x \notin contested /\ Apart(x)
  BY <1>1
<1>3. ASSUME a = "put_challenge" PROVE Cardinality(InWindow(x)') < MaxChallenges
  <2>1. x \in Phones /\ Cardinality(InWindow(x)) < MaxChallenges
    BY <1>1, <1>2, <1>3 DEF AccountRequest, QuietRequest, At, OnPhone
  <2>2. InWindow(x)' \subseteq InWindow(x)
    BY <1>2, <2>1 DEF Apart, CodesApart
  <2> QED
    BY <2>1, <2>2, WindowShrinks, AccountsAssumption
<1>4. ASSUME a \in Guess \cup Entering
      PROVE  /\ req[q].challenge \in Issued(x)
             /\ challenge'[req[q].challenge].attempts = challenge[req[q].challenge].attempts
             /\ challenge'[req[q].challenge].consumed = challenge[req[q].challenge].consumed
             /\ guesses'[req[q].challenge] = guesses[req[q].challenge]
             /\ SessionsOf(req[q].challenge)' = SessionsOf(req[q].challenge)
  <2>1. x \in Phones /\ req[q].challenge \in Issued(x)
    BY <1>1, <1>4 DEF AccountRequest, OnPhone, Issued
  <2> QED
    BY <1>2, <2>1 DEF Apart, CodesApart
<1>5. ASSUME a \in Guess
      PROVE  LET h == req[q].challenge
             IN  /\ challenge'[h].attempts = req[q].copy.attempts
                 /\ ~challenge'[h].consumed /\ ~req[q].copy.consumed
                 /\ SessionsOf(h)' = {}
                 /\ x \notin faulted' =>
                        guesses'[h] <= challenge'[h].attempts + 1 /\ guesses'[h] <= MaxAttempts
  BY <1>1, <1>2, <1>4, <1>5 DEF QuietRequest
<1>6. ASSUME a \in Entering
      PROVE  challenge'[req[q].challenge].consumed /\ SessionsOf(req[q].challenge)' = {}
  BY <1>1, <1>2, <1>4, <1>6 DEF QuietRequest
<1>7. ASSUME a = "put_user" PROVE Owners(x)' = {}
  BY <1>1, <1>2, <1>7 DEF QuietRequest, AccountRequest, Apart, OwnersApart, At, OnPhone, Entering
<1>8. ASSUME a \in {"put_profile", "put_missing_profile"} PROVE profiles'[req[q].user] = 0
  <2>1. x \in Phones /\ req[q].user \in Owners(x) /\ profiles[req[q].user] = 0
    BY <1>1, <1>2, <1>8 DEF QuietRequest, AccountRequest, OnPhone, Entering, ForUser, Owners
  <2> QED
    BY <1>2, <2>1 DEF Apart, OwnersApart
<1>9. ASSUME a \in Inviting PROVE OpenTo(x, req[q].phone)' = {}
  BY <1>1, <1>2, <1>9 DEF QuietRequest, AccountRequest, Apart, UserApart
<1> QED
  BY <1>1, <1>3, <1>5, <1>6, <1>7, <1>8, <1>9 DEF QuietRequest, At

\* And what belongs to another record stays as good as it was.
LEMMA KeptCodes ==
    ASSUME AccountRecords, NEW p, CodesHold(p), CodesApart(p), faulted \subseteq faulted',
           p \in faulted' \/ \A h \in Issued(p) : Comparing(h) => Comparing(h)'
    PROVE  CodesHold(p)'
<1>1. ASSUME NEW h \in Issued(p) PROVE QuietChallenge(p, h)'
  <2>1. QuietChallenge(p, h)
    BY DEF CodesHold
  <2>2. /\ challenge'[h].attempts = challenge[h].attempts
        /\ challenge'[h].consumed = challenge[h].consumed
        /\ guesses'[h] = guesses[h]
        /\ SessionsOf(h)' = SessionsOf(h)
    BY DEF CodesApart
  <2> QED
    BY <2>1, <2>2 DEF QuietChallenge, OneAtMost
<1>2. Cardinality(InWindow(p)') <= MaxChallenges
  BY WindowShrinks, AccountsAssumption DEF CodesHold, CodesApart
<1>3. Issued(p)' = Issued(p)
  BY DEF CodesApart
<1> QED
  BY <1>1, <1>2, <1>3 DEF CodesHold

\* A code that is being compared still is, when another request moves.
LEMMA KeptComparing ==
    ASSUME NEW r \in Request, \A q \in Request \ {r} : req'[q] = req[q],
           req[r] = Idle \/ req[r].at \notin Guess, NEW h, Comparing(h)
    PROVE  Comparing(h)'
BY DEF Comparing

\* Neither the users of a phone nor the delegations of a user are touched.
LEMMA KeptOwners ==
    ASSUME NEW x
    PROVE  /\ OwnersApart(x) /\ OwnersHold(x) => OwnersHold(x)'
           /\ UserApart(x) /\ QuietUser(x) => QuietUser(x)'
BY DEF OwnersApart, OwnersHold, UserApart, QuietUser, OneAtMost

\* What has to be shown of a step of request r on record x.
LEMMA AccountsFrame ==
    ASSUME AccountsHold, NEW r \in Request, NEW x,
           RequestInv', AccountRecords', Stays,
           contested \subseteq contested', faulted \subseteq faulted',
           \A q \in Request \ {r} : req'[q] = req[q],
           req[r] # Idle => req[r].on = x,
           \A q \in Request \ {r} : req[q] # Idle /\ req[q].on = x => x \in contested',
           \A y : y # x => Apart(y),
           AccountRequest(r)', QuietRequest(r)',
           x \in Phones \ contested' => QuietPhone(x)',
           x \in Users \ contested' => QuietUser(x)'
    PROVE  AccountsHold'
<1>1. RequestInv /\ AccountRecords /\ \A q \in Request : AccountRequest(q) /\ QuietRequest(q)
  BY DEF AccountsHold
<1>2. ASSUME NEW q \in Request \ {r} PROVE AccountRequest(q)' /\ QuietRequest(q)'
  <2>1. AccountRequest(q)'
    BY <1>1, <1>2, KeptRequest
  <2>2. CASE req[q] # Idle /\ req[q].on # x
    BY <1>1, <1>2, <2>1, <2>2, KeptQuiet
  <2>3. CASE req[q] # Idle /\ req[q].on = x
    BY <1>2, <2>1, <2>3 DEF QuietRequest
  <2>4. CASE req[q] = Idle
    BY <1>2, <2>1, <2>4 DEF QuietRequest
  <2> QED
    BY <2>1, <2>2, <2>3, <2>4
<1>3. ASSUME NEW p \in Phones \ contested', p # x PROVE QuietPhone(p)'
  <2>1. CodesHold(p) /\ OwnersHold(p) /\ CodesApart(p) /\ OwnersApart(p)
    BY <1>3 DEF AccountsHold, QuietPhone, Apart
  <2>2. ASSUME NEW h \in Issued(p), Comparing(h) PROVE Comparing(h)'
    BY <1>1, <1>3, <2>2 DEF Comparing, AccountRequest, Issued
  <2> QED
    BY <1>1, <2>1, <2>2, KeptCodes, KeptOwners DEF QuietPhone
<1>4. ASSUME NEW u \in Users \ contested', u # x PROVE QuietUser(u)'
  BY <1>4, KeptOwners DEF AccountsHold, Apart
<1>5. \A p \in Phones \ contested' : QuietPhone(p)'
  BY <1>3
<1>6. \A u \in Users \ contested' : QuietUser(u)'
  BY <1>4
<1>7. \A q \in Request : AccountRequest(q)' /\ QuietRequest(q)'
  BY <1>2
<1> QED
  BY <1>5, <1>6, <1>7 DEF AccountsHold

\* The same of a step that leaves alone what belongs to its record as well.
LEMMA AccountsStill ==
    ASSUME AccountsHold, NEW r \in Request, NEW x,
           RequestInv', AccountRecords', Stays,
           contested \subseteq contested', faulted \subseteq faulted',
           \A q \in Request \ {r} : req'[q] = req[q],
           req[r] # Idle => req[r].on = x,
           \A q \in Request \ {r} : req[q] # Idle /\ req[q].on = x => x \in contested',
           \A y : Apart(y),
           req[r] = Idle \/ req[r].at \notin Guess \/ x \in faulted',
           AccountRequest(r)', QuietRequest(r)'
    PROVE  AccountsHold'
<1>1. ASSUME x \in Phones \ contested' PROVE QuietPhone(x)'
  <2>1. CodesHold(x) /\ OwnersHold(x) /\ CodesApart(x) /\ OwnersApart(x) /\ AccountRecords
    BY <1>1 DEF AccountsHold, QuietPhone, Apart
  <2>2. x \in faulted' \/ \A h \in Issued(x) : Comparing(h) => Comparing(h)'
    BY KeptComparing
  <2> QED
    BY <2>1, <2>2, KeptCodes, KeptOwners DEF QuietPhone
<1>2. ASSUME x \in Users \ contested' PROVE QuietUser(x)'
  BY <1>2, KeptOwners DEF AccountsHold, Apart
<1> QED
  BY <1>1, <1>2, AccountsFrame

\* Where no collection changes everything stands still.
LEMMA NothingMoves ==
    ASSUME UNCHANGED accountVars
    PROVE  Stays /\ (AccountRecords => AccountRecords') /\ \A y : Apart(y)
<1> USE DEF accountVars
<1>1. Stays
  BY DEF Stays
<1>2. AccountRecords => AccountRecords'
  BY DEF AccountRecords, DelegationInv, SessionInv
<1>3. \A y : CodesApart(y) /\ OwnersApart(y) /\ UserApart(y)
  BY DEF CodesApart, OwnersApart, UserApart, InWindow, Issued, SessionsOf, Owners, OpenTo
<1> QED
  BY <1>1, <1>2, <1>3 DEF Apart

-------------------------------------------------------------------------------
(* The steps that leave a phone and a user as they are. *)

\* A call that begins: it has read what it will act on.
LEMMA CallsBegin ==
    ASSUME AccountsHold, NEW r \in Request,
           \/ \E p \in Phones : RequestOtp(r, p)
           \/ \E u \in Users : GetProfile(r, u)
           \/ \E u \in Users, p \in Phones : Invite(r, u, p)
    PROVE  AccountsHold'
<1>1. RequestInv /\ AccountRecords
  BY DEF AccountsHold
<1>2. ASSUME NEW x, NEW fields, Begin(r, x, fields), UNCHANGED accountVars,
             {"at", "on"} \subseteq DOMAIN req'[r], req'[r].at # "idle", req'[r].on = x,
             AccountRequest(r)', QuietRequest(r)'
      PROVE  AccountsHold'
  <2>1. RequestInv'
    BY <1>1, <1>2, BeginKeeps
  <2>2. /\ \A q \in Request \ {r} : req'[q] = req[q]
        /\ req[r] = Idle /\ faulted' = faulted
        /\ contested' = IF Others(r, x) THEN contested \cup {x} ELSE contested
    BY <1>1, <1>2, BeginWrites
  <2>3. /\ contested \subseteq contested'
        /\ \A q \in Request \ {r} : req[q] # Idle /\ req[q].on = x => x \in contested'
    BY <2>2, BeginContests
  <2> QED
    BY <1>1, <1>2, <2>1, <2>2, <2>3, NothingMoves, AccountsStill
<1>3. ASSUME NEW p \in Phones, RequestOtp(r, p) PROVE AccountsHold'
  <2>1. /\ Begin(r, p, [at |-> "put_challenge"]) /\ UNCHANGED accountVars
        /\ Cardinality(InWindow(p)) < MaxChallenges
    BY <1>3 DEF RequestOtp
  <2>2. req'[r] = With([at |-> "put_challenge"], [on |-> p])
    BY <1>1, <2>1, BeginWrites
  <2>3. /\ {"at", "on"} \subseteq DOMAIN req'[r]
        /\ req'[r].at = "put_challenge" /\ req'[r].on = p
    BY <2>2 DEF With
  <2>4. AccountRequest(r)'
    BY <2>3 DEF AccountRequest, At, Guess, Entering, ForUser, Inviting
  <2>5. InWindow(p)' = InWindow(p)
    BY <2>1 DEF accountVars, InWindow, Issued
  <2>6. QuietRequest(r)'
    BY <2>1, <2>3, <2>5 DEF QuietRequest, At, Guess, Entering, ForUser, Inviting
  <2> QED
    BY <1>2, <2>1, <2>3, <2>4, <2>6
<1>4. ASSUME NEW u \in Users, GetProfile(r, u) PROVE AccountsHold'
  <2> DEFINE fields == [at |-> "put_missing_profile", user |-> u]
  <2>1. Begin(r, user[u], fields) /\ UNCHANGED accountVars /\ profiles[u] = 0
    BY <1>4 DEF GetProfile
  <2>2. PICK s \in sessions : s.user = u
    BY <1>4 DEF GetProfile
  <2>3. user[u] \in Phones
    <3>1. SessionInv(s)
      BY <1>1 DEF AccountRecords
    <3>2. challenge[s.challenge] \in ChallengeRecord
      BY <1>1, <3>1 DEF AccountRecords, SessionInv
    <3> QED
      BY <2>2, <3>1, <3>2 DEF SessionInv, ChallengeRecord
  <2>4. PICK x : x = user[u]
    OBVIOUS
  <2>5. req'[r] = With(fields, [on |-> x])
    BY <1>1, <2>1, <2>4, BeginWrites
  <2>6. /\ {"at", "on", "user"} \subseteq DOMAIN req'[r]
        /\ req'[r].at = "put_missing_profile" /\ req'[r].on = x /\ req'[r].user = u
    BY <2>5 DEF With
  <2>7. user' = user /\ profiles' = profiles
    BY <2>1 DEF accountVars
  <2>8. AccountRequest(r)'
    BY <2>3, <2>4, <2>6, <2>7 DEF AccountRequest, At, Guess, Entering, ForUser, OnPhone, Inviting
  <2>9. QuietRequest(r)'
    BY <2>1, <2>6, <2>7 DEF QuietRequest, At, Guess, Entering, Inviting
  <2> QED
    BY <1>2, <2>1, <2>4, <2>6, <2>8, <2>9
<1>5. ASSUME NEW u \in Users, NEW p \in Phones, Invite(r, u, p) PROVE AccountsHold'
  <2> DEFINE fields == [at |-> "put_delegation_consent", phone |-> p]
  <2>1. /\ Begin(r, u, fields) /\ UNCHANGED accountVars
        /\ user[u] # "none" /\ OpenTo(u, p) = {}
    BY <1>5 DEF Invite
  <2>2. req'[r] = With(fields, [on |-> u])
    BY <1>1, <2>1, BeginWrites
  <2>3. /\ {"at", "on", "phone"} \subseteq DOMAIN req'[r]
        /\ req'[r].at = "put_delegation_consent" /\ req'[r].on = u /\ req'[r].phone = p
    BY <2>2 DEF With
  <2>4. user' = user /\ delegation' = delegation
    BY <2>1 DEF accountVars
  <2>5. AccountRequest(r)'
    BY <2>1, <2>3, <2>4 DEF AccountRequest, At, Guess, Entering, ForUser, OnPhone, Inviting
  <2>6. OpenTo(u, p)' = {}
    BY <2>1, <2>4 DEF OpenTo
  <2>7. QuietRequest(r)'
    BY <2>3, <2>6 DEF QuietRequest, At, Guess, Entering, Inviting
  <2> QED
    BY <1>2, <2>1, <2>3, <2>5, <2>7
<1> QED
  BY <1>3, <1>4, <1>5

\* A step that goes on without touching what anybody else reads.
LEMMA GoesOn ==
    ASSUME AccountsHold, NEW r \in Request, req[r] # Idle, req[r].at \notin Guess,
           NEW fields, Goto(r, fields),
           {"at", "on"} \subseteq DOMAIN req'[r], req'[r].at # "idle", req'[r].on = req[r].on,
           Stays, AccountRecords', \A y : Apart(y),
           AccountRequest(r)', QuietRequest(r)'
    PROVE  AccountsHold'
<1>1. RequestInv
  BY DEF AccountsHold
<1>2. RequestInv'
  BY <1>1, GotoKeeps
<1>3. /\ \A q \in Request \ {r} : req'[q] = req[q]
      /\ contested' = contested /\ faulted' = faulted
  BY <1>1, GotoWrites
<1>4. PICK x : x = req[r].on
  OBVIOUS
<1>5. \A q \in Request \ {r} : req[q] # Idle /\ req[q].on = x => x \in contested'
  BY <1>1, <1>3, <1>4, OthersContest
<1> QED
  BY <1>2, <1>3, <1>4, <1>5, AccountsStill

\* The look-up of the user of a phone.
LEMMA FindUserHolds ==
    ASSUME AccountsHold, NEW r \in Request, FindUser(r)
    PROVE  AccountsHold'
<1>1. /\ RequestInv /\ AccountRequest(r) /\ QuietRequest(r)
      /\ AccountRecords
  BY DEF AccountsHold
<1>2. req[r].at = "find_user" /\ req[r] # Idle /\ UNCHANGED accountVars
  BY DEF FindUser, At, Idle
<1>3. PICK x, h : x = req[r].on /\ h = req[r].challenge
  OBVIOUS
<1>4. /\ x \in Phones /\ {"at", "on", "challenge"} \subseteq DOMAIN req[r]
      /\ h \in Challenges /\ challenge[h] # NoChallenge /\ challenge[h].phone = x
      /\ x \notin contested => challenge[h].consumed /\ SessionsOf(h) = {}
  BY <1>1, <1>2, <1>3 DEF RequestInv, AccountRequest, QuietRequest, OnPhone, Entering
<1>5. /\ challenge' = challenge /\ user' = user /\ sessions' = sessions
      /\ SessionsOf(h)' = SessionsOf(h) /\ Owners(x)' = Owners(x)
  BY <1>2 DEF accountVars, SessionsOf, Owners
<1>6. Stays /\ AccountRecords' /\ \A y : Apart(y)
  BY <1>1, <1>2, NothingMoves
<1>7. CASE \E u \in Owners(x) : Goto(r, [at |-> "put_account_consent", user |-> u])
  <2> PICK u \in Owners(x) : Goto(r, [at |-> "put_account_consent", user |-> u])
    BY <1>7
  <2> DEFINE fields == [at |-> "put_account_consent", user |-> u]
  <2>1. req'[r] = With(fields, req[r]) /\ contested' = contested
    BY <1>1, GotoWrites
  <2>2. /\ {"at", "on", "challenge", "user"} \subseteq DOMAIN req'[r]
        /\ req'[r].at = "put_account_consent" /\ req'[r].on = x
        /\ req'[r].challenge = h /\ req'[r].user = u
    BY <1>3, <1>4, <2>1 DEF With
  <2>3. u \in Users /\ user[u] = x
    BY DEF Owners
  <2>4. AccountRequest(r)'
    BY <1>4, <1>5, <2>2, <2>3 DEF AccountRequest, At, Guess, Entering, ForUser, OnPhone, Inviting
  <2>5. QuietRequest(r)'
    BY <1>4, <1>5, <2>1, <2>2 DEF QuietRequest, At, Guess, Entering, Inviting
  <2> QED
    BY <1>2, <1>3, <1>6, <2>2, <2>4, <2>5, GoesOn DEF Guess
<1>8. CASE Owners(x) = {} /\ Goto(r, [at |-> "put_user"])
  <2>1. req'[r] = With([at |-> "put_user"], req[r]) /\ contested' = contested
    BY <1>1, <1>8, GotoWrites
  <2>2. /\ {"at", "on", "challenge"} \subseteq DOMAIN req'[r]
        /\ req'[r].at = "put_user" /\ req'[r].on = x /\ req'[r].challenge = h
    BY <1>3, <1>4, <2>1 DEF With
  <2>3. AccountRequest(r)'
    BY <1>4, <1>5, <2>2 DEF AccountRequest, At, Guess, Entering, ForUser, OnPhone, Inviting
  <2>4. QuietRequest(r)'
    BY <1>4, <1>5, <1>8, <2>1, <2>2 DEF QuietRequest, At, Guess, Entering, Inviting
  <2> QED
    BY <1>2, <1>3, <1>6, <1>8, <2>2, <2>3, <2>4, GoesOn DEF Guess
<1> QED
  BY <1>3, <1>7, <1>8 DEF FindUser

\* The consent of a user who signs in.
LEMMA PutAccountConsentHolds ==
    ASSUME AccountsHold, NEW r \in Request, PutAccountConsent(r)
    PROVE  AccountsHold'
<1>1. RequestInv /\ AccountRequest(r) /\ QuietRequest(r) /\ AccountRecords
  BY DEF AccountsHold
<1>2. /\ req[r].at = "put_account_consent" /\ req[r] # Idle
      /\ consented' = consented \cup {req[r].user}
      /\ Goto(r, [at |-> "put_session"])
      /\ challenge' = challenge /\ user' = user /\ profiles' = profiles
      /\ sessions' = sessions /\ delegation' = delegation /\ guesses' = guesses
  BY DEF PutAccountConsent, At, Idle
<1>3. PICK x, h, u : x = req[r].on /\ h = req[r].challenge /\ u = req[r].user
  OBVIOUS
<1>4. /\ x \in Phones /\ {"at", "on", "challenge", "user"} \subseteq DOMAIN req[r]
      /\ h \in Challenges /\ challenge[h] # NoChallenge /\ challenge[h].phone = x
      /\ u \in Users /\ user[u] = x
      /\ x \notin contested => challenge[h].consumed /\ SessionsOf(h) = {}
  BY <1>1, <1>2, <1>3 DEF RequestInv, AccountRequest, QuietRequest, OnPhone, Entering, ForUser
<1>5. req'[r] = With([at |-> "put_session"], req[r]) /\ contested' = contested
  BY <1>1, <1>2, GotoWrites
<1>6. /\ {"at", "on", "challenge", "user"} \subseteq DOMAIN req'[r]
      /\ req'[r].at = "put_session" /\ req'[r].on = x
      /\ req'[r].challenge = h /\ req'[r].user = u
  BY <1>3, <1>4, <1>5 DEF With
<1>7. SessionsOf(h)' = SessionsOf(h) /\ u \in consented'
  BY <1>2, <1>3 DEF SessionsOf
<1>8. AccountRequest(r)'
  BY <1>2, <1>4, <1>6, <1>7 DEF AccountRequest, At, Guess, Entering, ForUser, OnPhone, Inviting
<1>9. QuietRequest(r)'
  BY <1>2, <1>4, <1>5, <1>6, <1>7 DEF QuietRequest, At, Guess, Entering, Inviting
<1>10. Stays
  BY <1>2 DEF Stays
<1>11. AccountRecords'
  BY <1>1, <1>2 DEF AccountRecords, DelegationInv, SessionInv
<1>12. \A y : CodesApart(y) /\ OwnersApart(y) /\ UserApart(y)
  BY <1>2 DEF CodesApart, OwnersApart, UserApart, InWindow, Issued, SessionsOf, Owners, OpenTo
<1> QED
  BY <1>2, <1>3, <1>6, <1>8, <1>9, <1>10, <1>11, <1>12, GoesOn DEF Guess, Apart

\* A step that answers.
LEMMA Answers ==
    ASSUME AccountsHold, NEW r \in Request, req[r] # Idle, Answer(r), NEW x, x = req[r].on,
           Stays, AccountRecords', \A y : y # x => Apart(y),
           x \in Phones \ contested => QuietPhone(x)',
           x \in Users \ contested => QuietUser(x)'
    PROVE  AccountsHold'
<1>1. RequestInv
  BY DEF AccountsHold
<1>2. /\ RequestInv' /\ req'[r] = Idle
      /\ \A q \in Request \ {r} : req'[q] = req[q]
  BY <1>1, RequestsEnd
<1>3. contested' = contested /\ faulted' = faulted
  BY DEF Answer
<1>4. \A q \in Request \ {r} : req[q] # Idle /\ req[q].on = x => x \in contested'
  BY <1>1, <1>3, OthersContest
<1>5. AccountRequest(r)' /\ QuietRequest(r)'
  BY <1>2 DEF AccountRequest, QuietRequest
<1> QED
  BY <1>2, <1>3, <1>4, <1>5, AccountsFrame

\* A request that dies leaves its record as it is, and the record faulted.
LEMMA DiesHolds ==
    ASSUME AccountsHold, NEW r \in Request, Dies(r), UNCHANGED accountVars
    PROVE  AccountsHold'
<1>1. RequestInv /\ AccountRecords
  BY DEF AccountsHold
<1>2. /\ RequestInv' /\ req'[r] = Idle
      /\ \A q \in Request \ {r} : req'[q] = req[q]
  BY <1>1, RequestsEnd
<1>3. PICK x : x = req[r].on
  OBVIOUS
<1>4. req[r] # Idle /\ contested' = contested /\ faulted' = faulted \cup {x}
  BY <1>3 DEF Dies
<1>5. \A q \in Request \ {r} : req[q] # Idle /\ req[q].on = x => x \in contested'
  BY <1>1, <1>3, <1>4, OthersContest
<1>6. AccountRequest(r)' /\ QuietRequest(r)'
  BY <1>2 DEF AccountRequest, QuietRequest
<1> QED
  BY <1>1, <1>2, <1>3, <1>4, <1>5, <1>6, NothingMoves, AccountsStill

\* A code that ages only leaves the window.
LEMMA AgeHolds ==
    ASSUME AccountsHold, NEW h \in Challenges, Age(h)
    PROVE  AccountsHold'
<1>1. /\ RequestInv /\ AccountRecords
      /\ \A q \in Request : AccountRequest(q) /\ QuietRequest(q)
  BY DEF AccountsHold
<1>2. /\ challenge[h] # NoChallenge /\ challenge[h].age # "aged"
      /\ challenge' = [challenge EXCEPT ![h].age = IF @ = "live" THEN "expired" ELSE "aged"]
      /\ user' = user /\ profiles' = profiles /\ consented' = consented
      /\ sessions' = sessions /\ delegation' = delegation /\ guesses' = guesses
      /\ req' = req /\ contested' = contested /\ faulted' = faulted
  BY DEF Age, requestVars
<1>3. /\ challenge \in [Challenges -> ChallengeRecord \cup {NoChallenge}]
      /\ challenge[h] \in ChallengeRecord
  BY <1>1, <1>2 DEF AccountRecords
<1>4. /\ challenge'[h] \in ChallengeRecord
      /\ challenge'[h].phone = challenge[h].phone /\ challenge'[h].attempts = challenge[h].attempts
      /\ challenge'[h].consumed = challenge[h].consumed
      /\ \A k \in Challenges \ {h} : challenge'[k] = challenge[k]
      /\ challenge' \in [Challenges -> ChallengeRecord \cup {NoChallenge}]
  BY <1>2, <1>3 DEF ChallengeRecord
<1>5. challenge'[h] # NoChallenge
  <2>1. \A c \in ChallengeRecord : c.age # "none"
    BY DEF ChallengeRecord
  <2> QED
    BY <1>4, <2>1 DEF NoChallenge
<1>6. \A k \in Challenges : challenge'[k] = NoChallenge <=> challenge[k] = NoChallenge
  BY <1>2, <1>4, <1>5
<1>7. Stays
  BY <1>2, <1>4, <1>6 DEF Stays
<1>8. AccountRecords'
  <2>1. {k \in Challenges : challenge'[k] # NoChallenge} = {k \in Challenges : challenge[k] # NoChallenge}
    BY <1>6
  <2>2. \A s \in sessions' : SessionInv(s)'
    BY <1>1, <1>2, <1>7 DEF AccountRecords, SessionInv, Stays
  <2>3. \A d \in Delegations : DelegationInv(d)'
    BY <1>1, <1>2 DEF AccountRecords, DelegationInv
  <2> QED
    BY <1>1, <1>2, <1>4, <1>6, <2>1, <2>2, <2>3 DEF AccountRecords
<1>9. ASSUME NEW y PROVE CodesApart(y) /\ OwnersApart(y) /\ UserApart(y)
  <2>1. Issued(y)' = Issued(y)
    BY <1>4, <1>6 DEF Issued
  <2>2. InWindow(y)' \subseteq InWindow(y)
    BY <1>2, <1>4, <2>1 DEF InWindow
  <2>3. \A k \in Challenges : /\ challenge'[k].attempts = challenge[k].attempts
                              /\ challenge'[k].consumed = challenge[k].consumed
                              /\ guesses'[k] = guesses[k] /\ SessionsOf(k)' = SessionsOf(k)
    BY <1>2, <1>4 DEF SessionsOf
  <2> QED
    BY <1>2, <2>1, <2>2, <2>3 DEF CodesApart, OwnersApart, UserApart, Issued, Owners, OpenTo
<1>10. \A q \in Request : AccountRequest(q)' /\ QuietRequest(q)'
  BY <1>1, <1>2, <1>7, <1>9, KeptRequest, KeptQuiet DEF Apart
<1>11. ASSUME NEW p \in Phones \ contested' PROVE QuietPhone(p)'
  <2>1. \A k \in Issued(p) : Comparing(k) => Comparing(k)'
    BY <1>2 DEF Comparing
  <2>2. CodesHold(p) /\ OwnersHold(p)
    BY <1>2, <1>11 DEF AccountsHold, QuietPhone
  <2> QED
    BY <1>1, <1>2, <1>9, <2>1, <2>2, KeptCodes, KeptOwners DEF QuietPhone
<1>12. \A u \in Users \ contested' : QuietUser(u)'
  BY <1>2, <1>9, KeptOwners DEF AccountsHold
<1>13. RequestInv'
  BY <1>1, <1>2 DEF RequestInv
<1> QED
  BY <1>8, <1>10, <1>11, <1>12, <1>13 DEF AccountsHold

-------------------------------------------------------------------------------
(* Delegations. *)

\* The consent to a delegation opens nothing yet.
LEMMA PutDelegationConsentHolds ==
    ASSUME AccountsHold, NEW r \in Request, PutDelegationConsent(r)
    PROVE  AccountsHold'
<1>1. RequestInv /\ AccountRequest(r) /\ QuietRequest(r) /\ AccountRecords
  BY DEF AccountsHold
<1>2. /\ req[r].at = "put_delegation_consent" /\ req[r] # Idle
      /\ challenge' = challenge /\ user' = user /\ profiles' = profiles
      /\ sessions' = sessions /\ consented' = consented /\ guesses' = guesses
  BY DEF PutDelegationConsent, At, Idle
<1>3. PICK x, p : x = req[r].on /\ p = req[r].phone
  OBVIOUS
<1>4. PICK d \in Delegations :
          /\ delegation[d] = NoDelegation
          /\ delegation' = [delegation EXCEPT ![d] = [status |-> "consented", principal |-> x]]
          /\ Goto(r, [at |-> "find_delegate", delegation |-> d])
  BY <1>3 DEF PutDelegationConsent
<1>5. /\ x \in Users /\ user[x] # "none" /\ p \in Phones /\ {"at", "on", "phone"} \subseteq DOMAIN req[r]
      /\ x \notin contested => OpenTo(x, p) = {}
  BY <1>1, <1>2, <1>3 DEF RequestInv, AccountRequest, QuietRequest, Inviting
<1>6. req'[r] = With([at |-> "find_delegate", delegation |-> d], req[r]) /\ contested' = contested
  BY <1>1, <1>4, GotoWrites
<1>7. /\ {"at", "on", "phone", "delegation"} \subseteq DOMAIN req'[r]
      /\ req'[r].at = "find_delegate" /\ req'[r].on = x /\ req'[r].phone = p
      /\ req'[r].delegation = d
  BY <1>3, <1>5, <1>6 DEF With
<1>8. /\ DOMAIN delegation' = Delegations /\ delegation'[d].status = "consented"
      /\ delegation[d].status = "none"
      /\ \A e \in Delegations \ {d} : delegation'[e] = delegation[e]
  BY <1>1, <1>4 DEF AccountRecords, NoDelegation
<1>9. \A u, ph : OpenTo(u, ph)' = OpenTo(u, ph)
  BY <1>8 DEF OpenTo
<1>10. AccountRequest(r)'
  BY <1>2, <1>5, <1>7 DEF AccountRequest, At, Guess, Entering, ForUser, OnPhone, Inviting
<1>11. QuietRequest(r)'
  BY <1>5, <1>6, <1>7, <1>9 DEF QuietRequest, At, Guess, Entering, Inviting
<1>12. Stays
  BY <1>2 DEF Stays
<1>13. AccountRecords'
  <2>1. \A e \in Delegations : DelegationInv(e)'
    BY <1>1, <1>2, <1>8 DEF AccountRecords, DelegationInv
  <2> QED
    BY <1>1, <1>2, <1>8, <2>1 DEF AccountRecords, SessionInv
<1>14. \A y : CodesApart(y) /\ OwnersApart(y) /\ UserApart(y)
  BY <1>2, <1>9 DEF CodesApart, OwnersApart, UserApart, InWindow, Issued, SessionsOf, Owners
<1> QED
  BY <1>2, <1>3, <1>4, <1>7, <1>10, <1>11, <1>12, <1>13, <1>14, GoesOn DEF Guess, Apart

\* The look-up of the relative.
LEMMA FindDelegateHolds ==
    ASSUME AccountsHold, NEW r \in Request, FindDelegate(r)
    PROVE  AccountsHold'
<1>1. RequestInv /\ AccountRequest(r) /\ QuietRequest(r) /\ AccountRecords
  BY DEF AccountsHold
<1>2. req[r].at = "find_delegate" /\ req[r] # Idle /\ UNCHANGED accountVars
  BY DEF FindDelegate, At, Idle
<1>3. PICK x, p, d : x = req[r].on /\ p = req[r].phone /\ d = req[r].delegation
  OBVIOUS
<1>4. /\ x \in Users /\ user[x] # "none" /\ p \in Phones /\ d \in Delegations
      /\ {"at", "on", "phone", "delegation"} \subseteq DOMAIN req[r]
      /\ x \notin contested => OpenTo(x, p) = {}
  BY <1>1, <1>2, <1>3 DEF RequestInv, AccountRequest, QuietRequest, Inviting
<1>5. PICK v : /\ v = "none" \/ v \in Owners(p)
               /\ Goto(r, [at |-> "put_delegation", delegate |-> v])
  BY <1>3 DEF FindDelegate
<1>6. req'[r] = With([at |-> "put_delegation", delegate |-> v], req[r]) /\ contested' = contested
  BY <1>1, <1>5, GotoWrites
<1>7. /\ {"at", "on", "phone", "delegation", "delegate"} \subseteq DOMAIN req'[r]
      /\ req'[r].at = "put_delegation" /\ req'[r].on = x /\ req'[r].phone = p
      /\ req'[r].delegation = d /\ req'[r].delegate = v
  BY <1>3, <1>4, <1>6 DEF With
<1>8. user' = user /\ delegation' = delegation
  BY <1>2 DEF accountVars
<1>9. v = "none" \/ (v \in Users /\ user[v] = p)
  BY <1>5 DEF Owners
<1>10. AccountRequest(r)'
  BY <1>4, <1>7, <1>8, <1>9 DEF AccountRequest, At, Guess, Entering, ForUser, OnPhone, Inviting
<1>11. OpenTo(x, p)' = OpenTo(x, p)
  BY <1>8 DEF OpenTo
<1>12. QuietRequest(r)'
  BY <1>4, <1>6, <1>7, <1>11 DEF QuietRequest, At, Guess, Entering, Inviting
<1> QED
  BY <1>1, <1>2, <1>3, <1>5, <1>7, <1>10, <1>12, NothingMoves, GoesOn DEF Guess

\* A delegation opens for the phone that was invited, where none was open.
LEMMA PutDelegationHolds ==
    ASSUME AccountsHold, NEW r \in Request, PutDelegation(r)
    PROVE  AccountsHold'
<1>1. RequestInv /\ AccountRequest(r) /\ QuietRequest(r) /\ AccountRecords
  BY DEF AccountsHold
<1>2. /\ req[r].at = "put_delegation" /\ req[r] # Idle /\ Answer(r)
      /\ challenge' = challenge /\ user' = user /\ profiles' = profiles
      /\ sessions' = sessions /\ consented' = consented /\ guesses' = guesses
  BY DEF PutDelegation, At, Idle
<1>3. PICK x, p, d, v : x = req[r].on /\ p = req[r].phone /\ d = req[r].delegation
                        /\ v = req[r].delegate
  OBVIOUS
<1>4. /\ x \in Users /\ user[x] # "none" /\ p \in Phones /\ d \in Delegations
      /\ v = "none" \/ (v \in Users /\ user[v] = p)
      /\ x \notin contested => OpenTo(x, p) = {}
  BY <1>1, <1>2, <1>3 DEF AccountRequest, QuietRequest, At, Inviting
<1> DEFINE new == [status |-> IF v = "none" THEN "invited" ELSE "active",
                   principal |-> x, phone |-> p, delegate |-> v]
<1>5. delegation' = [delegation EXCEPT ![d] = new]
  BY <1>3 DEF PutDelegation
<1>6. /\ DOMAIN delegation' = Delegations /\ delegation'[d] = new
      /\ \A e \in Delegations \ {d} : delegation'[e] = delegation[e]
  BY <1>1, <1>4, <1>5 DEF AccountRecords
<1>7. Stays
  BY <1>2 DEF Stays
<1>8. AccountRecords'
  <2>1. new \in DelegationRecord /\ (new.status = "active" => v \in Users /\ user[v] = p)
    BY <1>4 DEF DelegationRecord
  <2>2. \A e \in Delegations : DelegationInv(e)'
    BY <1>1, <1>2, <1>4, <1>6, <2>1 DEF AccountRecords, DelegationInv
  <2> QED
    BY <1>1, <1>2, <1>6, <2>2 DEF AccountRecords, SessionInv
<1>9. \A y : CodesApart(y) /\ OwnersApart(y)
  BY <1>2 DEF CodesApart, OwnersApart, InWindow, Issued, SessionsOf, Owners
<1>10. \A y, ph : y # x \/ ph # p => OpenTo(y, ph)' \subseteq OpenTo(y, ph)
  BY <1>6 DEF OpenTo
<1>11. OpenTo(x, p)' \subseteq OpenTo(x, p) \cup {d}
  BY <1>6 DEF OpenTo
<1>12. ASSUME x \in Users \ contested PROVE QuietUser(x)'
  <2>1. OneAtMost(OpenTo(x, p)')
    BY <1>4, <1>11, <1>12 DEF OneAtMost
  <2>2. ASSUME NEW ph \in Phones, ph # p PROVE OneAtMost(OpenTo(x, ph)')
    BY <1>10, <1>12, <2>2 DEF AccountsHold, QuietUser, OneAtMost
  <2> QED
    BY <2>1, <2>2 DEF QuietUser
<1>13. ASSUME x \in Phones \ contested PROVE QuietPhone(x)'
  <2>1. \A h : Comparing(h) => Comparing(h)'
    BY <1>1, <1>2, RequestsEnd, KeptComparing DEF Guess
  <2>2. CodesHold(x) /\ OwnersHold(x) /\ faulted' = faulted
    BY <1>2, <1>13 DEF AccountsHold, QuietPhone, Answer
  <2> QED
    BY <1>1, <1>9, <2>1, <2>2, KeptCodes, KeptOwners DEF QuietPhone
<1>14. \A y : y # x => Apart(y)
  BY <1>9, <1>10 DEF Apart, UserApart
<1> QED
  BY <1>2, <1>3, <1>7, <1>8, <1>12, <1>13, <1>14, Answers

\* A delegation that is revoked closes.
LEMMA RevokeHolds ==
    ASSUME AccountsHold, NEW r \in Request, NEW d \in Delegations, Revoke(r, d)
    PROVE  AccountsHold'
<1>1. RequestInv /\ AccountRecords
  BY DEF AccountsHold
<1>2. PICK x : x = delegation[d].principal
  OBVIOUS
<1>3. /\ delegation[d].status \in {"invited", "active", "revoked"} /\ Single(r, x)
      /\ delegation' = [delegation EXCEPT ![d].status = "revoked"]
      /\ challenge' = challenge /\ user' = user /\ profiles' = profiles
      /\ sessions' = sessions /\ consented' = consented /\ guesses' = guesses
  BY <1>2 DEF Revoke
<1>4. /\ req' = req /\ req[r] = Idle /\ faulted' = faulted
      /\ contested' = IF Others(r, x) THEN contested \cup {x} ELSE contested
      /\ RequestInv'
  BY <1>1, <1>3, RequestsSingle DEF Single
<1>5. delegation[d] \in DelegationRecord
  BY <1>1, <1>3 DEF AccountRecords, DelegationInv
<1>6. /\ DOMAIN delegation' = Delegations /\ delegation'[d] \in DelegationRecord
      /\ delegation'[d].status = "revoked"
      /\ \A e \in Delegations \ {d} : delegation'[e] = delegation[e]
  BY <1>1, <1>3, <1>5 DEF AccountRecords, DelegationRecord
<1>7. Stays
  BY <1>3 DEF Stays
<1>8. AccountRecords'
  <2>1. \A e \in Delegations : DelegationInv(e)'
    BY <1>1, <1>3, <1>6 DEF AccountRecords, DelegationInv
  <2> QED
    BY <1>1, <1>3, <1>6, <2>1 DEF AccountRecords, SessionInv
<1>9. \A y : CodesApart(y) /\ OwnersApart(y)
  BY <1>3 DEF CodesApart, OwnersApart, InWindow, Issued, SessionsOf, Owners
<1>10. \A y : UserApart(y)
  BY <1>6 DEF UserApart, OpenTo
<1>11. /\ contested \subseteq contested'
       /\ \A q \in Request \ {r} : req[q] # Idle /\ req[q].on = x => x \in contested'
  BY <1>4, BeginContests
<1>12. AccountRequest(r)' /\ QuietRequest(r)'
  BY <1>4 DEF AccountRequest, QuietRequest
<1>13. \A y : Apart(y)
  BY <1>9, <1>10 DEF Apart
<1> QED
  BY <1>4, <1>7, <1>8, <1>11, <1>12, <1>13, AccountsStill

-------------------------------------------------------------------------------
(* Codes. *)

\* What no collection behind it changes stays apart.
LEMMA SameIsApart ==
    ASSUME NEW y
    PROVE  /\ challenge' = challenge /\ sessions' = sessions /\ guesses' = guesses => CodesApart(y)
           /\ user' = user /\ profiles' = profiles => OwnersApart(y)
           /\ delegation' = delegation => UserApart(y)
BY DEF CodesApart, OwnersApart, UserApart, InWindow, Issued, SessionsOf, Owners, OpenTo

\* A new code counts in the window, where there was room for it.
LEMMA PutChallengeHolds ==
    ASSUME AccountsHold, NEW r \in Request, PutChallenge(r)
    PROVE  AccountsHold'
<1>1. RequestInv /\ AccountRequest(r) /\ QuietRequest(r) /\ AccountRecords
  BY DEF AccountsHold
<1>2. /\ req[r].at = "put_challenge" /\ req[r] # Idle /\ Answer(r)
      /\ user' = user /\ profiles' = profiles /\ sessions' = sessions
      /\ consented' = consented /\ guesses' = guesses /\ delegation' = delegation
  BY DEF PutChallenge, At, Idle
<1>3. PICK x : x = req[r].on
  OBVIOUS
<1>4. x \in Phones /\ (x \notin contested => Cardinality(InWindow(x)) < MaxChallenges)
  BY <1>1, <1>2, <1>3 DEF AccountRequest, QuietRequest, At, OnPhone
<1> DEFINE new == [phone |-> x, age |-> "live", attempts |-> 0, consumed |-> FALSE]
<1>5. PICK h \in Challenges : challenge[h] = NoChallenge /\ challenge' = [challenge EXCEPT ![h] = new]
  BY <1>3 DEF PutChallenge
<1>6. /\ challenge \in [Challenges -> ChallengeRecord \cup {NoChallenge}]
      /\ new \in ChallengeRecord /\ new # NoChallenge
  BY <1>1, <1>4 DEF AccountRecords, ChallengeRecord, NoChallenge
<1>7. /\ challenge'[h] = new /\ \A k \in Challenges \ {h} : challenge'[k] = challenge[k]
      /\ challenge' \in [Challenges -> ChallengeRecord \cup {NoChallenge}]
  BY <1>5, <1>6
<1>8. Stays
  BY <1>2, <1>5, <1>7 DEF Stays
<1>9. SessionsOf(h) = {}
  BY <1>1, <1>5 DEF AccountRecords, SessionInv, SessionsOf
<1>10. \A k : SessionsOf(k)' = SessionsOf(k)
  BY <1>2 DEF SessionsOf
<1>11. AccountRecords'
  <2>1. PICK S : S = {k \in Challenges : challenge[k] # NoChallenge}
    OBVIOUS
  <2>2. /\ {k \in Challenges : challenge'[k] # NoChallenge} = S \cup {h}
        /\ IsFiniteSet(S)
    BY <1>1, <1>5, <1>6, <1>7, <2>1 DEF AccountRecords
  <2>3. IsFiniteSet({k \in Challenges : challenge'[k] # NoChallenge})
    BY <2>2, FS_AddElement
  <2>4. \A s \in sessions' : SessionInv(s)'
    BY <1>1, <1>2, <1>8 DEF AccountRecords, SessionInv, Stays
  <2>5. \A d \in Delegations : DelegationInv(d)'
    BY <1>1, <1>2 DEF AccountRecords, DelegationInv
  <2>6. \A k \in Challenges : challenge'[k] = NoChallenge => guesses'[k] = 0
    BY <1>1, <1>2, <1>6, <1>7 DEF AccountRecords
  <2> QED
    BY <1>1, <1>2, <1>7, <2>3, <2>4, <2>5, <2>6 DEF AccountRecords
<1>12. ASSUME NEW y, y # x PROVE Apart(y)
  <2>1. Issued(y)' = Issued(y) /\ h \notin Issued(y)
    BY <1>5, <1>6, <1>7, <1>12 DEF Issued
  <2>2. \A k \in Issued(y) : challenge'[k] = challenge[k]
    BY <1>7, <2>1 DEF Issued
  <2>3. InWindow(y)' = InWindow(y)
    BY <2>1, <2>2 DEF InWindow
  <2>4. CodesApart(y)
    BY <1>2, <1>7, <1>10, <2>1, <2>3 DEF CodesApart, Issued
  <2> QED
    BY <1>2, <2>4, SameIsApart DEF Apart
<1>13. ASSUME x \in Phones \ contested PROVE QuietPhone(x)'
  <2>1. CodesHold(x) /\ OwnersHold(x) /\ faulted' = faulted
    BY <1>2, <1>13 DEF AccountsHold, QuietPhone, Answer
  <2>2. Issued(x)' = Issued(x) \cup {h}
    BY <1>4, <1>5, <1>6, <1>7 DEF Issued
  <2>3. ASSUME NEW k \in Issued(x), k # h PROVE QuietChallenge(x, k)'
    <3>1. Comparing(k) => Comparing(k)'
      BY <1>1, <1>2, RequestsEnd, KeptComparing DEF Guess
    <3>2. challenge'[k] = challenge[k] /\ guesses'[k] = guesses[k] /\ QuietChallenge(x, k)
      BY <1>2, <1>7, <2>1, <2>3 DEF CodesHold, Issued
    <3> QED
      BY <1>10, <2>1, <3>1, <3>2 DEF QuietChallenge, OneAtMost
  <2>4. QuietChallenge(x, h)'
    <3>1. guesses'[h] = 0 /\ challenge'[h].attempts = 0 /\ SessionsOf(h)' = {}
      BY <1>1, <1>2, <1>5, <1>7, <1>9, <1>10 DEF AccountRecords
    <3> QED
      BY <3>1, AccountsAssumption DEF QuietChallenge, OneAtMost
  <2>5. Cardinality(InWindow(x)') <= MaxChallenges
    <3>1. IsFiniteSet(InWindow(x))
      <4>1. InWindow(x) \subseteq {k \in Challenges : challenge[k] # NoChallenge}
        BY DEF InWindow, Issued
      <4> QED
        BY <1>1, <4>1, FS_Subset DEF AccountRecords
    <3>2. InWindow(x)' = InWindow(x) \cup {h} /\ h \notin InWindow(x)
      BY <1>5, <1>7, <2>2 DEF InWindow, Issued
    <3>3. Cardinality(InWindow(x)') = Cardinality(InWindow(x)) + 1 /\ Cardinality(InWindow(x)) \in Nat
      BY <3>1, <3>2, FS_AddElement, FS_CardinalityType
    <3> QED
      BY <1>4, <1>13, <3>3, AccountsAssumption
  <2>6. CodesHold(x)'
    BY <2>2, <2>3, <2>4, <2>5 DEF CodesHold
  <2> QED
    BY <1>2, <2>1, <2>6, SameIsApart, KeptOwners DEF QuietPhone
<1>14. ASSUME x \in Users \ contested PROVE QuietUser(x)'
  BY <1>2, <1>14, SameIsApart, KeptOwners DEF AccountsHold
<1> QED
  BY <1>2, <1>3, <1>8, <1>11, <1>12, <1>13, <1>14, Answers

\* A code is compared only while neither used nor out of attempts.
LEMMA VerifyOtpHolds ==
    ASSUME AccountsHold, NEW r \in Request, NEW h \in Challenges, NEW right \in BOOLEAN,
           VerifyOtp(r, h, right)
    PROVE  AccountsHold'
<1>1. RequestInv /\ AccountRecords
  BY DEF AccountsHold
<1>2. PICK x, c : x = challenge[h].phone /\ c = challenge[h]
  OBVIOUS
<1> DEFINE fields == [at |-> IF right THEN "put_consumed" ELSE "put_attempt",
                      challenge |-> h, copy |-> c]
<1>3. /\ c # NoChallenge /\ ~c.consumed /\ c.attempts < MaxAttempts
      /\ guesses' = [guesses EXCEPT ![h] = @ + 1] /\ Begin(r, x, fields)
      /\ challenge' = challenge /\ user' = user /\ profiles' = profiles
      /\ sessions' = sessions /\ consented' = consented /\ delegation' = delegation
  BY <1>2 DEF VerifyOtp, Accepts
<1>4. c \in ChallengeRecord /\ x \in Phones /\ c.attempts \in Nat
  BY <1>1, <1>2, <1>3 DEF AccountRecords, ChallengeRecord
<1>5. /\ req'[r] = With(fields, [on |-> x]) /\ req[r] = Idle /\ faulted' = faulted
      /\ \A q \in Request \ {r} : req'[q] = req[q]
      /\ contested' = IF Others(r, x) THEN contested \cup {x} ELSE contested
  BY <1>1, <1>3, BeginWrites
<1>6. /\ {"at", "on", "challenge", "copy"} \subseteq DOMAIN req'[r]
      /\ req'[r].at \in Guess /\ req'[r].on = x /\ req'[r].challenge = h /\ req'[r].copy = c
  BY <1>5 DEF With, Guess
<1>7. req'[r].at \in {"put_attempt", "put_consumed"} /\ req'[r] # Idle
  BY <1>6 DEF Guess, Idle
<1>8. RequestInv'
  BY <1>1, <1>3, <1>6, <1>7, BeginKeeps
<1>9. /\ contested \subseteq contested'
      /\ \A q \in Request \ {r} : req[q] # Idle /\ req[q].on = x => x \in contested'
  BY <1>5, BeginContests
<1>10. Stays
  BY <1>3 DEF Stays
<1>11. /\ guesses \in [Challenges -> Nat] /\ guesses' \in [Challenges -> Nat]
       /\ guesses'[h] = guesses[h] + 1 /\ \A k \in Challenges \ {h} : guesses'[k] = guesses[k]
  BY <1>1, <1>3 DEF AccountRecords
<1>12. AccountRecords'
  <2>1. \A k \in Challenges : challenge'[k] = NoChallenge => guesses'[k] = 0
    BY <1>1, <1>2, <1>3, <1>11 DEF AccountRecords
  <2> QED
    BY <1>1, <1>3, <1>11, <2>1 DEF AccountRecords, DelegationInv, SessionInv
<1>13. \A k : SessionsOf(k)' = SessionsOf(k) /\ Issued(k)' = Issued(k) /\ InWindow(k)' = InWindow(k)
  BY <1>3 DEF SessionsOf, Issued, InWindow
<1>14. ASSUME NEW y, y # x PROVE Apart(y)
  <2>1. \A k \in Issued(y) : k \in Challenges /\ k # h
    BY <1>2, <1>14 DEF Issued
  <2>2. CodesApart(y)
    BY <1>3, <1>11, <1>13, <2>1 DEF CodesApart
  <2> QED
    BY <1>3, <2>2, SameIsApart DEF Apart
<1>15. AccountRequest(r)'
  BY <1>2, <1>3, <1>4, <1>6, <1>7 DEF AccountRequest, At, Guess, Entering, ForUser, OnPhone, Inviting
<1>16. ASSUME x \notin contested'
       PROVE  /\ SessionsOf(h) = {} /\ guesses[h] \in Nat
              /\ x \notin faulted => guesses[h] <= c.attempts
  <2>1. x \notin contested /\ ~Others(r, x)
    BY <1>5, <1>16
  <2>2. QuietChallenge(x, h)
    BY <1>2, <1>3, <1>4, <2>1 DEF AccountsHold, QuietPhone, CodesHold, Issued
  <2>3. ~Comparing(h)
    <3>1. ASSUME NEW q \in Request, req[q] # Idle, req[q].at \in Guess, req[q].challenge = h
          PROVE  FALSE
      <4>1. req[q].on = x
        BY <1>2, <3>1 DEF AccountsHold, AccountRequest
      <4>2. q # r
        BY <1>5, <3>1
      <4> QED
        BY <2>1, <3>1, <4>1, <4>2 DEF Others
    <3> QED
      BY <3>1 DEF Comparing
  <2> QED
    BY <1>2, <1>3, <1>11, <2>2, <2>3 DEF QuietChallenge
<1>17. QuietRequest(r)'
  <2> SUFFICES ASSUME x \notin contested' PROVE QuietRequest(r)'
    BY <1>6 DEF QuietRequest
  <2>1. /\ SessionsOf(h)' = {}
        /\ x \notin faulted' => guesses'[h] <= c.attempts + 1 /\ guesses'[h] <= MaxAttempts
    BY <1>3, <1>4, <1>5, <1>11, <1>13, <1>16, AccountsAssumption
  <2>2. /\ challenge'[h].attempts = c.attempts /\ ~challenge'[h].consumed
    BY <1>2, <1>3
  <2> QED
    BY <1>3, <1>6, <1>7, <2>1, <2>2 DEF QuietRequest, At, Guess, Entering, Inviting
<1>18. ASSUME x \in Phones \ contested' PROVE QuietPhone(x)'
  <2>1. CodesHold(x) /\ OwnersHold(x)
    BY <1>9, <1>18 DEF AccountsHold, QuietPhone
  <2>2. ASSUME NEW k \in Issued(x), k # h PROVE QuietChallenge(x, k)'
    <3>1. Comparing(k) => Comparing(k)'
      BY <1>5, KeptComparing
    <3>2. challenge'[k] = challenge[k] /\ guesses'[k] = guesses[k] /\ QuietChallenge(x, k)
      BY <1>3, <1>11, <2>1, <2>2 DEF CodesHold, Issued
    <3> QED
      BY <1>5, <1>13, <3>1, <3>2 DEF QuietChallenge, OneAtMost
  <2>3. QuietChallenge(x, h)'
    <3>1. Comparing(h)'
      BY <1>6, <1>7 DEF Comparing
    <3>2. x \notin faulted' => guesses'[h] <= MaxAttempts
      BY <1>3, <1>4, <1>5, <1>11, <1>16, <1>18, AccountsAssumption
    <3> QED
      BY <1>13, <1>16, <1>18, <3>1, <3>2 DEF QuietChallenge, OneAtMost
  <2>4. CodesHold(x)'
    BY <1>13, <2>1, <2>2, <2>3 DEF CodesHold
  <2> QED
    BY <1>3, <2>1, <2>4, SameIsApart, KeptOwners DEF QuietPhone
<1>19. ASSUME x \in Users \ contested' PROVE QuietUser(x)'
  BY <1>3, <1>9, <1>19, SameIsApart, KeptOwners DEF AccountsHold
<1> QED
  BY <1>5, <1>8, <1>9, <1>10, <1>12, <1>14, <1>15, <1>17, <1>18, <1>19, AccountsFrame

\* A wrong code is counted, from the copy that was read.
LEMMA PutAttemptHolds ==
    ASSUME AccountsHold, NEW r \in Request, PutAttempt(r)
    PROVE  AccountsHold'
<1>1. RequestInv /\ AccountRequest(r) /\ QuietRequest(r) /\ AccountRecords
  BY DEF AccountsHold
<1>2. /\ req[r].at = "put_attempt" /\ req[r] # Idle /\ Answer(r)
      /\ user' = user /\ profiles' = profiles /\ sessions' = sessions
      /\ consented' = consented /\ guesses' = guesses /\ delegation' = delegation
  BY DEF PutAttempt, At, Idle
<1>3. PICK x, h, c : x = req[r].on /\ h = req[r].challenge /\ c = req[r].copy
  OBVIOUS
<1>4. /\ x \in Phones /\ h \in Challenges /\ challenge[h] # NoChallenge /\ challenge[h].phone = x
      /\ c \in ChallengeRecord
      /\ x \notin contested =>
             /\ challenge[h].attempts = c.attempts /\ ~c.consumed /\ SessionsOf(h) = {}
             /\ x \notin faulted => guesses[h] <= c.attempts + 1 /\ guesses[h] <= MaxAttempts
  BY <1>1, <1>2, <1>3 DEF AccountRequest, QuietRequest, OnPhone, Guess
<1>5. /\ challenge \in [Challenges -> ChallengeRecord \cup {NoChallenge}]
      /\ challenge[h] \in ChallengeRecord
  BY <1>1, <1>4 DEF AccountRecords
<1>6. challenge' = [challenge EXCEPT ![h].attempts = c.attempts + 1, ![h].consumed = c.consumed]
  BY <1>3 DEF PutAttempt
<1>7. /\ challenge'[h] = [challenge[h] EXCEPT !.attempts = c.attempts + 1, !.consumed = c.consumed]
      /\ \A k \in Challenges \ {h} : challenge'[k] = challenge[k]
  BY <1>4, <1>5, <1>6
<1>8. /\ challenge'[h] \in ChallengeRecord
      /\ challenge'[h].phone = x /\ challenge'[h].age = challenge[h].age
      /\ challenge'[h].attempts = c.attempts + 1 /\ challenge'[h].consumed = c.consumed
  <2>1. c.attempts + 1 \in Nat /\ c.consumed \in BOOLEAN
    BY <1>4 DEF ChallengeRecord
  <2>2. PICK n : n = c.attempts + 1
    OBVIOUS
  <2> QED
    BY <1>4, <1>5, <1>7, <2>1, <2>2 DEF ChallengeRecord
<1>9. /\ challenge' \in [Challenges -> ChallengeRecord \cup {NoChallenge}]
      /\ \A k \in Challenges : challenge'[k] = NoChallenge <=> challenge[k] = NoChallenge
  <2>1. NoChallenge \notin ChallengeRecord
    <3>1. \A e \in ChallengeRecord : e.age # "none"
      BY DEF ChallengeRecord
    <3> QED
      BY <3>1 DEF NoChallenge
  <2> QED
    BY <1>4, <1>5, <1>6, <1>7, <1>8, <2>1
<1>10. Stays
  BY <1>2, <1>4, <1>7, <1>8, <1>9 DEF Stays
<1>11. AccountRecords'
  <2>1. {k \in Challenges : challenge'[k] # NoChallenge} = {k \in Challenges : challenge[k] # NoChallenge}
    BY <1>9
  <2>2. \A s \in sessions' : SessionInv(s)'
    BY <1>1, <1>2, <1>10 DEF AccountRecords, SessionInv, Stays
  <2>3. \A d \in Delegations : DelegationInv(d)'
    BY <1>1, <1>2 DEF AccountRecords, DelegationInv
  <2> QED
    BY <1>1, <1>2, <1>9, <2>1, <2>2, <2>3 DEF AccountRecords
<1>12. /\ \A y : Issued(y)' = Issued(y) /\ InWindow(y)' = InWindow(y)
       /\ \A k : SessionsOf(k)' = SessionsOf(k)
  <2>1. \A y : Issued(y)' = Issued(y)
    BY <1>9, <1>10 DEF Issued, Stays
  <2>2. \A y : \A k \in Issued(y) : challenge'[k].age = challenge[k].age
    BY <1>7, <1>8 DEF Issued
  <2> QED
    BY <1>2, <2>1, <2>2 DEF InWindow, SessionsOf
<1>13. ASSUME NEW y, y # x PROVE Apart(y)
  <2>1. \A k \in Issued(y) : challenge'[k] = challenge[k]
    BY <1>4, <1>7, <1>13 DEF Issued
  <2>2. CodesApart(y)
    BY <1>2, <1>12, <2>1 DEF CodesApart
  <2> QED
    BY <1>2, <2>2, SameIsApart DEF Apart
<1>14. ASSUME x \in Phones \ contested PROVE QuietPhone(x)'
  <2>1. CodesHold(x) /\ OwnersHold(x) /\ faulted' = faulted
    BY <1>2, <1>14 DEF AccountsHold, QuietPhone, Answer
  <2>2. ASSUME NEW k \in Issued(x), k # h PROVE QuietChallenge(x, k)'
    <3>1. Comparing(k) => Comparing(k)'
      BY <1>1, <1>2, <1>3, <2>2, RequestsEnd DEF Comparing
    <3>2. challenge'[k] = challenge[k] /\ guesses'[k] = guesses[k] /\ QuietChallenge(x, k)
      BY <1>2, <1>7, <2>1, <2>2 DEF CodesHold, Issued
    <3> QED
      BY <1>12, <2>1, <3>1, <3>2 DEF QuietChallenge, OneAtMost
  <2>3. QuietChallenge(x, h)'
    BY <1>2, <1>4, <1>8, <1>12, <1>14, <2>1 DEF QuietChallenge, OneAtMost
  <2>4. CodesHold(x)'
    BY <1>12, <2>1, <2>2, <2>3 DEF CodesHold
  <2> QED
    BY <1>2, <2>1, <2>4, SameIsApart, KeptOwners DEF QuietPhone
<1>15. ASSUME x \in Users \ contested PROVE QuietUser(x)'
  BY <1>2, <1>15, SameIsApart, KeptOwners DEF AccountsHold
<1> QED
  BY <1>2, <1>3, <1>10, <1>11, <1>13, <1>14, <1>15, Answers

\* What has to be shown of a step that goes on and changes what belongs to its phone.
LEMMA GoesOnWith ==
    ASSUME AccountsHold, NEW r \in Request, req[r] # Idle, NEW fields, Goto(r, fields),
           NEW x, x = req[r].on,
           {"at", "on"} \subseteq DOMAIN req'[r], req'[r].at # "idle", req'[r].on = x,
           Stays, AccountRecords', \A y : y # x => Apart(y),
           AccountRequest(r)', QuietRequest(r)',
           x \in Phones \ contested => QuietPhone(x)',
           x \in Users \ contested => QuietUser(x)'
    PROVE  AccountsHold'
<1>1. RequestInv
  BY DEF AccountsHold
<1>2. RequestInv'
  BY <1>1, GotoKeeps
<1>3. /\ \A q \in Request \ {r} : req'[q] = req[q]
      /\ contested' = contested /\ faulted' = faulted
  BY <1>1, GotoWrites
<1>4. \A q \in Request \ {r} : req[q] # Idle /\ req[q].on = x => x \in contested'
  BY <1>1, <1>3, OthersContest
<1> QED
  BY <1>2, <1>3, <1>4, AccountsFrame

\* A right code is used up before anything else is done for it.
LEMMA PutConsumedHolds ==
    ASSUME AccountsHold, NEW r \in Request, PutConsumed(r)
    PROVE  AccountsHold'
<1>1. RequestInv /\ AccountRequest(r) /\ QuietRequest(r) /\ AccountRecords
  BY DEF AccountsHold
<1>2. /\ req[r].at = "put_consumed" /\ req[r] # Idle /\ Goto(r, [at |-> "find_user"])
      /\ user' = user /\ profiles' = profiles /\ sessions' = sessions
      /\ consented' = consented /\ guesses' = guesses /\ delegation' = delegation
  BY DEF PutConsumed, At, Idle
<1>3. PICK x, h, c : x = req[r].on /\ h = req[r].challenge /\ c = req[r].copy
  OBVIOUS
<1>4. /\ x \in Phones /\ h \in Challenges /\ challenge[h] # NoChallenge /\ challenge[h].phone = x
      /\ c \in ChallengeRecord /\ {"at", "on", "challenge"} \subseteq DOMAIN req[r]
      /\ x \notin contested =>
             SessionsOf(h) = {} /\ (x \notin faulted => guesses[h] <= MaxAttempts)
  BY <1>1, <1>2, <1>3 DEF RequestInv, AccountRequest, QuietRequest, OnPhone, Guess
<1>5. /\ challenge \in [Challenges -> ChallengeRecord \cup {NoChallenge}]
      /\ challenge[h] \in ChallengeRecord
  BY <1>1, <1>4 DEF AccountRecords
<1>6. challenge' = [challenge EXCEPT ![h].attempts = c.attempts, ![h].consumed = TRUE]
  BY <1>3 DEF PutConsumed
<1>7. /\ challenge'[h] = [challenge[h] EXCEPT !.attempts = c.attempts, !.consumed = TRUE]
      /\ \A k \in Challenges \ {h} : challenge'[k] = challenge[k]
  BY <1>4, <1>5, <1>6
<1>8. /\ challenge'[h] \in ChallengeRecord
      /\ challenge'[h].phone = x /\ challenge'[h].age = challenge[h].age
      /\ challenge'[h].consumed
  BY <1>4, <1>5, <1>7 DEF ChallengeRecord
<1>9. /\ challenge' \in [Challenges -> ChallengeRecord \cup {NoChallenge}]
      /\ \A k \in Challenges : challenge'[k] = NoChallenge <=> challenge[k] = NoChallenge
  <2>1. NoChallenge \notin ChallengeRecord
    <3>1. \A e \in ChallengeRecord : e.age # "none"
      BY DEF ChallengeRecord
    <3> QED
      BY <3>1 DEF NoChallenge
  <2> QED
    BY <1>4, <1>5, <1>6, <1>7, <1>8, <2>1
<1>10. Stays
  BY <1>2, <1>4, <1>7, <1>8, <1>9 DEF Stays
<1>11. AccountRecords'
  <2>1. {k \in Challenges : challenge'[k] # NoChallenge} = {k \in Challenges : challenge[k] # NoChallenge}
    BY <1>9
  <2>2. \A s \in sessions' : SessionInv(s)'
    BY <1>1, <1>2, <1>10 DEF AccountRecords, SessionInv, Stays
  <2>3. \A d \in Delegations : DelegationInv(d)'
    BY <1>1, <1>2 DEF AccountRecords, DelegationInv
  <2> QED
    BY <1>1, <1>2, <1>9, <2>1, <2>2, <2>3 DEF AccountRecords
<1>12. /\ \A y : Issued(y)' = Issued(y) /\ InWindow(y)' = InWindow(y)
       /\ \A k : SessionsOf(k)' = SessionsOf(k)
  <2>1. \A y : Issued(y)' = Issued(y)
    BY <1>9, <1>10 DEF Issued, Stays
  <2>2. \A y : \A k \in Issued(y) : challenge'[k].age = challenge[k].age
    BY <1>7, <1>8 DEF Issued
  <2> QED
    BY <1>2, <2>1, <2>2 DEF InWindow, SessionsOf
<1>13. ASSUME NEW y, y # x PROVE Apart(y)
  <2>1. \A k \in Issued(y) : challenge'[k] = challenge[k]
    BY <1>4, <1>7, <1>13 DEF Issued
  <2>2. CodesApart(y)
    BY <1>2, <1>12, <2>1 DEF CodesApart
  <2> QED
    BY <1>2, <2>2, SameIsApart DEF Apart
<1>14. /\ req'[r] = With([at |-> "find_user"], req[r])
       /\ contested' = contested /\ faulted' = faulted
       /\ \A q \in Request \ {r} : req'[q] = req[q]
  BY <1>1, <1>2, GotoWrites
<1>15. /\ {"at", "on", "challenge"} \subseteq DOMAIN req'[r]
       /\ req'[r].at = "find_user" /\ req'[r].on = x /\ req'[r].challenge = h
  BY <1>3, <1>4, <1>14 DEF With
<1>16. AccountRequest(r)'
  BY <1>4, <1>8, <1>9, <1>15 DEF AccountRequest, At, Guess, Entering, ForUser, OnPhone, Inviting
<1>17. QuietRequest(r)'
  BY <1>4, <1>8, <1>12, <1>14, <1>15 DEF QuietRequest, At, Guess, Entering, Inviting
<1>18. ASSUME x \in Phones \ contested PROVE QuietPhone(x)'
  <2>1. CodesHold(x) /\ OwnersHold(x)
    BY <1>18 DEF AccountsHold, QuietPhone
  <2>2. ASSUME NEW k \in Issued(x), k # h PROVE QuietChallenge(x, k)'
    <3>1. Comparing(k) => Comparing(k)'
      BY <1>3, <1>14, <2>2 DEF Comparing
    <3>2. challenge'[k] = challenge[k] /\ guesses'[k] = guesses[k] /\ QuietChallenge(x, k)
      BY <1>2, <1>7, <2>1, <2>2 DEF CodesHold, Issued
    <3> QED
      BY <1>12, <1>14, <3>1, <3>2 DEF QuietChallenge, OneAtMost
  <2>3. QuietChallenge(x, h)'
    BY <1>2, <1>4, <1>8, <1>12, <1>14, <1>18 DEF QuietChallenge, OneAtMost
  <2>4. CodesHold(x)'
    BY <1>12, <2>1, <2>2, <2>3 DEF CodesHold
  <2> QED
    BY <1>2, <2>1, <2>4, SameIsApart, KeptOwners DEF QuietPhone
<1>19. ASSUME x \in Users \ contested PROVE QuietUser(x)'
  BY <1>2, <1>19, SameIsApart, KeptOwners DEF AccountsHold
<1> QED
  BY <1>2, <1>3, <1>10, <1>11, <1>13, <1>15, <1>16, <1>17, <1>18, <1>19, GoesOnWith

-------------------------------------------------------------------------------
(* Users, their profiles and their sessions. *)

\* A user is made for a phone that has none.
LEMMA PutUserHolds ==
    ASSUME AccountsHold, NEW r \in Request, PutUser(r)
    PROVE  AccountsHold'
<1>1. RequestInv /\ AccountRequest(r) /\ QuietRequest(r) /\ AccountRecords
  BY DEF AccountsHold
<1>2. /\ req[r].at = "put_user" /\ req[r] # Idle
      /\ challenge' = challenge /\ profiles' = profiles /\ sessions' = sessions
      /\ consented' = consented /\ guesses' = guesses /\ delegation' = delegation
  BY DEF PutUser, At, Idle
<1>3. PICK x, h : x = req[r].on /\ h = req[r].challenge
  OBVIOUS
<1>4. /\ x \in Phones /\ {"at", "on", "challenge"} \subseteq DOMAIN req[r]
      /\ h \in Challenges /\ challenge[h] # NoChallenge /\ challenge[h].phone = x
      /\ x \notin contested => /\ challenge[h].consumed /\ SessionsOf(h) = {}
                               /\ Owners(x) = {}
  BY <1>1, <1>2, <1>3 DEF RequestInv, AccountRequest, QuietRequest, At, OnPhone, Entering
<1>5. PICK u \in FreshUsers : /\ user' = [user EXCEPT ![u] = x]
                              /\ Goto(r, [at |-> "put_profile", user |-> u])
  BY <1>3 DEF PutUser
<1>6. /\ u \in Users /\ user[u] = "none" /\ profiles[u] = 0
      /\ user'[u] = x /\ \A v \in Users \ {u} : user'[v] = user[v]
      /\ user' \in [Users -> Phones \cup {"none"}] /\ "none" \notin Phones
  BY <1>1, <1>4, <1>5, AccountsAssumption DEF FreshUsers, Owners, AccountRecords
<1>7. Stays
  BY <1>2, <1>6 DEF Stays
<1>8. AccountRecords'
  <2>1. \A s \in sessions' : SessionInv(s)'
    <3>1. ASSUME NEW s \in sessions PROVE user'[s.user] = user[s.user]
      <4>1. SessionInv(s) /\ challenge[s.challenge] \in ChallengeRecord
        BY <1>1 DEF AccountRecords, SessionInv
      <4>2. s.user # u
        BY <1>6, <4>1 DEF SessionInv, ChallengeRecord
      <4> QED
        BY <1>6, <4>1, <4>2 DEF SessionInv
    <3> QED
      BY <1>1, <1>2, <3>1 DEF AccountRecords, SessionInv
  <2>2. ASSUME NEW d \in Delegations PROVE DelegationInv(d)'
    <3>1. DelegationInv(d)
      BY <1>1 DEF AccountRecords
    <3>2. ASSUME delegation[d].status = "active"
          PROVE  /\ delegation[d].delegate \in Users
                 /\ user'[delegation[d].delegate] = delegation[d].phone
                 /\ user'[delegation[d].principal] # "none"
      <4>1. delegation[d] \in DelegationRecord
        BY <3>1, <3>2 DEF DelegationInv
      <4>2. delegation[d].phone \in Phones /\ delegation[d].principal \in Users
        BY <4>1 DEF DelegationRecord
      <4> QED
        BY <1>4, <1>6, <3>1, <3>2, <4>2 DEF DelegationInv
    <3> QED
      BY <1>2, <3>1, <3>2 DEF DelegationInv
  <2>3. \A v \in Users : user'[v] = "none" => profiles'[v] = 0
    BY <1>1, <1>2, <1>4, <1>6 DEF AccountRecords
  <2> QED
    BY <1>1, <1>2, <1>6, <2>1, <2>2, <2>3 DEF AccountRecords
<1>9. ASSUME NEW y, y # x PROVE Apart(y)
  <2>1. y \in Phones => OwnersApart(y)
    BY <1>2, <1>6, <1>9 DEF OwnersApart, Owners
  <2> QED
    BY <1>2, <2>1, SameIsApart DEF Apart
<1>10. /\ req'[r] = With([at |-> "put_profile", user |-> u], req[r])
       /\ contested' = contested /\ faulted' = faulted
       /\ \A q \in Request \ {r} : req'[q] = req[q]
  BY <1>1, <1>5, GotoWrites
<1>11. /\ {"at", "on", "challenge", "user"} \subseteq DOMAIN req'[r]
       /\ req'[r].at = "put_profile" /\ req'[r].on = x
       /\ req'[r].challenge = h /\ req'[r].user = u
  BY <1>3, <1>4, <1>10 DEF With
<1>12. AccountRequest(r)'
  BY <1>2, <1>4, <1>6, <1>11 DEF AccountRequest, At, Guess, Entering, ForUser, OnPhone, Inviting
<1>13. SessionsOf(h)' = SessionsOf(h)
  BY <1>2 DEF SessionsOf
<1>14. QuietRequest(r)'
  BY <1>2, <1>4, <1>6, <1>10, <1>11, <1>13 DEF QuietRequest, At, Guess, Entering, Inviting
<1>15. ASSUME x \in Phones \ contested PROVE QuietPhone(x)'
  <2>1. CodesHold(x)
    BY <1>15 DEF AccountsHold, QuietPhone
  <2>2. \A k : Comparing(k) => Comparing(k)'
    BY <1>2, <1>10, KeptComparing DEF Guess
  <2>3. CodesHold(x)'
    BY <1>1, <1>2, <1>10, <2>1, <2>2, KeptCodes, SameIsApart
  <2>4. Owners(x)' = {u}
    BY <1>4, <1>6, <1>15 DEF Owners
  <2>5. OwnersHold(x)'
    BY <1>2, <1>6, <2>4 DEF OwnersHold, OneAtMost
  <2> QED
    BY <2>3, <2>5 DEF QuietPhone
<1>16. ASSUME x \in Users \ contested PROVE QuietUser(x)'
  BY <1>2, <1>16, SameIsApart, KeptOwners DEF AccountsHold
<1> QED
  BY <1>2, <1>3, <1>5, <1>7, <1>8, <1>9, <1>11, <1>12, <1>14, <1>15, <1>16, GoesOnWith

\* One profile more for a user: nobody else is concerned.
LEMMA ProfileAdded ==
    ASSUME AccountsHold, NEW r \in Request, req[r] # Idle, req[r].at \notin Guess,
           \A q \in Request \ {r} : req'[q] = req[q],
           NEW x \in Phones, NEW u \in Users, user[u] = x, x \notin contested => profiles[u] = 0,
           profiles' = [profiles EXCEPT ![u] = @ + 1], faulted' = faulted,
           challenge' = challenge, user' = user, sessions' = sessions,
           consented' = consented, guesses' = guesses, delegation' = delegation
    PROVE  /\ Stays /\ AccountRecords' /\ \A y : y # x => Apart(y)
           /\ x \notin contested => QuietPhone(x)'
           /\ x \in Users \ contested => QuietUser(x)'
<1>1. AccountRecords
  BY DEF AccountsHold
<1>2. Stays
  BY DEF Stays
<1>3. /\ profiles \in [Users -> Nat] /\ profiles' \in [Users -> Nat]
      /\ profiles'[u] = profiles[u] + 1 /\ \A v \in Users \ {u} : profiles'[v] = profiles[v]
  BY <1>1 DEF AccountRecords
<1>4. AccountRecords'
  <2>1. \A v \in Users : user'[v] = "none" => profiles'[v] = 0
    BY <1>1, <1>3, AccountsAssumption DEF AccountRecords
  <2> QED
    BY <1>1, <1>3, <2>1 DEF AccountRecords, DelegationInv, SessionInv
<1>5. ASSUME NEW y, y # x PROVE Apart(y)
  <2>1. OwnersApart(y)
    BY <1>3, <1>5 DEF OwnersApart, Owners
  <2> QED
    BY <2>1, SameIsApart DEF Apart
<1>6. ASSUME x \notin contested PROVE QuietPhone(x)'
  <2>1. CodesHold(x) /\ OwnersHold(x)
    BY <1>6 DEF AccountsHold, QuietPhone
  <2>2. \A k : Comparing(k) => Comparing(k)'
    BY KeptComparing
  <2>3. CodesHold(x)'
    BY <1>1, <2>1, <2>2, KeptCodes, SameIsApart
  <2>4. Owners(x)' = Owners(x) /\ profiles'[u] = 1
    BY <1>3, <1>6 DEF Owners
  <2>5. \A v \in Owners(x) : profiles'[v] <= 1
    BY <1>3, <2>1, <2>4 DEF OwnersHold, Owners
  <2> QED
    BY <2>1, <2>3, <2>4, <2>5 DEF QuietPhone, OwnersHold, OneAtMost
<1>7. ASSUME x \in Users \ contested PROVE QuietUser(x)'
  BY <1>7, SameIsApart, KeptOwners DEF AccountsHold
<1> QED
  BY <1>2, <1>4, <1>5, <1>6, <1>7

\* The profile of a new user.
LEMMA PutProfileHolds ==
    ASSUME AccountsHold, NEW r \in Request, PutProfile(r)
    PROVE  AccountsHold'
<1>1. RequestInv /\ AccountRequest(r) /\ QuietRequest(r)
  BY DEF AccountsHold
<1>2. /\ req[r].at = "put_profile" /\ req[r] # Idle /\ req[r].at \notin Guess
      /\ Goto(r, [at |-> "put_account_consent"])
      /\ challenge' = challenge /\ user' = user /\ sessions' = sessions
      /\ consented' = consented /\ guesses' = guesses /\ delegation' = delegation
  BY DEF PutProfile, At, Idle, Guess
<1>3. PICK x, h, u : x = req[r].on /\ h = req[r].challenge /\ u = req[r].user
  OBVIOUS
<1>4. /\ x \in Phones /\ {"at", "on", "challenge", "user"} \subseteq DOMAIN req[r]
      /\ h \in Challenges /\ challenge[h] # NoChallenge /\ challenge[h].phone = x
      /\ u \in Users /\ user[u] = x
      /\ x \notin contested => challenge[h].consumed /\ SessionsOf(h) = {} /\ profiles[u] = 0
  BY <1>1, <1>2, <1>3 DEF RequestInv, AccountRequest, QuietRequest, OnPhone, Entering, ForUser
<1>5. profiles' = [profiles EXCEPT ![u] = @ + 1]
  BY <1>3 DEF PutProfile
<1>6. /\ req'[r] = With([at |-> "put_account_consent"], req[r])
      /\ contested' = contested /\ faulted' = faulted
      /\ \A q \in Request \ {r} : req'[q] = req[q]
  BY <1>1, <1>2, GotoWrites
<1>7. /\ {"at", "on", "challenge", "user"} \subseteq DOMAIN req'[r]
      /\ req'[r].at = "put_account_consent" /\ req'[r].on = x
      /\ req'[r].challenge = h /\ req'[r].user = u
  BY <1>3, <1>4, <1>6 DEF With
<1>8. AccountRequest(r)'
  BY <1>2, <1>4, <1>7 DEF AccountRequest, At, Guess, Entering, ForUser, OnPhone, Inviting
<1>9. SessionsOf(h)' = SessionsOf(h)
  BY <1>2 DEF SessionsOf
<1>10. QuietRequest(r)'
  BY <1>2, <1>4, <1>6, <1>7, <1>9 DEF QuietRequest, At, Guess, Entering, Inviting
<1> QED
  BY <1>2, <1>3, <1>4, <1>5, <1>6, <1>7, <1>8, <1>10, ProfileAdded, GoesOnWith

\* A profile that was missing.
LEMMA PutMissingProfileHolds ==
    ASSUME AccountsHold, NEW r \in Request, PutMissingProfile(r)
    PROVE  AccountsHold'
<1>1. RequestInv /\ AccountRequest(r) /\ QuietRequest(r)
  BY DEF AccountsHold
<1>2. /\ req[r].at = "put_missing_profile" /\ req[r] # Idle /\ req[r].at \notin Guess /\ Answer(r)
      /\ challenge' = challenge /\ user' = user /\ sessions' = sessions
      /\ consented' = consented /\ guesses' = guesses /\ delegation' = delegation
  BY DEF PutMissingProfile, At, Idle, Guess
<1>3. PICK x, u : x = req[r].on /\ u = req[r].user
  OBVIOUS
<1>4. /\ x \in Phones /\ u \in Users /\ user[u] = x
      /\ x \notin contested => profiles[u] = 0
  BY <1>1, <1>2, <1>3 DEF AccountRequest, QuietRequest, OnPhone, ForUser
<1>5. profiles' = [profiles EXCEPT ![u] = @ + 1]
  BY <1>3 DEF PutMissingProfile
<1>6. faulted' = faulted /\ \A q \in Request \ {r} : req'[q] = req[q]
  BY <1>1, <1>2, RequestsEnd DEF Answer
<1> QED
  BY <1>2, <1>3, <1>4, <1>5, <1>6, ProfileAdded, Answers

\* The session of a code that was used up.
LEMMA PutSessionHolds ==
    ASSUME AccountsHold, NEW r \in Request, PutSession(r)
    PROVE  AccountsHold'
<1>1. RequestInv /\ AccountRequest(r) /\ QuietRequest(r) /\ AccountRecords
  BY DEF AccountsHold
<1>2. /\ req[r].at = "put_session" /\ req[r] # Idle /\ req[r].at \notin Guess /\ Answer(r)
      /\ challenge' = challenge /\ user' = user /\ profiles' = profiles
      /\ consented' = consented /\ guesses' = guesses /\ delegation' = delegation
  BY DEF PutSession, At, Idle, Guess
<1>3. PICK x, h, u : x = req[r].on /\ h = req[r].challenge /\ u = req[r].user
  OBVIOUS
<1>4. /\ x \in Phones /\ h \in Challenges /\ challenge[h] # NoChallenge /\ challenge[h].phone = x
      /\ u \in Users /\ user[u] = x /\ u \in consented
      /\ x \notin contested => challenge[h].consumed /\ SessionsOf(h) = {}
  BY <1>1, <1>2, <1>3 DEF AccountRequest, QuietRequest, At, OnPhone, Entering, ForUser
<1>5. PICK s : s.user = u /\ s.challenge = h /\ sessions' = sessions \cup {s}
  <2>1. PICK n : n = Cardinality(sessions)
    OBVIOUS
  <2>2. sessions' = sessions \cup {[user |-> u, challenge |-> h, id |-> n]}
    BY <1>3, <2>1 DEF PutSession
  <2> QED
    BY <2>2
<1>6. Stays
  BY <1>2 DEF Stays
<1>7. AccountRecords'
  <2>1. \A t \in sessions' : SessionInv(t)'
    BY <1>1, <1>2, <1>4, <1>5 DEF AccountRecords, SessionInv
  <2> QED
    BY <1>1, <1>2, <2>1 DEF AccountRecords, DelegationInv
<1>8. SessionsOf(h)' = SessionsOf(h) \cup {s} /\ \A k : k # h => SessionsOf(k)' = SessionsOf(k)
  BY <1>5 DEF SessionsOf
<1>9. \A y : Issued(y)' = Issued(y) /\ InWindow(y)' = InWindow(y)
  BY <1>2 DEF Issued, InWindow
<1>10. ASSUME NEW y, y # x PROVE Apart(y)
  <2>1. h \notin Issued(y)
    BY <1>4, <1>10 DEF Issued
  <2>2. CodesApart(y)
    BY <1>2, <1>8, <1>9, <2>1 DEF CodesApart
  <2> QED
    BY <1>2, <2>2, SameIsApart DEF Apart
<1>11. ASSUME x \in Phones \ contested PROVE QuietPhone(x)'
  <2>1. CodesHold(x) /\ OwnersHold(x) /\ faulted' = faulted
    BY <1>2, <1>11 DEF AccountsHold, QuietPhone, Answer
  <2>2. ASSUME NEW k \in Issued(x), k # h PROVE QuietChallenge(x, k)'
    <3>1. Comparing(k) => Comparing(k)'
      BY <1>1, <1>2, RequestsEnd, KeptComparing
    <3>2. QuietChallenge(x, k)
      BY <2>1 DEF CodesHold
    <3> QED
      BY <1>2, <1>8, <2>1, <2>2, <3>1, <3>2 DEF QuietChallenge, OneAtMost
  <2>3. QuietChallenge(x, h)'
    <3>1. QuietChallenge(x, h)
      BY <1>4, <2>1 DEF CodesHold, Issued
    <3> QED
      BY <1>2, <1>4, <1>8, <1>11, <2>1, <3>1 DEF QuietChallenge, OneAtMost
  <2>4. CodesHold(x)'
    BY <1>9, <2>1, <2>2, <2>3 DEF CodesHold
  <2> QED
    BY <1>2, <2>1, <2>4, SameIsApart, KeptOwners DEF QuietPhone
<1>12. ASSUME x \in Users \ contested PROVE QuietUser(x)'
  BY <1>2, <1>12, SameIsApart, KeptOwners DEF AccountsHold
<1> QED
  BY <1>2, <1>3, <1>6, <1>7, <1>10, <1>11, <1>12, Answers

-------------------------------------------------------------------------------
(* The invariant of the accounts and what follows from it. *)

\* One step of a request, or of the clock, on the accounts.
LEMMA AccountsMove ==
    ASSUME AccountsHold, AccountsNext
    PROVE  AccountsHold'
<1>1. ASSUME NEW r \in Request, AccountsStep(r) PROVE AccountsHold'
  BY <1>1, PutChallengeHolds, PutAttemptHolds, PutConsumedHolds, FindUserHolds, PutUserHolds,
     PutProfileHolds, PutAccountConsentHolds, PutSessionHolds, PutMissingProfileHolds,
     PutDelegationConsentHolds, FindDelegateHolds, PutDelegationHolds DEF AccountsStep
<1>2. ASSUME NEW r \in Request, AccountsCall(r) PROVE AccountsHold'
  BY <1>2, CallsBegin, VerifyOtpHolds, RevokeHolds DEF AccountsCall
<1> QED
  BY <1>1, <1>2, AgeHolds DEF AccountsNext

\* Nothing happens to what holds while nothing moves.
LEMMA AccountsUnmoved ==
    ASSUME AccountsHold, UNCHANGED requestVars, UNCHANGED accountVars
    PROVE  AccountsHold'
<1> USE DEF requestVars, accountVars
<1>1. AccountRecords => AccountRecords'
  BY NothingMoves
<1>2. RequestInv => RequestInv'
  BY DEF RequestInv
<1>3. \A r \in Request : AccountRequest(r) => AccountRequest(r)'
  BY DEF AccountRequest, At
<1>4. \A r \in Request : QuietRequest(r) => QuietRequest(r)'
  BY DEF QuietRequest, At, InWindow, Issued, SessionsOf, Owners, OpenTo
<1>5. \A p : QuietPhone(p) => QuietPhone(p)'
  <2>1. \A p, h : QuietChallenge(p, h) => QuietChallenge(p, h)'
    BY DEF QuietChallenge, OneAtMost, SessionsOf, Comparing
  <2> QED
    BY <2>1 DEF QuietPhone, CodesHold, OwnersHold, OneAtMost, InWindow, Issued, Owners
<1>6. \A u : QuietUser(u) => QuietUser(u)'
  BY DEF QuietUser, OneAtMost, OpenTo
<1> QED
  BY <1>1, <1>2, <1>3, <1>4, <1>5, <1>6 DEF AccountsHold

\* Every step keeps the invariant of the accounts.
LEMMA AccountsInvStep ==
    ASSUME AccountsInv, [ServicesNext]_vars
    PROVE  AccountsInv'
<1>1. /\ scenario' = scenario
      /\ \/ scenario = "accounts" /\ AccountsNext
         \/ (\E r \in Request : Dies(r)) /\ UNCHANGED accountVars
         \/ UNCHANGED requestVars /\ UNCHANGED accountVars
         \/ scenario # "accounts" /\ UNCHANGED accountVars
  BY DEF ServicesNext, Move, Publish, Apply, Oversee, Account, Prepare, SignIn, Settle,
         TrackJourneys, Keep, Persist, Synchronize, Only, Die, vars
<1>2. CASE scenario # "accounts"
  <2>1. ~AccountsNext \/ scenario # "accounts"
    BY <1>2
  <2>2. UNCHANGED accountVars
    BY <1>1, <1>2
  <2> QED
    BY <1>1, <1>2, <2>2 DEF AccountsInv, Untouched, accountVars
<1>3. CASE scenario = "accounts"
  <2>1. AccountsHold
    BY <1>3 DEF AccountsInv
  <2>2. CASE AccountsNext
    BY <1>1, <1>3, <2>1, <2>2, AccountsMove DEF AccountsInv
  <2>3. CASE (\E r \in Request : Dies(r)) /\ UNCHANGED accountVars
    BY <1>1, <1>3, <2>1, <2>3, DiesHolds DEF AccountsInv
  <2>4. CASE UNCHANGED requestVars /\ UNCHANGED accountVars
    BY <1>1, <1>3, <2>1, <2>4, AccountsUnmoved DEF AccountsInv
  <2> QED
    BY <1>1, <1>3, <2>2, <2>3, <2>4
<1> QED
  BY <1>2, <1>3

\* The initial states satisfy the invariant of the accounts.
LEMMA AccountsStart == ServicesInit => AccountsInv
<1> SUFFICES ASSUME ServicesInit PROVE AccountsInv
  OBVIOUS
<1>1. AccountsInit /\ RequestsInit /\ (scenario # "accounts" => Owners("none") = Users)
  BY DEF ServicesInit
<1>2. RequestInv /\ \A r \in Request : req[r] = Idle
  BY <1>1, RequestsStart
<1>3. /\ \A h \in Challenges : challenge[h] = NoChallenge
      /\ \A d \in Delegations : delegation[d] = NoDelegation
      /\ sessions = {}
  BY <1>1 DEF AccountsInit
<1>4. CASE scenario # "accounts"
  <2>1. user = [u \in Users |-> "none"]
    BY <1>1, <1>4 DEF AccountsInit, Owners
  <2> QED
    BY <1>1, <1>4, <2>1 DEF AccountsInit, AccountsInv, Untouched
<1>5. CASE scenario = "accounts"
  <2>1. AccountRecords
    <3>1. {h \in Challenges : challenge[h] # NoChallenge} = {}
      BY <1>3
    <3>2. IsFiniteSet({h \in Challenges : challenge[h] # NoChallenge})
      BY <3>1, FS_EmptySet
    <3>3. \A d \in Delegations : DelegationInv(d)
      BY <1>3 DEF DelegationInv, NoDelegation
    <3>4. /\ challenge \in [Challenges -> ChallengeRecord \cup {NoChallenge}]
          /\ user \in [Users -> Phones \cup {"none"}]
          /\ profiles \in [Users -> Nat] /\ guesses \in [Challenges -> Nat]
          /\ \A u \in Users : user[u] = "none" => profiles[u] = 0
          /\ \A h \in Challenges : guesses[h] = 0
          /\ DOMAIN delegation = Delegations
      BY <1>1 DEF AccountsInit
    <3> QED
      BY <1>3, <3>2, <3>3, <3>4 DEF AccountRecords
  <2>2. \A r \in Request : AccountRequest(r) /\ QuietRequest(r)
    BY <1>2 DEF AccountRequest, QuietRequest
  <2>3. ASSUME NEW p \in Phones PROVE QuietPhone(p)
    <3>1. Issued(p) = {} /\ InWindow(p) = {}
      BY <1>3 DEF Issued, InWindow
    <3>2. Cardinality(InWindow(p)) = 0
      BY <3>1, FS_EmptySet
    <3>3. OneAtMost(Owners(p)) /\ \A u \in Owners(p) : profiles[u] <= 1
      <4>1. "none" \notin Phones
        BY AccountsAssumption
      <4>2. \A u, v \in Users : user[u] = p /\ user[v] = p => u = v
        BY <1>1, <4>1 DEF AccountsInit
      <4>3. \A u \in Users : profiles[u] \in {0, 1}
        BY <1>1 DEF AccountsInit
      <4> QED
        BY <4>2, <4>3 DEF OneAtMost, Owners
    <3> QED
      BY <3>1, <3>2, <3>3, AccountsAssumption DEF QuietPhone, CodesHold, OwnersHold
  <2>4. ASSUME NEW u PROVE QuietUser(u)
    BY <1>3 DEF QuietUser, OneAtMost, OpenTo, NoDelegation
  <2> QED
    BY <1>2, <1>5, <2>1, <2>2, <2>3, <2>4 DEF AccountsInv, AccountsHold
<1> QED
  BY <1>4, <1>5

\* A code signs in once, for the phone it was sent to; a phone has one user with one
\* profile, and no window holds more codes, no code is compared more often, than the
\* limits say; a relative acts for somebody else with the invited phone only.
THEOREM CodesSignInOnce == ServicesSpec => []SignInOnce
<1>1. AccountsInv => SignInOnce
  <2> SUFFICES ASSUME AccountsInv PROVE SignInOnce
    OBVIOUS
  <2>1. CASE scenario = "accounts"
    <3>1. AccountsHold
      BY <2>1 DEF AccountsInv
    <3>2. ASSUME NEW s \in sessions
          PROVE  user[s.user] = challenge[s.challenge].phone /\ s.user \in consented
      BY <3>1 DEF AccountsHold, AccountRecords, SessionInv
    <3>3. ASSUME NEW u \in Users, NEW w \in ActsFor(u)
          PROVE  user[w] # "none" /\ \E d \in OpenTo(w, user[u]) : delegation[d].delegate = u
      <4>1. PICK d \in Delegations : /\ delegation[d].status = "active"
                                     /\ delegation[d].delegate = u
                                     /\ delegation[d].principal = w
        BY DEF ActsFor
      <4>2. DelegationInv(d)
        BY <3>1 DEF AccountsHold, AccountRecords
      <4> QED
        BY <4>1, <4>2 DEF DelegationInv, OpenTo
    <3>4. ASSUME NEW p \in Phones \ contested
          PROVE  /\ \A h \in Issued(p) :
                        /\ Cardinality({s \in sessions : s.challenge = h}) <= 1
                        /\ p \notin faulted => guesses[h] <= MaxAttempts
                 /\ Cardinality(InWindow(p)) <= MaxChallenges
                 /\ Cardinality(Owners(p)) <= 1
                 /\ \A u \in Owners(p) : profiles[u] <= 1
      <4>1. QuietPhone(p)
        BY <3>1 DEF AccountsHold
      <4>2. \A h \in Issued(p) : QuietChallenge(p, h)
        BY <4>1 DEF QuietPhone, CodesHold
      <4>3. \A h \in Issued(p) : Cardinality({s \in sessions : s.challenge = h}) <= 1
        BY <4>2, AtMostOne DEF QuietChallenge, SessionsOf
      <4>4. Cardinality(Owners(p)) <= 1
        BY <4>1, AtMostOne DEF QuietPhone, OwnersHold
      <4> QED
        BY <4>1, <4>2, <4>3, <4>4 DEF QuietPhone, CodesHold, OwnersHold, QuietChallenge
    <3>5. \A u \in Users \ contested : \A p \in Phones : Cardinality(OpenTo(u, p)) <= 1
      BY <3>1, AtMostOne DEF AccountsHold, QuietUser
    <3> QED
      BY <3>2, <3>3, <3>4, <3>5 DEF SignInOnce
  <2>2. CASE scenario # "accounts"
    <3>1. Untouched
      BY <2>2 DEF AccountsInv
    <3>2. \A u \in Users : ActsFor(u) = {}
      BY <3>1 DEF Untouched, ActsFor, NoDelegation
    <3>3. \A u, p : OpenTo(u, p) = {}
      BY <3>1 DEF Untouched, OpenTo, NoDelegation
    <3>4. \A p \in Phones : Issued(p) = {} /\ InWindow(p) = {} /\ Owners(p) = {}
      BY <3>1, AccountsAssumption DEF Untouched, Issued, InWindow, Owners
    <3>5. Cardinality({}) = 0
      BY FS_EmptySet
    <3> QED
      BY <3>1, <3>2, <3>3, <3>4, <3>5, AccountsAssumption DEF SignInOnce, Untouched
  <2> QED
    BY <2>1, <2>2
<1> QED
  BY <1>1, AccountsStart, AccountsInvStep, PTL DEF ServicesSpec
===============================================================================

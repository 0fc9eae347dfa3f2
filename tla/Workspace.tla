------------------------------- MODULE Workspace -------------------------------
(***************************************************************************)
(* The workspace of one account in the web app (apps/web/db/operations.ts  *)
(* with the server actions that call it): the profile with its direction,  *)
(* and the journeys with their tasks, records, alerts and reports.  A step *)
(* is one statement or one batch; requests run in Workers of their own.    *)
(* Statements name their user, so that an account only meets its own rows. *)
(***************************************************************************)
EXTENDS Requests, Sequences

CONSTANTS
    Journeys, \* identifiers of journeys
    Targets,  \* what a journey may be for
    Blank     \* no target: startBlankJourneyAction

ASSUME WorkspaceAssumption == Blank \notin Targets

VARIABLES
    profile,    \* the row of user_profiles
    roles,      \* app_user.roles, with PostgreSQL
    journey,    \* journeys, each with its task, records, alerts and outcome reports
    filed,      \* tables to which the account added rows that nothing reads again
    webDelegation, \* the status of a row of delegations
    saves       \* history: passports saved

workspaceVars == <<profile, roles, journey, filed, webDelegation, saves>>

Paths      == {"work", "study"}
Intents    == Paths \cup {"both", "unsure"}
Directions == {d \in [path : Paths, enabled : SUBSET Paths] : d.path \in d.enabled}
NoProfile  == [active |-> "none"]
NoJourney  == [target |-> "none"]

WorkspaceInit ==
    /\ profile = NoProfile /\ saves = 0
    /\ roles = {"worker"}
    /\ journey = [j \in Journeys |-> NoJourney]
    /\ filed = {} /\ webDelegation = "none"

Known == profile # NoProfile

-------------------------------------------------------------------------------
(* The profile.                                                            *)

EnabledBy(intent) == IF intent \in Paths THEN {intent} ELSE Paths

\* Mutant of SavePassport: the direction follows the passport whatever was chosen.
SavePassportAlways(r, intent) ==
    /\ Single(r, "profile")
    /\ saves' = saves + 1
    /\ LET passport == [intent |-> intent, version |-> saves']
       IN  profile' = [active |-> intent, enabled |-> EnabledBy(intent),
                       onboarded |-> Known /\ profile.onboarded, passport |-> passport]
    /\ UNCHANGED <<roles, journey, filed, webDelegation>>

\* savePassport, one upsert: once onboarded, the direction is no longer the passport's.
SavePassport(r, intent) ==
    /\ Single(r, "profile")
    /\ saves' = saves + 1
    /\ LET passport == [intent |-> intent, version |-> saves']
       IN  profile' = IF Known /\ profile.onboarded
                      THEN [profile EXCEPT !.passport = passport]
                      ELSE [active |-> intent, enabled |-> EnabledBy(intent),
                            onboarded |-> FALSE, passport |-> passport]
    /\ UNCHANGED <<roles, journey, filed, webDelegation>>

IntentOf(d) == IF d.enabled = Paths THEN "both" ELSE d.path

\* completeOnboarding, first statement: an upsert that keeps the passport.
CompleteOnboarding(r, d) ==
    /\ Begin(r, "profile", [at |-> "set_roles", roles |->
                 {IF p = "work" THEN "worker" ELSE "student" : p \in d.enabled}])
    /\ profile' = [active |-> d.path, enabled |-> d.enabled, onboarded |-> TRUE,
                   passport |-> IF Known THEN profile.passport
                                ELSE [intent |-> IntentOf(d), version |-> 0]]
    /\ UNCHANGED <<roles, journey, filed, webDelegation, saves>>

SetRoles(r) ==
    /\ At(r, "set_roles")
    /\ roles' = req[r].roles
    /\ Answer(r)
    /\ UNCHANGED <<profile, journey, filed, webDelegation, saves>>

\* updateProfileDirection reads the profile and writes its passport back.
UpdateDirection(r, d) ==
    /\ Known
    /\ Begin(r, "profile", [at |-> "write_direction", direction |-> d, copy |-> profile.passport])
    /\ UNCHANGED workspaceVars

WriteDirection(r) ==
    /\ At(r, "write_direction")
    /\ LET d == req[r].direction
       IN  profile' = [profile EXCEPT !.active = d.path, !.enabled = d.enabled,
                                      !.passport = [req[r].copy EXCEPT !.intent = IntentOf(d)]]
    /\ Answer(r)
    /\ UNCHANGED <<roles, journey, filed, webDelegation, saves>>

\* setActiveWorkspace: only to a path that is enabled when it is read.
SetActiveWorkspace(r, path) ==
    /\ Known /\ path \in profile.enabled
    /\ Begin(r, "profile", [at |-> "write_active", path |-> path])
    /\ UNCHANGED workspaceVars

WriteActive(r) ==
    /\ At(r, "write_active")
    /\ profile' = [profile EXCEPT !.active = req[r].path]
    /\ Answer(r)
    /\ UNCHANGED <<roles, journey, filed, webDelegation, saves>>

-------------------------------------------------------------------------------
(* Journeys.                                                               *)

Begun  == {j \in Journeys : journey[j] # NoJourney}
For(t) == {j \in Begun : journey[j].target = t}

\* createJourney: an active journey for the target is found, or a new one is
\* inserted with its tasks as one batch.
CreateJourney(r, t, path) ==
    /\ t \in Targets => For(t) = {}
    /\ Begin(r, t, [at |-> "insert_journey", path |-> path])
    /\ UNCHANGED workspaceVars

InsertJourney(r) ==
    /\ At(r, "insert_journey")
    /\ \E j \in Journeys \ Begun :
           journey' = [journey EXCEPT ![j] =
               [target |-> req[r].on, path |-> req[r].path, done |-> FALSE, records |-> <<>>,
                alerts |-> [unread |-> 0, read |-> 0], reports |-> 0]]
    /\ Answer(r)
    /\ UNCHANGED <<profile, roles, filed, webDelegation, saves>>

\* The second statement, which dates the journey, is left out.
CompleteJourneyTask(r, j) ==
    /\ Single(r, j)
    /\ journey' = [journey EXCEPT ![j].done = TRUE]
    /\ UNCHANGED <<profile, roles, filed, webDelegation, saves>>

\* addJourneyRecord: the record, then an alert when it is due.
AddJourneyRecord(r, j, due) ==
    /\ IF due THEN Begin(r, j, [at |-> "insert_alert"]) ELSE Single(r, j)
    /\ journey' = [journey EXCEPT ![j].records = Append(@, [due |-> due, status |-> "planned"])]
    /\ UNCHANGED <<profile, roles, filed, webDelegation, saves>>

InsertAlert(r) ==
    /\ At(r, "insert_alert")
    /\ journey' = [journey EXCEPT ![req[r].on].alerts.unread = @ + 1]
    /\ Answer(r)
    /\ UNCHANGED <<profile, roles, filed, webDelegation, saves>>

SetJourneyRecordStatus(r, j, n, status) ==
    /\ Single(r, j)
    /\ journey' = [journey EXCEPT ![j].records[n].status = status]
    /\ UNCHANGED <<profile, roles, filed, webDelegation, saves>>

MarkAlertRead(r, j) ==
    /\ journey[j].alerts.unread > 0
    /\ Single(r, j)
    /\ journey' = [journey EXCEPT ![j].alerts.unread = @ - 1, ![j].alerts.read = @ + 1]
    /\ UNCHANGED <<profile, roles, filed, webDelegation, saves>>

\* The report names its path, which must be that of the journey.
CreateOutcomeReport(r, j, path) ==
    /\ journey[j].path = path
    /\ Single(r, j)
    /\ journey' = [journey EXCEPT ![j].reports = @ + 1]
    /\ UNCHANGED <<profile, roles, filed, webDelegation, saves>>

-------------------------------------------------------------------------------
(* Rows that are added and listed, and nothing else.                       *)

File(r, table) ==
    /\ Single(r, table)
    /\ filed' = filed \cup {table}
    /\ UNCHANGED <<profile, roles, journey, webDelegation, saves>>

AddLedgerEntry(r)            == File(r, "ledger_entries")
CreateVerificationRequest(r) == File(r, "verification_requests")
CreateSupportTicket(r)       == File(r, "support_tickets")
CreatePartnerSubmission(r)   == File(r, "partner_submissions")

AddDelegation(r) ==
    /\ webDelegation = "none"
    /\ Single(r, "delegations")
    /\ webDelegation' = "active"
    /\ UNCHANGED <<profile, roles, journey, filed, saves>>

RevokeDelegation(r) ==
    /\ webDelegation = "active"
    /\ Single(r, "delegations")
    /\ webDelegation' = "revoked"
    /\ UNCHANGED <<profile, roles, journey, filed, saves>>

ProfileNext ==
    \E r \in Request :
        \/ SetRoles(r) \/ WriteDirection(r) \/ WriteActive(r)
        \/ \E i \in Intents : SavePassport(r, i)
        \/ \E d \in Directions : CompleteOnboarding(r, d) \/ UpdateDirection(r, d)
        \/ \E p \in Paths : SetActiveWorkspace(r, p)

JourneysNext ==
    \E r \in Request :
        \/ InsertJourney(r) \/ InsertAlert(r)
        \/ \E t \in Targets \cup {Blank}, p \in Paths : CreateJourney(r, t, p)
        \/ \E j \in Begun :
               \/ CompleteJourneyTask(r, j) \/ MarkAlertRead(r, j)
               \/ \E due \in BOOLEAN : AddJourneyRecord(r, j, due)
               \/ \E n \in 1..Len(journey[j].records) :
                      SetJourneyRecordStatus(r, j, n, "completed")
               \/ \E p \in Paths : CreateOutcomeReport(r, j, p)
        \/ AddLedgerEntry(r) \/ CreateVerificationRequest(r) \/ CreateSupportTicket(r)
        \/ CreatePartnerSubmission(r) \/ AddDelegation(r) \/ RevokeDelegation(r)

-------------------------------------------------------------------------------
(* Properties.                                                             *)

WorkspaceTypeOK ==
    /\ Known => /\ profile.active \in Intents /\ profile.enabled \in (SUBSET Paths) \ {{}}
                /\ profile.passport \in [intent : Intents, version : 0..saves]
    /\ roles \in (SUBSET {"worker", "student"}) \ {{}}
    /\ \A j \in Begun : journey[j].target \in Targets \cup {Blank} /\ journey[j].path \in Paths

\* What a person chose stays chosen (savePassport, completeOnboarding,
\* updateProfileDirection, setActiveWorkspace).  Once the direction is chosen, no
\* passport saved before, after or meanwhile leaves the workspace without a definite
\* path.  While no two calls on the profile overlap, the path shown is one of the
\* enabled ones and the passport is the one saved last.
DirectionHolds ==
    Known =>
        /\ profile.onboarded => profile.active \in Paths
        /\ "profile" \notin contested =>
               /\ profile.onboarded => profile.active \in profile.enabled
               /\ profile.passport.version = saves

\* A journey is complete (createJourney, addJourneyRecord): one for each target
\* unless two calls for it overlapped, and as many alerts as records that are due,
\* read or not, once no call is on its way and unless one died.
JourneysComplete ==
    /\ \A t \in Targets \ contested : Cardinality(For(t)) <= 1
    /\ \A j \in Begun :
           LET dueAt == {n \in 1..Len(journey[j].records) : journey[j].records[n].due}
               raised == journey[j].alerts.unread + journey[j].alerts.read
               pending == {r \in Request : At(r, "insert_alert") /\ req[r].on = j}
           IN  j \notin faulted => raised + Cardinality(pending) = Cardinality(dueAt)
===============================================================================

------------------------------- MODULE Services -------------------------------
(***************************************************************************)
(* The services of the API besides payments, the store of the web app and  *)
(* the queue of the mobile app.  They share the requests in flight, and    *)
(* the API's call each other only to create a case; what two of them could *)
(* do to each other is that, so a behaviour exercises one of them:         *)
(* scenario names it, and the records of the others stay as they are.      *)
(***************************************************************************)
EXTENDS CaseLifecycle, Publication, Applications, Oversight, Accounts, Passport, OfflineQueue,
        WebIdentity, Workspace, Wallet, Store

CONSTANTS
    Scenarios,  \* the services exercised
    MaxCalls    \* how many calls a behaviour makes of each

ASSUME ServicesAssumption == \A s \in Scenarios : MaxCalls[s] \in Nat

VARIABLE scenario

vars == <<scenario, requestVars, caseVars, publicationVars, applicationVars, oversightVars,
          accountVars, passportVars, queueVars, identityVars, workspaceVars, walletVars, storeVars>>

ServicesInit ==
    /\ scenario \in Scenarios
    /\ RequestsInit /\ calls = MaxCalls[scenario]
    /\ CaseInit /\ PublicationInit /\ ApplicationsInit /\ OversightInit
    /\ AccountsInit /\ PassportInit /\ QueueInit /\ IdentityInit /\ WorkspaceInit
    /\ WalletInit /\ StoreInit
    \* Only the service exercised has records.
    /\ scenario # "cases" => \A c \in Cases : ~Exists(c)
    /\ scenario # "applications" => \A a \in Apps : application[a] = "none"
    /\ scenario # "accounts" => Owners("none") = Users
    /\ scenario # "sign_in" => driver = "postgres"
    /\ scenario # "store" => storageDriver = "postgres"

\* The collections of every service but s stay as they are.
Only(s) ==
    /\ scenario = s /\ UNCHANGED scenario
    /\ IF s = "cases" THEN TRUE ELSE UNCHANGED caseVars
    /\ IF s = "publication" THEN TRUE ELSE UNCHANGED publicationVars
    /\ IF s = "applications" THEN TRUE ELSE UNCHANGED applicationVars
    /\ IF s = "oversight" THEN TRUE ELSE UNCHANGED oversightVars
    /\ IF s = "accounts" THEN TRUE ELSE UNCHANGED accountVars
    /\ IF s = "passport" THEN TRUE ELSE UNCHANGED passportVars
    /\ IF s = "sign_in" THEN TRUE ELSE UNCHANGED identityVars
    /\ IF s \in {"profile", "journeys"} THEN TRUE ELSE UNCHANGED workspaceVars
    /\ IF s = "wallet" THEN TRUE ELSE UNCHANGED walletVars
    /\ IF s = "store" THEN TRUE ELSE UNCHANGED storeVars
    /\ IF s = "queue" THEN UNCHANGED requestVars ELSE UNCHANGED queueVars

Move       == Only("cases") /\ CaseNext
Publish    == Only("publication") /\ PublicationNext
Apply      == Only("applications") /\ ApplicationsNext
Oversee    == Only("oversight") /\ OversightNext
Account    == Only("accounts") /\ AccountsNext
Prepare    == Only("passport") /\ PassportNext
SignIn     == Only("sign_in") /\ IdentityNext
Settle     == Only("profile") /\ ProfileNext
TrackJourneys == Only("journeys") /\ JourneysNext
Keep       == Only("wallet") /\ WalletNext
Persist    == Only("store") /\ StoreNext
Synchronize == Only("queue") /\ QueueNext

\* A request dies in whatever service it is.
Die ==
    /\ \E r \in Request : Dies(r)
    /\ UNCHANGED <<scenario, caseVars, publicationVars, applicationVars, oversightVars,
                   accountVars, passportVars, queueVars, identityVars, workspaceVars, walletVars, storeVars>>

ServicesNext ==
    \/ Move \/ Publish \/ Apply \/ Oversee \/ Account \/ Prepare \/ SignIn \/ Settle
    \/ TrackJourneys \/ Keep \/ Persist \/ Synchronize
    \/ Die

ServicesSpec == ServicesInit /\ [][ServicesNext]_vars /\ QueueFairness

-------------------------------------------------------------------------------
\* Every service keeps its records of their types.
ServicesTypeOK ==
    /\ scenario \in Scenarios
    /\ CaseTypeOK /\ PublicationTypeOK /\ ApplicationsTypeOK /\ OversightTypeOK
    /\ AccountsTypeOK /\ PassportTypeOK /\ QueueTypeOK /\ IdentityTypeOK /\ WorkspaceTypeOK
    /\ WalletTypeOK /\ StoreTypeOK

\* A user's own records are kept: by the web app (apps/web/db/identity.ts and
\* operations.ts) one account for a subject that signs in, the direction chosen last,
\* and every journey once and whole; by the API (documents.service.ts) the file of
\* each document, and each revocation of a share; by its storage (ports.ts) whatever
\* was put last, with the whole of the reference data.
UserRecordsHold == SubjectKeepsAccount /\ DirectionHolds /\ JourneysComplete /\ WalletHolds /\ StoreHolds
===============================================================================

------------------------------ MODULE Configuration ------------------------------
(***************************************************************************)
(* What a deployment is allowed to do: the environment that the API starts *)
(* with (packages/config env.ts), its storage, the gate for documents in   *)
(* the API's configuration and in the web app, and who the web app takes a *)
(* visitor for.                                                            *)
(***************************************************************************)
EXTENDS Integers

\* Quarantine, scanning, download audit, EU residency, approval and its evidence.
Controls == {"region", "quarantine", "scanning", "download_audit", "approval", "evidence"}
Bindings == {"hyperdrive", "queue", "quarantine_bucket", "clean_bucket"}

\* "placeholder" secrets are those of development; a key may be too short to be used.
Environments ==
    [app : {"development", "test", "staging", "production"}, secrets : {"placeholder", "own"},
     driver : {"memory", "postgres"}, url : BOOLEAN, key : {"none", "short", "whole"},
     identity : {"sites-transition", "clerk"}, clerk : BOOLEAN, uploads : BOOLEAN,
     controls : SUBSET Controls]

Controlled(e) == e.identity = "clerk" /\ e.driver = "postgres" /\ e.controls = Controls

\* loadEnv does not refuse it.
Accepted(e) ==
    /\ e.app \in {"staging", "production"} => e.secrets = "own" /\ e.driver # "memory"
    /\ e.driver = "postgres" => e.url /\ e.key # "none"
    /\ e.identity = "clerk" => e.clerk
    /\ e.uploads => Controlled(e)
    /\ e.key # "short"

\* sensitiveDocumentGate of the configuration, and of the web app.
Gate(e)           == e.uploads /\ Controlled(e)
WebGate(e, bound) == Gate(e) /\ {"queue", "quarantine_bucket", "clean_bucket"} \subseteq bound

CreateStorage(e) ==
    IF e.driver = "memory"           THEN "memory"
    ELSE IF e.url /\ e.key = "whole" THEN "postgres"
    ELSE "error"

OperationalDatabase(e, bound) ==
    IF e.driver # "postgres"       THEN "d1"
    ELSE IF "hyperdrive" \in bound THEN "postgres"
    ELSE "error"

\* What a request may carry: the headers of the hosting site, and a session of Clerk
\* whose primary address is verified or not.
Visitors == [headers : BOOLEAN, session : {"none", "unverified", "verified"}, factor : BOOLEAN]
Nobody   == [provider |-> "nobody", mfa |-> FALSE]
Refused  == [provider |-> "error", mfa |-> FALSE]

\* getChatGPTUser: the account is that of the provider in use, and of no other.
WebUser(e, v) ==
    IF e.identity # "clerk" THEN IF v.headers THEN [provider |-> "sites", mfa |-> FALSE] ELSE Nobody
    ELSE IF ~e.clerk                    THEN Refused
         ELSE IF v.session = "none"     THEN Nobody
         ELSE IF v.session = "verified" THEN [provider |-> "clerk", mfa |-> v.factor]
         ELSE Refused

\* storeDocument: where an upload of this visitor is recorded.
WebUpload(e, bound, v) ==
    IF WebUser(e, v) \in {Nobody, Refused} \/ ~WebGate(e, bound) THEN "refused"
    ELSE IF OperationalDatabase(e, bound) = "error"              THEN "error"
    ELSE OperationalDatabase(e, bound)
===============================================================================

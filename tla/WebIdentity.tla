------------------------------ MODULE WebIdentity ------------------------------
(***************************************************************************)
(* Sign-in at the web app (apps/web/db/identity.ts): the subject of an     *)
(* identity provider is linked to an account of the application on its     *)
(* first request, and found by that link from then on.  A step is one      *)
(* statement of D1, or one transaction of PostgreSQL; requests run in      *)
(* Workers of their own.                                                   *)
(***************************************************************************)
EXTENDS Requests

CONSTANTS
    ProviderSubjects,
    WebAccounts,  \* identifiers crypto.randomUUID may return
    Emails,
    EmailOf       \* the verified address of each subject

ASSUME WebIdentityAssumption ==
    EmailOf \in [ProviderSubjects -> Emails] /\ "none" \notin WebAccounts

VARIABLES
    driver,     \* env.STORAGE_DRIVER
    link,       \* identity_links: the account of each subject
    disabled,   \* subjects whose link has disabled_at
    deliveries, \* identity_webhook_event
    resolved    \* history: the accounts that requests of each subject got

identityVars == <<driver, link, disabled, deliveries, resolved>>

Unlinked == "none"

IdentityInit ==
    /\ driver \in {"d1", "postgres"}
    /\ link = [s \in ProviderSubjects |-> Unlinked]
    /\ disabled = {} /\ deliveries = {} /\ resolved = {}

Linked(s) == link[s] # Unlinked

\* randomUUID returns an account that nobody has or has been offered.  (A subject of
\* the provider 'sites' is its own account: only Clerk's are modelled.)
FreshAccounts ==
    WebAccounts \ ({link[s] : s \in ProviderSubjects} \cup
                   {req[r].mine : r \in {q \in Request : At(q, "insert_link") \/ At(q, "reread_link")}})

Hand(s, account) == resolved' = resolved \cup {[subject |-> s, account |-> account]}

-------------------------------------------------------------------------------
\* resolveAppUserId, first statement: the link of the subject, if there is one.
ResolveKnown(r, s) ==
    /\ Linked(s)
    /\ Single(r, s)
    /\ Hand(s, link[s])
    /\ UNCHANGED <<driver, link, disabled, deliveries>>

ResolveUnknown(r, s) ==
    /\ ~Linked(s)
    /\ \E a \in FreshAccounts : Begin(r, s, [at |-> "insert_link", mine |-> a])
    /\ UNCHANGED identityVars

\* D1: INSERT OR IGNORE leaves a link that is there already.
InsertLink(r) ==
    /\ At(r, "insert_link") /\ driver = "d1"
    /\ link' = [link EXCEPT ![req[r].on] = IF Linked(req[r].on) THEN @ ELSE req[r].mine]
    /\ Goto(r, [at |-> "reread_link"])
    /\ UNCHANGED <<driver, disabled, deliveries, resolved>>

RereadLink(r) ==
    /\ At(r, "reread_link")
    /\ Hand(req[r].on, link[req[r].on])
    /\ Answer(r)
    /\ UNCHANGED <<driver, link, disabled, deliveries>>

\* PostgreSQL: user, link and event are one transaction, which a link or an account
\* with the same address that came first turns into an IdentityLinkConflictError.
Taken(s) ==
    \/ Linked(s)
    \/ \E t \in ProviderSubjects : Linked(t) /\ EmailOf[t] = EmailOf[s]

CommitIdentity(r) ==
    /\ At(r, "insert_link") /\ driver = "postgres"
    /\ LET s == req[r].on
       IN  IF Taken(s)
           THEN UNCHANGED <<link, resolved>>
           ELSE link' = [link EXCEPT ![s] = req[r].mine] /\ Hand(s, req[r].mine)
    /\ Answer(r)
    /\ UNCHANGED <<driver, disabled, deliveries>>

\* The webhook of Clerk, one transaction: a delivery that is known is a duplicate, and
\* a deleted user's link is disabled once.
UserDeleted(r, s) ==
    /\ driver = "postgres"
    /\ s \notin deliveries
    /\ Single(r, s)
    /\ deliveries' = deliveries \cup {s}
    /\ disabled' = IF Linked(s) THEN disabled \cup {s} ELSE disabled
    /\ UNCHANGED <<driver, link, resolved>>

IdentityNext ==
    \E r \in Request :
        \/ InsertLink(r) \/ RereadLink(r) \/ CommitIdentity(r)
        \/ \E s \in ProviderSubjects : ResolveKnown(r, s) \/ ResolveUnknown(r, s) \/ UserDeleted(r, s)

-------------------------------------------------------------------------------
(* Properties.                                                             *)

IdentityTypeOK ==
    /\ link \in [ProviderSubjects -> WebAccounts \cup {Unlinked}]
    /\ disabled \subseteq ProviderSubjects

\* A person is one account (resolveAppUserId): however many first requests of a
\* subject overlap, all that are answered got the account its link names for good, and
\* no two subjects share one, not even with the same address: an address is never
\* used to link.  In PostgreSQL it moreover names at most one account.
SubjectKeepsAccount ==
    /\ \A h \in resolved : link[h.subject] = h.account
    /\ \A s, t \in ProviderSubjects :
           s # t /\ Linked(s) /\ Linked(t) =>
               link[s] # link[t] /\ (driver = "postgres" => EmailOf[s] # EmailOf[t])
===============================================================================

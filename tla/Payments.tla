------------------------------- MODULE Payments -------------------------------
(***************************************************************************)
(* The payment rail of the API: PaymentsService (createIntent,             *)
(* handleWebhook, releaseSettlement), the in-memory ledger it posts to,    *)
(* the PostgreSQL collections it reads and writes, the flush of the ledger *)
(* to its snapshot tables and the hydration from them at start-up.         *)
(*                                                                         *)
(* The service is one Node process.  A request runs without interruption   *)
(* between two awaits, so a step of a request is one storage operation     *)
(* together with the synchronous code that follows it; between two steps   *)
(* of a request any other request may take steps.  No collection offers a  *)
(* transaction over several operations or a conditional write: every       *)
(* check-then-write below can be overtaken.                                *)
(*                                                                         *)
(* `req[r].step` names the storage operation that request r waits for.  A  *)
(* request that is refused, or answered without having changed anything,   *)
(* simply returns to "idle"; a call refused by its first read is not       *)
(* represented at all.  What a step reads of fields that never change      *)
(* (owner, amount, payee, milestone key) is not copied into the request.   *)
(***************************************************************************)
EXTENDS JournalOps, FiniteSetsExt

CONSTANTS
    Requests,    \* slots for concurrent HTTP requests
    Intents,     \* payment intent ids
    Keys,        \* idempotency keys of createIntent
    Txns,        \* provider transaction ids
    Items,       \* cost item ids
    Milestones,  \* case milestone records, one per (case, milestone key)
    Users, Cases, Payees,
    CaseOwner,   \* the applicant of each case
    Item,        \* the unchanging attributes of each cost item
    Amounts,     \* amounts a webhook may carry
    Webhooks,    \* the webhooks the provider may emit
    None,
    MaxFaults    \* bound on crashes and failed storage operations

ItemAttributes ==
    [case : Cases, payee : Payees, amount : Nat,
     milestone : Milestones \cup {None},
     lawful : {"yes", "no", "unconfirmed"}, payer : {"applicant", "other"}]

ASSUME PaymentsAssumption ==
    /\ CaseOwner \in [Cases -> Users]
    /\ Item \in [Items -> ItemAttributes]
    /\ None \notin Intents \cup Keys \cup Items \cup Milestones
    /\ Amounts \subseteq Nat
    /\ MaxFaults \in Nat

IntentRecord == [item : Items, key : Keys, status : {"pending", "confirmed", "failed"}]

Events == {"payment.confirmed", "payment.failed", "refund.completed"}
Webhook == [txn : Txns, intent : Intents, event : Events, amount : Amounts]
ASSUME RecordAssumption ==
    Webhooks \subseteq Webhook /\ None \notin Webhook /\ None \notin IntentRecord

VARIABLES
    \* records in PostgreSQL
    intents,         \* payment_intent: [item, key, status], None before the put
    items,           \* cost_item: the status of each
    milestones,      \* case_milestone: [status, verified_at (verifiedAt is set)]
    transactions,    \* provider_transaction: the webhooks recorded
    storedAccounts,  \* ledger_account_snapshot
    storedEntries,   \* journal_entry_snapshot, in posting order
    trail,           \* audit and outbox records: <<event, intent>>
    \* the process
    up,              \* the process is running
    accounts,        \* Ledger.accounts
    entries,         \* Ledger.entries
    req,             \* the requests in flight
    \* the provider
    registered,      \* the item an intent was registered for, None before
    sent,            \* webhooks the provider has emitted
    acked,           \* webhooks answered with success
    \* history: read by no action
    attested,        \* milestones of which a verification has been put
    faults           \* crashes and failed operations so far

records  == <<intents, items, milestones, attested, transactions, trail>>
snapshot == <<storedAccounts, storedEntries>>
ledger   == <<accounts, entries>>
provider == <<registered, sent, acked>>
vars == <<records, snapshot, ledger, provider, up, req, faults>>

-------------------------------------------------------------------------------
(* Ledger accounts and postings of packages/ledger/src/settlement.ts, for  *)
(* cost items in one currency.                                             *)

Currency == "BDT"
Account(kind, owner, type) ==
    [code |-> <<kind, owner>>, type |-> type, currency |-> Currency, closed |-> FALSE]

SettlementControl == <<"settlement_control", None>>
Payable(payee)    == <<"payable", payee>>

\* openCaseAccounts: the four accounts of a case's payment.
CaseAccounts(i) ==
    { Account("settlement_control", None, "asset"),
      Account("payable", Item[i].payee, "liability"),
      Account("refund_payable", CaseOwner[Item[i].case], "liability"),
      Account("platform_fee_income", None, "income") }

OpenCaseAccounts(i) ==
    accounts \cup {a \in CaseAccounts(i) : a.code \notin Codes(accounts)}

Line(code, direction, amount) ==
    [account |-> code, direction |-> direction, amount |-> amount, currency |-> Currency]

ConfirmKey(t) == <<"confirm", t>>
ReleaseKey(n) == <<"release", n>>

\* recordConfirmedPayment: money held for the payee.
ConfirmEntry(i, w) ==
    [key |-> ConfirmKey(w.txn), reverses |-> None,
     lines |-> <<Line(SettlementControl, "debit", w.amount),
                 Line(Payable(Item[i].payee), "credit", w.amount)>>]

\* balanceOf(payable): what is held for a payee, over all its cases.
Held(payee) == BalanceOf(accounts, entries, Payable(payee))

\* Mutant of ReleaseEntry: everything held for the payee is released.
ReleaseEntryOfBalance(i, n) ==
    [key |-> ReleaseKey(n), reverses |-> None,
     lines |-> <<Line(Payable(Item[i].payee), "debit", Held(Item[i].payee)),
                 Line(SettlementControl, "credit", Held(Item[i].payee))>>]

\* recordSettlementRelease: the obligation to the payee discharged.
ReleaseEntry(i, n) ==
    [key |-> ReleaseKey(n), reverses |-> None,
     lines |-> <<Line(Payable(Item[i].payee), "debit", Item[i].amount),
                 Line(SettlementControl, "credit", Item[i].amount)>>]

-------------------------------------------------------------------------------
(* Requests.                                                               *)

CreateSteps  == {"read_item", "put_intent", "authorize_item"}
WebhookSteps == {"read_intent", "put_transaction", "fail_intent", "item_due",
                 "post_payment", "confirm_intent", "item_paid", "close_payment"}
ReleaseSteps == {"read_milestone", "post_release", "close_release"}
FlushSteps   == {"flush_accounts", "flush_entries"}
ActSteps     == {"put_evidence", "put_verified"}

Blank == [step |-> "idle", item |-> None, key |-> None, intent |-> None,
          hook |-> None, opened |-> {}, length |-> 0, milestone |-> None, verified_at |-> FALSE]

Idle(r)   == up /\ req[r].step = "idle"
At(r, s)  == up /\ req[r].step = s
Go(r, s)  == req' = [req EXCEPT ![r].step = s]
Done(r)   == req' = [req EXCEPT ![r] = Blank]

\* The cost item a webhook or a release is about, through its intent record.
ItemOf(n) == intents[n].item

\* An intent id that is neither registered nor being created.
Fresh(n) == registered[n] = None /\ \A r \in Requests : req[r].intent # n

(* createIntent *)

\* The owner asks to pay item i under key k; no stored intent carries the key.
\* The id n is drawn before the first write (uuidv7).
CreateIntent(r, u, i, k, n) ==
    /\ Idle(r)
    /\ u = CaseOwner[Item[i].case]
    /\ Fresh(n)
    /\ \A m \in Intents : intents[m] # None => intents[m].key # k
    /\ req' = [req EXCEPT ![r] =
                  [Blank EXCEPT !.step = "read_item", !.item = i, !.key = k, !.intent = n]]
    /\ UNCHANGED <<records, snapshot, ledger, provider, up, faults>>

Collectable(i) ==
    /\ Item[i].lawful = "yes"
    /\ Item[i].payer = "applicant"
    /\ items[i] # "paid"

\* The cost item is read and checked, and the intent registered at the provider.
ReadCostItem(r) ==
    /\ At(r, "read_item")
    /\ IF Collectable(req[r].item)
       THEN /\ registered' = [registered EXCEPT ![req[r].intent] = req[r].item]
            /\ Go(r, "put_intent")
       ELSE /\ Done(r)
            /\ UNCHANGED registered
    /\ UNCHANGED <<records, snapshot, ledger, sent, acked, up, faults>>

PutIntent(r) ==
    /\ At(r, "put_intent")
    /\ intents' = [intents EXCEPT ![req[r].intent] =
                      [item |-> req[r].item, key |-> req[r].key, status |-> "pending"]]
    /\ Go(r, "authorize_item")
    /\ UNCHANGED <<items, milestones, attested, transactions, trail,
                   snapshot, ledger, provider, up, faults>>

\* The copy of the cost item read at "read_item" is written back, authorized.
\* (The PaymentAuthorized audit record and event that follow are read by nothing.)
AuthorizeItem(r) ==
    /\ At(r, "authorize_item")
    /\ items' = [items EXCEPT ![req[r].item] = "authorized"]
    /\ Done(r)
    /\ UNCHANGED <<intents, milestones, attested, transactions, trail,
                   snapshot, ledger, provider, up, faults>>

(* handleWebhook *)

\* The provider reports an event of an intent it knows, under a transaction id
\* of its own; the amount may be any.
ProviderReports(w) ==
    /\ registered[w.intent] # None
    /\ \A v \in sent : v.txn # w.txn
    /\ sent' = sent \cup {w}
    /\ UNCHANGED <<records, snapshot, ledger, registered, acked, up, req, faults>>

\* Mutant of Deliver: one webhook per intent is taken, the next one is a replay.
DeliverOncePerIntent(r, w) ==
    /\ Idle(r)
    /\ w \in sent
    /\ IF \E v \in transactions : v.intent = w.intent
       THEN /\ acked' = acked \cup {w}
            /\ UNCHANGED req
       ELSE /\ req' = [req EXCEPT ![r] = [Blank EXCEPT !.step = "read_intent",
                                              !.intent = w.intent, !.hook = w]]
            /\ UNCHANGED acked
    /\ UNCHANGED <<records, snapshot, ledger, registered, sent, up, faults>>

\* A webhook arrives, for the first time or again, whether or not it has been
\* answered.  A transaction id that is on record is answered as a replay.
Deliver(r, w) ==
    /\ Idle(r)
    /\ w \in sent
    /\ IF \E v \in transactions : v.txn = w.txn
       THEN /\ acked' = acked \cup {w}
            /\ UNCHANGED req
       ELSE /\ req' = [req EXCEPT ![r] = [Blank EXCEPT !.step = "read_intent",
                                              !.intent = w.intent, !.hook = w]]
            /\ UNCHANGED acked
    /\ UNCHANGED <<records, snapshot, ledger, registered, sent, up, faults>>

\* An unknown intent and an amount that is not the intent's are refused.
ReadIntent(r) ==
    /\ At(r, "read_intent")
    /\ IF /\ intents[req[r].intent] # None
          /\ req[r].hook.amount = Item[ItemOf(req[r].intent)].amount
       THEN Go(r, "put_transaction")
       ELSE Done(r)
    /\ UNCHANGED <<records, snapshot, ledger, provider, up, faults>>

\* The transaction is recorded before anything is done about it.  A refund is
\* recorded and answered.
PutTransaction(r) ==
    /\ At(r, "put_transaction")
    /\ transactions' = transactions \cup {req[r].hook}
    /\ CASE req[r].hook.event = "payment.failed"    -> Go(r, "fail_intent")
         [] req[r].hook.event = "payment.confirmed" -> Go(r, "post_payment")
         [] req[r].hook.event = "refund.completed"  -> Done(r)
    /\ acked' = IF req[r].hook.event = "refund.completed"
                THEN acked \cup {req[r].hook} ELSE acked
    /\ UNCHANGED <<intents, items, milestones, attested, trail,
                   snapshot, ledger, registered, sent, up, faults>>

\* payment.failed: whatever the intent and its cost item have become meanwhile.
FailIntent(r) ==
    /\ At(r, "fail_intent")
    /\ intents' = [intents EXCEPT ![req[r].intent].status = "failed"]
    /\ Go(r, "item_due")
    /\ UNCHANGED <<items, milestones, attested, transactions, trail,
                   snapshot, ledger, provider, up, faults>>

ItemDue(r) ==
    /\ At(r, "item_due")
    /\ items' = [items EXCEPT ![ItemOf(req[r].intent)] = "due"]
    /\ acked' = acked \cup {req[r].hook}
    /\ Done(r)
    /\ UNCHANGED <<intents, milestones, attested, transactions, trail,
                   snapshot, ledger, registered, sent, up, faults>>

\* Mutant of PostPayment: the intent is confirmed without waiting for the flush.
PostPaymentUnflushed(r) ==
    /\ At(r, "post_payment")
    /\ LET i == ItemOf(req[r].intent)
       IN  /\ accounts' = OpenCaseAccounts(i)
           /\ entries' = Post(OpenCaseAccounts(i), entries, ConfirmEntry(i, req[r].hook))
           /\ Go(r, "confirm_intent")
    /\ UNCHANGED <<records, snapshot, provider, up, faults>>

\* Mutant of PostPayment: the accounts are listed before they are opened.
PostPaymentStaleAccounts(r) ==
    /\ At(r, "post_payment")
    /\ LET i == ItemOf(req[r].intent)
       IN  /\ accounts' = OpenCaseAccounts(i)
           /\ entries' = Post(OpenCaseAccounts(i), entries, ConfirmEntry(i, req[r].hook))
           /\ req' = [req EXCEPT ![r].step = "flush_accounts", ![r].opened = accounts]
    /\ UNCHANGED <<records, snapshot, provider, up, faults>>

\* payment.confirmed: the case is read, then the accounts are opened, the entry
\* posted and the flush called, which takes its copy of the accounts, at once.
\* Posting throws for an amount of zero, when the transaction is on record.
PostPayment(r) ==
    /\ At(r, "post_payment")
    /\ LET i == ItemOf(req[r].intent)
           entry == ConfirmEntry(i, req[r].hook)
       IN  /\ accounts' = OpenCaseAccounts(i)
           /\ entries' = Post(OpenCaseAccounts(i), entries, entry)
           /\ IF HasKey(entries', entry.key)
              THEN req' = [req EXCEPT ![r].step = "flush_accounts",
                                      ![r].opened = OpenCaseAccounts(i)]
              ELSE Done(r)
    /\ UNCHANGED <<records, snapshot, provider, up, faults>>

ConfirmIntent(r) ==
    /\ At(r, "confirm_intent")
    /\ intents' = [intents EXCEPT ![req[r].intent].status = "confirmed"]
    /\ Go(r, "item_paid")
    /\ UNCHANGED <<items, milestones, attested, transactions, trail,
                   snapshot, ledger, provider, up, faults>>

ItemPaid(r) ==
    /\ At(r, "item_paid")
    /\ items' = [items EXCEPT ![ItemOf(req[r].intent)] = "paid"]
    /\ Go(r, "close_payment")
    /\ UNCHANGED <<intents, milestones, attested, transactions, trail,
                   snapshot, ledger, provider, up, faults>>

\* audit.record and events.publish, the last writes of a request.
Publish(r, event) == trail' = trail \cup {<<event, req[r].intent>>}

ClosePayment(r) ==
    /\ At(r, "close_payment")
    /\ Publish(r, "PaymentConfirmed")
    /\ acked' = acked \cup {req[r].hook}
    /\ Done(r)
    /\ UNCHANGED <<intents, items, milestones, attested, transactions,
                   snapshot, ledger, registered, sent, up, faults>>

(* flushLedger: two transactions, each inserting the rows that are missing;
   the entries are listed when the accounts have been written. *)

FlushAccounts(r) ==
    /\ At(r, "flush_accounts")
    /\ storedAccounts' = storedAccounts \cup req[r].opened
    /\ req' = [req EXCEPT ![r].step = "flush_entries", ![r].length = Len(entries)]
    /\ UNCHANGED <<records, storedEntries, ledger, provider, up, faults>>

\* The first n entries of the journal are stored after this write: rows already
\* there stay (ON CONFLICT DO NOTHING).
StoredWith(n) ==
    IF n <= Len(storedEntries) THEN storedEntries
    ELSE storedEntries \o SubSeq(entries, Len(storedEntries) + 1, n)

\* Mutant of FlushEntries: the flush always returns to the release.
FlushEntriesIntoRelease(r) ==
    /\ At(r, "flush_entries")
    /\ storedEntries' = StoredWith(req[r].length)
    /\ Go(r, "close_release")
    /\ UNCHANGED <<records, storedAccounts, ledger, provider, up, faults>>

FlushEntries(r) ==
    /\ At(r, "flush_entries")
    /\ storedEntries' = StoredWith(req[r].length)
    /\ Go(r, IF req[r].hook # None THEN "confirm_intent" ELSE "close_release")
    /\ UNCHANGED <<records, storedAccounts, ledger, provider, up, faults>>

(* releaseSettlement *)

\* Mutant of ReleaseSettlement: the intent need not be confirmed.
ReleaseSettlementUnconfirmed(r, n) ==
    /\ Idle(r)
    /\ intents[n] # None
    /\ Item[ItemOf(n)].milestone # None
    /\ req' = [req EXCEPT ![r] = [Blank EXCEPT !.step = "read_milestone", !.intent = n]]
    /\ UNCHANGED <<records, snapshot, ledger, provider, up, faults>>

\* Anybody with a session asks to release a confirmed intent that has a
\* milestone (the subject is not compared with the case's owner).
ReleaseSettlement(r, n) ==
    /\ Idle(r)
    /\ intents[n] # None
    /\ intents[n].status = "confirmed"
    /\ Item[ItemOf(n)].milestone # None
    /\ req' = [req EXCEPT ![r] = [Blank EXCEPT !.step = "read_milestone", !.intent = n]]
    /\ UNCHANGED <<records, snapshot, ledger, provider, up, faults>>

\* Mutant of ReadMilestone: submitted evidence is enough.
ReadMilestoneEvidence(r) ==
    /\ At(r, "read_milestone")
    /\ IF milestones[Item[ItemOf(req[r].intent)].milestone].status # "pending"
       THEN Go(r, "post_release")
       ELSE Done(r)
    /\ UNCHANGED <<records, snapshot, ledger, provider, up, faults>>

ReadMilestone(r) ==
    /\ At(r, "read_milestone")
    /\ IF milestones[Item[ItemOf(req[r].intent)].milestone].status = "verified"
       THEN Go(r, "post_release")
       ELSE Done(r)
    /\ UNCHANGED <<records, snapshot, ledger, provider, up, faults>>

\* recordSettlementRelease throws when the payee's account is unknown or holds
\* less than the amount; then the entry is posted and the flush called, at once.
PostRelease(r) ==
    /\ At(r, "post_release")
    /\ LET i == ItemOf(req[r].intent)
           entry == ReleaseEntry(i, req[r].intent)
       IN  IF /\ Payable(Item[i].payee) \in Codes(accounts)
              /\ Held(Item[i].payee) >= Item[i].amount
              /\ HasKey(Post(accounts, entries, entry), entry.key)
           THEN /\ entries' = Post(accounts, entries, entry)
                /\ req' = [req EXCEPT ![r].step = "flush_accounts", ![r].opened = accounts]
           ELSE /\ Done(r)
                /\ UNCHANGED entries
    /\ UNCHANGED <<records, snapshot, accounts, provider, up, faults>>

CloseRelease(r) ==
    /\ At(r, "close_release")
    /\ Publish(r, "SettlementReleased")
    /\ Done(r)
    /\ UNCHANGED <<intents, items, milestones, attested, transactions,
                   snapshot, ledger, provider, up, faults>>

(* CasesService.act, as far as the payment rail reads what it writes: the
   milestone is found in one await and the copy put back in another.  The audit
   record and the event that follow are read by nothing. *)

\* The applicant submits evidence, once more perhaps and also when the milestone
\* has been verified.  Of the copy only verifiedAt is written back as it was.
SubmitEvidence(r, m) ==
    /\ Idle(r)
    /\ req' = [req EXCEPT ![r] = [Blank EXCEPT !.step = "put_evidence", !.milestone = m,
                                       !.verified_at = milestones[m].verified_at]]
    /\ UNCHANGED <<records, snapshot, ledger, provider, up, faults>>

\* The copy is put back whatever has become of the milestone: evidence that was
\* asked for before a verification and is written after it erases verifiedAt.
PutEvidence(r) ==
    /\ At(r, "put_evidence")
    /\ milestones' = [milestones EXCEPT ![req[r].milestone] =
                         [status |-> "evidence_submitted", verified_at |-> req[r].verified_at]]
    /\ Done(r)
    /\ UNCHANGED <<intents, items, attested, transactions, trail,
                   snapshot, ledger, provider, up, faults>>

VerifyMilestone(r, m) ==
    /\ Idle(r)
    /\ req' = [req EXCEPT ![r] = [Blank EXCEPT !.step = "put_verified", !.milestone = m]]
    /\ UNCHANGED <<records, snapshot, ledger, provider, up, faults>>

PutVerified(r) ==
    /\ At(r, "put_verified")
    /\ milestones' = [milestones EXCEPT ![req[r].milestone] =
                         [status |-> "verified", verified_at |-> TRUE]]
    /\ attested' = attested \cup {req[r].milestone}
    /\ Done(r)
    /\ UNCHANGED <<intents, items, transactions, trail,
                   snapshot, ledger, provider, up, faults>>

-------------------------------------------------------------------------------
(* Faults.                                                                 *)

\* The storage operation request r waits for fails; the request ends with a 500.
StorageError(r) ==
    /\ up
    /\ req[r].step # "idle"
    /\ faults < MaxFaults
    /\ faults' = faults + 1
    /\ Done(r)
    /\ UNCHANGED <<records, snapshot, ledger, provider, up>>

\* The process dies: requests in flight and the in-memory ledger are gone.
Crash ==
    /\ up
    /\ faults < MaxFaults
    /\ faults' = faults + 1
    /\ up' = FALSE
    /\ req' = [r \in Requests |-> Blank]
    /\ accounts' = {}
    /\ entries' = <<>>
    /\ UNCHANGED <<records, snapshot, provider>>

\* connect() hydrates the ledger from the snapshot tables: it opens the stored
\* accounts and posts the stored entries, and rejects when an entry names an
\* account that is not stored (post throws), so that the process does not start.
Loadable ==
    \A n \in DOMAIN storedEntries : CanPost(storedAccounts, storedEntries[n].lines)

\* Mutant of Restart: the ledger is not hydrated.
RestartUnhydrated ==
    /\ ~up
    /\ up' = TRUE
    /\ UNCHANGED <<records, snapshot, ledger, provider, req, faults>>

Restart ==
    /\ ~up
    /\ Loadable
    /\ up' = TRUE
    /\ accounts' = storedAccounts
    /\ entries' = storedEntries
    /\ UNCHANGED <<records, snapshot, provider, req, faults>>

-------------------------------------------------------------------------------
Init ==
    /\ intents = [n \in Intents |-> None]
    /\ items = [i \in Items |-> "estimated"]
    /\ milestones = [m \in Milestones |-> [status |-> "pending", verified_at |-> FALSE]]
    /\ attested = {}
    /\ transactions = {}
    /\ storedAccounts = {}
    /\ storedEntries = <<>>
    /\ trail = {}
    /\ up = TRUE
    /\ accounts = {}
    /\ entries = <<>>
    /\ req = [r \in Requests |-> Blank]
    /\ registered = [n \in Intents |-> None]
    /\ sent = {}
    /\ acked = {}
    /\ faults = 0

\* What a request that has begun does until it is answered.
Continue(r) ==
    \/ ReadCostItem(r) \/ PutIntent(r) \/ AuthorizeItem(r)
    \/ ReadIntent(r) \/ PutTransaction(r) \/ FailIntent(r) \/ ItemDue(r)
    \/ PostPayment(r) \/ ConfirmIntent(r) \/ ItemPaid(r) \/ ClosePayment(r)
    \/ FlushAccounts(r) \/ FlushEntries(r)
    \/ ReadMilestone(r) \/ PostRelease(r) \/ CloseRelease(r)
    \/ PutEvidence(r) \/ PutVerified(r)

Next ==
    \/ \E r \in Requests, u \in Users, i \in Items, k \in Keys, n \in Intents :
          CreateIntent(r, u, i, k, n)
    \/ \E w \in Webhooks : ProviderReports(w)
    \/ \E r \in Requests : \E w \in sent : Deliver(r, w)
    \/ \E r \in Requests, n \in Intents : ReleaseSettlement(r, n)
    \/ \E r \in Requests, m \in Milestones : SubmitEvidence(r, m) \/ VerifyMilestone(r, m)
    \/ \E r \in Requests : Continue(r) \/ StorageError(r)
    \/ Crash
    \/ Restart

Spec == Init /\ [][Next]_vars

\* Node resumes a request whose storage operation has settled, the process is
\* restarted after a crash, and the provider redelivers the webhook of a
\* transaction that has not been answered until a request takes it (the number
\* of request slots is a bound of the model, hence strong fairness).
Redeliver(t) ==
    \E r \in Requests, w \in sent \ acked : w.txn = t /\ Deliver(r, w)

FairSpec ==
    /\ Spec
    /\ \A r \in Requests : WF_vars(Continue(r))
    /\ WF_vars(Restart)
    /\ \A t \in Txns : SF_vars(Redeliver(t))

-------------------------------------------------------------------------------
(* What the rail promises.                                                 *)

\* The transactions of intent n whose payment a journal `log` holds.
PaymentsIn(log, n) ==
    {t \in Txns : /\ HasKey(log, ConfirmKey(t))
                  /\ \E w \in transactions : w.txn = t /\ w.intent = n}

AnyAccount   == UNION {CaseAccounts(i) : i \in Items}
AnyLine      == [account : {SettlementControl} \cup {Payable(p) : p \in Payees},
                 direction : Directions, amount : Nat, currency : {Currency}]
JournalEntry == [key : ({"confirm"} \X Txns) \cup ({"release"} \X Intents),
                 reverses : {None}, lines : Seq(AnyLine)]
Request      == [step : {"idle"} \cup CreateSteps \cup WebhookSteps \cup ReleaseSteps
                               \cup FlushSteps \cup ActSteps,
                 item : Items \cup {None}, key : Keys \cup {None},
                 intent : Intents \cup {None}, hook : Webhooks \cup {None},
                 opened : SUBSET AnyAccount, length : Nat,
                 milestone : Milestones \cup {None}, verified_at : BOOLEAN]

RecordsOK ==
    /\ intents \in [Intents -> IntentRecord \cup {None}]
    /\ items \in [Items -> {"estimated", "authorized", "due", "paid"}]
    /\ milestones \in [Milestones ->
          [status : {"pending", "evidence_submitted", "verified"}, verified_at : BOOLEAN]]
    /\ attested \subseteq Milestones
    /\ transactions \subseteq sent
    /\ trail \subseteq ({"PaymentConfirmed", "SettlementReleased"} \X Intents)
    /\ registered \in [Intents -> Items \cup {None}]
    /\ sent \subseteq Webhooks
    /\ acked \subseteq sent
    /\ faults \in Nat

LedgerOK ==
    /\ accounts \subseteq AnyAccount
    /\ storedAccounts \subseteq AnyAccount
    /\ entries \in Seq(JournalEntry)
    /\ storedEntries \in Seq(JournalEntry)

\* A request carries what its step needs, and its intent is on record once the
\* request has read it.
RequestOK(q) ==
    /\ q.step \in CreateSteps => q.item # None /\ q.key # None /\ q.intent # None
    /\ q.step \in WebhookSteps => q.hook # None
    /\ q.step \in ReleaseSteps => q.hook = None
    /\ q.step \in ActSteps => q.milestone # None
    /\ q.hook # None => q.hook \in sent /\ q.intent = q.hook.intent
    /\ q.step = "flush_entries" => q.length <= Len(entries)
    /\ q.step \in (WebhookSteps \ {"read_intent"}) \cup ReleaseSteps \cup FlushSteps
          => q.intent # None /\ intents[q.intent] # None

RequestsOK ==
    /\ up \in BOOLEAN
    /\ req \in [Requests -> Request]
    /\ \A r \in Requests : RequestOK(req[r]) /\ (up \/ req[r].step = "idle")

\* Type invariant.
TypeOK == RecordsOK /\ LedgerOK /\ RequestsOK

\* A provider transaction is posted at most once and an intent released at most
\* once, however often and however concurrently webhooks and releases arrive:
\* the replay lookup of handleWebhook is before an await and cannot see to it,
\* the idempotency key of Ledger.post must.
PostedOnce ==
    \A m, n \in DOMAIN entries : entries[m].key = entries[n].key => m = n

\* An entry that discharges the obligation to a payee was earned: a confirmed
\* payment of the same intent is already in the journal, and the milestone of
\* the cost item was attested by a verifier at some time (it need not be
\* "verified" any more when the entry is posted, evidence may come in late).
ReleaseIsEarned ==
    \A x \in DOMAIN entries : \A n \in Intents :
        entries[x].key = ReleaseKey(n) =>
            /\ PaymentsIn(SubSeq(entries, 1, x), n) # {}
            /\ Item[ItemOf(n)].milestone \in attested

\* What the journal holds for a payee is, to the unit, what was confirmed for
\* its intents and has not been released: the pooled balance that
\* recordSettlementRelease checks never pays one case from another's money.
HeldIsOwed ==
    up => \A p \in {q \in Payees : Payable(q) \in Codes(accounts)} :
        LET Of == {n \in Intents : intents[n] # None /\ Item[ItemOf(n)].payee = p}
            Owed(n) == Item[ItemOf(n)].amount *
                           (Cardinality(PaymentsIn(entries, n))
                            - IF HasKey(entries, ReleaseKey(n)) THEN 1 ELSE 0)
        IN  Held(p) = MapThenSumSet(Owed, Of)

\* Whatever tells a user that money was received or released has the entry for
\* it in the snapshot, where a crash cannot take it: a confirmed intent, a paid
\* cost item, and the audit records and events of the two endings.
ConfirmedIsDurable ==
    /\ \A n \in Intents :
          intents[n] # None /\ intents[n].status = "confirmed"
              => PaymentsIn(storedEntries, n) # {}
    /\ \A i \in Items :
          items[i] = "paid" => \E n \in Intents :
              intents[n] # None /\ ItemOf(n) = i /\ PaymentsIn(storedEntries, n) # {}
    /\ \A n \in Intents :
          /\ <<"PaymentConfirmed", n>> \in trail => PaymentsIn(storedEntries, n) # {}
          /\ <<"SettlementReleased", n>> \in trail => HasKey(storedEntries, ReleaseKey(n))

\* The snapshot is a prefix of the journal in memory, although concurrent
\* flushes list the journal at one time and write it at another: a restart can
\* lose the latest entries but never reorder, duplicate or invent one.
StoredIsPrefix ==
    up => /\ Len(storedEntries) <= Len(entries)
          /\ storedEntries = SubSeq(entries, 1, Len(storedEntries))

\* Hydration never rejects: each stored entry has its accounts stored.  The
\* journal a crash or a failed operation can leave behind need not have them
\* when there are several payees, see the run two_payees.
StoredLedgerLoads == Loadable

\* Concurrent flushes that list the accounts at one time, the entries at another
\* and write each at a third leave nothing out: while no storage operation has
\* failed and the process has not been killed, whenever no flush is under way the
\* snapshot is the journal in memory, with the accounts to load it.
SnapshotCatchesUp ==
    faults = 0 /\ (\A r \in Requests : req[r].step \notin FlushSteps) =>
        storedEntries = entries /\ Loadable

\* One idempotency key, one payment intent.
OneIntentPerKey ==
    \A m, n \in Intents :
        intents[m] # None /\ intents[n] # None /\ intents[m].key = intents[n].key
            => m = n

\* A confirmed payment that the API has answered with success is in the journal
\* once nothing is in flight.
AcknowledgedIsPosted ==
    up /\ (\A r \in Requests : req[r].step = "idle") =>
        \A w \in acked :
            w.event = "payment.confirmed" => HasKey(entries, ConfirmKey(w.txn))

\* A webhook the provider keeps sending, for an intent on record and for its
\* amount, is recorded in the end: across crashes, failed operations, failed
\* payments of the same intent and duplicates.
Acceptable(w) ==
    /\ intents[w.intent] # None
    /\ w.amount = Item[ItemOf(w.intent)].amount
ReportedIsRecorded ==
    \A t \in Txns :
        (\E w \in sent : w.txn = t /\ Acceptable(w)) ~> (\E w \in transactions : w.txn = t)

\* A recorded confirmation of an amount that can be posted reaches the snapshot,
\* unless something fails.  (One of zero is recorded, never posted, and answered
\* with success when it is sent again.)
RecordedIsStored ==
    \A t \in Txns :
        (\E w \in transactions : w.txn = t /\ w.event = "payment.confirmed" /\ w.amount > 0)
            ~> HasKey(storedEntries, ConfirmKey(t)) \/ faults > 0

\* The stored journal, read with the milestones, is a settlement book.
BookReceived == {p \in Txns \X Intents : p[1] \in PaymentsIn(storedEntries, p[2])}
BookDue ==
    {n \in Intents : /\ intents[n] # None
                     /\ Item[ItemOf(n)].milestone # None
                     /\ Item[ItemOf(n)].milestone \in attested}
BookReleased == {n \in Intents : HasKey(storedEntries, ReleaseKey(n))}

Book == INSTANCE SettlementBook
            WITH received <- BookReceived, due <- BookDue, released <- BookReleased

\* Payments implements SettlementBook: crashes, concurrent flushes, duplicate
\* webhooks and repeated releases do nothing to the money that the book forbids.
BookSpec == Book!Spec
===============================================================================

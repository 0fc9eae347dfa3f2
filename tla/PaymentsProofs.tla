---------------------------- MODULE PaymentsProofs ----------------------------
(***************************************************************************)
(* Proofs about Payments for any number of requests, intents, transactions, *)
(* cost items, milestones, payees and faults: what holds of the journal    *)
(* and the records, what tells a user that money moved is in the snapshot, *)
(* a release is earned, Payments implements SettlementBook, what is held   *)
(* for a payee is what is owed to it, and, without faults, flushes leave   *)
(* nothing out of the snapshot.                                            *)
(***************************************************************************)
EXTENDS Payments, JournalProofs

-------------------------------------------------------------------------------
(* Lemmas about the journal and the accounts.                              *)

\* Post keeps the journal or appends the entry, whose key is new and whose lines
\* can be posted; either way the type is kept.
LEMMA PostType ==
    ASSUME NEW A, NEW S, NEW E \in Seq(S), NEW e \in S
    PROVE  /\ Post(A, E, e) \in Seq(S)
           /\ \/ Post(A, E, e) = E
              \/ Post(A, E, e) = Append(E, e) /\ CanPost(A, e.lines) /\ ~HasKey(E, e.key)
  BY DEF Post

\* The entries of the two settlement operations are journal entries.
LEMMA ConfirmEntryType ==
    ASSUME NEW i \in Items, NEW w \in Webhooks
    PROVE  ConfirmEntry(i, w) \in JournalEntry
<1>1. w.amount \in Nat /\ w.txn \in Txns /\ Item[i].payee \in Payees
  BY PaymentsAssumption, RecordAssumption DEF Webhook, ItemAttributes
<1>2. /\ Line(SettlementControl, "debit", w.amount) \in AnyLine
      /\ Line(Payable(Item[i].payee), "credit", w.amount) \in AnyLine
  BY <1>1 DEF Line, AnyLine, Directions
<1>3. ConfirmKey(w.txn) \in ({"confirm"} \X Txns)
  BY <1>1 DEF ConfirmKey
<1> QED
  BY <1>2, <1>3 DEF ConfirmEntry, JournalEntry

\* The entry of a release is a journal entry.
LEMMA ReleaseEntryType ==
    ASSUME NEW i \in Items, NEW n \in Intents
    PROVE  ReleaseEntry(i, n) \in JournalEntry
<1>1. Item[i].amount \in Nat /\ Item[i].payee \in Payees
  BY PaymentsAssumption DEF ItemAttributes
<1>2. /\ Line(Payable(Item[i].payee), "debit", Item[i].amount) \in AnyLine
      /\ Line(SettlementControl, "credit", Item[i].amount) \in AnyLine
  BY <1>1 DEF Line, AnyLine, Directions
<1>3. ReleaseKey(n) \in ({"release"} \X Intents)
  BY DEF ReleaseKey
<1> QED
  BY <1>2, <1>3 DEF ReleaseEntry, JournalEntry

\* What a flush leaves in the snapshot is a sequence of journal entries.
LEMMA StoredWithType ==
    ASSUME LedgerOK, NEW n \in Nat, n <= Len(entries)
    PROVE  StoredWith(n) \in Seq(JournalEntry)
<1>1. CASE n <= Len(storedEntries)
  BY <1>1 DEF StoredWith, LedgerOK
<1>2. CASE ~(n <= Len(storedEntries))
  <2>1. SubSeq(entries, Len(storedEntries) + 1, n) \in Seq(JournalEntry)
    BY <1>2 DEF LedgerOK
  <2> QED
    BY <1>2, <2>1 DEF StoredWith, LedgerOK
<1> QED
  BY <1>1, <1>2

\* The intent a request past its first read works on, and its cost item.
LEMMA IntentOf ==
    ASSUME RecordsOK, RequestsOK, NEW r \in Requests,
           req[r].step \in (WebhookSteps \ {"read_intent"}) \cup ReleaseSteps \cup FlushSteps
    PROVE  /\ req[r].intent \in Intents
           /\ intents[req[r].intent] \in IntentRecord
           /\ ItemOf(req[r].intent) \in Items
<1>1. req[r].intent \in Intents /\ intents[req[r].intent] # None
  BY DEF RequestsOK, RequestOK, Request
<1> QED
  BY <1>1 DEF RecordsOK, ItemOf, IntentRecord

-------------------------------------------------------------------------------
(* The type invariant.                                                     *)

\* The webhook that a request handles.
LEMMA HookOf ==
    ASSUME RequestsOK, NEW r \in Requests, req[r].step \in WebhookSteps
    PROVE  /\ req[r].hook \in Webhooks /\ req[r].hook # None
           /\ req[r].hook.event \in Events /\ req[r].hook.txn \in Txns
           /\ req[r].intent = req[r].hook.intent
           /\ req[r].intent \in Intents /\ req[r].intent # None
<1>1. req[r].hook \in Webhooks /\ req[r].hook # None /\ req[r].intent = req[r].hook.intent
  BY DEF RequestsOK, RequestOK, Request
<1> QED
  BY <1>1, RecordAssumption, PaymentsAssumption DEF Webhook

Steps == {"idle"} \cup CreateSteps \cup WebhookSteps \cup ReleaseSteps \cup FlushSteps
             \cup ActSteps

\* What Go and Done do to the request, and that they leave the others alone.
Moves(r) == req' = [req EXCEPT ![r] = req'[r]]

\* Going to the next step changes the step of one request and nothing else of it.
LEMMA GoMoves ==
    ASSUME req \in [Requests -> Request], NEW r \in Requests, NEW s \in Steps, Go(r, s)
    PROVE  /\ Moves(r) /\ req'[r] \in Request /\ req'[r].step = s
           /\ req'[r].item = req[r].item /\ req'[r].key = req[r].key
           /\ req'[r].intent = req[r].intent /\ req'[r].hook = req[r].hook
           /\ req'[r].opened = req[r].opened /\ req'[r].length = req[r].length
           /\ req'[r].milestone = req[r].milestone
<1>1. req[r] \in Request /\ req'[r] = [req[r] EXCEPT !.step = s]
  BY DEF Go
<1>2. Moves(r)
  BY <1>1 DEF Go, Moves
<1> QED
  BY <1>1, <1>2 DEF Request, Steps

\* A request that ends leaves a blank behind.
LEMMA DoneMoves ==
    ASSUME req \in [Requests -> Request], NEW r \in Requests, Done(r)
    PROVE  /\ Moves(r) /\ req'[r] \in Request
           /\ req'[r].step = "idle" /\ req'[r].hook = None /\ req'[r].intent = None
<1>1. req'[r] = Blank
  BY DEF Done
<1>2. Moves(r)
  BY <1>1 DEF Done, Moves
<1> QED
  BY <1>1, <1>2 DEF Blank, Request

\* A step that changes one request keeps the others well-formed, as long as no
\* webhook, intent record or entry disappears.
LEMMA OneRequest ==
    ASSUME RequestsOK, LedgerOK, LedgerOK', NEW r \in Requests,
           Moves(r), req'[r] \in Request, RequestOK(req[r])', up, up',
           sent \subseteq sent', Len(entries) <= Len(entries'),
           \A n \in Intents : intents[n] # None => intents'[n] # None
    PROVE  RequestsOK'
<1>1. req' \in [Requests -> Request]
  BY DEF RequestsOK, Moves
<1>2. ASSUME NEW s \in Requests
      PROVE  RequestOK(req[s])'
  <2>1. CASE s = r
    BY <2>1 DEF RequestsOK
  <2>2. CASE s # r
    <3>1. req'[s] = req[s] /\ req[s] \in Request /\ RequestOK(req[s])
      BY <2>2 DEF RequestsOK, Moves
    <3>2. Len(entries) \in Nat /\ Len(entries') \in Nat
      BY DEF LedgerOK
    <3> QED
      BY <3>1, <3>2 DEF RequestOK, Request
  <2> QED
    BY <2>1, <2>2
<1> QED
  BY <1>1, <1>2 DEF RequestsOK

\* createIntent, step by step.
LEMMA CreateTypes ==
    ASSUME TypeOK, NEW r \in Requests
    PROVE  /\ ReadCostItem(r) => TypeOK'
           /\ PutIntent(r) => TypeOK'
           /\ AuthorizeItem(r) => TypeOK'
<1> USE DEF TypeOK, CreateSteps, WebhookSteps, ReleaseSteps, FlushSteps, ActSteps, Steps
<1>1. /\ req \in [Requests -> Request] /\ req[r] \in Request /\ RequestOK(req[r])
      /\ Len(entries) \in Nat /\ RequestsOK /\ LedgerOK /\ RecordsOK
  BY DEF RequestsOK, LedgerOK
<1>2. ASSUME ReadCostItem(r) PROVE TypeOK'
  <2>1. RecordsOK' /\ LedgerOK'
    BY <1>1, <1>2 DEF ReadCostItem, records, snapshot, ledger, provider, At, RecordsOK, LedgerOK, Request, RequestOK
  <2>2. \A n \in Intents : intents[n] # None => intents'[n] # None
    BY <1>1, <1>2, RecordAssumption DEF ReadCostItem, records, snapshot, ledger, provider, RecordsOK
  <2>3. Moves(r) /\ req'[r] \in Request /\ RequestOK(req[r])'
    BY <2>2, <1>1, <1>2, GoMoves, DoneMoves DEF ReadCostItem, records, snapshot, ledger, provider, At, RequestOK
  <2> QED
    BY <1>1, <1>2, <2>1, <2>2, <2>3, OneRequest DEF ReadCostItem, records, snapshot, ledger, provider, At
<1>3. ASSUME PutIntent(r) PROVE TypeOK'
  <2>1. RecordsOK' /\ LedgerOK'
    BY <1>1, <1>3 DEF PutIntent, records, snapshot, ledger, provider, At, RecordsOK, LedgerOK, Request, RequestOK, IntentRecord
  <2>2. \A n \in Intents : intents[n] # None => intents'[n] # None
    <3>1. /\ req[r].intent \in Intents /\ req[r].item \in Items /\ req[r].key \in Keys
          /\ \A n \in Intents : n # req[r].intent => intents'[n] = intents[n]
      BY <1>1, <1>3 DEF PutIntent, At, RecordsOK, RequestOK, Request
    <3>2. intents'[req[r].intent] \in IntentRecord
      BY <1>1, <1>3, <3>1 DEF PutIntent, RecordsOK, IntentRecord
    <3> QED
      BY <3>1, <3>2, RecordAssumption
  <2>3. Moves(r) /\ req'[r] \in Request /\ RequestOK(req[r])'
    BY <2>2, <1>1, <1>3, GoMoves, DoneMoves DEF PutIntent, records, snapshot, ledger, provider, At, RequestOK
  <2> QED
    BY <1>1, <1>3, <2>1, <2>2, <2>3, OneRequest DEF PutIntent, records, snapshot, ledger, provider, At
<1>4. ASSUME AuthorizeItem(r) PROVE TypeOK'
  <2>1. RecordsOK' /\ LedgerOK'
    BY <1>1, <1>4 DEF AuthorizeItem, records, snapshot, ledger, provider, At, RecordsOK, LedgerOK, Request, RequestOK
  <2>2. \A n \in Intents : intents[n] # None => intents'[n] # None
    BY <1>1, <1>4, RecordAssumption DEF AuthorizeItem, records, snapshot, ledger, provider, RecordsOK
  <2>3. Moves(r) /\ req'[r] \in Request /\ RequestOK(req[r])'
    BY <2>2, <1>1, <1>4, GoMoves, DoneMoves DEF AuthorizeItem, records, snapshot, ledger, provider, At, RequestOK
  <2> QED
    BY <1>1, <1>4, <2>1, <2>2, <2>3, OneRequest DEF AuthorizeItem, records, snapshot, ledger, provider, At
<1> QED
  BY <1>2, <1>3, <1>4

\* handleWebhook up to its branches, and the branch of payment.failed.
LEMMA WebhookTypes ==
    ASSUME TypeOK, NEW r \in Requests
    PROVE  /\ ReadIntent(r) => TypeOK'
           /\ PutTransaction(r) => TypeOK'
           /\ FailIntent(r) => TypeOK'
           /\ ItemDue(r) => TypeOK'
<1> USE DEF TypeOK, CreateSteps, WebhookSteps, ReleaseSteps, FlushSteps, ActSteps, Steps
<1>1. /\ req \in [Requests -> Request] /\ req[r] \in Request /\ RequestOK(req[r])
      /\ Len(entries) \in Nat /\ RequestsOK /\ LedgerOK /\ RecordsOK
  BY DEF RequestsOK, LedgerOK
<1>2. ASSUME ReadIntent(r) PROVE TypeOK'
  <2>1. RecordsOK' /\ LedgerOK'
    BY <1>1, <1>2 DEF ReadIntent, records, snapshot, ledger, provider, At, RecordsOK, LedgerOK
  <2>2. \A n \in Intents : intents[n] # None => intents'[n] # None
    BY <1>1, <1>2, RecordAssumption DEF ReadIntent, records, snapshot, ledger, provider, RecordsOK
  <2>3. Moves(r) /\ req'[r] \in Request /\ RequestOK(req[r])'
    <3>1. req[r].hook \in Webhooks /\ req[r].intent \in Intents /\ req[r].intent # None
      BY <1>1, <1>2, HookOf DEF ReadIntent, At
    <3> QED
      BY <2>2, <3>1, <1>1, <1>2, GoMoves, DoneMoves
      DEF ReadIntent, records, snapshot, ledger, provider, At, RequestOK
  <2> QED
    BY <1>1, <1>2, <2>1, <2>2, <2>3, OneRequest DEF ReadIntent, records, snapshot, ledger, provider, At
<1>3. ASSUME PutTransaction(r) PROVE TypeOK'
  <2>1. RecordsOK' /\ LedgerOK'
    BY <1>1, <1>3 DEF PutTransaction, records, snapshot, ledger, provider, At, RecordsOK, LedgerOK, RequestOK
  <2>2. \A n \in Intents : intents[n] # None => intents'[n] # None
    BY <1>1, <1>3, RecordAssumption DEF PutTransaction, records, snapshot, ledger, provider, RecordsOK
  <2>3. Moves(r) /\ req'[r] \in Request /\ RequestOK(req[r])'
    <3>1. req[r].hook.event \in Events /\ req[r].intent \in Intents
      BY <1>1, <1>3, HookOf DEF PutTransaction, At
    <3>2. Go(r, "fail_intent") \/ Go(r, "post_payment") \/ Done(r)
      BY <1>3, <3>1 DEF PutTransaction, Events
    <3> QED
      BY <2>2, <3>1, <3>2, <1>1, <1>3, GoMoves, DoneMoves
      DEF PutTransaction, records, snapshot, ledger, provider, At, RequestOK
  <2> QED
    BY <1>1, <1>3, <2>1, <2>2, <2>3, OneRequest DEF PutTransaction, records, snapshot, ledger, provider, At
<1>4. ASSUME FailIntent(r) PROVE TypeOK'
  <2>1. RecordsOK' /\ LedgerOK'
    BY <1>1, <1>4, IntentOf DEF FailIntent, records, snapshot, ledger, provider, At, RecordsOK, LedgerOK, IntentRecord
  <2>2. \A n \in Intents : intents[n] # None => intents'[n] # None
    <3>1. /\ req[r].intent \in Intents /\ intents[req[r].intent] \in IntentRecord
          /\ \A n \in Intents : n # req[r].intent => intents'[n] = intents[n]
      BY <1>1, <1>4, IntentOf DEF FailIntent, At, RecordsOK
    <3>2. intents'[req[r].intent] \in IntentRecord
      BY <1>1, <1>4, <3>1 DEF FailIntent, RecordsOK, IntentRecord
    <3> QED
      BY <3>1, <3>2, RecordAssumption
  <2>3. Moves(r) /\ req'[r] \in Request /\ RequestOK(req[r])'
    BY <2>2, <1>1, <1>4, IntentOf, GoMoves, DoneMoves DEF FailIntent, records, snapshot, ledger, provider, At, RequestOK
  <2> QED
    BY <1>1, <1>4, <2>1, <2>2, <2>3, OneRequest DEF FailIntent, records, snapshot, ledger, provider, At
<1>5. ASSUME ItemDue(r) PROVE TypeOK'
  <2>1. RecordsOK' /\ LedgerOK'
    BY <1>1, <1>5, IntentOf DEF ItemDue, records, snapshot, ledger, provider, At, RecordsOK, LedgerOK, RequestOK
  <2>2. \A n \in Intents : intents[n] # None => intents'[n] # None
    BY <1>1, <1>5, RecordAssumption DEF ItemDue, records, snapshot, ledger, provider, RecordsOK
  <2>3. Moves(r) /\ req'[r] \in Request /\ RequestOK(req[r])'
    BY <2>2, <1>1, <1>5, IntentOf, GoMoves, DoneMoves DEF ItemDue, records, snapshot, ledger, provider, At, RequestOK
  <2> QED
    BY <1>1, <1>5, <2>1, <2>2, <2>3, OneRequest DEF ItemDue, records, snapshot, ledger, provider, At
<1> QED
  BY <1>2, <1>3, <1>4, <1>5

\* The writes that follow the flush.
LEMMA ConfirmTypes ==
    ASSUME TypeOK, NEW r \in Requests
    PROVE  /\ ConfirmIntent(r) => TypeOK'
           /\ ItemPaid(r) => TypeOK'
           /\ ClosePayment(r) => TypeOK'
           /\ CloseRelease(r) => TypeOK'
<1> USE DEF TypeOK, CreateSteps, WebhookSteps, ReleaseSteps, FlushSteps, ActSteps, Steps
<1>1. /\ req \in [Requests -> Request] /\ req[r] \in Request /\ RequestOK(req[r])
      /\ Len(entries) \in Nat /\ RequestsOK /\ LedgerOK /\ RecordsOK
  BY DEF RequestsOK, LedgerOK
<1>2. ASSUME ConfirmIntent(r) PROVE TypeOK'
  <2>1. RecordsOK' /\ LedgerOK'
    BY <1>1, <1>2, IntentOf DEF ConfirmIntent, records, snapshot, ledger, provider, At, RecordsOK, LedgerOK, IntentRecord
  <2>2. \A n \in Intents : intents[n] # None => intents'[n] # None
    <3>1. /\ req[r].intent \in Intents /\ intents[req[r].intent] \in IntentRecord
          /\ \A n \in Intents : n # req[r].intent => intents'[n] = intents[n]
      BY <1>1, <1>2, IntentOf DEF ConfirmIntent, At, RecordsOK
    <3>2. intents'[req[r].intent] \in IntentRecord
      BY <1>1, <1>2, <3>1 DEF ConfirmIntent, RecordsOK, IntentRecord
    <3> QED
      BY <3>1, <3>2, RecordAssumption
  <2>3. Moves(r) /\ req'[r] \in Request /\ RequestOK(req[r])'
    BY <2>2, <1>1, <1>2, IntentOf, GoMoves, DoneMoves DEF ConfirmIntent, records, snapshot, ledger, provider, At, RequestOK
  <2> QED
    BY <1>1, <1>2, <2>1, <2>2, <2>3, OneRequest DEF ConfirmIntent, records, snapshot, ledger, provider, At
<1>3. ASSUME ItemPaid(r) PROVE TypeOK'
  <2>1. RecordsOK' /\ LedgerOK'
    BY <1>1, <1>3, IntentOf DEF ItemPaid, records, snapshot, ledger, provider, At, RecordsOK, LedgerOK
  <2>2. \A n \in Intents : intents[n] # None => intents'[n] # None
    BY <1>1, <1>3, RecordAssumption DEF ItemPaid, records, snapshot, ledger, provider, RecordsOK
  <2>3. Moves(r) /\ req'[r] \in Request /\ RequestOK(req[r])'
    BY <2>2, <1>1, <1>3, IntentOf, GoMoves, DoneMoves DEF ItemPaid, records, snapshot, ledger, provider, At, RequestOK
  <2> QED
    BY <1>1, <1>3, <2>1, <2>2, <2>3, OneRequest DEF ItemPaid, records, snapshot, ledger, provider, At
<1>4. ASSUME ClosePayment(r) PROVE TypeOK'
  <2>1. RecordsOK' /\ LedgerOK'
    BY <1>1, <1>4, IntentOf DEF ClosePayment, records, snapshot, ledger, provider, At, RecordsOK, LedgerOK, Publish, RequestOK
  <2>2. \A n \in Intents : intents[n] # None => intents'[n] # None
    BY <1>1, <1>4, RecordAssumption DEF ClosePayment, records, snapshot, ledger, provider, RecordsOK
  <2>3. Moves(r) /\ req'[r] \in Request /\ RequestOK(req[r])'
    BY <2>2, <1>1, <1>4, IntentOf, GoMoves, DoneMoves DEF ClosePayment, records, snapshot, ledger, provider, At, RequestOK
  <2> QED
    BY <1>1, <1>4, <2>1, <2>2, <2>3, OneRequest DEF ClosePayment, records, snapshot, ledger, provider, At
<1>5. ASSUME CloseRelease(r) PROVE TypeOK'
  <2>1. RecordsOK' /\ LedgerOK'
    BY <1>1, <1>5, IntentOf DEF CloseRelease, records, snapshot, ledger, provider, At, RecordsOK, LedgerOK, Publish
  <2>2. \A n \in Intents : intents[n] # None => intents'[n] # None
    BY <1>1, <1>5, RecordAssumption DEF CloseRelease, records, snapshot, ledger, provider, RecordsOK
  <2>3. Moves(r) /\ req'[r] \in Request /\ RequestOK(req[r])'
    BY <2>2, <1>1, <1>5, IntentOf, GoMoves, DoneMoves DEF CloseRelease, records, snapshot, ledger, provider, At, RequestOK
  <2> QED
    BY <1>1, <1>5, <2>1, <2>2, <2>3, OneRequest DEF CloseRelease, records, snapshot, ledger, provider, At
<1> QED
  BY <1>2, <1>3, <1>4, <1>5

\* Accounts and entries: the postings and the two halves of a flush.
LEMMA LedgerTypes ==
    ASSUME TypeOK, NEW r \in Requests
    PROVE  /\ PostPayment(r) => TypeOK'
           /\ PostRelease(r) => TypeOK'
           /\ FlushAccounts(r) => TypeOK'
           /\ FlushEntries(r) => TypeOK'
<1> USE DEF TypeOK, CreateSteps, WebhookSteps, ReleaseSteps, FlushSteps, ActSteps, Steps
<1>1. /\ req \in [Requests -> Request] /\ req[r] \in Request /\ RequestOK(req[r])
      /\ Len(entries) \in Nat /\ RequestsOK /\ LedgerOK /\ RecordsOK
  BY DEF RequestsOK, LedgerOK
<1>2. ASSUME PostPayment(r) PROVE TypeOK'
  <2> DEFINE i == ItemOf(req[r].intent)
  <2>1. i \in Items /\ req[r].hook \in Webhooks /\ req[r].hook # None /\ req[r].intent \in Intents
    BY <1>1, <1>2, IntentOf, HookOf DEF PostPayment, At
  <2>2. OpenCaseAccounts(i) \subseteq AnyAccount
    BY <1>1, <2>1 DEF OpenCaseAccounts, AnyAccount, LedgerOK
  <2>3. entries' \in Seq(JournalEntry) /\ Len(entries) <= Len(entries')
    <3> DEFINE e == ConfirmEntry(i, req[r].hook)
    <3>1. e \in JournalEntry /\ entries \in Seq(JournalEntry)
      BY <1>1, <2>1, ConfirmEntryType DEF LedgerOK
    <3>2. entries' = entries \/ entries' = Post(OpenCaseAccounts(i), entries, e)
      BY <1>2 DEF PostPayment
    <3> HIDE DEF e
    <3>3. entries' = entries \/ entries' = Append(entries, e)
      BY <3>1, <3>2, PostType
    <3> QED
      BY <3>1, <3>3
  <2>4. RecordsOK' /\ LedgerOK'
    BY <1>1, <1>2, <2>2, <2>3 DEF PostPayment, records, snapshot, ledger, provider, RecordsOK, LedgerOK
  <2>5. CASE Done(r)
    <3>1. Moves(r) /\ req'[r] \in Request /\ RequestOK(req[r])'
      BY <1>1, <2>5, DoneMoves DEF RequestOK
    <3> QED
      BY <1>1, <1>2, <2>3, <2>4, <3>1, OneRequest DEF PostPayment, records, snapshot, ledger, provider, At
  <2>6. CASE req' = [req EXCEPT ![r].step = "flush_accounts", ![r].opened = OpenCaseAccounts(i)]
    <3>1. /\ Moves(r) /\ req'[r] \in Request /\ req'[r].step = "flush_accounts"
          /\ req'[r].intent = req[r].intent /\ req'[r].hook = req[r].hook
      BY <1>1, <2>2, <2>6 DEF Moves, Request
    <3>2. RequestOK(req[r])'
      BY <1>1, <1>2, <2>1, <3>1 DEF PostPayment, records, snapshot, ledger, provider, At, RequestOK
    <3> QED
      BY <1>1, <1>2, <2>3, <2>4, <3>1, <3>2, OneRequest DEF PostPayment, records, snapshot, ledger, provider, At
  <2> QED
    BY <1>2, <2>5, <2>6 DEF PostPayment
<1>3. ASSUME PostRelease(r) PROVE TypeOK'
  <2> DEFINE i == ItemOf(req[r].intent)
  <2>1. i \in Items /\ req[r].intent \in Intents
    BY <1>1, <1>3, IntentOf DEF PostRelease, At
  <2>2. accounts \subseteq AnyAccount
    BY <1>1 DEF LedgerOK
  <2>3. entries' \in Seq(JournalEntry) /\ Len(entries) <= Len(entries')
    <3> DEFINE e == ReleaseEntry(i, req[r].intent)
    <3>1. e \in JournalEntry /\ entries \in Seq(JournalEntry)
      BY <1>1, <2>1, ReleaseEntryType DEF LedgerOK
    <3>2. entries' = entries \/ entries' = Post(accounts, entries, e)
      BY <1>3 DEF PostRelease
    <3> HIDE DEF e
    <3>3. entries' = entries \/ entries' = Append(entries, e)
      BY <3>1, <3>2, PostType
    <3> QED
      BY <3>1, <3>3
  <2>4. RecordsOK' /\ LedgerOK'
    BY <1>1, <1>3, <2>2, <2>3 DEF PostRelease, records, snapshot, ledger, provider, RecordsOK, LedgerOK
  <2>5. CASE Done(r)
    <3>1. Moves(r) /\ req'[r] \in Request /\ RequestOK(req[r])'
      BY <1>1, <2>5, DoneMoves DEF RequestOK
    <3> QED
      BY <1>1, <1>3, <2>3, <2>4, <3>1, OneRequest DEF PostRelease, records, snapshot, ledger, provider, At
  <2>6. CASE req' = [req EXCEPT ![r].step = "flush_accounts", ![r].opened = accounts]
    <3>1. /\ Moves(r) /\ req'[r] \in Request /\ req'[r].step = "flush_accounts"
          /\ req'[r].intent = req[r].intent /\ req'[r].hook = req[r].hook
      BY <1>1, <2>2, <2>6 DEF Moves, Request
    <3>2. RequestOK(req[r])'
      BY <1>1, <1>3, <2>1, <3>1 DEF PostRelease, records, snapshot, ledger, provider, At, RequestOK
    <3> QED
      BY <1>1, <1>3, <2>3, <2>4, <3>1, <3>2, OneRequest DEF PostRelease, records, snapshot, ledger, provider, At
  <2> QED
    BY <1>3, <2>5, <2>6 DEF PostRelease
<1>4. ASSUME FlushAccounts(r) PROVE TypeOK'
  <2>1. RecordsOK' /\ LedgerOK'
    BY <1>1, <1>4 DEF FlushAccounts, records, snapshot, ledger, provider, RecordsOK, LedgerOK, Request
  <2>2. /\ Moves(r) /\ req'[r] \in Request
        /\ req'[r].step = "flush_entries" /\ req'[r].length = Len(entries)
        /\ req'[r].intent = req[r].intent /\ req'[r].hook = req[r].hook
    BY <1>1, <1>4 DEF FlushAccounts, Moves, Request
  <2>3. RequestOK(req[r])'
    BY <1>1, <1>4, <2>2, IntentOf DEF FlushAccounts, records, snapshot, ledger, provider, At, RequestOK
  <2> QED
    BY <1>1, <1>4, <2>1, <2>2, <2>3, OneRequest DEF FlushAccounts, records, snapshot, ledger, provider, At
<1>5. ASSUME FlushEntries(r) PROVE TypeOK'
  <2>1. req[r].length \in Nat /\ req[r].length <= Len(entries)
    BY <1>1, <1>5 DEF FlushEntries, At, RequestOK, Request
  <2>2. RecordsOK' /\ LedgerOK'
    BY <1>1, <1>5, <2>1, StoredWithType DEF FlushEntries, records, snapshot, ledger, provider, RecordsOK, LedgerOK
  <2>3. /\ Go(r, "confirm_intent") \/ Go(r, "close_release")
        /\ req[r].hook # None => Go(r, "confirm_intent")
        /\ req[r].hook = None => Go(r, "close_release")
    BY <1>5 DEF FlushEntries
  <2>4. Moves(r) /\ req'[r] \in Request /\ RequestOK(req[r])'
    BY <1>1, <1>5, <2>3, IntentOf, GoMoves DEF FlushEntries, records, snapshot, ledger, provider, At, RequestOK
  <2> QED
    BY <1>1, <1>5, <2>2, <2>4, OneRequest DEF FlushEntries, records, snapshot, ledger, provider, At
<1> QED
  BY <1>2, <1>3, <1>4, <1>5

\* A change of a milestone, from the copy it was found as.
LEMMA ActTypes ==
    ASSUME TypeOK, NEW r \in Requests
    PROVE  /\ \A m \in Milestones : SubmitEvidence(r, m) => TypeOK'
           /\ \A m \in Milestones : VerifyMilestone(r, m) => TypeOK'
           /\ PutEvidence(r) => TypeOK'
           /\ PutVerified(r) => TypeOK'
<1> USE DEF TypeOK, CreateSteps, WebhookSteps, ReleaseSteps, FlushSteps, ActSteps, Steps
<1>1. /\ req \in [Requests -> Request] /\ req[r] \in Request /\ RequestOK(req[r])
      /\ Len(entries) \in Nat /\ RequestsOK /\ LedgerOK /\ RecordsOK
  BY DEF RequestsOK, LedgerOK
<1>2. ASSUME NEW m \in Milestones, SubmitEvidence(r, m) PROVE TypeOK'
  <2>1. RecordsOK' /\ LedgerOK'
    BY <1>1, <1>2 DEF SubmitEvidence, records, snapshot, ledger, provider, RecordsOK, LedgerOK
  <2>2. /\ Moves(r) /\ req'[r] \in Request /\ req'[r].step = "put_evidence"
        /\ req'[r].hook = None /\ req'[r].milestone = m
    BY <1>1, <1>2 DEF SubmitEvidence, Moves, Request, Blank, RecordsOK
  <2>3. RequestOK(req[r])'
    BY <2>2, PaymentsAssumption DEF RequestOK
  <2> QED
    BY <1>1, <1>2, <2>1, <2>2, <2>3, OneRequest DEF SubmitEvidence, records, snapshot, ledger, provider, Idle
<1>3. ASSUME NEW m \in Milestones, VerifyMilestone(r, m) PROVE TypeOK'
  <2>1. RecordsOK' /\ LedgerOK'
    BY <1>1, <1>3 DEF VerifyMilestone, records, snapshot, ledger, provider, RecordsOK, LedgerOK
  <2>2. /\ Moves(r) /\ req'[r] \in Request /\ req'[r].step = "put_verified"
        /\ req'[r].hook = None /\ req'[r].milestone = m
    BY <1>1, <1>3 DEF VerifyMilestone, Moves, Request, Blank
  <2>3. RequestOK(req[r])'
    BY <2>2, PaymentsAssumption DEF RequestOK
  <2> QED
    BY <1>1, <1>3, <2>1, <2>2, <2>3, OneRequest DEF VerifyMilestone, records, snapshot, ledger, provider, Idle
<1>4. ASSUME PutEvidence(r) \/ PutVerified(r) PROVE TypeOK'
  <2>1. req[r].milestone \in Milestones /\ req[r].verified_at \in BOOLEAN
    BY <1>1, <1>4 DEF PutEvidence, PutVerified, At, RequestOK, Request
  <2> DEFINE Found == [status : {"pending", "evidence_submitted", "verified"}, verified_at : BOOLEAN]
  <2>2. PICK put \in Found : milestones' = [milestones EXCEPT ![req[r].milestone] = put]
    <3>1. /\ [status |-> "evidence_submitted", verified_at |-> req[r].verified_at] \in Found
          /\ [status |-> "verified", verified_at |-> TRUE] \in Found
      BY <2>1
    <3> QED
      BY <1>4, <3>1 DEF PutEvidence, PutVerified
  <2>3. milestones' \in [Milestones -> Found]
    <3>1. milestones \in [Milestones -> Found]
      BY <1>1 DEF RecordsOK
    <3> HIDE DEF Found
    <3> QED
      BY <2>2, <3>1
  <2>4. RecordsOK'
    <3>1. attested' \subseteq Milestones
      BY <1>1, <1>4, <2>1 DEF PutEvidence, PutVerified, RecordsOK
    <3> QED
      BY <1>1, <1>4, <2>3, <3>1 DEF PutEvidence, PutVerified, provider, RecordsOK
  <2>5. LedgerOK'
    BY <1>1, <1>4 DEF PutEvidence, PutVerified, snapshot, ledger, LedgerOK
  <2>6. Moves(r) /\ req'[r] \in Request /\ RequestOK(req[r])'
    BY <1>1, <1>4, DoneMoves DEF PutEvidence, PutVerified, RequestOK
  <2> QED
    BY <1>1, <1>4, <2>4, <2>5, <2>6, OneRequest DEF PutEvidence, PutVerified, records, snapshot, ledger, provider, At
<1> QED
  BY <1>2, <1>3, <1>4

\* The first steps of the three kinds of request, and the milestone check.
LEMMA BeginTypes ==
    ASSUME TypeOK, NEW r \in Requests
    PROVE  /\ \A u \in Users, i \in Items, k \in Keys, n \in Intents :
                  CreateIntent(r, u, i, k, n) => TypeOK'
           /\ \A w \in sent : Deliver(r, w) => TypeOK'
           /\ \A n \in Intents : ReleaseSettlement(r, n) => TypeOK'
           /\ ReadMilestone(r) => TypeOK'
           /\ StorageError(r) => TypeOK'
<1> USE DEF TypeOK, CreateSteps, WebhookSteps, ReleaseSteps, FlushSteps, ActSteps, Steps
<1>1. /\ req \in [Requests -> Request] /\ req[r] \in Request /\ RequestOK(req[r])
      /\ Len(entries) \in Nat /\ RequestsOK /\ LedgerOK /\ RecordsOK
  BY DEF RequestsOK, LedgerOK
<1>2. ASSUME NEW u \in Users, NEW i \in Items, NEW k \in Keys, NEW n \in Intents,
             CreateIntent(r, u, i, k, n)
      PROVE  TypeOK'
  <2>1. RecordsOK' /\ LedgerOK'
    BY <1>1, <1>2 DEF CreateIntent, records, snapshot, ledger, provider, RecordsOK, LedgerOK
  <2>2. /\ Moves(r) /\ req'[r] \in Request /\ req'[r].step = "read_item" /\ req'[r].hook = None
        /\ req'[r].item = i /\ req'[r].key = k /\ req'[r].intent = n
    BY <1>1, <1>2 DEF CreateIntent, Moves, Request, Blank
  <2>3. RequestOK(req[r])'
    BY <2>2, PaymentsAssumption DEF RequestOK
  <2> QED
    BY <1>1, <1>2, <2>1, <2>2, <2>3, OneRequest DEF CreateIntent, records, snapshot, ledger, provider, Idle
<1>3. ASSUME NEW w \in sent, Deliver(r, w)
      PROVE  TypeOK'
  <2>1. RecordsOK' /\ LedgerOK'
    BY <1>1, <1>3 DEF Deliver, records, snapshot, ledger, provider, RecordsOK, LedgerOK
  <2>2. CASE UNCHANGED req
    BY <1>1, <1>3, <2>1, <2>2 DEF Deliver, records, snapshot, ledger, provider, RequestsOK, RequestOK
  <2>3. CASE req' = [req EXCEPT ![r] = [Blank EXCEPT !.step = "read_intent",
                                            !.intent = w.intent, !.hook = w]]
    <3>1. w \in Webhooks /\ w.intent \in Intents /\ w # None
      BY <1>1, RecordAssumption DEF RecordsOK, Webhook
    <3>2. /\ Moves(r) /\ req'[r] \in Request /\ req'[r].step = "read_intent"
          /\ req'[r].intent = w.intent /\ req'[r].hook = w
      BY <1>1, <2>3, <3>1 DEF Moves, Request, Blank
    <3>3. RequestOK(req[r])'
      BY <1>3, <3>1, <3>2 DEF RequestOK, Deliver
    <3> QED
      BY <1>1, <1>3, <2>1, <3>2, <3>3, OneRequest DEF Deliver, records, snapshot, ledger, provider, Idle
  <2> QED
    BY <1>3, <2>2, <2>3 DEF Deliver
<1>4. ASSUME NEW n \in Intents, ReleaseSettlement(r, n)
      PROVE  TypeOK'
  <2>1. RecordsOK' /\ LedgerOK'
    BY <1>1, <1>4 DEF ReleaseSettlement, records, snapshot, ledger, provider, RecordsOK, LedgerOK
  <2>2. /\ Moves(r) /\ req'[r] \in Request /\ req'[r].step = "read_milestone"
        /\ req'[r].intent = n /\ req'[r].hook = None
    BY <1>1, <1>4 DEF ReleaseSettlement, Moves, Request, Blank
  <2>3. RequestOK(req[r])'
    BY <1>4, <2>2, PaymentsAssumption DEF RequestOK, ReleaseSettlement, records
  <2> QED
    BY <1>1, <1>4, <2>1, <2>2, <2>3, OneRequest DEF ReleaseSettlement, records, snapshot, ledger, provider, Idle
<1>5. ASSUME ReadMilestone(r) PROVE TypeOK'
  <2>1. RecordsOK' /\ LedgerOK'
    BY <1>1, <1>5 DEF ReadMilestone, records, snapshot, ledger, provider, RecordsOK, LedgerOK
  <2>2. Moves(r) /\ req'[r] \in Request /\ RequestOK(req[r])'
    BY <1>1, <1>5, IntentOf, GoMoves, DoneMoves DEF ReadMilestone, records, snapshot, ledger, provider, At, RequestOK
  <2> QED
    BY <1>1, <1>5, <2>1, <2>2, OneRequest DEF ReadMilestone, records, snapshot, ledger, provider, At
<1>6. ASSUME StorageError(r) PROVE TypeOK'
  <2>1. RecordsOK' /\ LedgerOK'
    BY <1>1, <1>6 DEF StorageError, records, snapshot, ledger, provider, RecordsOK, LedgerOK
  <2>2. Moves(r) /\ req'[r] \in Request /\ RequestOK(req[r])'
    BY <1>1, <1>6, DoneMoves DEF StorageError, RequestOK
  <2> QED
    BY <1>1, <1>6, <2>1, <2>2, OneRequest DEF StorageError, records, snapshot, ledger, provider
<1> QED
  BY <1>2, <1>3, <1>4, <1>5, <1>6

\* The provider, crash and restart.
LEMMA OutsideTypes ==
    ASSUME TypeOK
    PROVE  /\ \A w \in Webhooks : ProviderReports(w) => TypeOK'
           /\ Crash => TypeOK'
           /\ Restart => TypeOK'
<1> USE DEF TypeOK, CreateSteps, WebhookSteps, ReleaseSteps, FlushSteps, ActSteps
<1>1. ASSUME NEW w \in Webhooks, ProviderReports(w) PROVE TypeOK'
  BY <1>1 DEF ProviderReports, records, snapshot, ledger, provider, RecordsOK, LedgerOK, RequestsOK, RequestOK
<1>3. ASSUME Crash PROVE TypeOK'
  <2>1. RecordsOK' /\ LedgerOK'
    BY <1>3 DEF Crash, records, snapshot, ledger, provider, RecordsOK, LedgerOK
  <2>2. \A r \in Requests : req'[r] = Blank
    BY <1>3 DEF Crash
  <2>3. Blank \in Request /\ Blank.step = "idle" /\ RequestOK(Blank)'
    BY DEF Blank, Request, RequestOK
  <2>4. req' \in [Requests -> Request]
    BY <1>3, <2>3 DEF Crash
  <2>5. RequestsOK'
    BY <1>3, <2>2, <2>3, <2>4 DEF Crash, RequestsOK
  <2> QED
    BY <2>1, <2>5
<1>4. ASSUME Restart PROVE TypeOK'
  <2>1. RecordsOK' /\ LedgerOK'
    BY <1>4 DEF Restart, records, snapshot, ledger, provider, RecordsOK, LedgerOK
  <2>2. \A r \in Requests : req[r].step = "idle" /\ RequestOK(req[r])
    BY <1>4 DEF Restart, RequestsOK
  <2>3. req' = req /\ sent' = sent /\ up' = TRUE
    BY <1>4 DEF Restart, provider
  <2>4. \A r \in Requests : RequestOK(req[r])'
    BY <2>2, <2>3 DEF RequestOK
  <2>5. RequestsOK'
    BY <2>3, <2>4 DEF RequestsOK
  <2> QED
    BY <2>1, <2>5
<1> QED
  BY <1>1, <1>3, <1>4

\* Every step keeps the types.
LEMMA TypeStep == TypeOK /\ [Next]_vars => TypeOK'
<1> SUFFICES ASSUME TypeOK, [Next]_vars PROVE TypeOK'
  OBVIOUS
<1>1. CASE \E r \in Requests : Continue(r)
  BY <1>1, CreateTypes, WebhookTypes, ConfirmTypes, LedgerTypes, BeginTypes, ActTypes
  DEF Continue
<1>2. CASE UNCHANGED vars
  BY <1>2 DEF vars, records, snapshot, ledger, provider,
              TypeOK, RecordsOK, LedgerOK, RequestsOK, RequestOK
<1> QED
  BY <1>1, <1>2, BeginTypes, ActTypes, OutsideTypes DEF Next

\* The collections, the ledger, its snapshot and the requests in flight keep
\* their shape, and a request past its first read finds its intent on record.
THEOREM TypeCorrect == Spec => []TypeOK
<1>1. Init => TypeOK
  BY DEF Init, TypeOK, RecordsOK, LedgerOK, RequestsOK, RequestOK, Blank, Request,
         CreateSteps, WebhookSteps, ReleaseSteps, FlushSteps, ActSteps
<1> QED
  BY <1>1, TypeStep, PTL DEF Spec

-------------------------------------------------------------------------------
(* The journal in memory and its snapshot.                                 *)

UniqueKeys(log) == \A m, n \in DOMAIN log : log[m].key = log[n].key => m = n

\* `short` is the beginning of `long`.
Begins(short, long) ==
    /\ Len(short) <= Len(long)
    /\ \A n \in 1..Len(short) : short[n] = long[n]

\* All that a step can do to the journal and its snapshot.
LogUnchanged == entries' = entries /\ storedEntries' = storedEntries /\ up' = up
Appends(e) == e \in JournalEntry /\ ~HasKey(entries, e.key) /\ entries' = Append(entries, e)
LogAppend ==
    /\ up /\ up' /\ storedEntries' = storedEntries
    /\ \E r \in Requests :
          LET i == ItemOf(req[r].intent)
          IN  \/ PostPayment(r) /\ Appends(ConfirmEntry(i, req[r].hook))
              \/ PostRelease(r) /\ Appends(ReleaseEntry(i, req[r].intent))
LogFlush ==
    /\ up /\ up' /\ entries' = entries
    /\ \E n \in Nat : n <= Len(entries) /\ storedEntries' = StoredWith(n)
LogLost     == ~up' /\ entries' = << >> /\ storedEntries' = storedEntries
LogReloaded == ~up /\ up' /\ entries' = storedEntries /\ storedEntries' = storedEntries

\* All that a step can do to the log in memory and the log in the snapshot.
LEMMA LogCases ==
    ASSUME TypeOK, [Next]_vars
    PROVE  LogUnchanged \/ LogAppend \/ LogFlush \/ LogLost \/ LogReloaded
<1> USE DEF TypeOK
<1>1. ASSUME NEW r \in Requests, PostPayment(r) PROVE LogUnchanged \/ LogAppend
  <2> DEFINE i == ItemOf(req[r].intent)
             e == ConfirmEntry(i, req[r].hook)
  <2>1. req[r].step = "post_payment" /\ up
    BY <1>1 DEF PostPayment, At
  <2>2. i \in Items /\ req[r].hook \in Webhooks
    BY <2>1, IntentOf, HookOf DEF WebhookSteps
  <2>3. e \in JournalEntry /\ entries \in Seq(JournalEntry)
    BY <2>2, ConfirmEntryType DEF LedgerOK
  <2>4. /\ entries' = Post(OpenCaseAccounts(i), entries, e)
        /\ storedEntries' = storedEntries /\ up' = up
    BY <1>1 DEF PostPayment, snapshot
  <2>5. entries' = entries \/ Appends(e)
    <3> HIDE DEF i, e
    <3> QED
      BY <2>3, <2>4, PostType DEF Appends
  <2> QED
    BY <1>1, <2>1, <2>4, <2>5 DEF LogUnchanged, LogAppend
<1>2. ASSUME NEW r \in Requests, PostRelease(r) PROVE LogUnchanged \/ LogAppend
  <2> DEFINE i == ItemOf(req[r].intent)
             e == ReleaseEntry(i, req[r].intent)
  <2>1. req[r].step = "post_release" /\ up
    BY <1>2 DEF PostRelease, At
  <2>2. i \in Items /\ req[r].intent \in Intents
    BY <2>1, IntentOf DEF ReleaseSteps
  <2>3. e \in JournalEntry /\ entries \in Seq(JournalEntry)
    BY <2>2, ReleaseEntryType DEF LedgerOK
  <2>4. /\ entries' = entries \/ entries' = Post(accounts, entries, e)
        /\ storedEntries' = storedEntries /\ up' = up
    BY <1>2 DEF PostRelease, snapshot
  <2>5. entries' = entries \/ Appends(e)
    <3> HIDE DEF i, e
    <3> QED
      BY <2>3, <2>4, PostType DEF Appends
  <2> QED
    BY <1>2, <2>1, <2>4, <2>5 DEF LogUnchanged, LogAppend
<1>3. ASSUME NEW r \in Requests, FlushEntries(r) PROVE LogFlush
  <2>1. req[r].step = "flush_entries" /\ up /\ up' = up /\ entries' = entries
    BY <1>3 DEF FlushEntries, At, ledger
  <2>2. req[r].length \in Nat /\ req[r].length <= Len(entries)
    BY <2>1 DEF RequestsOK, RequestOK, Request
  <2> QED
    BY <1>3, <2>1, <2>2 DEF FlushEntries, LogFlush
<1>4. ASSUME NEW r \in Requests, Continue(r)
      PROVE  LogUnchanged \/ LogAppend \/ LogFlush
  <2>1. CASE PostPayment(r) \/ PostRelease(r) \/ FlushEntries(r)
    BY <2>1, <1>1, <1>2, <1>3
  <2>2. CASE FlushAccounts(r)
    BY <2>2 DEF FlushAccounts, ledger, LogUnchanged
  <2>3. CASE ReadCostItem(r) \/ PutIntent(r) \/ AuthorizeItem(r)
    BY <2>3 DEF ReadCostItem, PutIntent, AuthorizeItem, snapshot, ledger, LogUnchanged
  <2>4. CASE ReadIntent(r) \/ PutTransaction(r) \/ FailIntent(r) \/ ItemDue(r)
    BY <2>4 DEF ReadIntent, PutTransaction, FailIntent, ItemDue, snapshot, ledger, LogUnchanged
  <2>5. CASE ConfirmIntent(r) \/ ItemPaid(r) \/ ClosePayment(r)
    BY <2>5 DEF ConfirmIntent, ItemPaid, ClosePayment, snapshot, ledger, LogUnchanged
  <2>6. CASE ReadMilestone(r) \/ CloseRelease(r) \/ PutEvidence(r) \/ PutVerified(r)
    BY <2>6 DEF ReadMilestone, CloseRelease, PutEvidence, PutVerified, snapshot, ledger,
                LogUnchanged
  <2> QED
    BY <1>4, <2>1, <2>2, <2>3, <2>4, <2>5, <2>6 DEF Continue
<1>5. ASSUME NEW r \in Requests,
             \/ \E u \in Users, i \in Items, k \in Keys, n \in Intents : CreateIntent(r, u, i, k, n)
             \/ \E w \in sent : Deliver(r, w)
             \/ \E n \in Intents : ReleaseSettlement(r, n)
             \/ \E m \in Milestones : SubmitEvidence(r, m) \/ VerifyMilestone(r, m)
             \/ StorageError(r)
      PROVE  LogUnchanged
  BY <1>5 DEF CreateIntent, Deliver, ReleaseSettlement, SubmitEvidence, VerifyMilestone,
              StorageError, snapshot, ledger, LogUnchanged
<1>6. ASSUME \E w \in Webhooks : ProviderReports(w)
      PROVE  LogUnchanged
  BY <1>6 DEF ProviderReports, snapshot, ledger, LogUnchanged
<1>7. CASE Crash
  BY <1>7 DEF Crash, snapshot, LogLost
<1>8. CASE Restart
  BY <1>8 DEF Restart, snapshot, LogReloaded
<1>9. CASE UNCHANGED vars
  BY <1>9 DEF vars, snapshot, ledger, LogUnchanged
<1> QED
  BY <1>4, <1>5, <1>6, <1>7, <1>8, <1>9 DEF Next

\* Inductive: a running process has the snapshot as the beginning of its
\* journal, and neither names a key twice.  The snapshot's own uniqueness is
\* needed for a restart, which makes it the journal.
LogInv ==
    /\ UniqueKeys(entries)
    /\ UniqueKeys(storedEntries)
    /\ up => Begins(storedEntries, entries)

\* A flush keeps what is stored, stores the first n entries of the journal at
\* least, and leaves a beginning of the journal.
LEMMA Flushed ==
    ASSUME LedgerOK, Begins(storedEntries, entries), NEW n \in Nat, n <= Len(entries)
    PROVE  /\ StoredWith(n) \in Seq(JournalEntry)
           /\ Begins(storedEntries, StoredWith(n)) /\ Begins(StoredWith(n), entries)
           /\ n <= Len(StoredWith(n))
<1>1. entries \in Seq(JournalEntry) /\ storedEntries \in Seq(JournalEntry)
  BY DEF LedgerOK
<1>2. CASE n <= Len(storedEntries)
  BY <1>1, <1>2 DEF StoredWith, Begins
<1>3. CASE ~(n <= Len(storedEntries))
  <2> DEFINE tail == SubSeq(entries, Len(storedEntries) + 1, n)
  <2>1. /\ Len(tail) = n - Len(storedEntries)
        /\ \A k \in 1..Len(tail) : tail[k] = entries[Len(storedEntries) + k]
        /\ tail \in Seq(JournalEntry)
    BY <1>1, <1>3
  <2>2. StoredWith(n) = storedEntries \o tail
    BY <1>3 DEF StoredWith
  <2> HIDE DEF tail
  <2> DEFINE now == StoredWith(n)
  <2>3. /\ now \in Seq(JournalEntry) /\ Len(now) = n
        /\ \A k \in 1..n :
              now[k] = IF k <= Len(storedEntries) THEN storedEntries[k]
                       ELSE tail[k - Len(storedEntries)]
    BY <1>1, <1>3, <2>1, <2>2
  <2> HIDE DEF now
  <2>4. ASSUME NEW k \in 1..n
        PROVE  now[k] = entries[k]
    <3>1. CASE k <= Len(storedEntries)
      BY <1>1, <2>3, <3>1 DEF Begins
    <3>2. CASE ~(k <= Len(storedEntries))
      <4>1. /\ k - Len(storedEntries) \in 1..Len(tail)
            /\ Len(storedEntries) + (k - Len(storedEntries)) = k
        BY <1>1, <1>3, <2>1, <3>2
      <4> QED
        BY <2>1, <2>3, <3>2, <4>1
    <3> QED
      BY <3>1, <3>2
  <2>5. Begins(storedEntries, now) /\ Begins(now, entries)
    BY <1>1, <1>3, <2>3, <2>4 DEF Begins
  <2> QED
    BY <2>3, <2>5 DEF now
<1> QED
  BY <1>2, <1>3

\* Every step keeps the log free of repeated keys and ahead of its snapshot.
LEMMA LogStep == TypeOK /\ LogInv /\ [Next]_vars => LogInv'
<1> SUFFICES ASSUME TypeOK, LogInv, [Next]_vars PROVE LogInv'
  OBVIOUS
<1>1. entries \in Seq(JournalEntry) /\ storedEntries \in Seq(JournalEntry)
  BY DEF TypeOK, LedgerOK
<1>2. CASE LogUnchanged
  BY <1>2 DEF LogUnchanged, LogInv, UniqueKeys, Begins
<1>3. CASE LogAppend
  <2>1. PICK e \in JournalEntry : entries' = Append(entries, e) /\ ~HasKey(entries, e.key)
    BY <1>3 DEF LogAppend, Appends
  <2>2. /\ DOMAIN entries' = DOMAIN entries \cup {Len(entries) + 1}
        /\ Len(entries') = Len(entries) + 1
        /\ entries'[Len(entries) + 1] = e
        /\ \A n \in DOMAIN entries : entries'[n] = entries[n]
    BY <1>1, <2>1
  <2>3. UniqueKeys(entries')
    BY <1>1, <2>1, <2>2 DEF LogInv, UniqueKeys, HasKey
  <2>4. up => Begins(storedEntries, entries')
    BY <1>1, <2>2 DEF LogInv, Begins
  <2> QED
    BY <1>3, <2>3, <2>4 DEF LogAppend, LogInv, UniqueKeys
<1>4. CASE LogFlush
  <2>1. PICK n \in Nat : n <= Len(entries) /\ storedEntries' = StoredWith(n)
    BY <1>4 DEF LogFlush
  <2>2. /\ up /\ Begins(storedEntries, entries)
        /\ UniqueKeys(entries) /\ entries' = entries
    BY <1>4 DEF LogFlush, LogInv
  <2>3. /\ storedEntries' \in Seq(JournalEntry)
        /\ Begins(storedEntries', entries)
    BY <2>1, <2>2, Flushed DEF TypeOK
  <2>4. UniqueKeys(storedEntries')
    BY <1>1, <2>2, <2>3 DEF UniqueKeys, Begins
  <2> QED
    BY <2>2, <2>3, <2>4 DEF LogInv, UniqueKeys, Begins
<1>5. CASE LogLost
  BY <1>5 DEF LogLost, LogInv, UniqueKeys
<1>6. CASE LogReloaded
  BY <1>1, <1>6 DEF LogReloaded, LogInv, UniqueKeys, Begins
<1> QED
  BY <1>2, <1>3, <1>4, <1>5, <1>6, LogCases

\* The log never repeats a key and the snapshot is a beginning of it.
LEMMA LogInvariant == Spec => []LogInv
<1>1. Init => LogInv
  BY DEF Init, LogInv, UniqueKeys, Begins
<1> QED
  BY <1>1, LogStep, TypeCorrect, PTL DEF Spec

\* No provider transaction is posted twice and no intent released twice: for any
\* number of requests, any webhooks and any faults.
THEOREM NoDoublePosting == Spec => []PostedOnce
<1>1. LogInv => PostedOnce
  BY DEF LogInv, UniqueKeys, PostedOnce
<1> QED
  BY <1>1, LogInvariant, PTL

\* The snapshot is the beginning of the journal, however flushes overlap and
\* wherever a crash cuts a request off.
THEOREM SnapshotIsPrefix == Spec => []StoredIsPrefix
<1>1. TypeOK /\ LogInv => StoredIsPrefix
  <2> SUFFICES ASSUME TypeOK, LogInv, up
               PROVE  /\ Len(storedEntries) <= Len(entries)
                      /\ storedEntries = SubSeq(entries, 1, Len(storedEntries))
    BY DEF StoredIsPrefix
  <2>1. entries \in Seq(JournalEntry) /\ storedEntries \in Seq(JournalEntry)
    BY DEF TypeOK, LedgerOK
  <2>2. Begins(storedEntries, entries)
    BY DEF LogInv
  <2> QED
    BY <2>1, <2>2 DEF Begins
<1> QED
  BY <1>1, TypeCorrect, LogInvariant, PTL

-------------------------------------------------------------------------------
(* What a step can do to the records.                                      *)

RecordsKept == UNCHANGED <<intents, transactions, milestones, attested, registered, sent>>

\* Of all the steps only these write the records that payments are read from.
LEMMA RecordCases ==
    ASSUME [Next]_vars
    PROVE  \/ RecordsKept
           \/ \E r \in Requests : \/ ReadCostItem(r) \/ PutIntent(r) \/ PutTransaction(r)
                                  \/ FailIntent(r) \/ ConfirmIntent(r)
                                  \/ PutEvidence(r) \/ PutVerified(r)
           \/ \E w \in Webhooks : ProviderReports(w)
<1> USE DEF RecordsKept, records, provider
<1>1. ASSUME NEW r \in Requests, Continue(r)
      PROVE  \/ RecordsKept
             \/ ReadCostItem(r) \/ PutIntent(r) \/ PutTransaction(r)
             \/ FailIntent(r) \/ ConfirmIntent(r) \/ PutEvidence(r) \/ PutVerified(r)
  <2>1. CASE AuthorizeItem(r) \/ ReadIntent(r) \/ ItemDue(r)
    BY <2>1 DEF AuthorizeItem, ReadIntent, ItemDue
  <2>2. CASE PostPayment(r) \/ FlushAccounts(r) \/ FlushEntries(r) \/ PostRelease(r)
    BY <2>2 DEF PostPayment, FlushAccounts, FlushEntries, PostRelease
  <2>3. CASE ItemPaid(r) \/ ClosePayment(r) \/ ReadMilestone(r) \/ CloseRelease(r)
    BY <2>3 DEF ItemPaid, ClosePayment, ReadMilestone, CloseRelease
  <2> QED
    BY <1>1, <2>1, <2>2, <2>3 DEF Continue
<1>2. ASSUME NEW r \in Requests,
             \/ \E u \in Users, i \in Items, k \in Keys, n \in Intents : CreateIntent(r, u, i, k, n)
             \/ \E w \in sent : Deliver(r, w)
             \/ \E n \in Intents : ReleaseSettlement(r, n)
             \/ \E m \in Milestones : SubmitEvidence(r, m) \/ VerifyMilestone(r, m)
             \/ StorageError(r)
      PROVE  RecordsKept
  BY <1>2 DEF CreateIntent, Deliver, ReleaseSettlement, SubmitEvidence, VerifyMilestone,
              StorageError
<1>3. CASE Crash \/ Restart \/ UNCHANGED vars
  BY <1>3 DEF Crash, Restart, vars
<1> QED
  BY <1>1, <1>2, <1>3 DEF Next

-------------------------------------------------------------------------------
(* The parts of the inductive invariant.                                   *)

\* The entry a request posts.
KeyOf(q) == IF q.hook # None THEN ConfirmKey(q.hook.txn) ELSE ReleaseKey(q.intent)

\* An intent on record is for the item it was registered for; a transaction id
\* belongs to one webhook; a recorded webhook has its intent on record and the
\* amount of its cost item; a verified milestone has been attested.
ProvenanceInv ==
    /\ \A n \in Intents : intents[n] # None => registered[n] = ItemOf(n)
    /\ \A v, w \in sent : v.txn = w.txn => v = w
    /\ \A w \in transactions :
          intents[w.intent] # None /\ w.amount = Item[ItemOf(w.intent)].amount
    /\ \A m \in Milestones : milestones[m].status = "verified" => m \in attested

\* An intent is registered once, for the item its request carries.
CreationInv ==
    /\ \A r \in Requests :
          /\ req[r].step = "read_item" => registered[req[r].intent] = None
          /\ req[r].step = "put_intent" => registered[req[r].intent] = req[r].item
    /\ \A r, s \in Requests :
          req[r].step = "read_item" /\ req[s].step = "read_item"
              /\ req[r].intent = req[s].intent => r = s

\* Every entry of a journal is the payment of a recorded webhook, or the release
\* of an intent that is due and whose payment comes earlier in the journal.
PaymentKey(key, n) == \E w \in transactions : w.intent = n /\ key = ConfirmKey(w.txn)
GenuineAt(log, x) ==
    \/ \E w \in transactions : log[x] = ConfirmEntry(ItemOf(w.intent), w)
    \/ \E n \in BookDue : /\ log[x] = ReleaseEntry(ItemOf(n), n)
                          /\ \E y \in 1..(x - 1) : PaymentKey(log[y].key, n)
Genuine(log) == \A x \in DOMAIN log : GenuineAt(log, x)
GenuineInv == Genuine(entries) /\ Genuine(storedEntries)

\* The intents with a payment in the snapshot.
PaidIntents == {n \in Intents : PaymentsIn(storedEntries, n) # {}}

\* What a request has got done before each of its steps.
HookTaken(q) ==
    /\ q.step # "read_intent" => q.hook.amount = Item[ItemOf(q.intent)].amount
    /\ q.step \notin {"read_intent", "put_transaction"} => q.hook \in transactions
Progress(q) ==
    /\ q.hook # None => HookTaken(q)
    /\ q.step = "flush_accounts" => HasKey(entries, KeyOf(q))
    /\ q.step = "flush_entries" => \E x \in 1..q.length : entries[x].key = KeyOf(q)
    /\ q.step \in {"confirm_intent", "item_paid", "close_payment", "close_release"}
          => HasKey(storedEntries, KeyOf(q))
    /\ q.step \in {"read_milestone", "post_release"}
          => q.intent \in PaidIntents /\ Item[ItemOf(q.intent)].milestone # None
    /\ q.step = "post_release" => q.intent \in BookDue
ProgressInv == \A r \in Requests : Progress(req[r])

SettlementInv ==
    /\ ProvenanceInv /\ CreationInv
    /\ GenuineInv /\ ProgressInv /\ ConfirmedIsDurable

-------------------------------------------------------------------------------
(* Nothing that the invariant speaks of is ever taken back.                *)

Growth ==
    /\ \A n \in Intents : intents[n] # None => intents'[n] # None /\ ItemOf(n)' = ItemOf(n)
    /\ sent \subseteq sent' /\ transactions \subseteq transactions'
    /\ attested \subseteq attested'
    /\ Begins(storedEntries, storedEntries')
    /\ up /\ up' => Begins(entries, entries')

\* Every step lets the settlement only grow.
LEMMA Grows ==
    ASSUME TypeOK, LogInv, ProvenanceInv, CreationInv, [Next]_vars
    PROVE  Growth
<1> USE DEF TypeOK
<1>1. entries \in Seq(JournalEntry) /\ storedEntries \in Seq(JournalEntry)
  BY DEF LedgerOK
<1>2. Begins(storedEntries, storedEntries') /\ (up /\ up' => Begins(entries, entries'))
  <2>1. CASE LogFlush
    <3>1. PICK n \in Nat : n <= Len(entries) /\ storedEntries' = StoredWith(n)
      BY <2>1 DEF LogFlush
    <3>2. Begins(storedEntries, entries)
      BY <2>1 DEF LogFlush, LogInv
    <3>3. Begins(storedEntries, storedEntries')
      BY <3>1, <3>2, Flushed
    <3> QED
      BY <1>1, <2>1, <3>3 DEF LogFlush, Begins
  <2>2. CASE LogAppend
    <3>1. storedEntries' = storedEntries /\ Begins(entries, entries')
      BY <1>1, <2>2 DEF LogAppend, Appends, Begins
    <3> QED
      BY <1>1, <3>1 DEF Begins
  <2>3. CASE LogUnchanged \/ LogLost \/ LogReloaded
    BY <1>1, <2>3 DEF LogUnchanged, LogLost, LogReloaded, Begins
  <2> QED
    BY <2>1, <2>2, <2>3, LogCases
<1>3. sent \subseteq sent' /\ transactions \subseteq transactions'
  BY RecordCases DEF RecordsKept, ReadCostItem, PutIntent, PutTransaction, FailIntent,
       ConfirmIntent, ProviderReports, PutEvidence, PutVerified, records, provider
<1>4. attested \subseteq attested'
  BY RecordCases DEF RecordsKept, ReadCostItem, PutIntent, PutTransaction, FailIntent,
       ConfirmIntent, ProviderReports, PutEvidence, PutVerified, records
<1>5. ASSUME NEW n \in Intents, intents[n] # None
      PROVE  intents'[n] # None /\ ItemOf(n)' = ItemOf(n)
  <2>1. CASE intents' = intents
    BY <1>5, <2>1 DEF ItemOf
  <2>2. ASSUME NEW r \in Requests, PutIntent(r)
        PROVE  intents'[n] # None /\ ItemOf(n)' = ItemOf(n)
    <3>1. /\ req[r].step = "put_intent" /\ req[r].intent \in Intents
          /\ req[r].item \in Items /\ req[r].key \in Keys
      BY <2>2 DEF PutIntent, At, CreateSteps, RequestsOK, RequestOK, Request
    <3> DEFINE new == [item |-> req[r].item, key |-> req[r].key, status |-> "pending"]
    <3>2. new \in IntentRecord /\ new.item = req[r].item
      BY <3>1 DEF IntentRecord
    <3> HIDE DEF new
    <3>3. intents' = [intents EXCEPT ![req[r].intent] = new]
      BY <2>2 DEF PutIntent, new
    <3>4. n = req[r].intent => new.item = ItemOf(n)
      BY <1>5, <3>1, <3>2 DEF ProvenanceInv, CreationInv
    <3> QED
      BY <1>5, <3>1, <3>2, <3>3, <3>4, RecordAssumption DEF RecordsOK, ItemOf
  <2>3. ASSUME NEW r \in Requests, FailIntent(r) \/ ConfirmIntent(r)
        PROVE  intents'[n] # None /\ ItemOf(n)' = ItemOf(n)
    <3>1. PICK status \in {"failed", "confirmed"} :
             intents' = [intents EXCEPT ![req[r].intent].status = status]
      BY <2>3 DEF FailIntent, ConfirmIntent
    <3>2. intents[n] \in IntentRecord
      BY <1>5 DEF RecordsOK
    <3>3. [intents[n] EXCEPT !.status = status] \in IntentRecord
      BY <3>2 DEF IntentRecord
    <3>4. intents'[n] = intents[n] \/ intents'[n] = [intents[n] EXCEPT !.status = status]
      BY <3>1 DEF RecordsOK
    <3> QED
      BY <1>5, <3>2, <3>3, <3>4, RecordAssumption DEF ItemOf, IntentRecord
  <2> QED
    BY <2>1, <2>2, <2>3, RecordCases DEF RecordsKept, ReadCostItem, PutTransaction,
       ProviderReports, PutEvidence, PutVerified, records
<1> QED
  BY <1>2, <1>3, <1>4, <1>5 DEF Growth

\* Keys, due intents and payments of a journal stay.
LEMMA KeysStay ==
    ASSUME NEW S, NEW short \in Seq(S), NEW long \in Seq(S), Begins(short, long), NEW key
    PROVE  HasKey(short, key) => HasKey(long, key)
  BY DEF HasKey, Begins

\* An intent that is due stays due.
LEMMA DueStays ==
    ASSUME TypeOK, Growth
    PROVE  BookDue \subseteq BookDue'
<1> SUFFICES ASSUME NEW n \in BookDue PROVE n \in BookDue'
  OBVIOUS
<1>1. n \in Intents /\ intents[n] # None /\ intents'[n] # None /\ ItemOf(n)' = ItemOf(n)
  BY DEF BookDue, Growth
<1>2. Item[ItemOf(n)].milestone # None /\ Item[ItemOf(n)].milestone \in attested'
  BY DEF BookDue, Growth
<1> QED
  BY <1>1, <1>2 DEF BookDue

\* An intent that is paid in the snapshot stays paid.
LEMMA PaidStays ==
    ASSUME TypeOK, TypeOK', Growth
    PROVE  PaidIntents \subseteq PaidIntents'
<1> SUFFICES ASSUME NEW n \in Intents, NEW t \in Txns, t \in PaymentsIn(storedEntries, n)
             PROVE  t \in PaymentsIn(storedEntries, n)'
  BY DEF PaidIntents, PaymentsIn
<1>1. HasKey(storedEntries', ConfirmKey(t))
  BY KeysStay DEF PaymentsIn, TypeOK, LedgerOK, Growth
<1>2. \E w \in transactions' : w.txn = t /\ w.intent = n
  BY DEF PaymentsIn, Growth
<1> QED
  BY <1>1, <1>2 DEF PaymentsIn, HasKey

\* A recorded webhook's cost item stays the same.
LEMMA HookItemStays ==
    ASSUME TypeOK, ProvenanceInv, Growth, NEW w \in transactions
    PROVE  /\ w \in Webhooks /\ w.intent \in Intents /\ intents[w.intent] # None
           /\ ItemOf(w.intent) \in Items /\ ItemOf(w.intent)' = ItemOf(w.intent)
<1>1. w \in Webhooks /\ w.intent \in Intents /\ intents[w.intent] # None
  BY RecordAssumption DEF TypeOK, RecordsOK, Webhook, ProvenanceInv
<1> QED
  BY <1>1 DEF Growth, TypeOK, RecordsOK, ItemOf, IntentRecord

\* An entry stays genuine, in its place of any journal with the same beginning.
LEMMA EntryStays ==
    ASSUME TypeOK, ProvenanceInv, Growth, NEW log, NEW long, NEW x \in Nat,
           \A y \in 1..x : long[y] = log[y], x > 0, GenuineAt(log, x)
    PROVE  GenuineAt(long, x)'
<1>1. long[x] = log[x] /\ \A y \in 1..(x - 1) : long[y] = log[y]
  OBVIOUS
<1>2. CASE \E w \in transactions : log[x] = ConfirmEntry(ItemOf(w.intent), w)
  <2>1. PICK w \in transactions : log[x] = ConfirmEntry(ItemOf(w.intent), w)
    BY <1>2
  <2>2. w \in transactions' /\ ItemOf(w.intent)' = ItemOf(w.intent)
    BY HookItemStays DEF Growth
  <2>3. long[x] = ConfirmEntry(ItemOf(w.intent)', w)
    BY <1>1, <2>1, <2>2
  <2> QED
    BY <2>2, <2>3 DEF GenuineAt, ItemOf, ConfirmEntry
<1>3. CASE \E n \in BookDue : /\ log[x] = ReleaseEntry(ItemOf(n), n)
                              /\ \E y \in 1..(x - 1) : PaymentKey(log[y].key, n)
  <2>1. PICK n \in BookDue : /\ log[x] = ReleaseEntry(ItemOf(n), n)
                             /\ \E y \in 1..(x - 1) : PaymentKey(log[y].key, n)
    BY <1>3
  <2>2. n \in BookDue' /\ ItemOf(n)' = ItemOf(n)
    BY DueStays DEF Growth, BookDue
  <2>3. \E y \in 1..(x - 1) : PaymentKey(long[y].key, n)'
    BY <1>1, <2>1 DEF PaymentKey, Growth
  <2>4. long[x] = ReleaseEntry(ItemOf(n)', n)
    BY <1>1, <2>1, <2>2
  <2> QED
    BY <2>2, <2>3, <2>4 DEF GenuineAt, ItemOf, ReleaseEntry
<1> QED
  BY <1>2, <1>3 DEF GenuineAt

-------------------------------------------------------------------------------
(* What has been posted when a settlement goes on.                         *)

\* The posting of a payment that goes on succeeded, or was done before.
LEMMA PaymentPosted ==
    ASSUME NEW r \in Requests, PostPayment(r), ~Done(r)
    PROVE  /\ HasKey(entries', ConfirmKey(req[r].hook.txn))
           /\ \E opened : req' = [req EXCEPT ![r].step = "flush_accounts", ![r].opened = opened]
<1>1. ConfirmEntry(ItemOf(req[r].intent), req[r].hook).key = ConfirmKey(req[r].hook.txn)
  BY DEF ConfirmEntry
<1> QED
  BY <1>1 DEF PostPayment

\* The posting of a release that goes on succeeded, or was done before.
LEMMA ReleasePosted ==
    ASSUME NEW r \in Requests, PostRelease(r), ~Done(r)
    PROVE  /\ HasKey(entries', ReleaseKey(req[r].intent))
           /\ \E opened : req' = [req EXCEPT ![r].step = "flush_accounts", ![r].opened = opened]
<1>1. ReleaseEntry(ItemOf(req[r].intent), req[r].intent).key = ReleaseKey(req[r].intent)
  BY DEF ReleaseEntry
<1> QED
  BY <1>1 DEF PostRelease

-------------------------------------------------------------------------------
(* Every entry is a payment on record or an earned release.                *)

\* A journal that is the beginning of one whose entries are genuine.
LEMMA BeginningStays ==
    ASSUME TypeOK, ProvenanceInv, Growth, NEW S, NEW log \in Seq(S), NEW short \in Seq(S),
           Genuine(log), Begins(short, log)
    PROVE  Genuine(short)'
<1> SUFFICES ASSUME NEW x \in DOMAIN short PROVE GenuineAt(short, x)'
  BY DEF Genuine
<1>1. /\ x \in Nat /\ x > 0 /\ \A y \in 1..x : short[y] = log[y]
      /\ x \in DOMAIN log
  BY DEF Begins
<1>2. GenuineAt(log, x)
  BY <1>1 DEF Genuine
<1> QED
  BY <1>1, <1>2, EntryStays

\* What PostPayment and PostRelease append is genuine.
LEMMA AppendedIsGenuine ==
    ASSUME TypeOK, TypeOK', LogInv, SettlementInv, Growth, LogAppend,
           NEW z \in Nat, z = Len(entries) + 1
    PROVE  GenuineAt(entries, z)'
<1> USE DEF TypeOK, SettlementInv
<1>1. /\ entries \in Seq(JournalEntry) /\ entries' \in Seq(JournalEntry)
      /\ storedEntries \in Seq(JournalEntry) /\ Begins(storedEntries, entries)
  BY DEF LedgerOK, LogInv, LogAppend
<1>2. ASSUME NEW e, Appends(e)
      PROVE  /\ entries'[z] = e /\ \A y \in 1..Len(entries) : entries'[y] = entries[y]
             /\ Len(entries) \in Nat
  BY <1>1, <1>2 DEF Appends
<1>3. ASSUME NEW r \in Requests, PostPayment(r),
             Appends(ConfirmEntry(ItemOf(req[r].intent), req[r].hook))
      PROVE  GenuineAt(entries, z)'
  <2>1. PICK w \in transactions : w = req[r].hook /\ w.intent = req[r].intent
    <3>1. req[r].step = "post_payment"
      BY <1>3 DEF PostPayment, At
    <3> QED
      BY <3>1, HookOf DEF WebhookSteps, ProgressInv, Progress, HookTaken
  <2>2. w \in transactions' /\ ItemOf(w.intent)' = ItemOf(w.intent)
    BY HookItemStays DEF Growth
  <2>3. entries'[z] = ConfirmEntry(ItemOf(w.intent), w)
    BY <1>2, <1>3, <2>1
  <2>4. entries'[z] = ConfirmEntry(ItemOf(w.intent)', w)
    BY <2>2, <2>3
  <2> QED
    BY <2>2, <2>4 DEF GenuineAt, ItemOf, ConfirmEntry
<1>4. ASSUME NEW r \in Requests, PostRelease(r),
             Appends(ReleaseEntry(ItemOf(req[r].intent), req[r].intent))
      PROVE  GenuineAt(entries, z)'
  <2>1. PICK n \in Intents : n = req[r].intent /\ n \in BookDue /\ n \in PaidIntents
    BY <1>4 DEF PostRelease, At, ProgressInv, Progress, BookDue
  <2>2. n \in BookDue' /\ ItemOf(n)' = ItemOf(n)
    BY <2>1, DueStays DEF Growth, BookDue
  <2>3. PICK w \in transactions : w.intent = n /\ HasKey(storedEntries, ConfirmKey(w.txn))
    BY <2>1 DEF PaidIntents, PaymentsIn
  <2>4. PICK y \in 1..Len(entries) : entries[y].key = ConfirmKey(w.txn)
    BY <1>1, <2>3 DEF HasKey, Begins
  <2>5. y \in 1..(z - 1) /\ entries'[y].key = ConfirmKey(w.txn)
    BY <1>2, <1>4, <2>4
  <2>6. \E y_1 \in 1..(z - 1) : PaymentKey(entries[y_1].key, n)'
    BY <2>3, <2>5 DEF PaymentKey, Growth
  <2>7. entries'[z] = ReleaseEntry(ItemOf(n)', n)
    BY <1>2, <1>4, <2>1, <2>2
  <2> QED
    BY <2>2, <2>6, <2>7 DEF GenuineAt, ItemOf, ReleaseEntry
<1> QED
  BY <1>3, <1>4 DEF LogAppend

\* Every step keeps both logs genuine.
LEMMA GenuineStep ==
    ASSUME TypeOK, TypeOK', LogInv, LogInv', SettlementInv, Growth, [Next]_vars
    PROVE  GenuineInv'
<1> USE DEF SettlementInv, GenuineInv
<1>1. /\ entries \in Seq(JournalEntry) /\ entries' \in Seq(JournalEntry)
      /\ storedEntries \in Seq(JournalEntry) /\ storedEntries' \in Seq(JournalEntry)
  BY DEF TypeOK, LedgerOK
<1>2. ASSUME NEW log \in {entries, storedEntries}, Begins(entries', log)
      PROVE  Genuine(entries)'
  BY <1>1, <1>2, BeginningStays DEF Genuine, GenuineAt, PaymentKey
<1>3. ASSUME NEW log \in {entries, storedEntries}, Begins(storedEntries', log)
      PROVE  Genuine(storedEntries)'
  BY <1>1, <1>3, BeginningStays DEF Genuine, GenuineAt, PaymentKey
<1>4. Begins(entries, entries) /\ Begins(storedEntries, storedEntries)
  BY <1>1 DEF Begins
<1>5. CASE LogUnchanged
  BY <1>2, <1>3, <1>4, <1>5 DEF LogUnchanged
<1>6. CASE LogAppend
  <2>1. Genuine(storedEntries)'
    BY <1>3, <1>4, <1>6 DEF LogAppend
  <2>2. PICK z \in Nat : z = Len(entries) + 1
    BY <1>1
  <2>3. DOMAIN entries' = 1..z /\ \A y \in 1..Len(entries) : entries'[y] = entries[y]
    BY <1>1, <1>6, <2>2 DEF LogAppend, Appends
  <2>4. GenuineAt(entries, z)'
    BY <1>6, <2>2, AppendedIsGenuine
  <2>5. ASSUME NEW x \in 1..Len(entries) PROVE GenuineAt(entries, x)'
    <3>1. x \in Nat /\ x > 0 /\ \A y \in 1..x : entries'[y] = entries[y]
      BY <1>1, <2>3
    <3>2. GenuineAt(entries, x)
      BY <1>1 DEF Genuine
    <3> QED
      BY <3>1, <3>2, EntryStays DEF GenuineAt, PaymentKey
  <2>6. \A x \in DOMAIN entries' : GenuineAt(entries, x)'
    <3>1. \A x \in DOMAIN entries' : x = z \/ x \in 1..Len(entries)
      BY <1>1, <2>2, <2>3
    <3> QED
      BY <2>4, <2>5, <3>1 DEF GenuineAt, PaymentKey
  <2> QED
    BY <2>1, <2>6 DEF Genuine
<1>7. CASE LogFlush
  <2>1. entries' = entries /\ Begins(storedEntries', entries)
    BY <1>7 DEF LogFlush, LogInv
  <2> QED
    BY <1>2, <1>3, <1>4, <2>1
<1>8. CASE LogLost
  <2>1. entries' = << >> /\ storedEntries' = storedEntries /\ Begins(<< >>, entries)
    BY <1>1, <1>8 DEF LogLost, Begins
  <2> QED
    BY <1>2, <1>3, <1>4, <2>1
<1>9. CASE LogReloaded
  BY <1>2, <1>3, <1>4, <1>9 DEF LogReloaded
<1> QED
  BY <1>5, <1>6, <1>7, <1>8, <1>9, LogCases

-------------------------------------------------------------------------------
(* What a request has got done.                                            *)

\* The webhook a request has taken up stays the one of its intent and item.
LEMMA HookKept ==
    ASSUME TypeOK, SettlementInv, Growth, NEW r \in Requests,
           req[r].hook # None, req[r].step # "read_intent",
           req'[r].hook = req[r].hook, req'[r].intent = req[r].intent,
           req[r].step = "put_transaction" =>
               req'[r].step = "put_transaction" \/ req[r].hook \in transactions'
    PROVE  HookTaken(req[r])'
<1> USE DEF TypeOK, SettlementInv
<1>1. HookTaken(req[r])
  BY DEF ProgressInv, Progress
<1>2. req[r].intent \in Intents /\ intents[req[r].intent] # None
  <2>1. CASE req[r].step = "put_transaction"
    BY <2>1, IntentOf, RecordAssumption DEF WebhookSteps
  <2>2. CASE req[r].step # "put_transaction"
    <3>1. req[r].hook \in transactions /\ req[r].intent = req[r].hook.intent
      BY <1>1, <2>2 DEF HookTaken, RequestsOK, RequestOK
    <3> QED
      BY <3>1, HookItemStays
  <2> QED
    BY <2>1, <2>2
<1>3. ItemOf(req[r].intent)' = ItemOf(req[r].intent)
  <2>1. intents'[req[r].intent].item = intents[req[r].intent].item
    BY <1>2 DEF Growth, ItemOf
  <2> QED
    BY <2>1 DEF ItemOf
<1> QED
  BY <1>1, <1>3 DEF HookTaken, Growth, ItemOf

\* A request to release an intent keeps its reasons.
LEMMA ReasonKept ==
    ASSUME TypeOK, TypeOK', Growth, NEW n \in PaidIntents, intents[n] # None
    PROVE  n \in PaidIntents' /\ Item[ItemOf(n)'] = Item[ItemOf(n)]
  BY PaidStays DEF PaidIntents, Growth

\* A request that does not move has still done it.
LEMMA ProgressStays ==
    ASSUME TypeOK, TypeOK', SettlementInv, Growth, NEW r \in Requests,
           req'[r] = req[r], (up /\ up') \/ req[r].step = "idle"
    PROVE  Progress(req[r])'
<1> USE DEF TypeOK, SettlementInv
<1>1. /\ Progress(req[r]) /\ req[r] \in Request /\ RequestOK(req[r])
      /\ entries \in Seq(JournalEntry) /\ entries' \in Seq(JournalEntry)
      /\ storedEntries \in Seq(JournalEntry) /\ storedEntries' \in Seq(JournalEntry)
  BY DEF ProgressInv, RequestsOK, LedgerOK
<1>2. KeyOf(req[r])' = KeyOf(req[r])
  BY DEF KeyOf, ConfirmKey, ReleaseKey
<1>3. ASSUME req[r].hook # None PROVE HookTaken(req[r])'
  <2>1. CASE req[r].step = "read_intent"
    BY <2>1 DEF HookTaken
  <2>2. CASE req[r].step # "read_intent"
    BY <1>3, <2>2, HookKept
  <2> QED
    BY <2>1, <2>2
<1>4. ASSUME req[r].step = "flush_accounts" PROVE HasKey(entries', KeyOf(req[r]))
  BY <1>1, <1>4, KeysStay DEF Progress, Growth
<1>5. ASSUME req[r].step = "flush_entries"
      PROVE  \E x \in 1..req[r].length : entries'[x].key = KeyOf(req[r])
  BY <1>1, <1>5 DEF Progress, RequestOK, Request, Growth, Begins
<1>6. ASSUME req[r].step \in {"confirm_intent", "item_paid", "close_payment", "close_release"}
      PROVE  HasKey(storedEntries', KeyOf(req[r]))
  BY <1>1, <1>6, KeysStay DEF Progress, Growth
<1>7. ASSUME req[r].step \in {"read_milestone", "post_release"}
      PROVE  /\ req[r].intent \in PaidIntents'
             /\ Item[ItemOf(req[r].intent)'].milestone # None
             /\ req[r].step = "post_release" => req[r].intent \in BookDue'
  <2>1. /\ req[r].intent \in PaidIntents /\ Item[ItemOf(req[r].intent)].milestone # None
        /\ req[r].step = "post_release" => req[r].intent \in BookDue
    BY <1>1, <1>7 DEF Progress
  <2>2. PICK n \in PaidIntents : n = req[r].intent /\ intents[n] # None
    BY <1>1, <1>7, <2>1 DEF RequestOK, ReleaseSteps
  <2>3. ItemOf(n)' = intents'[n].item /\ ItemOf(req[r].intent)' = intents'[n].item
    BY <2>2 DEF ItemOf
  <2> QED
    BY <2>1, <2>2, <2>3, ReasonKept, DueStays DEF ItemOf
<1> QED
  BY <1>2, <1>3, <1>4, <1>5, <1>6, <1>7 DEF Progress, HasKey

\* A step of one request: the others keep what they have achieved.
LEMMA OneProgresses ==
    ASSUME TypeOK, TypeOK', SettlementInv, Growth, up, up',
           NEW r \in Requests, Moves(r), Progress(req[r])'
    PROVE  ProgressInv'
<1> SUFFICES ASSUME NEW s \in Requests PROVE Progress(req[s])'
  BY DEF ProgressInv
<1>1. CASE s = r
  BY <1>1
<1>2. CASE s # r
  <2>1. req'[s] = req[s]
    BY <1>2 DEF Moves, TypeOK, RequestsOK
  <2> QED
    BY <2>1, ProgressStays
<1> QED
  BY <1>1, <1>2

\* A request that ends owes nothing.
LEMMA EndedProgress ==
    ASSUME TypeOK, NEW r \in Requests, Done(r)
    PROVE  Moves(r) /\ Progress(req[r])'
  BY DoneMoves DEF TypeOK, RequestsOK, Progress

\* createIntent and the steps of handleWebhook without a flush.
LEMMA PlainProgress ==
    ASSUME TypeOK, SettlementInv, Growth, NEW r \in Requests, NEW s \in Steps,
           Go(r, s),
           s \in {"put_intent", "authorize_item", "item_due", "post_payment", "fail_intent"},
           req[r].step # "read_intent",
           req[r].step = "put_transaction" => req[r].hook \in transactions'
    PROVE  Moves(r) /\ Progress(req[r])'
<1>1. /\ Moves(r) /\ req'[r].step = s
      /\ req'[r].hook = req[r].hook /\ req'[r].intent = req[r].intent
  BY GoMoves DEF TypeOK, RequestsOK
<1>2. ASSUME req'[r].hook # None PROVE HookTaken(req[r])'
  BY <1>1, <1>2, HookKept
<1> QED
  BY <1>1, <1>2 DEF Progress

\* Reading the intent achieves nothing more yet.
LEMMA ReadIntentProgress ==
    ASSUME TypeOK, SettlementInv, Growth, NEW r \in Requests, ReadIntent(r)
    PROVE  Moves(r) /\ Progress(req[r])'
<1>1. CASE Done(r)
  BY <1>1, EndedProgress
<1>2. CASE /\ req[r].hook.amount = Item[ItemOf(req[r].intent)].amount
           /\ intents' = intents /\ Go(r, "put_transaction")
  <2>1. /\ Moves(r) /\ req'[r].step = "put_transaction"
        /\ req'[r].hook = req[r].hook /\ req'[r].intent = req[r].intent
    BY <1>2, GoMoves DEF TypeOK, RequestsOK, Steps, WebhookSteps
  <2> QED
    BY <1>2, <2>1 DEF Progress, HookTaken, ItemOf
<1> QED
  BY <1>1, <1>2 DEF ReadIntent, records

\* The flush and the writes that follow it.
LEMMA PostedProgress ==
    ASSUME TypeOK, TypeOK', SettlementInv, Growth, NEW r \in Requests,
           \/ PostPayment(r)
           \/ PostRelease(r)
    PROVE  Moves(r) /\ Progress(req[r])'
<1>1. CASE Done(r)
  BY <1>1, EndedProgress
<1>2. CASE PostPayment(r) /\ ~Done(r)
  <2>1. /\ Moves(r) /\ req'[r].step = "flush_accounts"
        /\ req'[r].hook = req[r].hook /\ req'[r].intent = req[r].intent
    <3>1. PICK opened : req' = [req EXCEPT ![r].step = "flush_accounts", ![r].opened = opened]
      BY <1>2, PaymentPosted
    <3> QED
      BY <3>1 DEF Moves, TypeOK, RequestsOK, Request
  <2>2. req[r].hook # None /\ HasKey(entries', ConfirmKey(req[r].hook.txn))
    BY <1>2, PaymentPosted, HookOf DEF PostPayment, At, WebhookSteps, TypeOK, SettlementInv
  <2>3. HookTaken(req[r])'
    BY <1>2, <2>1, <2>2, HookKept DEF PostPayment, At
  <2> QED
    BY <2>1, <2>2, <2>3 DEF Progress, KeyOf, HasKey, ConfirmKey
<1>3. CASE PostRelease(r) /\ ~Done(r)
  <2>1. /\ Moves(r) /\ req'[r].step = "flush_accounts"
        /\ req'[r].hook = req[r].hook /\ req'[r].intent = req[r].intent
    <3>1. PICK opened : req' = [req EXCEPT ![r].step = "flush_accounts", ![r].opened = opened]
      BY <1>3, ReleasePosted
    <3> QED
      BY <3>1 DEF Moves, TypeOK, RequestsOK, Request
  <2>2. req[r].hook = None /\ HasKey(entries', ReleaseKey(req[r].intent))
    BY <1>3, <2>1, ReleasePosted
    DEF PostRelease, At, ReleaseSteps, TypeOK, RequestsOK, RequestOK, SettlementInv
  <2> QED
    BY <2>1, <2>2 DEF Progress, KeyOf, HasKey, ReleaseKey
<1> QED
  BY <1>1, <1>2, <1>3

\* A flush puts into the snapshot what the request posted.
LEMMA FlushProgress ==
    ASSUME TypeOK, TypeOK', LogInv, SettlementInv, Growth, NEW r \in Requests,
           FlushAccounts(r) \/ FlushEntries(r)
    PROVE  Moves(r) /\ Progress(req[r])'
<1> USE DEF TypeOK, SettlementInv
<1>1. /\ entries' = entries /\ up
      /\ entries \in Seq(JournalEntry) /\ storedEntries \in Seq(JournalEntry)
      /\ Progress(req[r]) /\ RequestOK(req[r]) /\ req[r] \in Request
  BY DEF FlushAccounts, FlushEntries, ledger, At, LedgerOK, ProgressInv, RequestsOK
<1>2. CASE FlushAccounts(r)
  <2>1. /\ Moves(r) /\ req'[r].step = "flush_entries" /\ req'[r].length = Len(entries)
        /\ req'[r].hook = req[r].hook /\ req'[r].intent = req[r].intent
    BY <1>2 DEF FlushAccounts, Moves, RequestsOK, Request
  <2>2. HasKey(entries, KeyOf(req[r])) /\ KeyOf(req[r])' = KeyOf(req[r])
    <3>1. KeyOf(req[r])' = KeyOf(req[r])
      BY <2>1 DEF KeyOf, ConfirmKey, ReleaseKey
    <3> QED
      BY <1>1, <1>2, <3>1 DEF FlushAccounts, At, Progress
  <2>3. \E x \in 1..Len(entries) : entries'[x].key = KeyOf(req[r])
    BY <1>1, <2>2 DEF HasKey
  <2>4. ASSUME req'[r].hook # None PROVE HookTaken(req[r])'
    BY <1>2, <2>1, <2>4, HookKept DEF FlushAccounts, At
  <2> QED
    BY <2>1, <2>2, <2>3, <2>4 DEF Progress
<1>3. CASE FlushEntries(r)
  <2>1. /\ Moves(r) /\ req'[r].step = IF req[r].hook # None THEN "confirm_intent" ELSE "close_release"
        /\ req'[r].hook = req[r].hook /\ req'[r].intent = req[r].intent
    BY <1>3 DEF FlushEntries, Go, Moves, RequestsOK, Request
  <2>2. req[r].step = "flush_entries" /\ KeyOf(req[r])' = KeyOf(req[r])
    BY <1>1, <1>3, <2>1 DEF FlushEntries, At, Progress, KeyOf, ConfirmKey, ReleaseKey
  <2>3. PICK x \in 1..req[r].length : entries[x].key = KeyOf(req[r])
    BY <1>1, <2>2 DEF Progress
  <2>4. /\ storedEntries' = StoredWith(req[r].length) /\ req[r].length \in Nat
        /\ req[r].length <= Len(entries)
    BY <1>1, <1>3, <2>2 DEF FlushEntries, RequestOK, Request
  <2>5. /\ storedEntries' \in Seq(JournalEntry) /\ Begins(storedEntries', entries)
        /\ req[r].length <= Len(storedEntries')
    BY <1>1, <2>4, Flushed DEF LogInv
  <2>6. x \in DOMAIN storedEntries' /\ storedEntries'[x] = entries[x]
    BY <2>4, <2>5 DEF Begins
  <2>7. HasKey(storedEntries', KeyOf(req[r]))
    BY <2>3, <2>6 DEF HasKey
  <2>8. ASSUME req'[r].hook # None PROVE HookTaken(req[r])'
    BY <1>3, <2>1, <2>8, HookKept DEF FlushEntries, At
  <2> QED
    BY <2>1, <2>2, <2>7, <2>8 DEF Progress, HasKey
<1> QED
  BY <1>2, <1>3

\* Confirming keeps the payment in the snapshot.
LEMMA ConfirmProgress ==
    ASSUME TypeOK, TypeOK', SettlementInv, Growth, NEW r \in Requests,
           ConfirmIntent(r) \/ ItemPaid(r)
    PROVE  Moves(r) /\ Progress(req[r])'
<1>1. /\ req[r].step \in {"confirm_intent", "item_paid"} /\ Progress(req[r])
      /\ storedEntries' = storedEntries
  BY DEF ConfirmIntent, ItemPaid, At, snapshot, SettlementInv, ProgressInv
<1>2. /\ Moves(r) /\ req'[r].step \in {"item_paid", "close_payment"}
      /\ req'[r].hook = req[r].hook /\ req'[r].intent = req[r].intent
  BY GoMoves DEF ConfirmIntent, ItemPaid, TypeOK, RequestsOK, Steps, WebhookSteps
<1>3. HasKey(storedEntries', KeyOf(req[r])) /\ KeyOf(req[r])' = KeyOf(req[r])
  BY <1>1, <1>2 DEF Progress, KeyOf, ConfirmKey, ReleaseKey
<1>4. ASSUME req'[r].hook # None PROVE HookTaken(req[r])'
  BY <1>1, <1>2, <1>4, HookKept
<1> QED
  BY <1>2, <1>3, <1>4 DEF Progress, HasKey

\* Requests that begin.
LEMMA BegunProgress ==
    ASSUME TypeOK, TypeOK', SettlementInv, Growth, NEW r \in Requests
    PROVE  /\ \A u \in Users, i \in Items, k \in Keys, n \in Intents :
                 CreateIntent(r, u, i, k, n) => Moves(r) /\ Progress(req[r])'
           /\ \A w \in sent : Deliver(r, w) => ProgressInv'
           /\ \A n \in Intents :
                 ReleaseSettlement(r, n) => Moves(r) /\ Progress(req[r])'
           /\ \A m \in Milestones :
                 SubmitEvidence(r, m) \/ VerifyMilestone(r, m) => Moves(r) /\ Progress(req[r])'
           /\ ReadMilestone(r) => Moves(r) /\ Progress(req[r])'
<1> USE DEF TypeOK, SettlementInv
<1>1. ASSUME NEW u \in Users, NEW i \in Items, NEW k \in Keys, NEW n \in Intents,
             CreateIntent(r, u, i, k, n)
      PROVE  Moves(r) /\ Progress(req[r])'
  <2>1. Moves(r) /\ req'[r].step = "read_item" /\ req'[r].hook = None
    BY <1>1 DEF CreateIntent, Moves, Blank, RequestsOK
  <2> QED
    BY <2>1 DEF Progress
<1>2. ASSUME NEW w \in sent, Deliver(r, w)
      PROVE  ProgressInv'
  <2>1. up /\ up'
    BY <1>2 DEF Deliver, Idle
  <2>2. CASE req' = req
    BY <2>1, <2>2, ProgressStays DEF ProgressInv
  <2>3. CASE req' # req
    <3>1. Moves(r) /\ req'[r].step = "read_intent"
      BY <1>2, <2>3 DEF Deliver, Moves, Blank, RequestsOK
    <3>2. Progress(req[r])'
      BY <3>1 DEF Progress, HookTaken
    <3> QED
      BY <2>1, <3>1, <3>2, OneProgresses
  <2> QED
    BY <2>2, <2>3
<1>3. ASSUME NEW n \in Intents, ReleaseSettlement(r, n)
      PROVE  Moves(r) /\ Progress(req[r])'
  <2>1. /\ Moves(r) /\ req'[r].step = "read_milestone"
        /\ req'[r].intent = n /\ req'[r].hook = None
    BY <1>3 DEF ReleaseSettlement, Moves, Blank, RequestsOK
  <2>2. n \in PaidIntents /\ Item[ItemOf(n)].milestone # None /\ intents[n] # None
    BY <1>3 DEF ReleaseSettlement, ConfirmedIsDurable, PaidIntents
  <2>3. n \in PaidIntents' /\ Item[ItemOf(n)'].milestone # None
    BY <2>2, ReasonKept
  <2> QED
    BY <2>1, <2>3 DEF Progress, ItemOf
<1>4. ASSUME ReadMilestone(r)
      PROVE  Moves(r) /\ Progress(req[r])'
  <2>1. CASE Done(r)
    BY <2>1, EndedProgress
  <2>2. CASE ~Done(r)
    <3> DEFINE n == req[r].intent
               m == Item[ItemOf(n)].milestone
    <3>1. /\ req[r].step = "read_milestone" /\ Go(r, "post_release")
          /\ milestones[m].status = "verified"
          /\ UNCHANGED <<intents, attested, transactions, storedEntries>>
      BY <1>4, <2>2 DEF ReadMilestone, At, records, snapshot
    <3>2. /\ Moves(r) /\ req'[r].step = "post_release"
          /\ req'[r].hook = req[r].hook /\ req'[r].intent = n
      BY <3>1, GoMoves DEF RequestsOK, Steps, ReleaseSteps
    <3>3. n \in PaidIntents /\ m # None /\ n \in Intents /\ intents[n] # None /\ ItemOf(n) \in Items
      BY <3>1, IntentOf, RecordAssumption DEF ProgressInv, Progress, ReleaseSteps
    <3>4. m \in Milestones
      BY <3>3, PaymentsAssumption DEF ItemAttributes
    <3>5. n \in BookDue
      BY <3>1, <3>3, <3>4 DEF BookDue, ProvenanceInv
    <3>6. req[r].hook = None
      BY <3>1 DEF RequestsOK, RequestOK, ReleaseSteps
    <3>7. /\ req'[r].intent \in PaidIntents' /\ req'[r].intent \in BookDue'
          /\ ItemOf(req[r].intent)' = ItemOf(n)
      BY <3>1, <3>2, <3>3, <3>5 DEF PaidIntents, PaymentsIn, BookDue, ItemOf
    <3> QED
      BY <3>2, <3>3, <3>6, <3>7 DEF Progress
  <2> QED
    BY <2>1, <2>2
<1>5. ASSUME NEW m \in Milestones, SubmitEvidence(r, m) \/ VerifyMilestone(r, m)
      PROVE  Moves(r) /\ Progress(req[r])'
  <2>1. /\ Moves(r) /\ req'[r].step \in {"put_evidence", "put_verified"}
        /\ req'[r].hook = None
    BY <1>5 DEF SubmitEvidence, VerifyMilestone, Moves, Blank, RequestsOK
  <2> QED
    BY <2>1 DEF Progress
<1> QED
  BY <1>1, <1>2, <1>3, <1>4, <1>5

\* Every step keeps what each request has achieved by the step it is at.
LEMMA ProgressStep ==
    ASSUME TypeOK, TypeOK', LogInv, SettlementInv, Growth, [Next]_vars
    PROVE  ProgressInv'
<1> USE DEF Steps, CreateSteps, WebhookSteps
<1>1. ASSUME NEW r \in Requests, Continue(r)
      PROVE  up /\ up' /\ Moves(r) /\ Progress(req[r])'
  <2>1. up /\ up'
    <3>1. CASE ReadCostItem(r) \/ PutIntent(r) \/ AuthorizeItem(r)
      BY <3>1 DEF ReadCostItem, PutIntent, AuthorizeItem, At
    <3>2. CASE ReadIntent(r) \/ PutTransaction(r) \/ FailIntent(r) \/ ItemDue(r)
      <4>1. up' = up /\ up = TRUE
        BY <3>2 DEF ReadIntent, PutTransaction, FailIntent, ItemDue, At, TypeOK, RequestsOK
      <4> QED
        BY <4>1
    <3>3. CASE PostPayment(r) \/ ConfirmIntent(r) \/ ItemPaid(r) \/ ClosePayment(r)
      BY <3>3 DEF PostPayment, ConfirmIntent, ItemPaid, ClosePayment, At
    <3>4. CASE FlushAccounts(r) \/ FlushEntries(r)
      BY <3>4 DEF FlushAccounts, FlushEntries, At
    <3>5. CASE ReadMilestone(r) \/ PostRelease(r) \/ CloseRelease(r)
      BY <3>5 DEF ReadMilestone, PostRelease, CloseRelease, At
    <3>6. CASE PutEvidence(r) \/ PutVerified(r)
      BY <3>6 DEF PutEvidence, PutVerified, At
    <3> QED
      BY <1>1, <3>1, <3>2, <3>3, <3>4, <3>5, <3>6 DEF Continue
  <2>2. CASE Done(r)
    BY <2>1, <2>2, EndedProgress
  <2>3. CASE ReadCostItem(r) \/ PutIntent(r) \/ FailIntent(r)
    <3>1. \/ Done(r)
          \/ \E s \in {"put_intent", "authorize_item", "item_due"} : Go(r, s)
      BY <2>3 DEF ReadCostItem, PutIntent, FailIntent
    <3>2. req[r].step \notin {"read_intent", "put_transaction"}
      BY <2>3 DEF ReadCostItem, PutIntent, FailIntent, At
    <3> QED
      BY <2>1, <2>2, <3>1, <3>2, PlainProgress
  <2>4. CASE \/ AuthorizeItem(r) \/ ItemDue(r) \/ ClosePayment(r) \/ CloseRelease(r)
             \/ PutEvidence(r) \/ PutVerified(r)
    BY <2>2, <2>4 DEF AuthorizeItem, ItemDue, ClosePayment, CloseRelease, PutEvidence, PutVerified
  <2>5. CASE PutTransaction(r)
    <3>1. req[r].step = "put_transaction" /\ req[r].hook \in transactions'
      BY <2>5 DEF PutTransaction, At
    <3>2. req[r].hook.event \in Events
      BY <3>1, HookOf DEF TypeOK
    <3>3. Done(r) \/ \E s \in {"fail_intent", "post_payment"} : Go(r, s)
      BY <2>5, <3>2 DEF PutTransaction, Events
    <3> QED
      BY <2>1, <2>2, <3>1, <3>3, PlainProgress
  <2> QED
    BY <1>1, <2>1, <2>3, <2>4, <2>5, ReadIntentProgress, PostedProgress, FlushProgress,
       ConfirmProgress, BegunProgress DEF Continue
<1>2. ASSUME NEW r \in Requests, StorageError(r)
      PROVE  up /\ up' /\ Moves(r) /\ Progress(req[r])'
  BY <1>2, EndedProgress DEF StorageError
<1>3. ASSUME NEW r \in Requests,
             \/ \E u \in Users, i \in Items, k \in Keys, n \in Intents : CreateIntent(r, u, i, k, n)
             \/ \E n \in Intents : ReleaseSettlement(r, n)
             \/ \E m \in Milestones : SubmitEvidence(r, m) \/ VerifyMilestone(r, m)
      PROVE  up /\ up' /\ Moves(r) /\ Progress(req[r])'
  <2>1. up /\ up'
    <3>1. up' = up /\ up = TRUE
      BY <1>3 DEF CreateIntent, ReleaseSettlement, SubmitEvidence, VerifyMilestone,
                  Idle, TypeOK, RequestsOK
    <3> QED
      BY <3>1
  <2> QED
    BY <1>3, <2>1, BegunProgress
<1>4. CASE (\E w \in Webhooks : ProviderReports(w)) \/ UNCHANGED vars
  <2>1. req' = req /\ up' = up
    BY <1>4 DEF ProviderReports, vars
  <2>2. \A r \in Requests : up \/ req[r].step = "idle"
    BY DEF TypeOK, RequestsOK
  <2> QED
    BY <2>1, <2>2, ProgressStays DEF ProgressInv
<1>5. CASE Crash
  <2>1. \A r \in Requests : req'[r] = Blank
    BY <1>5 DEF Crash
  <2> QED
    BY <2>1 DEF ProgressInv, Progress, Blank
<1>6. CASE Restart
  <2>1. req' = req /\ \A r \in Requests : req[r].step = "idle"
    BY <1>6 DEF Restart, TypeOK, RequestsOK
  <2> QED
    BY <2>1, ProgressStays DEF ProgressInv
<1> QED
  BY <1>1, <1>2, <1>3, <1>4, <1>5, <1>6, OneProgresses, BegunProgress DEF Next

-------------------------------------------------------------------------------
(* Intents and their registration.                                         *)

\* Every step keeps an intent with the item it was registered for.
LEMMA ProvenanceStep ==
    ASSUME TypeOK, TypeOK', SettlementInv, Growth, [Next]_vars
    PROVE  ProvenanceInv'
<1> USE DEF TypeOK, SettlementInv
<1>1. \A n \in Intents : intents'[n] # None => registered'[n] = ItemOf(n)'
  <2> SUFFICES ASSUME NEW n \in Intents, intents'[n] # None
               PROVE  registered'[n] = intents'[n].item
    BY DEF ItemOf
  <2>1. CASE intents' = intents /\ registered' = registered
    BY <2>1 DEF ProvenanceInv, ItemOf
  <2>2. ASSUME NEW r \in Requests, ReadCostItem(r)
        PROVE  registered'[n] = intents'[n].item
    <3>1. /\ req[r].step = "read_item" /\ intents' = intents
          /\ registered' \in {registered, [registered EXCEPT ![req[r].intent] = req[r].item]}
      BY <2>2 DEF ReadCostItem, At, records
    <3>2. registered[req[r].intent] = None /\ registered[n] = intents[n].item
      BY <3>1 DEF CreationInv, ProvenanceInv, ItemOf
    <3>3. registered[n] # None
      BY <3>1, <3>2, PaymentsAssumption DEF RecordsOK, IntentRecord
    <3> QED
      BY <3>1, <3>2, <3>3 DEF RecordsOK
  <2>3. ASSUME NEW r \in Requests, PutIntent(r)
        PROVE  registered'[n] = intents'[n].item
    <3>1. /\ registered[req[r].intent] = req[r].item /\ registered' = registered
          /\ intents' = [intents EXCEPT ![req[r].intent] =
                            [item |-> req[r].item, key |-> req[r].key, status |-> "pending"]]
      BY <2>3 DEF PutIntent, At, provider, CreationInv
    <3> QED
      BY <3>1 DEF RecordsOK, ProvenanceInv, ItemOf
  <2>4. ASSUME NEW r \in Requests, FailIntent(r) \/ ConfirmIntent(r)
        PROVE  registered'[n] = intents'[n].item
    <3>1. PICK status \in {"failed", "confirmed"} :
             intents' = [intents EXCEPT ![req[r].intent].status = status]
      BY <2>4 DEF FailIntent, ConfirmIntent
    <3>2. req[r].intent \in Intents /\ intents[req[r].intent] \in IntentRecord
      BY <2>4, IntentOf DEF FailIntent, ConfirmIntent, At, WebhookSteps
    <3>3. intents[n] # None
      BY <3>1, <3>2, RecordAssumption DEF RecordsOK
    <3>4. intents'[n].item = intents[n].item
      BY <3>3 DEF Growth, ItemOf
    <3> QED
      BY <2>4, <3>3, <3>4 DEF FailIntent, ConfirmIntent, provider, ProvenanceInv, ItemOf
  <2> QED
    BY <2>1, <2>2, <2>3, <2>4, RecordCases DEF RecordsKept, PutTransaction, ProviderReports,
       PutEvidence, PutVerified, records, provider
<1>2. \A v, w \in sent' : v.txn = w.txn => v = w
  <2>1. ASSUME NEW w \in Webhooks, ProviderReports(w)
        PROVE  \A v, x \in sent' : v.txn = x.txn => v = x
    BY <2>1 DEF ProviderReports, ProvenanceInv
  <2> QED
    BY <2>1, RecordCases DEF ProvenanceInv, RecordsKept, ReadCostItem, PutIntent, PutTransaction,
       FailIntent, ConfirmIntent, PutEvidence, PutVerified, provider
<1>3. ASSUME NEW w \in transactions'
      PROVE  intents'[w.intent] # None /\ w.amount = Item[ItemOf(w.intent)'].amount
  <2>1. CASE w \in transactions
    BY <2>1, HookItemStays DEF ProvenanceInv, Growth
  <2>2. CASE w \notin transactions
    <3>1. PICK r \in Requests : PutTransaction(r) /\ w = req[r].hook
      BY <1>3, <2>2, RecordCases DEF RecordsKept, ReadCostItem, PutIntent, PutTransaction,
         FailIntent, ConfirmIntent, ProviderReports, PutEvidence, PutVerified, records
    <3>2. /\ req[r].intent \in Intents /\ intents[req[r].intent] # None
          /\ w.intent = req[r].intent /\ w # None
          /\ w.amount = Item[ItemOf(w.intent)].amount
      BY <3>1, IntentOf, HookOf, RecordAssumption
      DEF PutTransaction, At, WebhookSteps, ProgressInv, Progress, HookTaken
    <3> QED
      BY <3>2 DEF Growth
  <2> QED
    BY <2>1, <2>2
<1>4. \A m \in Milestones : milestones'[m].status = "verified" => m \in attested'
  <2>1. ASSUME NEW r \in Requests, PutEvidence(r) \/ PutVerified(r), NEW m \in Milestones,
               milestones'[m].status = "verified"
        PROVE  m \in attested'
    BY <2>1 DEF PutEvidence, PutVerified, RecordsOK, ProvenanceInv
  <2> QED
    BY <2>1, RecordCases DEF ProvenanceInv, RecordsKept, ReadCostItem, PutIntent, PutTransaction,
         FailIntent, ConfirmIntent, ProviderReports, records
<1> QED
  BY <1>1, <1>2, <1>3, <1>4 DEF ProvenanceInv, ItemOf

\* Every step keeps a request that creates an intent the only one to know of it.
LEMMA CreationStep ==
    ASSUME TypeOK, TypeOK', CreationInv, [Next]_vars
    PROVE  CreationInv'
<1> USE DEF TypeOK
<1>1. req \in [Requests -> Request] /\ registered \in [Intents -> Items \cup {None}]
  BY DEF RequestsOK, RecordsOK
<1> DEFINE Apart(s) == req'[s] = req[s] \/ req'[s].step \notin {"read_item", "put_intent"}
<1>2. CASE registered' = registered /\ \A s \in Requests : Apart(s)
  BY <1>2 DEF CreationInv
<1>3. ASSUME NEW r \in Requests, NEW s \in Steps \ {"read_item", "put_intent"}, Go(r, s) \/ Done(r)
      PROVE  \A x \in Requests : Apart(x)
  BY <1>1, <1>3, GoMoves, DoneMoves DEF Moves
<1>4. ASSUME NEW r \in Requests, NEW u \in Users, NEW i \in Items, NEW k \in Keys,
             NEW n \in Intents, CreateIntent(r, u, i, k, n)
      PROVE  CreationInv'
  <2>1. /\ req'[r].step = "read_item" /\ req'[r].intent = n
        /\ \A s \in Requests : s # r => req'[s] = req[s] /\ req[s].intent # n
        /\ registered' = registered /\ registered[n] = None
    BY <1>1, <1>4 DEF CreateIntent, Blank, Fresh, provider
  <2> QED
    BY <2>1 DEF CreationInv
<1>5. ASSUME NEW r \in Requests, ReadCostItem(r)
      PROVE  CreationInv'
  <2>1. /\ req[r].step = "read_item" /\ req[r].intent \in Intents
        /\ registered[req[r].intent] = None
        /\ \A s \in Requests : s # r => req'[s] = req[s]
    BY <1>1, <1>5 DEF ReadCostItem, At, Go, Done, CreationInv, CreateSteps, RequestsOK, RequestOK, Request
  <2>2. CASE Done(r) /\ registered' = registered
    <3>1. req'[r].step = "idle"
      BY <1>1, <2>2, DoneMoves
    <3> QED
      BY <2>1, <2>2, <3>1 DEF CreationInv
  <2>3. CASE Go(r, "put_intent") /\ registered' = [registered EXCEPT ![req[r].intent] = req[r].item]
    <3>1. /\ req'[r].step = "put_intent" /\ req'[r].intent = req[r].intent
          /\ req'[r].item = req[r].item
      BY <1>1, <2>3 DEF Go, Request
    <3>2. ASSUME NEW s \in Requests, s # r, req[s].step \in {"read_item", "put_intent"}
          PROVE  req[s].intent # req[r].intent
      <4>1. req[s].step = "put_intent" => req[s].item # None
        BY DEF RequestsOK, RequestOK, CreateSteps
      <4> QED
        BY <2>1, <3>2, <4>1 DEF CreationInv
    <3>3. \A s \in Requests : s # r => registered'[req[s].intent] = registered[req[s].intent]
                                        \/ req[s].step \notin {"read_item", "put_intent"}
      BY <1>1, <2>3, <3>2
    <3>4. registered'[req[r].intent] = req[r].item
      BY <1>1, <2>1, <2>3
    <3> QED
      BY <2>1, <3>1, <3>2, <3>3, <3>4 DEF CreationInv
  <2> QED
    BY <1>5, <2>2, <2>3 DEF ReadCostItem
<1> USE DEF Steps, CreateSteps, WebhookSteps, ReleaseSteps, FlushSteps
<1>6. ASSUME NEW r \in Requests,
             \/ PutIntent(r) \/ AuthorizeItem(r) \/ ReadIntent(r)
             \/ FailIntent(r) \/ ItemDue(r) \/ ConfirmIntent(r) \/ ItemPaid(r)
             \/ ClosePayment(r) \/ ReadMilestone(r) \/ CloseRelease(r) \/ StorageError(r)
             \/ PutEvidence(r) \/ PutVerified(r)
      PROVE  CreationInv'
  <2>1. registered' = registered
    BY <1>6 DEF PutIntent, AuthorizeItem, ReadIntent, FailIntent, ItemDue, ConfirmIntent,
       ItemPaid, ClosePayment, ReadMilestone, CloseRelease, StorageError, PutEvidence, PutVerified,
       provider
  <2>2. \E s \in Steps \ {"read_item", "put_intent"} : Go(r, s) \/ Done(r)
    BY <1>6 DEF PutIntent, AuthorizeItem, ReadIntent, FailIntent, ItemDue, ConfirmIntent,
       ItemPaid, ClosePayment, ReadMilestone, CloseRelease, StorageError, PutEvidence, PutVerified
  <2> QED
    BY <1>2, <1>3, <2>1, <2>2
<1>7. ASSUME NEW r \in Requests, PutTransaction(r)
      PROVE  CreationInv'
  <2>1. req[r].hook.event \in Events /\ registered' = registered
    BY <1>7, HookOf DEF PutTransaction, At
  <2>2. Go(r, "fail_intent") \/ Go(r, "post_payment") \/ Done(r)
    BY <1>7, <2>1 DEF PutTransaction, Events
  <2> QED
    BY <1>2, <1>3, <2>1, <2>2
<1>8. ASSUME NEW r \in Requests, PostPayment(r) \/ PostRelease(r) \/ FlushAccounts(r) \/ FlushEntries(r)
      PROVE  CreationInv'
  <2>1. registered' = registered
    BY <1>8 DEF PostPayment, PostRelease, FlushAccounts, FlushEntries, provider
  <2>2. CASE Done(r)
    BY <1>2, <1>3, <2>1, <2>2
  <2>3. CASE (PostPayment(r) \/ PostRelease(r)) /\ ~Done(r)
    <3>1. PICK opened : req' = [req EXCEPT ![r].step = "flush_accounts", ![r].opened = opened]
      BY <2>3, PaymentPosted, ReleasePosted
    <3> QED
      BY <1>1, <1>2, <2>1, <3>1 DEF Request
  <2>4. CASE FlushAccounts(r) \/ FlushEntries(r)
    BY <1>1, <1>2, <2>1, <2>4 DEF FlushAccounts, FlushEntries, Go, Request
  <2> QED
    BY <1>8, <2>2, <2>3, <2>4
<1>9. ASSUME NEW r \in Requests,
             \/ \E w \in sent : Deliver(r, w)
             \/ \E n \in Intents : ReleaseSettlement(r, n)
             \/ \E m \in Milestones : SubmitEvidence(r, m) \/ VerifyMilestone(r, m)
      PROVE  CreationInv'
  BY <1>1, <1>2, <1>9 DEF Deliver, ReleaseSettlement, SubmitEvidence, VerifyMilestone, Blank, provider
<1>10. CASE (\E w \in Webhooks : ProviderReports(w)) \/ Restart \/ UNCHANGED vars
  <2>1. req' = req /\ registered' = registered
    BY <1>10 DEF ProviderReports, Restart, vars, provider
  <2> QED
    BY <1>2, <2>1
<1>11. CASE Crash
  BY <1>2, <1>11 DEF Crash, Blank, provider
<1> QED
  BY <1>4, <1>5, <1>6, <1>7, <1>8, <1>9, <1>10, <1>11 DEF Next, Continue

-------------------------------------------------------------------------------
(* What is announced is stored.                                            *)

\* Of all the steps only these write a cost item or the trail.
LEMMA OutcomeCases ==
    ASSUME [Next]_vars
    PROVE  \/ items' = items /\ trail' = trail
           \/ \E r \in Requests : \/ AuthorizeItem(r) \/ ItemDue(r) \/ ItemPaid(r)
                                  \/ ClosePayment(r) \/ CloseRelease(r)
<1> USE DEF records
<1>1. ASSUME NEW r \in Requests, Continue(r)
      PROVE  \/ items' = items /\ trail' = trail
             \/ AuthorizeItem(r) \/ ItemDue(r) \/ ItemPaid(r) \/ ClosePayment(r) \/ CloseRelease(r)
  <2>1. CASE ReadCostItem(r) \/ PutIntent(r) \/ ReadIntent(r) \/ PutTransaction(r) \/ FailIntent(r)
    BY <2>1 DEF ReadCostItem, PutIntent, ReadIntent, PutTransaction, FailIntent
  <2>2. CASE PostPayment(r) \/ FlushAccounts(r) \/ FlushEntries(r) \/ PostRelease(r)
    BY <2>2 DEF PostPayment, FlushAccounts, FlushEntries, PostRelease
  <2>3. CASE ConfirmIntent(r) \/ ReadMilestone(r) \/ PutEvidence(r) \/ PutVerified(r)
    BY <2>3 DEF ConfirmIntent, ReadMilestone, PutEvidence, PutVerified
  <2> QED
    BY <1>1, <2>1, <2>2, <2>3 DEF Continue
<1>2. ASSUME NEW r \in Requests,
             \/ \E u \in Users, i \in Items, k \in Keys, n \in Intents : CreateIntent(r, u, i, k, n)
             \/ \E w \in sent : Deliver(r, w)
             \/ \E n \in Intents : ReleaseSettlement(r, n)
             \/ \E m \in Milestones : SubmitEvidence(r, m) \/ VerifyMilestone(r, m)
             \/ StorageError(r)
      PROVE  items' = items /\ trail' = trail
  BY <1>2 DEF CreateIntent, Deliver, ReleaseSettlement, SubmitEvidence, VerifyMilestone,
              StorageError
<1>3. CASE (\E w \in Webhooks : ProviderReports(w)) \/ Crash \/ Restart \/ UNCHANGED vars
  BY <1>3 DEF ProviderReports, Crash, Restart, vars
<1> QED
  BY <1>1, <1>2, <1>3 DEF Next

\* Every step keeps what was announced in the snapshot.
LEMMA DurableStep ==
    ASSUME TypeOK, TypeOK', SettlementInv, Growth, [Next]_vars
    PROVE  ConfirmedIsDurable'
<1> USE DEF TypeOK, SettlementInv
<1>1. PaidIntents \subseteq PaidIntents'
  BY PaidStays
<1>2. \A n \in Intents :
        HasKey(storedEntries, ReleaseKey(n)) => HasKey(storedEntries', ReleaseKey(n))
  BY KeysStay DEF LedgerOK, Growth
\* A request past the flush has its payment in the snapshot.
<1>3. ASSUME NEW r \in Requests, req[r].step \in {"confirm_intent", "item_paid", "close_payment"}
      PROVE  /\ req[r].intent \in PaidIntents /\ ItemOf(req[r].intent) \in Items
             /\ intents[req[r].intent] # None
  <2>1. /\ req[r].hook \in transactions /\ req[r].hook.txn \in Txns
        /\ req[r].hook.intent = req[r].intent /\ req[r].intent \in Intents
        /\ HasKey(storedEntries, ConfirmKey(req[r].hook.txn))
    BY <1>3, HookOf DEF WebhookSteps, ProgressInv, Progress, HookTaken, KeyOf
  <2>2. ItemOf(req[r].intent) \in Items /\ intents[req[r].intent] # None
    BY <1>3, IntentOf, RecordAssumption DEF WebhookSteps
  <2> QED
    BY <2>1, <2>2 DEF PaidIntents, PaymentsIn
<1>4. ASSUME NEW n \in Intents, intents'[n] # None, intents'[n].status = "confirmed"
      PROVE  n \in PaidIntents'
  <2>1. CASE intents'[n] = intents[n]
    BY <1>1, <1>4, <2>1 DEF ConfirmedIsDurable, PaidIntents
  <2>2. CASE intents'[n] # intents[n]
    <3>1. PICK r \in Requests : PutIntent(r) \/ FailIntent(r) \/ ConfirmIntent(r)
      BY <2>2, RecordCases DEF RecordsKept, ReadCostItem, PutTransaction, ProviderReports,
         PutEvidence, PutVerified, records
    <3>2. ~PutIntent(r)
      BY <1>4, <2>2 DEF PutIntent, RecordsOK
    <3>3. ASSUME FailIntent(r) PROVE FALSE
      <4>1. req[r].intent \in Intents /\ intents[req[r].intent] \in IntentRecord
        BY <3>3, IntentOf DEF FailIntent, At, WebhookSteps
      <4> QED
        BY <1>4, <2>2, <3>3, <4>1 DEF FailIntent, RecordsOK, IntentRecord
    <3>4. ConfirmIntent(r) /\ req[r].step = "confirm_intent" /\ n = req[r].intent
      BY <2>2, <3>1, <3>2, <3>3 DEF ConfirmIntent, At, RecordsOK
    <3> QED
      BY <1>1, <1>3, <3>4
  <2> QED
    BY <2>1, <2>2
<1>5. ASSUME NEW i \in Items, items'[i] = "paid"
      PROVE  \E n \in Intents : intents'[n] # None /\ ItemOf(n)' = i /\ n \in PaidIntents'
  <2>1. CASE items'[i] = items[i]
    BY <1>1, <1>5, <2>1 DEF ConfirmedIsDurable, PaidIntents, Growth
  <2>2. CASE items'[i] # items[i]
    <3>1. PICK r \in Requests : AuthorizeItem(r) \/ ItemDue(r) \/ ItemPaid(r)
      BY <2>2, OutcomeCases DEF ClosePayment, CloseRelease
    <3>2. ItemPaid(r) /\ i = ItemOf(req[r].intent) /\ req[r].step = "item_paid"
      BY <1>5, <2>2, <3>1 DEF AuthorizeItem, ItemDue, ItemPaid, At, RecordsOK
    <3>3. PICK n \in PaidIntents : n = req[r].intent /\ intents[n] # None /\ i = ItemOf(n)
      BY <1>3, <3>2
    <3> QED
      BY <1>1, <3>3 DEF Growth, PaidIntents
  <2> QED
    BY <2>1, <2>2
<1>6. ASSUME NEW n \in Intents, <<"PaymentConfirmed", n>> \in trail'
      PROVE  n \in PaidIntents'
  <2>1. CASE <<"PaymentConfirmed", n>> \in trail
    BY <1>1, <2>1 DEF ConfirmedIsDurable, PaidIntents
  <2>2. CASE <<"PaymentConfirmed", n>> \notin trail
    <3>1. PICK r \in Requests : ClosePayment(r) \/ CloseRelease(r)
      BY <1>6, <2>2, OutcomeCases DEF AuthorizeItem, ItemDue, ItemPaid
    <3>2. n = req[r].intent /\ req[r].step = "close_payment"
      BY <1>6, <2>2, <3>1 DEF ClosePayment, CloseRelease, Publish, At
    <3> QED
      BY <1>1, <1>3, <3>2
  <2> QED
    BY <2>1, <2>2
<1>7. ASSUME NEW n \in Intents, <<"SettlementReleased", n>> \in trail'
      PROVE  HasKey(storedEntries', ReleaseKey(n))
  <2>1. CASE <<"SettlementReleased", n>> \in trail
    BY <1>2, <2>1 DEF ConfirmedIsDurable
  <2>2. CASE <<"SettlementReleased", n>> \notin trail
    <3>1. PICK r \in Requests : ClosePayment(r) \/ CloseRelease(r)
      BY <1>7, <2>2, OutcomeCases DEF AuthorizeItem, ItemDue, ItemPaid
    <3>2. n = req[r].intent /\ req[r].step = "close_release"
      BY <1>7, <2>2, <3>1 DEF ClosePayment, CloseRelease, Publish, At
    <3>3. req[r].hook = None
      BY <3>2 DEF RequestsOK, RequestOK, ReleaseSteps
    <3>4. HasKey(storedEntries, ReleaseKey(n))
      BY <3>2, <3>3 DEF ProgressInv, Progress, KeyOf
    <3> QED
      BY <1>2, <3>4
  <2> QED
    BY <2>1, <2>2
<1> QED
  BY <1>4, <1>5, <1>6, <1>7 DEF ConfirmedIsDurable, PaidIntents, HasKey, ReleaseKey

-------------------------------------------------------------------------------
(* The invariant and what follows from it.                                 *)

\* Every step keeps the invariant and lets the settlement grow.
LEMMA SettlementStep ==
    TypeOK /\ TypeOK' /\ LogInv /\ LogInv' /\ SettlementInv /\ [Next]_vars => SettlementInv' /\ Growth
<1> SUFFICES ASSUME TypeOK, TypeOK', LogInv, LogInv', SettlementInv, [Next]_vars
             PROVE  SettlementInv' /\ Growth
  OBVIOUS
<1>1. Growth
  BY Grows DEF SettlementInv
<1> QED
  BY <1>1, ProvenanceStep, CreationStep, GenuineStep, ProgressStep, DurableStep
  DEF SettlementInv

\* The initial states satisfy the invariant.
LEMMA SettlementInit == Init => SettlementInv
<1> SUFFICES ASSUME Init PROVE SettlementInv
  OBVIOUS
<1>1. ProvenanceInv /\ CreationInv /\ ProgressInv
  BY DEF Init, ProvenanceInv, CreationInv, ProgressInv, Progress, Blank
<1>2. GenuineInv
  BY DEF Init, GenuineInv, Genuine
<1>3. ConfirmedIsDurable
  BY DEF Init, ConfirmedIsDurable
<1> QED
  BY <1>1, <1>2, <1>3 DEF SettlementInv

\* The invariant of the settlement, with the types and the log.
LEMMA SettlementInvariant == Spec => [](TypeOK /\ LogInv /\ SettlementInv)
  BY SettlementInit, SettlementStep, TypeCorrect, LogInvariant, PTL DEF Spec

\* What tells a user that money was received or released has its entry in the
\* snapshot: for any number of concurrent requests and any faults.
THEOREM AnnouncedIsStored == Spec => []ConfirmedIsDurable
  BY SettlementInvariant, PTL DEF SettlementInv

\* In a genuine journal a release comes after a payment of the same intent.
LEMMA ReleaseHasPayment ==
    ASSUME NEW log \in Seq(JournalEntry), Genuine(log), TypeOK,
           NEW x \in DOMAIN log, NEW n \in Intents, log[x].key = ReleaseKey(n)
    PROVE  /\ n \in BookDue
           /\ \E y \in 1..(x - 1), w \in transactions :
                 w.intent = n /\ log[y].key = ConfirmKey(w.txn)
<1>1. ~ \E w \in transactions : log[x] = ConfirmEntry(ItemOf(w.intent), w)
  BY DEF ConfirmEntry, ConfirmKey, ReleaseKey
<1>2. PICK k \in BookDue : /\ log[x] = ReleaseEntry(ItemOf(k), k)
                           /\ \E y \in 1..(x - 1) : PaymentKey(log[y].key, k)
  BY <1>1 DEF Genuine, GenuineAt
<1>3. k = n
  BY <1>2 DEF ReleaseEntry, ReleaseKey
<1> QED
  BY <1>2, <1>3 DEF PaymentKey

\* Nothing is released to a payee before its own intent was paid and its
\* milestone attested, whatever stale copy of the milestone is written back.
THEOREM OnlyEarnedReleases == Spec => []ReleaseIsEarned
<1>1. TypeOK /\ SettlementInv => ReleaseIsEarned
  <2> SUFFICES ASSUME TypeOK, SettlementInv, NEW x \in DOMAIN entries, NEW n \in Intents,
                      entries[x].key = ReleaseKey(n)
               PROVE  /\ PaymentsIn(SubSeq(entries, 1, x), n) # {}
                      /\ Item[ItemOf(n)].milestone \in attested
    BY DEF ReleaseIsEarned
  <2>1. entries \in Seq(JournalEntry) /\ Genuine(entries)
    BY DEF TypeOK, LedgerOK, SettlementInv, GenuineInv
  <2>2. n \in BookDue
    BY <2>1, ReleaseHasPayment
  <2>3. PICK y \in 1..(x - 1), w \in transactions :
            w.intent = n /\ entries[y].key = ConfirmKey(w.txn)
    BY <2>1, ReleaseHasPayment
  <2>4. y \in DOMAIN SubSeq(entries, 1, x) /\ SubSeq(entries, 1, x)[y] = entries[y]
    BY <2>1
  <2>5. w.txn \in Txns
    BY RecordAssumption DEF TypeOK, RecordsOK, Webhook
  <2>6. w.txn \in PaymentsIn(SubSeq(entries, 1, x), n)
    <3> HIDE DEF SettlementInv
    <3> QED
      BY <2>3, <2>4, <2>5 DEF PaymentsIn, HasKey
  <2> QED
    BY <2>2, <2>6 DEF BookDue
<1> QED
  BY <1>1, SettlementInvariant, PTL

-------------------------------------------------------------------------------
(* Payments implements SettlementBook.                                     *)

\* The book of a state of the rail is a book: a transaction belongs to one
\* intent, and what is released was due and paid.
BookSound ==
    /\ \A p, q \in BookReceived : p[1] = q[1] => p = q
    /\ \A n \in BookReleased : n \in BookDue /\ \E t \in Txns : <<t, n>> \in BookReceived

\* The states of the invariant map to states of the book.
LEMMA BookIsSound == TypeOK /\ SettlementInv => BookSound
<1> SUFFICES ASSUME TypeOK, SettlementInv PROVE BookSound
  OBVIOUS
<1>1. ASSUME NEW p \in BookReceived, NEW q \in BookReceived, p[1] = q[1]
      PROVE  p = q
  <2>1. PICK v \in transactions : v.txn = p[1] /\ v.intent = p[2]
    BY DEF BookReceived, PaymentsIn
  <2>2. PICK w \in transactions : w.txn = q[1] /\ w.intent = q[2]
    BY DEF BookReceived, PaymentsIn
  <2>3. v = w
    BY <1>1, <2>1, <2>2 DEF SettlementInv, ProvenanceInv, TypeOK, RecordsOK
  <2> QED
    BY <1>1, <2>1, <2>2, <2>3 DEF BookReceived
<1>2. ASSUME NEW n \in BookReleased
      PROVE  n \in BookDue /\ \E t \in Txns : <<t, n>> \in BookReceived
  <2>1. /\ storedEntries \in Seq(JournalEntry) /\ Genuine(storedEntries) /\ n \in Intents
        /\ \E x \in DOMAIN storedEntries : storedEntries[x].key = ReleaseKey(n)
    BY DEF TypeOK, LedgerOK, SettlementInv, GenuineInv, BookReleased, HasKey
  <2>2. PICK x \in DOMAIN storedEntries : storedEntries[x].key = ReleaseKey(n)
    BY <2>1
  <2>3. n \in BookDue
    BY <2>1, <2>2, ReleaseHasPayment
  <2>4. PICK y \in 1..(x - 1), w \in transactions :
            w.intent = n /\ storedEntries[y].key = ConfirmKey(w.txn)
    BY <2>1, <2>2, ReleaseHasPayment
  <2>5. w.txn \in Txns /\ y \in DOMAIN storedEntries
    BY <2>1, RecordAssumption DEF TypeOK, RecordsOK, Webhook
  <2>6. <<w.txn, n>> \in BookReceived
    BY <2>1, <2>4, <2>5 DEF BookReceived, PaymentsIn, HasKey
  <2> QED
    BY <2>3, <2>5, <2>6
<1> QED
  BY <1>1, <1>2 DEF BookSound

\* A step enters payments and releases, or makes intents due, or does neither.
LEMMA BookStep ==
    TypeOK /\ TypeOK' /\ Growth /\ BookSound' /\ [Next]_vars
        => [Book!Next]_<<BookReceived, BookDue, BookReleased>>
<1> SUFFICES ASSUME TypeOK, TypeOK', Growth, BookSound', [Next]_vars
             PROVE  [Book!Next]_<<BookReceived, BookDue, BookReleased>>
  OBVIOUS
<1>1. /\ BookReceived \subseteq BookReceived' /\ BookReceived' \in SUBSET (Txns \X Intents)
      /\ BookReleased \subseteq BookReleased' /\ BookReleased' \in SUBSET Intents
  <2>1. /\ storedEntries \in Seq(JournalEntry) /\ storedEntries' \in Seq(JournalEntry)
        /\ Begins(storedEntries, storedEntries') /\ transactions \subseteq transactions'
    BY DEF TypeOK, LedgerOK, Growth
  <2>2. \A key : HasKey(storedEntries, key) => HasKey(storedEntries', key)
    BY <2>1, KeysStay
  <2>3. BookReceived \subseteq BookReceived'
    BY <2>1, <2>2 DEF BookReceived, PaymentsIn, HasKey
  <2>4. BookReleased \subseteq BookReleased'
    BY <2>2 DEF BookReleased, HasKey, ReleaseKey
  <2> QED
    BY <2>3, <2>4 DEF BookReceived, BookReleased
<1>2. BookDue \subseteq BookDue' /\ BookDue' \in SUBSET Intents
  BY DueStays DEF BookDue
<1>3. CASE BookDue' = BookDue
  <2>1. Book!Enter(BookReceived', BookReleased')
    BY <1>1, <1>3 DEF Book!Enter, Book!OneIntentPerTxn, BookSound
  <2> QED
    BY <1>1, <2>1 DEF Book!Next
<1>4. CASE BookReceived' = BookReceived /\ BookReleased' = BookReleased
  <2>1. Book!BecomeDue(BookDue')
    BY <1>2, <1>4 DEF Book!BecomeDue
  <2> QED
    BY <1>2, <2>1 DEF Book!Next
<1>5. ASSUME UNCHANGED <<transactions, storedEntries>>
      PROVE  BookReceived' = BookReceived /\ BookReleased' = BookReleased
  BY <1>5 DEF BookReceived, BookReleased, PaymentsIn
<1>6. ASSUME attested' = attested, \A n \in Intents : intents'[n] # None => intents[n] # None
      PROVE  BookDue' = BookDue
  <2>1. \A n \in BookDue' : n \in BookDue
    BY <1>6 DEF BookDue, Growth
  <2> QED
    BY <1>2, <2>1
<1>7. CASE RecordsKept
  BY <1>3, <1>6, <1>7 DEF RecordsKept
<1>8. CASE \E r \in Requests : ReadCostItem(r) \/ PutTransaction(r)
  BY <1>3, <1>6, <1>8 DEF ReadCostItem, PutTransaction, records
<1>9. CASE \E r \in Requests : \/ FailIntent(r) \/ ConfirmIntent(r) \/ PutIntent(r)
                                \/ PutEvidence(r) \/ PutVerified(r)
  BY <1>4, <1>5, <1>9 DEF FailIntent, ConfirmIntent, PutIntent, PutEvidence, PutVerified, snapshot
<1>10. CASE \E w \in Webhooks : ProviderReports(w)
  BY <1>4, <1>5, <1>10 DEF ProviderReports, snapshot, records
<1> QED
  BY <1>7, <1>8, <1>9, <1>10, RecordCases

\* Payments implements SettlementBook, for any constants: whatever requests,
\* webhooks and faults do, the stored journal and the milestones change only as
\* the book allows.
THEOREM ImplementsBook == Spec => BookSpec
<1>1. Init => Book!Init
  BY DEF Init, Book!Init, BookReceived, BookDue, BookReleased, PaymentsIn, HasKey
<1>2. TypeOK /\ TypeOK' /\ LogInv /\ LogInv' /\ SettlementInv /\ BookSound' /\ [Next]_vars
        => [Book!Next]_Book!book
  BY SettlementStep, BookStep DEF Book!book
<1> QED
  BY <1>1, <1>2, SettlementInvariant, BookIsSound, PTL DEF Spec, BookSpec, Book!Spec

-------------------------------------------------------------------------------
(* What is held for a payee is what is owed to it. *)

\* What a journal holds for payee p, what it owes for intent n, and for all intents of p.
HeldIn(log, p) == Turnover(log, Payable(p), "credit") - Turnover(log, Payable(p), "debit")
Pays(n, p)     == intents[n] # None /\ Item[ItemOf(n)].payee = p
Unreleased(log, n) ==
    Cardinality(PaymentsIn(log, n)) - IF HasKey(log, ReleaseKey(n)) THEN 1 ELSE 0
OwedIn(log, p) ==
    SumOver([n \in {k \in Intents : Pays(k, p)} |-> Item[ItemOf(n)].amount * Unreleased(log, n)],
            {k \in Intents : Pays(k, p)})

OnRecord      == {n \in Intents : intents[n] # None}
FiniteRecords == IsFiniteSet(OnRecord)

\* On the account of a payee, the entry of a payment for item i credits its amount when i
\* is the payee's, and nothing otherwise.
LEMMA PaymentHeld ==
    ASSUME NEW w \in Webhooks, NEW i \in Items, NEW p \in Payees
    PROVE  /\ OnAccount(ConfirmEntry(i, w).lines, Payable(p), "credit") =
                IF Item[i].payee = p THEN w.amount ELSE 0
           /\ OnAccount(ConfirmEntry(i, w).lines, Payable(p), "debit") = 0
           /\ w.amount \in Int
<1> DEFINE x == Line(SettlementControl, "debit", w.amount)
           y == Line(Payable(Item[i].payee), "credit", w.amount)
<1>1. w.amount \in Int
  BY PaymentsAssumption, RecordAssumption DEF Webhook
<1>2. /\ x.account = SettlementControl /\ x.direction = "debit" /\ x.amount = w.amount
      /\ y.account = Payable(Item[i].payee) /\ y.direction = "credit" /\ y.amount = w.amount
  BY DEF Line
<1>3. ConfirmEntry(i, w).lines = <<x, y>>
  BY DEF ConfirmEntry
<1>4. /\ SettlementControl # Payable(p)
      /\ Payable(Item[i].payee) = Payable(p) <=> Item[i].payee = p
  BY DEF SettlementControl, Payable
<1> HIDE DEF x, y
<1> QED
  BY <1>1, <1>2, <1>3, <1>4, OnAccountPair

\* On the account of a payee, the entry of a release for item i debits its amount when i
\* is the payee's, and nothing otherwise.
LEMMA ReleaseHeld ==
    ASSUME NEW n \in Intents, NEW i \in Items, NEW p \in Payees
    PROVE  /\ OnAccount(ReleaseEntry(i, n).lines, Payable(p), "debit") =
                IF Item[i].payee = p THEN Item[i].amount ELSE 0
           /\ OnAccount(ReleaseEntry(i, n).lines, Payable(p), "credit") = 0
           /\ Item[i].amount \in Int
<1> DEFINE x == Line(Payable(Item[i].payee), "debit", Item[i].amount)
           y == Line(SettlementControl, "credit", Item[i].amount)
<1>1. Item[i].amount \in Int
  BY PaymentsAssumption DEF ItemAttributes
<1>2. /\ x.account = Payable(Item[i].payee) /\ x.direction = "debit" /\ x.amount = Item[i].amount
      /\ y.account = SettlementControl /\ y.direction = "credit" /\ y.amount = Item[i].amount
  BY DEF Line
<1>3. ReleaseEntry(i, n).lines = <<x, y>>
  BY DEF ReleaseEntry
<1>4. /\ SettlementControl # Payable(p)
      /\ Payable(Item[i].payee) = Payable(p) <=> Item[i].payee = p
  BY DEF SettlementControl, Payable
<1> HIDE DEF x, y
<1> QED
  BY <1>1, <1>2, <1>3, <1>4, OnAccountPair

\* The amount of an intent on record is a number, and so is what an entry puts on an
\* account.
LEMMA AmountOf ==
    ASSUME TypeOK
    PROVE  /\ \A n \in Intents : intents[n] # None =>
                  ItemOf(n) \in Items /\ Item[ItemOf(n)].amount \in Int
           /\ \A e \in JournalEntry : \A code, d : OnAccount(e.lines, code, d) \in Int
<1>1. ASSUME NEW n \in Intents, intents[n] # None
      PROVE  ItemOf(n) \in Items /\ Item[ItemOf(n)].amount \in Int
  <2>1. ItemOf(n) \in Items
    BY <1>1 DEF TypeOK, RecordsOK, ItemOf, IntentRecord
  <2> QED
    BY <2>1, PaymentsAssumption DEF ItemAttributes
<1>2. ASSUME NEW e \in JournalEntry, NEW code, NEW d
      PROVE  OnAccount(e.lines, code, d) \in Int
  <2>1. e.lines \in Seq(AnyLine)
    BY DEF JournalEntry
  <2>2. \A x \in 1..Len(e.lines) : e.lines[x].amount \in Int
    <3>1. \A x \in 1..Len(e.lines) : e.lines[x] \in AnyLine
      BY <2>1
    <3> QED
      BY <3>1 DEF AnyLine
  <2>3. \E line : line.amount \in Int
    <3>1. [amount |-> 0].amount \in Int
      OBVIOUS
    <3> QED
      BY <3>1
  <2> QED
    BY <2>1, <2>2, <2>3, OnAccountAppend
<1> QED
  BY <1>1, <1>2

\* What is owed changes with what is unreleased of one intent.
LEMMA OwedChanges ==
    ASSUME TypeOK, IsFiniteSet(OnRecord), NEW p \in Payees, NEW log, NEW longer,
           NEW m \in Intents, NEW d \in Int, NEW amount \in Int,
           intents[m] # None => amount = Item[ItemOf(m)].amount * d,
           \A n \in Intents : Unreleased(log, n) \in Int,
           \A n \in Intents :
               Unreleased(longer, n) = Unreleased(log, n) + IF n = m THEN d ELSE 0
    PROVE  OwedIn(longer, p) = OwedIn(log, p) + IF Pays(m, p) THEN amount ELSE 0
<1> DEFINE S == {k \in Intents : Pays(k, p)}
           f == [n \in S |-> Item[ItemOf(n)].amount * Unreleased(log, n)]
           g == [n \in S |-> Item[ItemOf(n)].amount * Unreleased(longer, n)]
           e == [n \in S |-> IF n = m THEN amount ELSE 0]
<1>1. IsFiniteSet(S)
  BY FS_Subset DEF OnRecord, Pays
<1>2. \A n \in S : e[n] \in Int /\ f[n] \in Int /\ g[n] = f[n] + e[n]
  <2> SUFFICES ASSUME NEW n \in S
               PROVE  e[n] \in Int /\ f[n] \in Int /\ g[n] = f[n] + e[n]
    OBVIOUS
  <2>1. n \in Intents /\ intents[n] # None
    BY DEF Pays
  <2>2. Item[ItemOf(n)].amount \in Int
    BY <2>1, AmountOf
  <2>3. PICK a \in Int, u \in Int, v \in Int :
            /\ a = Item[ItemOf(n)].amount /\ u = Unreleased(log, n)
            /\ v = Unreleased(longer, n) /\ v = u + IF n = m THEN d ELSE 0
    BY <2>1, <2>2
  <2>4. f[n] = a * u /\ g[n] = a * v /\ e[n] = IF n = m THEN a * d ELSE 0
    BY <2>1, <2>3
  <2> HIDE DEF e, f, g
  <2>5. a * (u + d) = a * u + a * d /\ a * (u + 0) = a * u
    BY <2>3
  <2> QED
    BY <2>3, <2>4, <2>5
<1>3. SumOver(e, S) = IF m \in S THEN amount ELSE 0
  <2>1. \A n \in S : e[n] = IF n = m THEN amount ELSE 0
    OBVIOUS
  <2> HIDE DEF e, S
  <2> QED
    BY <1>1, <2>1, SumSingle
<1>4. SumOver(g, S) = SumOver(f, S) + SumOver(e, S)
  <2> HIDE DEF e, f, g, S
  <2> QED
    BY <1>1, <1>2, SumAdds
<1>5. OwedIn(log, p) = SumOver(f, S) /\ OwedIn(longer, p) = SumOver(g, S)
  BY DEF OwedIn
<1> HIDE DEF f, g, e
<1> QED
  BY <1>3, <1>4, <1>5

\* The payments and the release of each intent after one further entry.
LEMMA UnreleasedAfter ==
    ASSUME TypeOK, ProvenanceInv, NEW log \in Seq(JournalEntry), NEW e \in JournalEntry,
           ~HasKey(log, e.key), \A n \in Intents : IsFiniteSet(PaymentsIn(log, n))
    PROVE  /\ \A n \in Intents : Unreleased(log, n) \in Int
           /\ \A n \in Intents : IsFiniteSet(PaymentsIn(Append(log, e), n))
           /\ \A w \in transactions : e.key = ConfirmKey(w.txn) =>
                  \A n \in Intents : Unreleased(Append(log, e), n) =
                                     Unreleased(log, n) + IF n = w.intent THEN 1 ELSE 0
           /\ \A m \in Intents : e.key = ReleaseKey(m) =>
                  \A n \in Intents : Unreleased(Append(log, e), n) =
                                     Unreleased(log, n) + IF n = m THEN -1 ELSE 0
<1> DEFINE longer == Append(log, e)
<1>1. \A key : HasKey(longer, key) <=> HasKey(log, key) \/ e.key = key
  <2>1. /\ DOMAIN longer = DOMAIN log \cup {Len(log) + 1}
        /\ longer[Len(log) + 1] = e /\ \A x \in DOMAIN log : longer[x] = log[x]
    OBVIOUS
  <2> HIDE DEF longer
  <2> QED
    BY <2>1 DEF HasKey
<1> HIDE DEF longer
<1>2. \A n \in Intents : Cardinality(PaymentsIn(log, n)) \in Nat
  BY FS_CardinalityType
<1>3. ASSUME NEW w \in transactions, e.key = ConfirmKey(w.txn), NEW n \in Intents
      PROVE  /\ IsFiniteSet(PaymentsIn(longer, n))
             /\ Unreleased(longer, n) = Unreleased(log, n) + IF n = w.intent THEN 1 ELSE 0
  <2>1. w.txn \in Txns /\ \A v \in transactions : v.txn = w.txn => v = w
    BY RecordAssumption DEF TypeOK, RecordsOK, Webhook, ProvenanceInv
  <2>2. \A t : ConfirmKey(t) = ConfirmKey(w.txn) <=> t = w.txn
    BY DEF ConfirmKey
  <2>3. HasKey(longer, ReleaseKey(n)) <=> HasKey(log, ReleaseKey(n))
    BY <1>1, <1>3 DEF ConfirmKey, ReleaseKey
  <2>4. w.txn \notin PaymentsIn(log, n)
    BY <1>3 DEF PaymentsIn
  <2>5. PaymentsIn(longer, n) = PaymentsIn(log, n) \cup (IF n = w.intent THEN {w.txn} ELSE {})
    BY <1>1, <1>3, <2>1, <2>2 DEF PaymentsIn
  <2>6. CASE n = w.intent
    <3>1. PaymentsIn(longer, n) = PaymentsIn(log, n) \cup {w.txn}
      BY <2>5, <2>6
    <3>2. /\ IsFiniteSet(PaymentsIn(longer, n))
          /\ Cardinality(PaymentsIn(longer, n)) = Cardinality(PaymentsIn(log, n)) + 1
      BY <2>4, <3>1, FS_AddElement
    <3> QED
      BY <1>2, <2>3, <2>6, <3>2 DEF Unreleased
  <2>7. CASE n # w.intent
    <3>1. PaymentsIn(longer, n) = PaymentsIn(log, n)
      BY <2>5, <2>7
    <3> QED
      BY <1>2, <2>3, <2>7, <3>1 DEF Unreleased
  <2> QED
    BY <2>6, <2>7
<1>4. ASSUME \A t : e.key # ConfirmKey(t), NEW n \in Intents
      PROVE  PaymentsIn(longer, n) = PaymentsIn(log, n)
  BY <1>1, <1>4 DEF PaymentsIn
<1>5. ASSUME NEW m \in Intents, e.key = ReleaseKey(m), NEW n \in Intents
      PROVE  Unreleased(longer, n) = Unreleased(log, n) + IF n = m THEN -1 ELSE 0
  <2>1. PaymentsIn(longer, n) = PaymentsIn(log, n)
    BY <1>4, <1>5 DEF ConfirmKey, ReleaseKey
  <2>2. ReleaseKey(n) = ReleaseKey(m) <=> n = m
    BY DEF ReleaseKey
  <2>3. HasKey(longer, ReleaseKey(n)) <=> HasKey(log, ReleaseKey(n)) \/ n = m
    BY <1>1, <1>5, <2>2
  <2>4. ~HasKey(log, ReleaseKey(m))
    BY <1>5
  <2> QED
    BY <1>2, <2>1, <2>3, <2>4 DEF Unreleased
<1>6. ASSUME NEW n \in Intents
      PROVE  IsFiniteSet(PaymentsIn(longer, n))
  <2>1. CASE \E t : e.key = ConfirmKey(t)
    <3>1. PICK t : e.key = ConfirmKey(t)
      BY <2>1
    <3>2. \A u : ConfirmKey(u) = ConfirmKey(t) => u = t
      BY DEF ConfirmKey
    <3>3. PaymentsIn(longer, n) \subseteq PaymentsIn(log, n) \cup {t}
      BY <1>1, <3>1, <3>2 DEF PaymentsIn
    <3>4. IsFiniteSet(PaymentsIn(log, n) \cup {t})
      BY FS_AddElement
    <3> QED
      BY <3>3, <3>4, FS_Subset
  <2>2. CASE \A t : e.key # ConfirmKey(t)
    BY <1>4, <2>2
  <2> QED
    BY <2>1, <2>2
<1> QED
  BY <1>2, <1>3, <1>5, <1>6 DEF Unreleased, longer

\* Of every genuine journal that names no key twice: what it holds for a payee is what
\* was paid and not released for the intents of this payee.
LEMMA HeldInIsOwed ==
    ASSUME TypeOK, ProvenanceInv, IsFiniteSet(OnRecord), NEW p \in Payees,
           NEW log \in Seq(JournalEntry), Genuine(log), UniqueKeys(log)
    PROVE  /\ HeldIn(log, p) = OwedIn(log, p) /\ HeldIn(log, p) \in Int
           /\ \A n \in Intents : IsFiniteSet(PaymentsIn(log, n))
<1> DEFINE T == {s \in Seq(JournalEntry) :
                    /\ \A n \in Intents : IsFiniteSet(PaymentsIn(s, n))
                    /\ HeldIn(s, p) = OwedIn(s, p)}
<1>1. \A s \in Seq(JournalEntry) : \A code, d :
          /\ Turnover(s, code, d) \in Int
          /\ \A e \in JournalEntry : /\ OnAccount(e.lines, code, d) \in Int
                                    /\ Turnover(Append(s, e), code, d) =
                                         Turnover(s, code, d) + OnAccount(e.lines, code, d)
  <2> SUFFICES ASSUME NEW s \in Seq(JournalEntry), NEW code, NEW d
               PROVE  /\ Turnover(s, code, d) \in Int
                      /\ \A e \in JournalEntry :
                             /\ OnAccount(e.lines, code, d) \in Int
                             /\ Turnover(Append(s, e), code, d) =
                                  Turnover(s, code, d) + OnAccount(e.lines, code, d)
    OBVIOUS
  <2>1. \A x \in 1..Len(s) : OnAccount(s[x].lines, code, d) \in Int
    BY AmountOf
  <2> QED
    BY <2>1, AmountOf, TurnoverInt, TurnoverAppend
<1>2. << >> \in T
  <2> DEFINE S == {k \in Intents : Pays(k, p)}
             f == [n \in S |-> Item[ItemOf(n)].amount * Unreleased(<< >>, n)]
  <2>1. \A n \in Intents : PaymentsIn(<< >>, n) = {} /\ Unreleased(<< >>, n) = 0
    <3>1. \A key : ~HasKey(<< >>, key)
      BY DEF HasKey
    <3>2. \A n \in Intents : PaymentsIn(<< >>, n) = {}
      BY <3>1 DEF PaymentsIn
    <3>3. Cardinality({}) = 0
      BY FS_EmptySet
    <3>4. ASSUME NEW n \in Intents
          PROVE  Unreleased(<< >>, n) = 0
      <4>1. Cardinality(PaymentsIn(<< >>, n)) = 0
        BY <3>2, <3>3
      <4> QED
        BY <3>1, <4>1 DEF Unreleased
    <3> QED
      BY <3>2, <3>4
  <2>2. \A n \in S : f[n] = 0
    <3>1. \A n \in S : Item[ItemOf(n)].amount \in Int
      BY AmountOf DEF Pays
    <3> QED
      BY <2>1, <3>1
  <2>3. IsFiniteSet(S)
    BY FS_Subset DEF OnRecord, Pays
  <2>4. SumOver(f, S) = 0
    <3> HIDE DEF f, S
    <3> QED
      BY <2>2, <2>3, SumZero
  <2>5. \A d : Turnover(<< >>, Payable(p), d) = 0
    BY TotalEmpty DEF Turnover
  <2>6. HeldIn(<< >>, p) = OwedIn(<< >>, p)
    BY <2>4, <2>5 DEF HeldIn, OwedIn
  <2>7. << >> \in Seq(JournalEntry) /\ \A n \in Intents : IsFiniteSet(PaymentsIn(<< >>, n))
    <3>1. IsFiniteSet({})
      BY FS_EmptySet
    <3>2. ASSUME NEW n \in Intents
          PROVE  IsFiniteSet(PaymentsIn(<< >>, n))
      BY <2>1, <3>1, Zenon
    <3> QED
      BY <3>2
  <2> QED
    BY <2>6, <2>7
<1>3. ASSUME NEW k \in 0..(Len(log) - 1), SubSeq(log, 1, k) \in T
      PROVE  Append(SubSeq(log, 1, k), log[k + 1]) \in T
  <2> DEFINE s == SubSeq(log, 1, k)
             e == log[k + 1]
  <2>1. s \in Seq(JournalEntry) /\ e \in JournalEntry /\ k + 1 \in DOMAIN log
    OBVIOUS
  <2>2. ~HasKey(s, e.key)
    BY DEF HasKey, UniqueKeys
  <2>3. /\ \A n \in Intents : IsFiniteSet(PaymentsIn(s, n))
        /\ HeldIn(s, p) = OwedIn(s, p)
    BY <1>3
  <2>4. GenuineAt(log, k + 1)
    BY <2>1 DEF Genuine
  <2> HIDE DEF s, e
  <2>5. /\ \A n \in Intents : Unreleased(s, n) \in Int
        /\ \A n \in Intents : IsFiniteSet(PaymentsIn(Append(s, e), n))
    BY <2>1, <2>2, <2>3, UnreleasedAfter
  <2>6. /\ HeldIn(s, p) \in Int
        /\ HeldIn(Append(s, e), p) = HeldIn(s, p) + (OnAccount(e.lines, Payable(p), "credit")
                                                   - OnAccount(e.lines, Payable(p), "debit"))
    BY <1>1, <2>1 DEF HeldIn
  <2>7. ASSUME NEW w \in transactions, e = ConfirmEntry(ItemOf(w.intent), w)
        PROVE  HeldIn(Append(s, e), p) = OwedIn(Append(s, e), p)
    <3>1. /\ w \in Webhooks /\ w.intent \in Intents /\ intents[w.intent] # None
          /\ w.amount = Item[ItemOf(w.intent)].amount /\ ItemOf(w.intent) \in Items
      BY RecordAssumption, AmountOf DEF TypeOK, RecordsOK, Webhook, ProvenanceInv
    <3>2. /\ OnAccount(e.lines, Payable(p), "credit") =
               IF Item[ItemOf(w.intent)].payee = p THEN w.amount ELSE 0
          /\ OnAccount(e.lines, Payable(p), "debit") = 0 /\ w.amount \in Int
      BY <2>7, <3>1, PaymentHeld
    <3>3. e.key = ConfirmKey(w.txn)
      BY <2>7 DEF ConfirmEntry
    <3>4. \A n \in Intents : Unreleased(Append(s, e), n) =
                             Unreleased(s, n) + IF n = w.intent THEN 1 ELSE 0
      BY <2>1, <2>2, <2>3, <3>3, UnreleasedAfter
    <3>5. w.amount = Item[ItemOf(w.intent)].amount * 1
      BY <3>1, <3>2
    <3>6. OwedIn(Append(s, e), p) = OwedIn(s, p) + IF Pays(w.intent, p) THEN w.amount ELSE 0
      BY <2>5, <3>1, <3>2, <3>4, <3>5, OwedChanges
    <3> QED
      BY <2>3, <2>6, <3>1, <3>2, <3>6 DEF Pays
  <2>8. ASSUME NEW n \in BookDue, e = ReleaseEntry(ItemOf(n), n)
        PROVE  HeldIn(Append(s, e), p) = OwedIn(Append(s, e), p)
    <3> DEFINE amount == Item[ItemOf(n)].amount
    <3>1. n \in Intents /\ intents[n] # None /\ ItemOf(n) \in Items
      BY AmountOf DEF BookDue
    <3>2. /\ OnAccount(e.lines, Payable(p), "debit") =
               IF Item[ItemOf(n)].payee = p THEN amount ELSE 0
          /\ OnAccount(e.lines, Payable(p), "credit") = 0 /\ amount \in Int
      BY <2>8, <3>1, ReleaseHeld
    <3>3. e.key = ReleaseKey(n)
      BY <2>8 DEF ReleaseEntry
    <3>4. \A m \in Intents : Unreleased(Append(s, e), m) =
                             Unreleased(s, m) + IF m = n THEN -1 ELSE 0
      BY <2>1, <2>2, <2>3, <3>1, <3>3, UnreleasedAfter
    <3>5. -amount \in Int /\ -amount = amount * (-1) /\ -1 \in Int
      BY <3>2
    <3>6. OwedIn(Append(s, e), p) = OwedIn(s, p) + IF Pays(n, p) THEN -amount ELSE 0
      BY <2>5, <3>1, <3>4, <3>5, OwedChanges
    <3> HIDE DEF amount
    <3> QED
      BY <2>3, <2>6, <3>1, <3>2, <3>6 DEF Pays
  <2>9. HeldIn(Append(s, e), p) = OwedIn(Append(s, e), p)
    BY <2>4, <2>7, <2>8 DEF GenuineAt, e
  <2>10. Append(s, e) \in Seq(JournalEntry)
    BY <2>1
  <2>11. Append(s, e) \in T
    BY <2>5, <2>9, <2>10
  <2> QED
    BY <2>11 DEF s, e
<1>4. log \in T
  <2> HIDE DEF T
  <2> QED
    BY <1>2, <1>3, Beginnings
<1> QED
  BY <1>1, <1>4 DEF HeldIn

\* Finitely many intents are on record: a step puts one more, at the most.
LEMMA FiniteStep == TypeOK /\ FiniteRecords /\ [Next]_vars => FiniteRecords'
<1> SUFFICES ASSUME TypeOK, FiniteRecords, [Next]_vars PROVE IsFiniteSet(OnRecord')
  BY DEF FiniteRecords
<1>1. \E m : OnRecord' \subseteq OnRecord \cup {m}
  <2>1. CASE intents' = intents
    BY <2>1 DEF OnRecord
  <2>2. ASSUME NEW r \in Requests, PutIntent(r) \/ FailIntent(r) \/ ConfirmIntent(r)
        PROVE  OnRecord' \subseteq OnRecord \cup {req[r].intent}
    <3>1. \A n \in Intents : n # req[r].intent => intents'[n] = intents[n]
      BY <2>2 DEF PutIntent, FailIntent, ConfirmIntent, TypeOK, RecordsOK
    <3> QED
      BY <3>1 DEF OnRecord
  <2> QED
    BY <2>1, <2>2, RecordCases DEF RecordsKept, ReadCostItem, PutTransaction, ProviderReports,
       PutEvidence, PutVerified, records
<1>2. PICK m : OnRecord' \subseteq OnRecord \cup {m}
  BY <1>1
<1>3. IsFiniteSet(OnRecord \cup {m})
  BY FS_AddElement DEF FiniteRecords
<1> QED
  BY <1>2, <1>3, FS_Subset

\* The balance of a payee's account is what the journal holds for it.
LEMMA HeldIsHeldIn ==
    ASSUME TypeOK, NEW p \in Payees, Payable(p) \in Codes(accounts), HeldIn(entries, p) \in Int,
           Turnover(entries, Payable(p), "credit") \in Int,
           Turnover(entries, Payable(p), "debit") \in Int
    PROVE  Held(p) = HeldIn(entries, p)
<1> DEFINE a == CHOOSE b \in accounts : b.code = Payable(p)
<1>1. a \in accounts /\ a.code = Payable(p)
  BY DEF Codes
<1> HIDE DEF a
<1>2. PICK i \in Items : a \in CaseAccounts(i)
  BY <1>1 DEF TypeOK, LedgerOK, AnyAccount
<1>3. a.type = "liability"
  BY <1>1, <1>2 DEF CaseAccounts, Account, Payable
<1>4. ~IsDebitNormal(a.type)
  BY <1>3 DEF IsDebitNormal
<1> QED
  BY <1>4 DEF Held, BalanceOf, HeldIn, a

\* What the rail holds for a payee is, to the unit, what was confirmed for its intents and
\* not released (HeldIsOwed): the balance of recordSettlementRelease is pooled over the
\* cases of the payee, and yet none is paid from another's money.
THEOREM HeldMoneyIsOwed == Spec => []HeldIsOwed
<1>1. Init => FiniteRecords
  <2>1. Init => OnRecord = {}
    BY DEF Init, OnRecord
  <2> QED
    BY <2>1, FS_EmptySet DEF FiniteRecords
<1>2. TypeOK /\ LogInv /\ SettlementInv /\ FiniteRecords => HeldIsOwed
  <2> SUFFICES ASSUME TypeOK, LogInv, SettlementInv, IsFiniteSet(OnRecord),
                      NEW p \in Payees, Payable(p) \in Codes(accounts)
               PROVE  LET Of == {n \in Intents : intents[n] # None /\ Item[ItemOf(n)].payee = p}
                          Owed(n) == Item[ItemOf(n)].amount *
                                         (Cardinality(PaymentsIn(entries, n))
                                          - IF HasKey(entries, ReleaseKey(n)) THEN 1 ELSE 0)
                      IN  Held(p) = MapThenSumSet(Owed, Of)
    BY DEF HeldIsOwed, FiniteRecords
  <2> DEFINE S == {n \in Intents : intents[n] # None /\ Item[ItemOf(n)].payee = p}
             f == [n \in S |-> Item[ItemOf(n)].amount * Unreleased(entries, n)]
             Def(g) == [s \in SUBSET S |->
                           IF s = {} THEN 0
                           ELSE Item[ItemOf(CHOOSE x \in s : TRUE)].amount
                                  * (Cardinality(PaymentsIn(entries, CHOOSE x \in s : TRUE))
                                     - IF HasKey(entries, ReleaseKey(CHOOSE x \in s : TRUE))
                                       THEN 1 ELSE 0)
                                + g[s \ {CHOOSE x \in s : TRUE}]]
             it == CHOOSE g : g = Def(g)
  <2>1. entries \in Seq(JournalEntry) /\ Genuine(entries) /\ UniqueKeys(entries) /\ ProvenanceInv
    BY DEF TypeOK, LedgerOK, SettlementInv, GenuineInv, LogInv
  <2>2. /\ HeldIn(entries, p) = OwedIn(entries, p) /\ HeldIn(entries, p) \in Int
        /\ \A n \in Intents : IsFiniteSet(PaymentsIn(entries, n))
    BY <2>1, HeldInIsOwed
  <2>3. Held(p) = HeldIn(entries, p)
    <3>1. \A code, d : \A x \in 1..Len(entries) : OnAccount(entries[x].lines, code, d) \in Int
      BY <2>1, AmountOf
    <3>2. /\ Turnover(entries, Payable(p), "credit") \in Int
          /\ Turnover(entries, Payable(p), "debit") \in Int
      BY <2>1, <3>1, TurnoverInt
    <3> QED
      BY <2>2, <3>2, HeldIsHeldIn
  <2>4. OwedIn(entries, p) = SumOver(f, S)
    BY DEF OwedIn, Pays
  <2>5. IsFiniteSet(S) /\ \A n \in S : f[n] \in Int
    <3>1. IsFiniteSet(S)
      BY FS_Subset DEF OnRecord
    <3>2. ASSUME NEW n \in S
          PROVE  Item[ItemOf(n)].amount \in Int /\ Unreleased(entries, n) \in Int
      <4>1. Cardinality(PaymentsIn(entries, n)) \in Nat
        BY <2>2, FS_CardinalityType
      <4> QED
        BY <4>1, AmountOf DEF Unreleased
    <3> QED
      BY <3>1, <3>2
  <2>6. \A g : Summing(f, S, g) = Def(g)
    <3>1. \A s \in SUBSET S : s # {} => (CHOOSE x \in s : TRUE) \in S
      OBVIOUS
    <3> QED
      BY <3>1 DEF Summing, Chosen, Unreleased
  <2>7. \E g : g = Def(g)
    <3>1. \E g \in [SUBSET S -> Int] : g = Summing(f, S, g)
      <4> HIDE DEF f, S, Def
      <4> QED
        BY <2>5, SumsExist
    <3>2. PICK g : g = Summing(f, S, g)
      BY <3>1
    <3>3. Summing(f, S, g) = Def(g)
      <4> HIDE DEF f, S, Def
      <4> QED
        BY <2>6
    <3> HIDE DEF f, S, Def
    <3> QED
      BY <3>2, <3>3
  <2>8. it[S] = SumOver(f, S)
    <3>1. it = Def(it)
      <4> HIDE DEF Def
      <4> QED
        BY <2>7
    <3>2. it = Summing(f, S, it)
      BY <2>6, <3>1
    <3> HIDE DEF it
    <3> QED
      BY <2>5, <3>2, SumIs
  <2>9. Held(p) = it[S]
    BY <2>2, <2>3, <2>4, <2>8
  <2> QED
    BY <2>9 DEF MapThenSumSet, MapThenFoldSet
<1> QED
  BY <1>1, <1>2, FiniteStep, SettlementInvariant, PTL DEF Spec

-------------------------------------------------------------------------------
(* Without faults, flushes leave nothing out. *)

\* The accounts to load entry x with are stored, or in the hands of a request
\* that is about to store them; so is the entry.
AccountsCarried(x) ==
    \/ CanPost(storedAccounts, entries[x].lines)
    \/ \E r \in Requests : /\ req[r].step = "flush_accounts"
                           /\ CanPost(req[r].opened, entries[x].lines)
EntryCarried(x) ==
    \/ x <= Len(storedEntries)
    \/ \E r \in Requests : \/ req[r].step = "flush_accounts"
                           \/ req[r].step = "flush_entries" /\ x <= req[r].length

\* Inductive while there are no faults: every entry is carried.
CarriedInv ==
    faults = 0 => up /\ \A x \in DOMAIN entries : AccountsCarried(x) /\ EntryCarried(x)

\* What can be posted to some accounts can be posted to more.
LEMMA CanPostToMore ==
    ASSUME NEW A, NEW B, A \subseteq B, NEW lines, CanPost(A, lines)
    PROVE  CanPost(B, lines)
  BY DEF CanPost, Postable

\* The requests that flush go on with what they carry.
FlushesStay == \A r \in Requests : req[r].step \in FlushSteps => req'[r] = req[r]

\* A step that leaves the journal, the snapshot and the flushes alone.
LEMMA CarriedFrame ==
    ASSUME CarriedInv, FlushesStay, faults' = faults, up' = up,
           UNCHANGED <<entries, storedAccounts, storedEntries>>
    PROVE  CarriedInv'
<1>1. ASSUME NEW x \in DOMAIN entries, AccountsCarried(x) PROVE AccountsCarried(x)'
  BY <1>1 DEF AccountsCarried, FlushesStay, FlushSteps
<1>2. ASSUME NEW x \in DOMAIN entries, EntryCarried(x) PROVE EntryCarried(x)'
  BY <1>2 DEF EntryCarried, FlushesStay, FlushSteps
<1> QED
  BY <1>1, <1>2 DEF CarriedInv

\* A posting: the request that posts an entry carries it, with the accounts it was posted to.
LEMMA CarriedPost ==
    ASSUME TypeOK, CarriedInv, faults = 0, NEW r \in Requests, NEW A, NEW e \in JournalEntry,
           req[r].step \notin FlushSteps, up' = up,
           storedAccounts' = storedAccounts, storedEntries' = storedEntries,
           entries' = Post(A, entries, e),
           req' = [req EXCEPT ![r].step = "flush_accounts", ![r].opened = A]
    PROVE  CarriedInv'
<1>1. /\ req'[r].step = "flush_accounts" /\ req'[r].opened = A
      /\ FlushesStay /\ entries \in Seq(JournalEntry)
  BY DEF TypeOK, RequestsOK, LedgerOK, Request, FlushesStay
<1>2. ASSUME NEW x PROVE EntryCarried(x)'
  BY <1>1 DEF EntryCarried
<1>3. ASSUME NEW x \in DOMAIN entries, entries'[x] = entries[x] PROVE AccountsCarried(x)'
  <2>1. AccountsCarried(x)
    BY DEF CarriedInv
  <2> QED
    BY <1>1, <1>3, <2>1 DEF AccountsCarried, FlushesStay, FlushSteps
<1>4. ASSUME NEW x \in DOMAIN entries' PROVE AccountsCarried(x)'
  <2>1. CASE entries' = entries
    BY <1>3, <1>4, <2>1
  <2>2. CASE entries' = Append(entries, e) /\ CanPost(A, e.lines)
    <3>1. CASE x \in DOMAIN entries
      <4>1. entries'[x] = entries[x]
        BY <1>1, <2>2, <3>1
      <4> QED
        BY <1>3, <3>1, <4>1
    <3>2. CASE x \notin DOMAIN entries
      <4>1. entries'[x] = e
        BY <1>1, <1>4, <2>2, <3>2
      <4> QED
        BY <1>1, <2>2, <4>1 DEF AccountsCarried
    <3> QED
      BY <3>1, <3>2
  <2>3. entries' = entries \/ (entries' = Append(entries, e) /\ CanPost(A, e.lines))
    BY DEF Post
  <2> QED
    BY <2>1, <2>2, <2>3
<1> QED
  BY <1>2, <1>4 DEF CarriedInv

\* The two halves of a flush store what they carry.
LEMMA CarriedFlush ==
    ASSUME TypeOK, LogInv, CarriedInv, faults = 0, NEW r \in Requests
    PROVE  /\ FlushAccounts(r) => CarriedInv'
           /\ FlushEntries(r) => CarriedInv'
<1> USE DEF TypeOK
<1>1. req \in [Requests -> Request] /\ req[r] \in Request /\ RequestOK(req[r])
  BY DEF RequestsOK
<1>2. entries \in Seq(JournalEntry) /\ storedEntries \in Seq(JournalEntry)
  BY DEF LedgerOK
<1>3. ASSUME FlushAccounts(r) PROVE CarriedInv'
  <2>1. /\ up' = up /\ entries' = entries /\ storedEntries' = storedEntries
        /\ storedAccounts' = storedAccounts \cup req[r].opened
        /\ req'[r].step = "flush_entries" /\ req'[r].length = Len(entries)
        /\ \A s \in Requests : s # r => req'[s] = req[s]
    BY <1>1, <1>3 DEF FlushAccounts, ledger, Request
  <2>2. ASSUME NEW x \in DOMAIN entries PROVE AccountsCarried(x)'
    <3>1. AccountsCarried(x)
      BY DEF CarriedInv
    <3>2. CASE CanPost(storedAccounts, entries[x].lines) \/ CanPost(req[r].opened, entries[x].lines)
      <4>1. CanPost(storedAccounts', entries[x].lines)
        <5>1. storedAccounts \subseteq storedAccounts' /\ req[r].opened \subseteq storedAccounts'
          BY <2>1
        <5> QED
          BY <3>2, <5>1, CanPostToMore
      <4> QED
        BY <2>1, <4>1 DEF AccountsCarried
    <3>3. CASE \E s \in Requests : /\ s # r /\ req[s].step = "flush_accounts"
                                   /\ CanPost(req[s].opened, entries[x].lines)
      BY <2>1, <3>3 DEF AccountsCarried
    <3> QED
      BY <3>1, <3>2, <3>3 DEF AccountsCarried
  <2>3. ASSUME NEW x \in DOMAIN entries PROVE EntryCarried(x)'
    BY <1>2, <2>1 DEF EntryCarried
  <2> QED
    BY <2>1, <2>2, <2>3 DEF CarriedInv
<1>4. ASSUME FlushEntries(r) PROVE CarriedInv'
  <2>1. /\ up' = up /\ up /\ entries' = entries /\ storedAccounts' = storedAccounts
        /\ storedEntries' = StoredWith(req[r].length)
        /\ req[r].step = "flush_entries" /\ req[r].length \in Nat
        /\ req[r].length <= Len(entries)
        /\ \A s \in Requests : s # r => req'[s] = req[s]
    BY <1>1, <1>4 DEF FlushEntries, At, Go, ledger, Request, RequestOK
  <2>2. /\ req[r].length <= Len(storedEntries') /\ Len(storedEntries) <= Len(storedEntries')
        /\ storedEntries' \in Seq(JournalEntry)
    BY <2>1, Flushed DEF LogInv, Begins
  <2>3. ASSUME NEW x \in DOMAIN entries PROVE AccountsCarried(x)'
    <3>1. AccountsCarried(x)
      BY DEF CarriedInv
    <3> QED
      BY <2>1, <3>1 DEF AccountsCarried
  <2>4. ASSUME NEW x \in DOMAIN entries PROVE EntryCarried(x)'
    <3>1. EntryCarried(x) /\ x \in Nat
      BY <1>2 DEF CarriedInv
    <3>2. CASE x <= Len(storedEntries) \/ x <= req[r].length
      BY <1>2, <2>1, <2>2, <3>1, <3>2 DEF EntryCarried
    <3>3. CASE \E s \in Requests : s # r /\ (\/ req[s].step = "flush_accounts"
                                             \/ req[s].step = "flush_entries" /\ x <= req[s].length)
      BY <2>1, <3>3 DEF EntryCarried
    <3> QED
      BY <2>1, <3>1, <3>2, <3>3 DEF EntryCarried
  <2> QED
    BY <2>1, <2>3, <2>4 DEF CarriedInv
<1> QED
  BY <1>3, <1>4

\* A request that is at no part of a flush and lets the others be.
LEMMA StepsAside ==
    ASSUME TypeOK, NEW r \in Requests, req[r].step \notin FlushSteps,
           Done(r) \/ (\E s \in Steps : Go(r, s)) \/ (\E q \in Request : req' = [req EXCEPT ![r] = q])
    PROVE  FlushesStay
<1>1. \A s \in Requests : s # r => req'[s] = req[s]
  BY DEF Done, Go, TypeOK, RequestsOK
<1> QED
  BY <1>1 DEF FlushesStay

\* Every step without a fault keeps every entry carried.
LEMMA CarriedStep == TypeOK /\ LogInv /\ CarriedInv /\ [Next]_vars => CarriedInv'
<1> SUFFICES ASSUME TypeOK, LogInv, CarriedInv, [Next]_vars, faults' = 0 PROVE CarriedInv'
  BY DEF CarriedInv
<1>1. /\ req \in [Requests -> Request] /\ faults \in Nat /\ (faults = 0 => up)
  BY DEF TypeOK, RequestsOK, RecordsOK, CarriedInv
<1>2. ASSUME NEW r \in Requests, PostPayment(r) PROVE CarriedInv'
  <2> DEFINE i == ItemOf(req[r].intent)
             e == ConfirmEntry(i, req[r].hook)
  <2>1. /\ req[r].step = "post_payment" /\ up' = up /\ faults' = faults
        /\ storedAccounts' = storedAccounts /\ storedEntries' = storedEntries
        /\ entries' = Post(OpenCaseAccounts(i), entries, e)
    BY <1>2 DEF PostPayment, At, snapshot
  <2>2. i \in Items /\ req[r].hook \in Webhooks /\ entries \in Seq(JournalEntry)
    BY <2>1, IntentOf, HookOf DEF WebhookSteps, TypeOK, LedgerOK
  <2>3. e \in JournalEntry /\ req[r].step \notin FlushSteps
    BY <2>1, <2>2, ConfirmEntryType DEF FlushSteps
  <2>4. CASE HasKey(entries', e.key)
    <3>1. req' = [req EXCEPT ![r].step = "flush_accounts", ![r].opened = OpenCaseAccounts(i)]
      BY <1>2, <2>4 DEF PostPayment
    <3> HIDE DEF i, e
    <3> QED
      BY <2>1, <2>3, <3>1, CarriedPost
  <2>5. CASE ~HasKey(entries', e.key)
    <3>1. Done(r)
      BY <1>2, <2>5 DEF PostPayment
    <3>2. FlushesStay
      BY <2>3, <3>1, StepsAside
    <3>3. entries' = entries
      <4> HIDE DEF i, e
      <4>1. entries' = entries \/ entries' = Append(entries, e)
        BY <2>1, <2>2, <2>3, PostType
      <4>2. entries' # Append(entries, e)
        BY <2>2, <2>5 DEF HasKey
      <4> QED
        BY <4>1, <4>2
    <3> QED
      BY <2>1, <3>2, <3>3, CarriedFrame
  <2> QED
    BY <2>4, <2>5
<1>3. ASSUME NEW r \in Requests, PostRelease(r) PROVE CarriedInv'
  <2> DEFINE i == ItemOf(req[r].intent)
             e == ReleaseEntry(i, req[r].intent)
  <2>1. /\ req[r].step = "post_release" /\ up' = up /\ faults' = faults
        /\ storedAccounts' = storedAccounts /\ storedEntries' = storedEntries
    BY <1>3 DEF PostRelease, At, snapshot
  <2>2. i \in Items /\ req[r].intent \in Intents
    BY <2>1, IntentOf DEF ReleaseSteps, TypeOK
  <2>3. e \in JournalEntry /\ req[r].step \notin FlushSteps
    BY <2>1, <2>2, ReleaseEntryType DEF FlushSteps
  <2>4. CASE /\ entries' = Post(accounts, entries, e)
             /\ req' = [req EXCEPT ![r].step = "flush_accounts", ![r].opened = accounts]
    <3> HIDE DEF i, e
    <3> QED
      BY <2>1, <2>3, <2>4, CarriedPost
  <2>5. CASE Done(r) /\ entries' = entries
    <3>1. FlushesStay
      BY <2>3, <2>5, StepsAside
    <3> QED
      BY <2>1, <2>5, <3>1, CarriedFrame
  <2> QED
    BY <1>3, <2>4, <2>5 DEF PostRelease
<1>4. ASSUME NEW r \in Requests, FlushAccounts(r) \/ FlushEntries(r) PROVE CarriedInv'
  <2>1. faults = 0
    BY <1>4 DEF FlushAccounts, FlushEntries
  <2> QED
    BY <1>4, <2>1, CarriedFlush
<1>5. ASSUME NEW r \in Requests,
             \/ ReadCostItem(r) \/ PutIntent(r) \/ AuthorizeItem(r) \/ ReadIntent(r)
             \/ FailIntent(r) \/ ItemDue(r) \/ ConfirmIntent(r) \/ ItemPaid(r)
             \/ ClosePayment(r) \/ ReadMilestone(r) \/ CloseRelease(r)
             \/ PutEvidence(r) \/ PutVerified(r)
      PROVE  CarriedInv'
  <2> USE DEF ReadCostItem, PutIntent, AuthorizeItem, ReadIntent, FailIntent, ItemDue, ConfirmIntent,
       ItemPaid, ClosePayment, ReadMilestone, CloseRelease, PutEvidence, PutVerified
  <2>1. /\ up' = up /\ faults' = faults
        /\ UNCHANGED <<entries, storedAccounts, storedEntries>>
    BY <1>5 DEF snapshot, ledger
  <2>2. req[r].step \notin FlushSteps
    BY <1>5 DEF At, FlushSteps
  <2>3. Done(r) \/ \E s \in Steps : Go(r, s)
    BY <1>5 DEF Steps, CreateSteps, WebhookSteps, ReleaseSteps
  <2> QED
    BY <2>1, <2>2, <2>3, StepsAside, CarriedFrame
<1>6. ASSUME NEW r \in Requests, PutTransaction(r) PROVE CarriedInv'
  <2>1. req[r].hook.event \in Events /\ req[r].step \notin FlushSteps
    BY <1>6, HookOf DEF PutTransaction, At, WebhookSteps, FlushSteps, TypeOK
  <2>2. Done(r) \/ \E s \in Steps : Go(r, s)
    BY <1>6, <2>1 DEF PutTransaction, Events, Steps, WebhookSteps
  <2>3. /\ up' = up /\ faults' = faults
        /\ UNCHANGED <<entries, storedAccounts, storedEntries>>
    BY <1>6 DEF PutTransaction, snapshot, ledger
  <2> QED
    BY <2>1, <2>2, <2>3, StepsAside, CarriedFrame
<1>7. ASSUME NEW r \in Requests,
             \/ \E u \in Users, i \in Items, k \in Keys, n \in Intents : CreateIntent(r, u, i, k, n)
             \/ \E w \in sent : Deliver(r, w)
             \/ \E n \in Intents : ReleaseSettlement(r, n)
             \/ \E m \in Milestones : SubmitEvidence(r, m) \/ VerifyMilestone(r, m)
      PROVE  CarriedInv'
  <2>1. /\ up' = up /\ faults' = faults
        /\ UNCHANGED <<entries, storedAccounts, storedEntries>>
    BY <1>7 DEF CreateIntent, Deliver, ReleaseSettlement, SubmitEvidence, VerifyMilestone,
                snapshot, ledger
  <2>2. req[r].step = "idle" /\ \A s \in Requests : s # r => req'[s] = req[s]
    BY <1>1, <1>7 DEF CreateIntent, Deliver, ReleaseSettlement, SubmitEvidence, VerifyMilestone, Idle
  <2>3. FlushesStay
    BY <2>2 DEF FlushesStay, FlushSteps
  <2> QED
    BY <2>1, <2>3, CarriedFrame
<1>8. CASE (\E w \in Webhooks : ProviderReports(w)) \/ UNCHANGED vars
  BY <1>8, CarriedFrame DEF ProviderReports, vars, snapshot, ledger, FlushesStay
<1>9. /\ \A r \in Requests : ~StorageError(r)
      /\ ~Crash /\ ~Restart
  <2>1. \A r \in Requests : ~StorageError(r)
    BY <1>1 DEF StorageError
  <2>2. ~Crash
    BY <1>1 DEF Crash
  <2>3. ~Restart
    BY <1>1 DEF Restart
  <2> QED
    BY <2>1, <2>2, <2>3
<1> QED
  BY <1>2, <1>3, <1>4, <1>5, <1>6, <1>7, <1>8, <1>9 DEF Next, Continue

\* However flushes overlap, nothing is left out of the snapshot as long as no storage
\* operation fails and the process is not killed: for any number of requests and payees.
THEOREM FlushesCatchUp == Spec => []SnapshotCatchesUp
<1>1. Init => CarriedInv
  BY DEF Init, CarriedInv
<1>2. TypeOK /\ LogInv /\ CarriedInv => SnapshotCatchesUp
  <2> SUFFICES ASSUME TypeOK, LogInv, CarriedInv, faults = 0,
                      \A r \in Requests : req[r].step \notin FlushSteps
               PROVE  storedEntries = entries /\ Loadable
    BY DEF SnapshotCatchesUp
  <2>1. /\ entries \in Seq(JournalEntry) /\ storedEntries \in Seq(JournalEntry)
        /\ Begins(storedEntries, entries)
    BY DEF TypeOK, LedgerOK, LogInv, CarriedInv
  <2>2. ASSUME NEW x \in DOMAIN entries
        PROVE  x <= Len(storedEntries) /\ CanPost(storedAccounts, entries[x].lines)
    BY DEF CarriedInv, AccountsCarried, EntryCarried, FlushSteps
  <2>3. Len(storedEntries) = Len(entries)
    <3>1. CASE Len(entries) = 0
      BY <2>1, <3>1 DEF Begins
    <3>2. CASE Len(entries) > 0
      <4>1. Len(entries) \in DOMAIN entries
        BY <2>1, <3>2
      <4> QED
        BY <2>1, <2>2, <4>1 DEF Begins
    <3> QED
      BY <2>1, <3>1, <3>2
  <2>4. storedEntries = entries
    BY <2>1, <2>3 DEF Begins
  <2> QED
    BY <2>2, <2>4 DEF Loadable
<1> QED
  BY <1>1, <1>2, CarriedStep, TypeCorrect, LogInvariant, PTL DEF Spec
===============================================================================

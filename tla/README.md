# TLA+ models of ProbashPoth

This directory holds TLA+ specifications of the system in this repository, the
TLC configurations that check them on small instances, and theorems about them
that the TLA+ proof system checks for every value of the constants. Paths are
those of the repository; `src/` is its root.

## The system

A monorepo. The core API (`apps/api`, NestJS) is one Node process in front of
PostgreSQL. Its services keep their records in collections
(`storage/ports.ts`: `get`, `require`, `list`, `find`, `put`) that live in one
table of JSON rows keyed by namespace and id. A collection offers neither a
transaction over several operations nor a conditional write, so every service
method is a chain of separate storage operations; between two of them any other
request may run. Around the API are a document worker (Cloudflare queue
consumer), a mobile app with an offline queue, and a web app with a store of its
own.

| component | state | operations | hard behaviour | what makes it correct |
|---|---|---|---|---|
| Ledger (`packages/ledger`) | accounts, journal entries, key index, in memory | openAccount, post, reverse; balanceOf, trialBalance | replayed keys, several currencies, reversals of reversals | balanced, append-only, replayable |
| Settlement postings (`settlement.ts`) | none of its own | openCaseAccounts, recordConfirmedPayment, recordSettlementRelease, refunds | the payee's balance is pooled over cases | a release never spends another case's money |
| Payment rail (`modules/payments`) | intents, transactions, cost item status | createIntent, handleWebhook, releaseSettlement | concurrent and repeated requests, redelivery, stale reads, crash between writes | posted once, released only when earned, nothing told to a user that a crash can undo |
| Snapshot (`storage/postgres`) | account and entry rows | flushLedger, hydrateLedger | overlapping flushes, crash between the two transactions | the stored journal is a loadable prefix |
| Cases | case, milestones, tasks, cost plan | create, act | whole-record writes of stale copies | the history is a walk of the state machine |
| Costs, money | cost items, cost plans | plan, totals, refunds | rounding, currencies of 0, 2 and 3 decimals | nothing unlawful is collectable, parts add up |
| Identity, session guard | challenges, users, sessions, consents | requestOtp, verifyOtp, getProfile | guesses in parallel, double verification | attempts bounded, one user per phone |
| Delegations | delegations, consents | invite, revoke | invite against sign-up, revoke from a copy | a revoked delegation gives nothing |
| Authorization (`packages/auth`) | none | authorize | long decision list, several roles | deny unless a rule allows |
| Partner supply, operations | submissions, publication changes, grants, complaints, reviews | submit, review, grant, revoke, pipeline | two records per decision, two reviewers | nothing is published that was not reviewed by another |
| Work and study applications | applications, scans, decisions, shortlist | apply, decide, pipeline | applicant and partner write the same record | an offer is accepted knowingly and once |
| Outcomes | outcomes, reviews | record, review, aggregate, trust edges, follow-ups | two reviews of one outcome, small cohorts | counted once, hidden below the cohort |
| Passport | three profiles, assessments, matches | getBundle, update*, assess, match | find-or-create, lost update, unknown facts | no update is lost, unknown stays unknown |
| Documents (API) | files, documents, shares | upload, share, revokeShare | file and record written apart | every record has its file |
| Document worker | scan jobs, outbox, two buckets | drain, claim, scan, finish | lease expiry, redelivery, crash between object and row | a verdict is final, nothing unscanned is served |
| Rules, eligibility, scanner, scholarships | none | evaluate, scan, evaluateScholarship | three-valued logic, order of verdicts | unknown is never a verdict, alarms stand |
| Reference data, public verification, demo API | read-only collections | catalogue views, publicVerify, QR codes | the same thing shown by several views | the views agree, nothing expired or made up is verified |
| Storage | rows of each collection | connect, seed, put, get, remove, reset | seeding interrupted, two instances starting | what was put is what is read |
| Configuration | the environment | loadEnv, gates | combinations of settings | no document upload without every control |
| Mobile offline queue | queued mutations and uploads | enqueue, flush | send-then-delete | nothing is lost or reordered |
| Web sign-in (`apps/web/db/identity.ts`) | identity links | resolve, webhook | two first requests | one account per subject |
| Web workspace (`operations.ts` and its forms) | profile, journeys and their tables, documents | some forty functions behind forms | writes of stale copies, two rows per call | the direction chosen last, each journey once and whole, amounts as typed |

How they interact: controllers call services; services share the collections;
the payment rail calls the ledger and reads the milestones that the cases
service writes; an application creates a case; supply and operations write
each other's records; supply writes the status of applications; audit and
outbox records are the last writes of most methods; the document worker drains
its outbox table into a queue that calls it back. The web app keeps its own
tables and stands in for the API with a demo. `PROJECT.json` lists every
component with its status and, under `hazards`, what is hard to test in it.

## Modules

| module | what it is |
|---|---|
| `JournalOps` | the journal as pure operators: `IsBalanced` (assertBalanced), `Open`, `Post`, `Swapped` (the lines of reverse), `BalanceOf`, `TrialBalance` |
| `Ledger` | the `Ledger` class on its own, under arbitrary callers |
| `MCLedger` | its instance for TLC |
| `JournalProofs` | lemmas on sums, on balanced entries and on journals entry by entry |
| `LedgerProofs` | theorems on `Ledger` |
| `SettlementBook` | abstract specification: a book of payments received, settlements due and settlements released |
| `Payments` | payment rail, ledger, snapshot, milestones, provider and faults together; implements `SettlementBook` |
| `MCPayments` | its instances for TLC |
| `PaymentsProofs` | theorems on `Payments`: types, the journal and its snapshot, what is announced, what is released, what is held, what overlapped flushes store, the refinement |
| `DocumentPipeline` | upload and deletion of the web Worker, outbox, queue, consumers and cron trigger of the document Worker together |
| `DocumentProofs` | theorems on `DocumentPipeline` |
| `Requests` | requests of one process, cut at their awaits; which of them met or died |
| `CaseLifecycle`, `Publication`, `Applications`, `Oversight`, `Accounts`, `Passport`, `Wallet` | the other services of the API |
| `Collections`, `Store` | the record storage of the API, in memory and in PostgreSQL |
| `WebIdentity`, `Workspace` | sign-in and tables of the web app |
| `OfflineQueue` | the queue of the mobile app |
| `Services`, `MCServices` | their composition, and its instance for TLC |
| `ServicesProofs`, `SupplyProofs`, `RecordProofs` | theorems on `Services`: requests, cases, the mobile queue and the storage; applications, publication, oversight and accounts; the users' own records, the passport and the types of all records |
| `Eligibility`, `Authorization`, `Scanner`, `Costs`, `PassportFacts`, `Readiness`, `Scholarships`, `Cohort`, `Catalogue`, `Configuration`, `Forms`, `Dashboard` | calculations without state, as operators |
| `Decisions`, `MCDecisions` | what they must satisfy, and the inputs over which TLC looks |
| `DecisionProofs` | theorems on `Decisions`: access and protection, the alarms of the scanner, amounts of money, verdicts that stand |

### Ledger

The state is what the class keeps: `accounts` and `entries`; the index
`byIdempotencyKey` is `HasKey`. `OpenAccount`, `PostEntry` and `Reverse` are the
three methods, called with any candidate account, any line list and any key. A
call that throws changes nothing, which is what `Post` and `Open` return.
Amounts are integers of any size, as `Money` holds a `bigint`. Left out: entry
and line ids, references, memos, metadata, timestamps. `reverse` looks the
original up by id; the model names it by its key, which is as unique.

### Payments

The API is one process, so the grain of atomicity is given by `await`: a step of
a request is one storage operation with the synchronous code that follows it.
`req[r].step` names the operation that request `r` waits for, and the other
fields are the locals that later steps use.

| code | actions, in order |
|---|---|
| `createIntent` | `CreateIntent`, `ReadCostItem`, `PutIntent`, `AuthorizeItem` |
| `handleWebhook`, refused or replayed | `Deliver`, `ReadIntent` |
| `handleWebhook`, payment.failed | ... `PutTransaction`, `FailIntent`, `ItemDue` |
| `handleWebhook`, payment.confirmed | ... `PutTransaction`, `PostPayment`, `FlushAccounts`, `FlushEntries`, `ConfirmIntent`, `ItemPaid`, `ClosePayment` |
| `handleWebhook`, refund.completed | ... `PutTransaction` |
| `releaseSettlement` | `ReleaseSettlement`, `ReadMilestone`, `PostRelease`, `FlushAccounts`, `FlushEntries`, `CloseRelease` |
| `act`: submit_milestone_evidence, verify_milestone | `SubmitEvidence`, `PutEvidence`; `VerifyMilestone`, `PutVerified` |
| `connect`, `hydrateLedger` | `Restart` |
| the environment | `ProviderReports`, `StorageError`, `Crash` |

Three places need care. `PostPayment` opens the accounts, posts the entry and
calls the flush without an await in between, and the flush takes its list of the
accounts at that moment: `opened`. `FlushAccounts` writes that list and only
then lists the entries: `length`. `FlushEntries` writes the first `length`
entries, rows already there stay. That the two lists are taken at different
times is what the run `two_payees` is about.

Abstractions:

- Stored accounts and entries are identified by code and key. After a restart
  the ledger gives entries new ids, so a later flush stores a second row for
  them; hydration drops the second row as a replay. Hydration sorts by
  `recordedAt`; two entries recorded in the same millisecond keep their order
  in the model.
- A `get` followed by a `put` of the same cost item in one branch of the webhook
  is one step (`ItemDue`, `ItemPaid`): the copy that is written differs from the
  record in nothing but the status that the write sets anyway.
- Registration at the provider is merged with the read of the cost item before it.
- A milestone is its status and whether `verifiedAt` is set. Both milestone
  actions find the record in one step and put the copy in another, so that
  evidence asked for before a verification and written after it erases
  `verifiedAt`. That a verification was once written is therefore not read off
  the record but kept in the history variable `attested`, which no action reads;
  the properties on releases and the refinement are about it.
- A fee may be zero. `recordConfirmedPayment` then throws in `assertBalanced`
  (`journal.ts:56`), after the transaction was recorded and the accounts opened.
- First reads that refuse a call (wrong owner, wrong case, unknown id, invalid
  signature) change no modelled state and are guards of the request's first
  action. Two consecutive first reads are one step.
- One currency. Several currencies are covered by `Ledger`.
- Audit and outbox records are `trail`, kept only for the two events that tell a
  user about money.
- An intent is fresh when no intent and no request uses its id (`uuidv7`).
- The refund accounts are opened as the code does, and nothing posts to them:
  no caller in the API records a refund obligation.

### DocumentPipeline

Three kinds of process share a PostgreSQL database, two R2 buckets and a queue:
the web Worker, consumers of the queue and the cron trigger. A database
transaction is one step, each call to a bucket or to the queue another.

| code | actions, in order |
|---|---|
| `storePostgresDocument` | `Upload`, `PutObject`, `CommitUpload`, `Enqueue` |
| its catch block | `UploadFails`, `Revert` or `RevertFails`, `RemoveObject` |
| `deletePostgresDocument` | `Delete`, `DeleteObject` or `DeleteFails` |
| `getPostgresDocumentObject` | `Servable` (a predicate: it changes nothing) |
| `scheduled` | `DrainSend`, `DrainCommit` or `DrainFails` |
| `claimJob` | `Skip` (verdict known), `TurnAway` (JOB_BUSY), `Claim` |
| `processJob`, `rejectJob`, `finishJob` | `Inspect` or `InspectMissing`, `Store`, `Finish`, `RemoveQuarantined` |
| the environment | `WorkerFails`, `WebCrash`, `LeaseExpires` |

- The rows that one upload creates (document, scan job, outbox event, listing)
  and its objects share the index `d`; objects are pairs of a key prefix and a
  document. The intent's status and the document events are written and never
  read, and left out.
- The lease is `updated_at` compared with the clock. The model keeps whether it
  is recent; `LeaseExpires` may come at any moment, also while a consumer works.
  `overrun` records the documents for which it did.
- The verdict is a free choice: checksum, magic bytes and scanner together. Two
  scans of one document may disagree.
- `messages` counts the copies of each message; a delivered message is invisible
  until it is acknowledged or retried. Retries are counted as the queue does,
  `max_retries` of `wrangler.example.jsonc` being the constant `MaxRetries`.
- The queue acknowledges in the step that removes the quarantined object. A
  consumer that dies between the two finds the verdict on its next delivery.
- A COMMIT that takes effect and is reported as failed is not modelled.
- Of a batch of messages a consumer handles one after the other: a worker holds
  one.

### Requests and the services

The API is one Node process: an `await` is where another request may run.
`Requests` holds what every service shares. `req[r].at` names the operation that
request `r` waits for, its other fields are the locals used later, `req[r].on`
the record it works on. `Begin` starts a call, `Goto` continues it, `Answer` ends
it, `Single` is a call of one step, `Dies` the end of a request half-way: an
operation of the storage that throws, or the process killed. Two
history variables say what an invariant may promise: a record is `contested` once
two requests worked on it at the same time and `faulted` once one died on it.
`Undisturbed(x)` excludes both. Invariants that need the exclusion say so; where
the code holds under contention they do not have it.

In the tables an arrow is an await. Reads that only refuse are guards of the
first action, reads of what no one changes are left out, and audit and outbox
records are written and never read.

| module | code | actions |
|---|---|---|
| `CaseLifecycle` | `create`, `generatePlan` | `CreateCase` -> `PutTasks` -> `PutMilestones` -> `PutItems` -> `PutPlan` |
| | `act` | `CompleteTask`; `SubmitMilestoneEvidence` -> `PutEvidence`; `VerifyMilestone` -> `PutVerified`; `Advance`, `AdvanceUntargeted`, `Withdraw` -> `PutCase` |
| `Publication` | `createSubmission`, `declareFee` | `CreateSubmission`, `DeclareFee` |
| | `submitForReview` | `SubmitForReview` -> `PutChange` -> `PutSubmission` |
| | `createPublicationChange`, `submitPublicationChange` | `CreatePublicationChange`; `SubmitPublicationChange` -> `PutInReview` |
| | `reviewPublicationChange` | `ReviewPublicationChange` -> `PutDecision` -> `FindSubmission` -> `PutReviewed` |
| `Applications` | `createApplication` | `CreateApplication` -> `PutApplication` |
| | `offerReview`, `decideOffer` | `Scan`; `DecideOffer` -> `ListScans` -> `PutOfferDecision` -> `PutDecided` |
| | `grantAccess`, `revokeAccess` | `GrantAccess` -> `PutConsent` -> `PutGrant`; `RevokeAccess` -> `PutRevoked` -> `PutWithdrawn` |
| | `updatePipeline`, shortlist | `UpdatePipeline` -> `PutStatus` -> `PutEvent`; `AddShortlist` -> `PutSlot`, `RemoveShortlist` |
| `Oversight` | complaints | `CreateComplaint`, `UpdateComplaint` -> `PutComplaint` -> `PutComplaintEvent` |
| | human reviews | `CreateReview`; `DecideReview` -> `PutReviewDecision` -> `PutReview` |
| | outcomes | `RecordOutcome`; `ReviewOutcome` -> `PutOutcomeReview` |
| `Accounts` | `requestOtp` | `RequestOtp` -> `PutChallenge` |
| | `verifyOtp` | `VerifyOtp` -> `PutAttempt`, or `PutConsumed` -> `FindUser` -> `PutUser` -> `PutProfile` -> `PutAccountConsent` -> `PutSession` |
| | `getProfile`, `invite`, `revoke` | `GetProfile` -> `PutMissingProfile`; `Invite` -> `PutDelegationConsent` -> `FindDelegate` -> `PutDelegation`; `Revoke` |
| | the session guard, the clock | `ActsFor` (a predicate); `Age` |
| `Passport` | `getBundle`, the updates, `assess`, `match` | `Use` -> `Find` (three times) -> `Create` -> `Update` -> `FindLegacy` -> `PutLegacy`, `PutAssessments`, `Reassess`, `PutMatch` |
| `Wallet` | `upload`, `share`, `revokeShare` | `Upload` -> `PutDocument`; `Share` -> `PutShare`; `RevokeShare` -> `PutShareRevoked` |
| `Store` | `createStorage`, `connect`, `ensureSeed` | `StartInMemory`; `Connect` -> `CountSeed` -> `PutSeed` (one step for each collection) |
| | the collections | `PutRecord`, `RemoveRecord`, `Reset` |
| `WebIdentity` | `resolveAppUserId` | `ResolveKnown`; `ResolveUnknown` -> `InsertLink` -> `RereadLink` on D1, -> `CommitIdentity` on PostgreSQL |
| | the webhook of the provider | `UserDeleted` |
| `Workspace` | profile | `SavePassport`; `CompleteOnboarding` -> `SetRoles`; `UpdateDirection` -> `WriteDirection`; `SetActiveWorkspace` -> `WriteActive` |
| | journeys | `CreateJourney` -> `InsertJourney`; `AddJourneyRecord` -> `InsertAlert`; `CompleteJourneyTask`, `SetJourneyRecordStatus`, `MarkAlertRead`, `CreateOutcomeReport` |
| | the other tables | `CreateVerificationRequest` and its like (`File`), `AddDelegation`, `RevokeDelegation` |
| `OfflineQueue` | `enqueue*`, `flush*` | `Enqueue`; `Flush` -> `Send` or `SendRefused` -> `DeleteRow` |
| | the phone | `Breaks` (kill of the app or loss of the network) |

`Services` composes them. They share the requests, and one calls another only to
create a case; the variable `scenario` picks the service that a behaviour
exercises, which keeps the state space a sum instead of a product. What the
payment rail and the document worker share with others is modelled in `Payments`
and `DocumentPipeline`.

### Decisions

The calculations have no state, so they are operators, and `Decisions` turns them
into a specification that TLC can search: `Init` chooses a `question` from the
inputs of a kind, one action for each kind computes the `answer`, and the invariants
relate the two, mostly by asking again with a changed question (one more alarm, one
more answer, another role, a later day).

Where arms of a decision overlap in the code, whose first match wins, the operator is
an IF and ELSE IF: the arms of a TLA+ CASE have no order. A rule is evaluated by a function
on the expressions of the rule books; `Height`, how deep each of them is, is a constant
of the model that says that they are finite trees.

| question | operators | code |
|---|---|---|
| eligibility | `Eligibility` | `rules/evaluate.ts`, `eligibility.service.ts` |
| authorization | `Authorization` | `auth/authorize.ts` |
| scan | `Scanner` | `scanner.service.ts`, `domain/risk.ts` |
| costs, amount | `Costs` | `domain/cost.ts`, `costs.service.ts`, `money.ts`, `computeRefund` |
| readiness, match | `Readiness`, `Dashboard` | `domain/passport.ts`, `matching.ts`; the tasks and the progress of a journey |
| records | `PassportFacts` | what the passport's updates write and which facts they give |
| scholarship | `Scholarships` | `apps/web/lib/scholarships.ts` |
| cohort, reports, follow_ups | `Cohort` | `outcomes.service.ts`, the analytics of `supply.service.ts` |
| catalogue | `Catalogue` | `load-seed.ts`, `catalogue.service.ts`, `jobs.service.ts`, `qr.service.ts`, discover, directory, programmes, `demo-api.ts` |
| environment | `Configuration` | `env.ts`, `release-gates.ts`, sign-in and database of the web app |
| form | `Forms`, `Dashboard` | `OperationalForms.tsx` and the pages with forms, `operational-actions.ts`, `operations.ts`, the counts |

## Runs

| run | instance | question | distinct states |
|---|---|---|---|
| `ledger` | 4 codes, 2 currencies, 6 candidate accounts, 8 line lists, 3 keys, at most 3 entries | Does the class keep its books under any caller? | 1,917 |
| `payments` | 2 requests, 2 intents, 2 keys, 2 transactions, 4 fees in 2 cases of 2 workers, one milestone, no faults, symmetric | Are payments posted once, releases earned, balances exact, flushes complete? Does the stored journal implement `SettlementBook`? | 1,518,773 |
| `payments_faults` | 2 requests, 1 intent, 2 transactions (confirmed, or failed for the second), one fault | What of that survives a crash or a failed operation, and is what the provider keeps reporting recorded? | 334,284 |
| `documents` | 1 document, 2 consumers, 1 retry, 2 faults, deletions at any time | Do objects follow their records, does one consumer work on a job, does a verdict stand, is every queued job decided? | 428,085 |
| `services` | 2 requests, one of which may die, 2 to 5 calls of one of 12 services | Do the services keep their records when their calls overlap and stop half-way? | 922,257 |
| `decisions` | the inputs of `MCDecisions`, each asked once | Are the calculations right, and do they agree with each other? | 122,814 |
| `same_key` | 2 requests, 2 intents, 1 key | violated: one key, one intent | |
| `lost_payment` | 2 requests, 1 transaction, one fault | violated: an acknowledged payment is posted | |
| `two_payees` | 2 requests, 2 payees, one fault | violated: the stored journal can be hydrated | |
| `deleted_document` | 1 document, 1 consumer, no faults | violated: a deleted document is not served | |
| `services_advance` | the services | violated: an advance without a target goes forward | |
| `decisions_cohort` | the cohorts only | violated: no individual record is shown | |

### Bounds

- `payments`, `payments_faults`. Every hazard of the rail listed in
  `PROJECT.json` involves two requests and at most two transactions or two
  intents: an overtaken check, a duplicate, an overlapped flush, a stale copy of the
  milestone. The four fees of `payments` are those that make a difference: two of
  one payee with different amounts (1 and 2) in one case, so that the pooled balance
  is interesting and an entry of a wrong amount shows; one of another worker's case
  that no milestone settles; and one of zero. One fault at any step covers every point
  of a crash; a second one finds the process in a state that the first already
  reaches.
- `ledger`. Three entries suffice for a reversal of a reversal under a key of its
  own.
- `documents`. The only step over several documents, the batch of the cron
  trigger, treats each alike. Two consumers and two copies of the message give
  every overtaking of the lease, and two faults let the compensation of a failed
  upload fail as well. One retry is the shortest way to a message that is retried
  and to one that is used up.
- `services`. The hazards are pairs of calls, so there are two requests;
  `MaxCalls` lets a third call (a second review, a second hand-in, a code used
  after two guesses) meet what they left. `MaxFaults` is 1. Cases start before a
  route is chosen, after it, and at both sides of the end of the path (`MCProgress`),
  since a full walk of 17 steps adds nothing to its ends. Two subjects share one
  email address; the queue holds three rows of which the API refuses the third;
  the seed has three collections: the one that is counted, one between and the last.
- `decisions`. Each kind of input has the values at which the code decides
  differently: rule trees of two checks under every connective; subjects with up to two
  roles; amounts around a rounding; a cohort around the minimum of five; outcomes
  that state a value and that do not; days around a checkpoint; environments with all
  controls, with all but one and with none; typed amounts around a cent and around
  the largest exact number, in a format of doubles with a significand of 9 bits
  (`Half` = 256, `MaxSafe` = 511, where the code has 2^53 - 1), small enough that sizes
  at which a number or its product is not exact occur; submissions that a form offers, and some that no form offers.

No deadlock is looked for where the system may rest: when every transaction is used
(`MCPayments`), when a document has its verdict, when the calls of a behaviour are
made (`MCServices`), when a question is answered (`MCDecisions`).

### What the properties say

Each is stated in words above its definition. The deepest ones:

- `PostedOnce`: the replay lookup of `handleWebhook` is separated from its
  write by two awaits and does not prevent a double posting; the key of
  `Ledger.post` does.
- `HeldIsOwed`: the balance held for a payee, pooled over cases, is to the unit
  what was confirmed and not yet released.
- `ReleaseIsEarned`: when a release is posted its payment is in the journal
  before it and a verification of its milestone was written before it, even if
  evidence submitted again, or written from a stale copy, has meanwhile set the
  milestone back.
- `ConfirmedIsDurable`: confirmed, paid, and the two audit events are only said
  when the entry is in the snapshot.
- `StoredIsPrefix`: overlapping flushes never leave a gap or a reordering.
- `SnapshotCatchesUp`: nor do they leave an entry or an account out: without faults
  the snapshot is the journal, and can be loaded, whenever no flush is under way. In
  between, and therefore after a crash, it need not be loadable, as `two_payees`
  shows; no property claims that it is.
- `BookSpec`: refinement of `SettlementBook` by the stored journal.
- `RecordedIsStored`, `ReportedIsRecorded`: what the provider keeps reporting is
  recorded and stored in the end. That a payment which is only acknowledged may
  be lost is what `lost_payment` shows.
- `ObjectsFollowStatus`: listing, document row and the two buckets are written at
  different times by consumers that may disagree, and deleted by a third party;
  what is listed as clean can be downloaded, and what is undecided has its bytes.
- `VerdictIsFinal`, `OneWorkerPerJob`: every job is sent twice by design (at
  once and from the outbox); the lease keeps the second consumer away, and only
  a consumer that outlives its lease can replace a verdict.
- `QueuedIsDecided`: no queued job is lost silently. Its second alternative is
  real: one failed scan leaves the lease in place, the retries are turned away
  and can be used up before it ends, and the job stays undecided with its
  message in the dead-letter queue.
- `HistoryIsWalk`: `transition` writes whole records from stale copies; a step can
  be lost, two halves are never joined.
- `SubmissionFollowsReview`: whatever overlaps, a decided submission names a change
  on which somebody other than its author took that decision.
- `AcceptedKnowingly`: an accepted job rests on a decision of the applicant that
  acknowledged every risk on record when it was asked for.
- `SignInOnce`: a session belongs to a user of the phone the code was sent to.
- `ArrivesInOrder`, `QueueDrains`: with two flushes and kills at any step the
  mutations arrive in order and without a gap, and all that is not behind a refused
  one leaves the queue.
- `UserRecordsHold`: one account for each subject in either database, a definite
  path once one was chosen, journeys whole, documents with their files, a storage
  whose seeding never puts the seed over what was written since.
- `VerdictStands`: no verdict is taken back by an answer that was missing, with
  the two exceptions that the code makes itself (a rule that asks whether a fact is on
  record, and one with a negation).
- `DecidedLeavesQuarantine`: whatever fails, at whatever step of whatever process, the
  bytes of a document with a verdict leave quarantine, with one exception: the very
  process that wrote the verdict failed before it deleted them (`stranded`), to
  which nothing comes back.
- `ProtectionsHold`: the protections of a record hold for every mixture of roles;
  no document is accepted without every control; a submission that no form offers
  stores nothing without consent, in another's journey or as checked.
- `AlarmsStand`: what speaks against an offer is always said, what is grave goes to a
  person, and to tell the scanner more, of anything but the job (see
  Observations), never makes it less alarmed.
- `MoneyAddsUp`: plan totals, refunds item by item, and amounts that read back as
  they were typed, exactly up to `ExactLimit` (a quarter of the largest exact integer)
  and within two and a half minor units up to that integer. `Forms.Rounded` is
  `Math.round(amount * 100)` in doubles, which round the number that is read and the
  product each to the nearest (`Nearest`).
- `AnswersOnlyAdd`: a readiness never falls because a question was answered well,
  and what is added to the records of a passport takes nothing from what they are
  worth.
- `ShownIsTrue`: the views of catalogue, directory, discovery, public verification
  and demo agree with each other and with the records, at the time they are read.
  Of made-up records it says that none is listed, discovered or verified by its
  number; pages opened by the id of a record, and the matches of a passport, do not
  filter them (see Observations).

Disagreements between code and text are listed under `findings` of
`PROJECT.json`; each has a run whose counterexample shows it.

### Fairness

`FairSpec` of `Payments` assumes three things. A request that has begun goes on
(`WF(Continue(r))`): Node resumes a method whose storage operation has settled.
A process that died is started again (`WF(Restart)`): that is the deployment's
job, and the action is only enabled when hydration succeeds. The provider
redelivers the webhook of a transaction it has not seen answered
(`SF(Redeliver(t))`; a transaction id belongs to one webhook): this is an
assumption about an external service that is not in `src/`, the reason why
`handleWebhook` is written to be replayable. It is strong fairness because the
number of request slots is a bound of the model only: a slot that is repeatedly
free is eventually given to the redelivery.

For the document pipeline `FairSpec` assumes that an upload that is not stopped
goes on, that the cron trigger fires, that the queue delivers what it holds to
some free consumer and that a consumer goes on. Deletions, failures and the end
of a lease are never forced.

`QueueFairness` of `OfflineQueue` assumes that a flush in progress goes on and
that, while rows wait, the user opens the app again, which starts a flush. Kills
and lost connections are never forced and at most `MaxErrors` in a behaviour.
The other services have safety properties only.

## Proofs

`tlapm` checks these for every value of the constants. No bound on requests, records,
amounts, entries, retries or faults is used: where the model caps a counter, the
proofs do not look at the cap. What they assume of the constants is named in the
modules that declare them:

| assumption | what it says |
|---|---|
| `LedgerAssumption`, `PaymentsAssumption`, `RecordAssumption`, `PipelineAssumption` | constants have the type their comments say, the sentinels are no members of the sets they stand outside of |
| `PublicationAssumption` | a submission and a publication change never share an id, and `"none"` is no id (`uuidv7`) |
| `CaseAssumption` | a case starts before the end of the happy path (`Progress`) |
| `AccountsAssumption` | `"none"` is no phone |
| `QueueAssumption` | the rows of the mobile queue are numbered |
| `WebIdentityAssumption` | every subject has an e-mail address, `"none"` is no account |
| `WorkspaceAssumption` | a journey without a target (`Blank`) is told from one with |
| `StoreAssumption` | there is reference data, none of its collections is the one of user records, the seed is finite |
| `ExpressionsAssumption` | a rule is what `parseRuleVersion` lets pass: a finite tree (`Height` falls from a node to its nodes), no group is empty, a check has one of the operators of the DSL |
| `RulesAssumption`, `FactsAssumption` | the versions of a rule book hold such trees; a fact that a rule asks for is in every bag of facts, if only as absent (JavaScript reads `undefined`) |
| `DeploymentsAssumption` | a deployment is a choice for every variable that `loadEnv` reads |
| `FeesAssumption` | fees are finitely many, borne by one of the payers of the schema, in whole minor units from 0. The seed's schema would take a sign; the reference data has none, and a refund that lies between nothing and the amount needs it |
| `RefundAssumption` | the basis points of a refund rule are an integer; nothing keeps them below 10,000 |
| `TypedAmountsAssumption`, `CraftedAssumption` | an amount field takes numbers from 0 in steps of a hundredth (`min`, `step`); a submission that no form offers has any amount in the range of doubles |
| `DoublesAssumption` | a significand has at least 4 bits; no other property of the format is used |
| `PapersAssumption` | the answers about certificates, transcripts, the language test and the proposal are booleans or not given |
| `OffersAssumption` | an offer that asks for a research proposal is open to doctorates, as MEXT, the only one in `SCHOLARSHIPS`, is |

Journal and ledger:

- `JournalProofs`. Sums: `TotalRecursion`, `TotalAppend`, `TotalPair` follow
  from `NatSetInduction`, induction stated over a set so that no operator
  parameter is needed. `PairIsBalanced`: the two-line entries of `settlement.ts`
  balance. `BalancedEverywhere`: a balanced entry debits and credits each
  currency alike, the ones it does not use included. Sums over a finite set of
  accounts or of intents: they exist, are unique, and add up (`SumsExist`, `SumIs`,
  `SumAdds`, `SumSingle`), by `SubsetInduction`; `SumOver` is the sum that
  `MapThenSumSet` of the community modules computes. `Beginnings`: induction over
  the beginnings of one sequence, so that a fact about a journal is shown in a
  single state.
- `LedgerProofs`. `TypeCorrect`; `NoDoublePosting` and `AlwaysReplayable` (by
  induction on steps, the latter because `Open` never removes an account);
  `OnlyAppends`; `TrialBalanceIsZero` (`Replayable` gives that each entry
  balances, `TotalAppend` carries the sums); `ReversalIsExact`. The last one
  needs an invariant stronger than the property: `Mirrored`, that the lines of a
  reversing entry are the swapped lines of the entry it names. `EquationHolds`
  (`AccountingEquation`): `AccountsInv`, that accounts are finitely many and one per
  code, is inductive; a line that could be posted is then on exactly one account,
  which is kept in its currency, so what a journal debits in a currency is what it
  debits on the accounts of either side together (`LinesOnAccounts`,
  `JournalOnAccounts`), and the trial balance does the rest.

Payment rail:

- `PaymentsProofs`. `TypeCorrect`: `TypeOK` is inductive, since `RequestOK`
  says of every step what its locals are and that its intent is on record.
  `NoDoublePosting` and `SnapshotIsPrefix` share the invariant `LogInv`: keys of
  the journal are unique, the stored journal is a prefix of it, and a request
  about to write entries listed no more than there are (in `RequestOK`).
  `AnnouncedIsStored`, `OnlyEarnedReleases` and
  `ImplementsBook` share `SettlementInv`. `ProvenanceInv`: a confirmation on
  record was sent by the provider for a registered intent of that amount.
  `CreationInv`: while an intent is being created no other request works on it.
  `GenuineInv`: each entry of either journal is the payment of a recorded
  confirmation or the release of an intent paid before it whose milestone is in `attested`;
  a request past its read of a verified milestone knows as much (a milestone on record
  with `verified` is attested, however it is overwritten later).
  `ProgressInv`, the invariant that carries the proofs, follows a request along
  its three writes: at `flush_accounts` its entry is in the journal, at `flush_entries`
  below the length it listed, after that in the snapshot. What it then writes (status,
  item, audit record) is announced only from there, and what is in the snapshot
  stays (`Growth`). The refinement maps `FlushEntries` to the steps of
  `SettlementBook` that the newly stored entries stand for, all at once, and every
  other step to a stutter or to a settlement that became due.
  `HeldMoneyIsOwed` (`HeldIsOwed`) needs no more than that and `FiniteRecords`, that
  finitely many intents are on record: in any one state, along the beginnings of a
  genuine journal, each payment adds its amount to both sides and each release takes
  it from both (`PaymentHeld`, `ReleaseHeld`, `HeldInIsOwed`). `FlushesCatchUp`
  (`SnapshotCatchesUp`) from `CarriedInv`: an entry that is not in the snapshot belongs to a request
  that has yet to write as many entries, and an account that is not, to one that has yet
  to write its list; without faults that request is still there, and so a journal
  without flushes under way is stored.

Documents:

- `DocumentProofs`. All four theorems rest on `PipelineInv` with `TypeOK`.
  `UploadInv`: before the second transaction of an upload nothing of its document is
  in the outbox, the queue or a consumer's hands, so the catch block competes
  with nobody. `DeletionInv`: a deletion has taken the listing before it touches
  bytes. `ConsumerInv`: a consumer past the scan has a verdict, one past the
  bucket finds its bytes there unless the document was deleted, one that has only the quarantine to clear has written
  its verdict. `LeaseInv`: unless its lease was overrun, a consumer at work has
  the job in state processing and under lease. `LeaseExcludes` follows from the
  last because `Claim` takes a job only when there is no recent lease;
  `VerdictsStand` because a finished job is claimed by nobody.

Services (each an invariant of its own, since `scenario` lets a behaviour
exercise one service; in the others its collections are as they began, which
the frame lemmas say once for all actions):

- `ServicesProofs`. `RequestInv`: two requests in flight on one record have
  contested it. It is what turns "undisturbed" into "nobody else is between a
  read and a write". `CasesWalk` from `CaseInv`: not only the stored case but also the stale copy
  that a request is about to write is one walk ending at its own state, with a target
  that the machine allows from there; so a write may lose a step of another call and
  never joins two halves.
  `MutationsArriveInOrder` from `QueueInv`: before each row that a flush still has
  to send are only rows that it will send too and rows that have arrived, so that two
  flushes at different places cannot open a gap. `StoreInv`: each collection is
  filled, that is, holds one row for each id promised, sealed under its own name;
  an instance at `put_seed` has filled all collections before the one it is at, and
  until an instance died somebody is at seeding whenever a part of the seed is there. The lemmas on
  `Without`, `Append` and concatenation of rows without a repeated id carry it.
- `SupplyProofs`. `OffersAreKnown` and `GrantsHold` from `ApplicationsInv`: the
  risks listed by a request were on record and stay there, a decision is written
  before the status that rests on it; a grant names a consent written before it,
  and a withdrawal writes the consent after the grant. `ReviewsStand` from
  `PublicationInv`: the decision a request carries was taken by somebody other
  than the author of the change it read. `DecisionsAreSingle` from
  `OversightInv`.
  `CodesSignInOnce` from `AccountsInv`: without exclusions it
  says that a request past the code knows a user of the very phone the code was
  sent to, that a delegation names a user of the invited phone, and that a
  session has its challenge. For a phone that was never contested it adds how far the
  one request on it has come (`QuietRequest`): the guess it read is the guess
  on record, the user it failed to find is still missing, so that attempts stay
  bounded and a second user or profile is never written.
- `RecordProofs`. `UserRecordsAreKept` from five invariants, one for each table.
  `IdentityInv`: the account a request is about to link is no other request's and
  no other subject's. `ProfileInv`: as long as the profile is uncontested what a request
  read is what it writes over. `JourneysInv`: alerts raised and requests about to
  raise one make up the records that are due, a count over a finite set of requests.
  `WalletInv`: bytes are stored before the record that names them; `StoreInv` from
  `ServicesProofs`. `PassportIsFaithful` from `PassportInv`, in two layers: copies held by
  calls never have a version that no update led to, and on an uncontested
  passport a call's copies are the records, there is one of each kind, and the
  older profile agrees or a request is about to write it.
  `TypesAreKept` (`ServicesTypeOK`) takes all these invariants together (`ServicesInv`)
  and adds what they leave open (`RecordTypes`): a request holds, of its type, what it will
  write. A guess is counted from a copy below the limit, whatever other guesses were counted
  meanwhile; the passport that goes back into a profile is a copy no newer than the
  saves; a call on an application has its case on record.
- `DecisionProofs`. A question is asked once and answered once: `NextAnswers` says which
  action gave an answer of a kind, and the rest are facts about the operators for every
  argument. `NobodyGetsAtWhatIsProtected` (`ProtectionsHold`): `AuthorizeClauses` and
  `RoleClauses` say which clause of `authorize` can have let a caller in.
  `NoOfferIsClearedAlone` (`AlarmsStand`): from the failing checks of an offer to its
  signals and to the gravest of them (`FailingChecks`, `SignalsOfChecks`,
  `VerdictIsTheGravest`); every alarm is then a condition on the claims alone
  (`OfferAlarms`), which one more claim keeps. `AmountsStayWhole` (`MoneyAddsUp`): sums of
  items are sums of their groups (`TotalsSplit`), shares add up within the rounding of each
  (`SharesAddUp`, `RefundsAddUp`), amounts are read back by division with remainder
  (`WrittenIsRead`, `ReadIsKept`). For typed amounts, a double is as near to a number as its
  precision (`NearestIsNear`), so the product is within little more than one unit of
  its last digit (`ProductIsNear`), and rounding cannot miss while that is less than
  half a minor unit (`RoundedFacts`).
  `VerdictsStayGiven` (`VerdictStands`): `walk` is a function on expressions that is
  defined by recursion, and what it computes is reached without an operator parameter.
  `RecursionExists` builds such a function on trees of any height from those on lower trees
  (`LowerExists`, `LowerAgrees`), `TreeInduction` is induction on the height, over a set. Of
  each node it shows that an outcome that is known stays when facts are completed
  (`WalkStays`), that an unknown one names a missing fact (`UnknownIsMissing`) and that
  a false one without a negation has a failed check (`FalseIsFailed`). Of a scholarship, the
  conditions are counted by name (`CountedByName`, `FitByName`), which makes the score
  the share of the names that are ready (`ReadyGrows`).

Most of the invariants were stronger than the property they serve, and each was an
invariant of a TLC run before it was proved.

Only model-checked, and why:

- the liveness properties `RecordedIsStored`, `ReportedIsRecorded`,
  `QueuedIsDecided`, `DecidedLeavesQuarantine` and `QueueDrains`: fairness and
  `ENABLED` are out of the prover's reach;
- `AnswersOnlyAdd` and `ShownIsTrue` of `Decisions`: they are about sorted sequences
  (`SortSeq` and the folds take operators as arguments, so what they return is an
  induction over data) and about a seed with all its cross-references.

Not proved because it does not hold: `StoredLedgerLoads`, that every snapshot loads
(`two_payees`). It happens to hold while there is a single payee, which nothing in the
code demands; what is proved instead is `FlushesCatchUp`.

## Plan

What is left is proof: the parts of `AnswersOnlyAdd` and `ShownIsTrue` that sort
nothing.

## Not modelled

Screens, translations, the UI kit and typed constants have no state to speak of and
are about half of the code; SQL text, connection pooling and migrations are below
the level of the models. Schemas of the contracts are modelled where a form or an
action depends on them (`Forms`). Readers that only project records onto a response
(`listIntents`, `receipt`, `ledgerView`, the candidate list, the workspace of a partner, the
comparison pages) are left out, and so are audit records, events and notifications, which nothing reads
back, and the expiry of sessions. Of the payment rail: signature verification
(a refused webhook changes nothing) and the provider calls that nothing invokes
(`getStatus`, `refund`). Of the document pipeline: the scanner and the signature checks (their
verdict is a free choice) and the branch of the web store for D1, which no request
reaches. `attachDocument` and `recordRefundObligation` are called by nothing.

## Observations

Met while modelling. The models do what the code does, and the properties are
stated so that they hold of it; none of these is among the findings. Most contradict
no text of the repository; where one does, it is quoted.

Access and review

- `authorize` lets the owner of a complaint, or a member of its organization, delete it,
  although a comment says that nobody can; an employer's read of sensitive records
  of its own organization is not audited and asks for no reason, and neither does an
  assistant's plain `read`.
- `updateComplaint` lets the complainant name the safety state. Nothing activates an
  invited delegation on sign-up, and a delegation's expiry is read by nothing.
- Concurrent guesses of a code may exceed its limit.

Money

- Evidence written from a copy read before a verification erases `verifiedAt` and
  `verifiedBy` (`cases.service.ts:285-290`): a released settlement's milestone may no longer say
  when and by whom it was verified.
- The payment of a fee of zero is recorded as a transaction and then refused by
  `assertBalanced` (`journal.ts:56`); its redelivery is answered as a replay, and
  the intent stays pending.
- `cases.create` does not look at suspended organizations, and `work.discover`
  takes an open job for an employer's offer.

Verdicts

- `conditional` may follow `ineligible` when a rule has a `not`.
- A job mismatch added to an offer with only high signals turns HIGH_RISK, which a
  person looks at, into MISMATCH, which nobody does.
- The scanner's VERIFIED and PARTIALLY_VERIFIED cannot be reached: the check of
  the payment destination never passes. It raises nothing for an expired demand, a suspended
  employer or a job not published, of which `publicVerify` calls the first two expired and
  suspended; it looks at the first licence where `organizationCanTransact`
  accepts any.
- Scholarships for nationality `bangladesh` or `non_eea` can never be `eligible`;
  the education levels `secondary` and `higher_secondary` are unknown to the rules'
  ranks; a target of `research` is matched with professional degrees.

What is shown

- `publicVerify` (`jobs.service.ts:95-143`) answers verified, with a signed code, for jobs
  whose publication status is draft, pending or closed, and their codes verify; `list` goes on listing a job
  of a suspended employer or agency.
- `getRoute` (`catalogue.service.ts:117`), `jobs.detail` (`jobs.service.ts:69`) and `passport.match`
  (`passport.service.ts:452-600`) do not filter synthetic records (two label them), a
  programme may show a synthetic institution, and `ensureSeed` loads the
  all-synthetic seed in every environment, although `synthetic-data.guard.ts:3-7` says
  that outside development they are "filtered out entirely".
- The demo API ignores suspended organizations and calls a listed id partially
  verified whatever the message says. `getRoute` names the sources of obligations
  and leaves them out of `sources`, which the demo includes.
- `listCountries` for work counts every route that is not for study, `listRoutes`
  compares the purpose exactly. `supply.analytics` counts reviews instead of outcomes,
  with another denominator for study than `aggregate`; a trust edge's evidence is the
  cohort, not those who answered; `resolveWorkOutcome` counts an outcome
  that states only `joinedExpectedEmployer` as a promise not kept.
- The dashboard's `needsCount` counts the next deadline, of withdrawn records too,
  where the shell of the other pages does not; the documents page counts
  `pending_review`, which nothing writes.

Records

- `updateWork` replaces fields of the older profile by nothing when the work part
  does not state them; adding a first credential replaces `skillCertificates`;
  saving a part of the passport turns the unanswered next to it into `missing`.
  The eligibility profile of `work.service.ts:57-60` makes an unknown passport a
  `hasValidPassport` of false, although `facts.ts:50-54` says that facts that
  are unknown "must stay `undefined`"; no property relies on it. The passport planner keeps answers whose question it hides, and readiness
  counts them.
- Shares of documents are read by nothing. Uploads through the API stay pending for good, are not gated by
  `DOCUMENT_UPLOADS_ENABLED` (`sensitiveDocumentGate` of packages/config is called by nothing), and
  one that dies leaves its file. `requirePrivilegedClerkUser` is called by nothing, and the web
  app never validates its environment with `loadEnv`.
- Items paid by an agency or a government are in no total of a plan.
- A seed interrupted after the countries stays partial; an instance starting
  meanwhile serves before the seed is whole. A seed is not checked for unique public ids, nor
  for the country of a job against its route. With a duplicate id memory keeps the
  last row and PostgreSQL the first, and the two list in different orders; the reset of
  the memory storage leaves the ledger.
- `identity_link.disabled_at` is written by the webhook and read by nothing. Of two
  overlapping first requests in PostgreSQL the loser is sent to account recovery; on
  D1 an `identity.created` event is written even when the link was not.
  The schema helpers keep a rejected promise.
- Web amounts are multiplied by 100 whatever the currency (KWD has three decimals,
  JPY none); an empty amount of the ledger form is stored as 0. They are multiplied as
  doubles: 70368744177664.01 is stored as 7036874417766402 minor units; up to 2^51 minor
  units every amount is stored as typed, and records and outcomes take amounts
  beyond the safe range, where costs do not (`operations.ts:832`). A currency without
  an amount is stored with an outcome report. Priority,
  category, relationship and permissions are stored as given, and an owner may set a record of a
  journey to verified. `createPaymentIntentAction` draws a new idempotency key for each
  submission; `startCaseAction` always sends purpose `work`; the delegation forms of the web
  store and of the API offer different permissions; `updateProfileDirection` leaves
  `app_user.roles`; nothing in the web app takes a journey out of `active`.

## Running

    tlc -workers 2 -config MCPayments.cfg MCPayments
    tlc -workers 2 -config MCServices.cfg MCServices
    tlc -workers 2 -config MCDecisions.cfg MCDecisions
    tlapm PaymentsProofs.tla

The operators whose comment begins with "Mutant of" are not part of the
specifications: each is a plausible mistake in the definition it names, and
shows, put in its place, that a property can fail.

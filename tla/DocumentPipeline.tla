--------------------------- MODULE DocumentPipeline ---------------------------
(***************************************************************************)
(* The pipeline of uploaded documents: the upload and the deletion of the  *)
(* web Worker (storePostgresDocument, deletePostgresDocument), the outbox, *)
(* the Cloudflare queue with its dead-letter queue, and the consumers and  *)
(* the cron trigger of the document Worker (queue, scheduled).             *)
(*                                                                         *)
(* A database transaction is one step; every call to a bucket or to the    *)
(* queue is a step of its own, and anything may happen between two steps.  *)
(* The rows document, document_scan_job and documents of an upload share   *)
(* the index d; document_upload_intent.status and document_event are left  *)
(* out, because nothing reads them.                                        *)
(***************************************************************************)
EXTENDS Integers, FiniteSets

CONSTANTS
    Docs,        \* documents uploaded, each with its scan job
    Workers,     \* concurrent invocations of the queue consumer
    MaxRetries,  \* max_retries of the queue
    MaxFaults    \* bound on failed operations and crashes

ASSUME PipelineAssumption == MaxRetries \in Nat /\ MaxFaults \in Nat

Verdicts == {"clean", "rejected"}
Prefixes == {"quarantine", "clean", "rejected"}
Message  == [doc : Docs, tries : 0..MaxRetries]

VARIABLES
    \* PostgreSQL
    document,   \* malware_scan_status and the prefix of storage_key
    job,        \* document_scan_job: state, and whether updated_at is recent
    listed,     \* documents.verification_status, "none" without a row
    outbox,     \* the event document.scan.requested
    \* R2: the objects <<prefix, document>>
    objects,
    \* the queue
    messages,   \* how many copies of each message are waiting
    dead,       \* documents with a message in the dead-letter queue
    \* processes
    web,        \* the step of the upload of each document
    remover,    \* the deletion of each document: the prefix still to delete
    batch,      \* the documents of the open transaction of the cron trigger
    worker,     \* the message a consumer works on
    \* history
    passed,     \* documents that some scan has passed
    overrun,    \* documents whose lease ended while a consumer worked on them
    stranded,   \* documents whose verdict was written by one that then failed
    faults

rows    == <<document, job, listed, outbox>>
queue   == <<messages, dead>>
history == <<passed, overrun, stranded, faults>>
vars == <<rows, objects, queue, web, remover, batch, worker, history>>

WebSteps    == {"idle", "put_object", "commit", "enqueue", "revert", "remove_object", "done"}
WorkSteps   == {"inspect", "store", "finish"}
WorkerSteps == WorkSteps \cup {"remove"}

Free == [step |-> "idle", doc |-> "none", tries |-> 0, verdict |-> "none"]
Busy == [step : WorkerSteps, doc : Docs, tries : 0..MaxRetries, verdict : Verdicts \cup {"none"}]

Init ==
    /\ document = [d \in Docs |-> [status |-> "none", key |-> "quarantine"]]
    /\ job      = [d \in Docs |-> [state |-> "none", leased |-> FALSE]]
    /\ listed   = [d \in Docs |-> "none"]
    /\ outbox   = [d \in Docs |-> "none"]
    /\ objects  = {}
    /\ messages = [m \in Message |-> 0]
    /\ dead     = {}
    /\ web      = [d \in Docs |-> "idle"]
    /\ remover  = [d \in Docs |-> "idle"]
    /\ batch    = {}
    /\ worker   = [w \in Workers |-> Free]
    /\ passed = {} /\ overrun = {} /\ stranded = {} /\ faults = 0

Fault == faults < MaxFaults /\ faults' = faults + 1

-------------------------------------------------------------------------------
(* Upload.                                                                 *)

\* The first transaction: all the rows of the upload.
Upload(d) ==
    /\ web[d] = "idle"
    /\ web' = [web EXCEPT ![d] = "put_object"]
    /\ document' = [document EXCEPT ![d].status = "pending"]
    /\ job' = [job EXCEPT ![d].state = "pending"]
    /\ listed' = [listed EXCEPT ![d] = "quarantined"]
    /\ UNCHANGED <<outbox, objects, queue, remover, batch, worker, history>>

PutObject(d) ==
    /\ web[d] = "put_object"
    /\ web' = [web EXCEPT ![d] = "commit"]
    /\ objects' = objects \cup {<<"quarantine", d>>}
    /\ UNCHANGED <<rows, queue, remover, batch, worker, history>>

\* Mutant of CommitUpload: no outbox event, only the message sent at once.
CommitUploadWithoutOutbox(d) ==
    /\ web[d] = "commit"
    /\ web' = [web EXCEPT ![d] = "enqueue"]
    /\ job' = [job EXCEPT ![d].state = "queued"]
    /\ UNCHANGED <<document, listed, outbox, objects, queue, remover, batch, worker, history>>

\* The second transaction: the job is queued and the event recorded with it.
CommitUpload(d) ==
    /\ web[d] = "commit"
    /\ web' = [web EXCEPT ![d] = "enqueue"]
    /\ job' = [job EXCEPT ![d].state = "queued"]
    /\ outbox' = [outbox EXCEPT ![d] = "pending"]
    /\ UNCHANGED <<document, listed, objects, queue, remover, batch, worker, history>>

Sent(D) == [m \in Message |-> messages[m] + (IF m.doc \in D /\ m.tries = 0 THEN 1 ELSE 0)]

\* The job is sent at once; a failure to send is caught and only logged.
Enqueue(d) ==
    /\ web[d] = "enqueue"
    /\ web' = [web EXCEPT ![d] = "done"]
    /\ \/ messages' = Sent({d})
       \/ UNCHANGED messages
    /\ UNCHANGED <<rows, objects, dead, remover, batch, worker, history>>

\* The put or the second transaction throws.  A put that fails after it took
\* effect is a failure in step "commit".
UploadFails(d) ==
    /\ Fault
    /\ web[d] \in {"put_object", "commit"}
    /\ web' = [web EXCEPT ![d] = "revert"]
    /\ UNCHANGED <<rows, objects, queue, remover, batch, worker, passed, overrun, stranded>>

\* UPDATE documents: without effect when the row has been deleted.
ListedAs(d, status) ==
    [listed EXCEPT ![d] = IF @ = "none" THEN "none" ELSE status]

\* The compensating transaction of the catch block.
Revert(d) ==
    /\ web[d] = "revert"
    /\ web' = [web EXCEPT ![d] = "remove_object"]
    /\ job' = [job EXCEPT ![d].state = "rejected"]
    /\ document' = [document EXCEPT ![d].status = "rejected"]
    /\ listed' = ListedAs(d, "rejected")
    /\ UNCHANGED <<outbox, objects, queue, remover, batch, worker, history>>

\* The compensation fails.  When its own ROLLBACK throws too, the exception
\* leaves the catch block before the object is deleted.
RevertFails(d) ==
    /\ Fault
    /\ web[d] = "revert"
    /\ \E step \in {"remove_object", "done"} : web' = [web EXCEPT ![d] = step]
    /\ UNCHANGED <<rows, objects, queue, remover, batch, worker, passed, overrun, stranded>>

RemoveObject(d) ==
    /\ web[d] = "remove_object"
    /\ web' = [web EXCEPT ![d] = "done"]
    /\ objects' = objects \ {<<"quarantine", d>>}
    /\ UNCHANGED <<rows, queue, remover, batch, worker, history>>

\* A document whose verdict is written fails to have its bytes taken away.
Strands(d, failing) ==
    stranded' = IF failing /\ job[d].state \in Verdicts THEN stranded \cup {d} ELSE stranded

\* The web Worker is stopped, or its last call fails.
WebCrash(d) ==
    /\ Fault
    /\ web[d] \notin {"idle", "done"}
    /\ web' = [web EXCEPT ![d] = "done"]
    /\ Strands(d, web[d] = "remove_object")
    /\ UNCHANGED <<rows, objects, queue, remover, batch, worker, passed, overrun>>

-------------------------------------------------------------------------------
(* Deletion.                                                               *)

\* The transaction revokes the document and deletes its row in documents.  It
\* asks nothing of the state of the document, of its job or of its upload.
Delete(d) ==
    /\ remover[d] \in {"idle", "done"}
    /\ document[d].status # "none"
    /\ remover' = [remover EXCEPT ![d] = document[d].key]
    /\ document' = [document EXCEPT ![d].status = "revoked"]
    /\ listed' = [listed EXCEPT ![d] = "none"]
    /\ UNCHANGED <<job, outbox, objects, queue, web, batch, worker, history>>

\* The object at the key the transaction read.
DeleteObject(d) ==
    /\ remover[d] \in Prefixes
    /\ remover' = [remover EXCEPT ![d] = "done"]
    /\ objects' = objects \ {<<remover[d], d>>}
    /\ UNCHANGED <<rows, queue, web, batch, worker, history>>

DeleteFails(d) ==
    /\ Fault
    /\ remover[d] \in Prefixes
    /\ remover' = [remover EXCEPT ![d] = "idle"]
    /\ UNCHANGED <<rows, objects, queue, web, batch, worker, passed, overrun, stranded>>

\* What getPostgresDocumentObject serves.
Servable(d) ==
    /\ document[d].status = "clean"
    /\ document[d].key = "clean"
    /\ <<"clean", d>> \in objects

-------------------------------------------------------------------------------
(* The cron trigger.                                                       *)

\* The pending events are locked and their jobs sent.
DrainSend ==
    /\ batch = {}
    /\ batch' = {d \in Docs : outbox[d] = "pending"}
    /\ batch' # {}
    /\ messages' = Sent(batch')
    /\ UNCHANGED <<rows, objects, dead, web, remover, worker, history>>

DrainCommit ==
    /\ batch # {}
    /\ outbox' = [d \in Docs |-> IF d \in batch THEN "published" ELSE outbox[d]]
    /\ batch' = {}
    /\ UNCHANGED <<document, job, listed, objects, queue, web, remover, worker, history>>

\* The transaction is rolled back; what was sent stays sent.
DrainFails ==
    /\ Fault
    /\ batch # {}
    /\ batch' = {}
    /\ UNCHANGED <<rows, objects, queue, web, remover, worker, passed, overrun, stranded>>

-------------------------------------------------------------------------------
(* The consumers.                                                          *)

Waiting(m) == messages[m] > 0

Taken(m) == [messages EXCEPT ![m] = @ - 1]

\* message.retry() of a message not in `rest`: it comes back, or has used up
\* its retries and goes to the dead-letter queue.
Retry(m, rest) ==
    \/ /\ m.tries < MaxRetries
       /\ messages' = [rest EXCEPT ![[m EXCEPT !.tries = @ + 1]] = @ + 1]
       /\ UNCHANGED dead
    \/ /\ m.tries = MaxRetries
       /\ messages' = rest
       /\ dead' = dead \cup {m.doc}

\* Mutant of HasVerdict: a rejected job is taken for an open one.
HasVerdictClean(d) == job[d].state = "clean"

HasVerdict(d) == job[d].state \in Verdicts

\* Mutant of IsBusy: the lease is not looked at.
NeverBusy(d) == job[d].state = "processing" /\ FALSE

\* state = 'processing' and updated_at less than five minutes ago.
IsBusy(d) == job[d].state = "processing" /\ job[d].leased

\* A job with a verdict: processJob returns and the message is acknowledged.
Skip(w, m) ==
    /\ worker[w] = Free
    /\ Waiting(m)
    /\ HasVerdict(m.doc)
    /\ messages' = Taken(m)
    /\ UNCHANGED <<rows, objects, dead, web, remover, batch, worker, history>>

\* JOB_BUSY.
TurnAway(w, m) ==
    /\ worker[w] = Free
    /\ Waiting(m)
    /\ IsBusy(m.doc)
    /\ Retry(m, Taken(m))
    /\ UNCHANGED <<rows, objects, web, remover, batch, worker, history>>

Claim(w, m) ==
    /\ worker[w] = Free
    /\ Waiting(m)
    /\ ~HasVerdict(m.doc)
    /\ ~IsBusy(m.doc)
    /\ messages' = Taken(m)
    /\ job' = [job EXCEPT ![m.doc] = [state |-> "processing", leased |-> TRUE]]
    /\ worker' = [worker EXCEPT ![w] =
                    [step |-> "inspect", doc |-> m.doc, tries |-> m.tries, verdict |-> "none"]]
    /\ UNCHANGED <<document, listed, outbox, objects, dead, web, remover, batch, history>>

MessageOf(w) == [doc |-> worker[w].doc, tries |-> worker[w].tries]

GiveUp(w) ==
    /\ worker' = [worker EXCEPT ![w] = Free]
    /\ Retry(MessageOf(w), messages)

\* QUARANTINE_OBJECT_MISSING.
InspectMissing(w) ==
    /\ worker[w].step = "inspect"
    /\ <<"quarantine", worker[w].doc>> \notin objects
    /\ GiveUp(w)
    /\ UNCHANGED <<rows, objects, web, remover, batch, history>>

\* Mutant of Inspect: whatever word the scanner answers is taken for a verdict.
InspectAnyWord(w) ==
    /\ worker[w].step = "inspect"
    /\ <<"quarantine", worker[w].doc>> \in objects
    /\ \E v \in Verdicts \cup {"suspicious"} :
         /\ worker' = [worker EXCEPT ![w].step = "store", ![w].verdict = v]
         /\ passed' = IF v = "clean" THEN passed \cup {worker[w].doc} ELSE passed
    /\ UNCHANGED <<rows, objects, queue, web, remover, batch, overrun, stranded, faults>>

\* Checksum, magic bytes and scanner decide on the bytes just read; what the
\* scanner does not call clean is rejected.
Inspect(w) ==
    /\ worker[w].step = "inspect"
    /\ <<"quarantine", worker[w].doc>> \in objects
    /\ \E v \in Verdicts :
         /\ worker' = [worker EXCEPT ![w].step = "store", ![w].verdict = v]
         /\ passed' = IF v = "clean" THEN passed \cup {worker[w].doc} ELSE passed
    /\ UNCHANGED <<rows, objects, queue, web, remover, batch, overrun, stranded, faults>>

\* The bytes go to the clean bucket, or under the rejected prefix.
Store(w) ==
    /\ worker[w].step = "store"
    /\ worker' = [worker EXCEPT ![w].step = "finish"]
    /\ objects' = objects \cup {<<worker[w].verdict, worker[w].doc>>}
    /\ UNCHANGED <<rows, queue, web, remover, batch, history>>

\* Mutant of Finish: storage_key keeps the quarantine prefix.
FinishOldKey(w) ==
    LET d == worker[w].doc
        v == worker[w].verdict
    IN  /\ worker[w].step = "finish"
        /\ worker' = [worker EXCEPT ![w].step = "remove"]
        /\ job' = [job EXCEPT ![d].state = v]
        /\ document' = [document EXCEPT ![d].status = v]
        /\ listed' = ListedAs(d, v)
        /\ UNCHANGED <<outbox, objects, queue, web, remover, batch, history>>

\* finishJob: the verdict is written whatever the rows have become.
Finish(w) ==
    LET d == worker[w].doc
        v == worker[w].verdict
    IN  /\ worker[w].step = "finish"
        /\ worker' = [worker EXCEPT ![w].step = "remove"]
        /\ job' = [job EXCEPT ![d].state = v]
        /\ document' = [document EXCEPT ![d] = [status |-> v, key |-> v]]
        /\ listed' = ListedAs(d, v)
        /\ UNCHANGED <<outbox, objects, queue, web, remover, batch, history>>

\* Mutant of RemoveQuarantined: the copy is taken for a move.
RemoveNothing(w) ==
    /\ worker[w].step = "remove"
    /\ worker' = [worker EXCEPT ![w] = Free]
    /\ UNCHANGED <<rows, objects, queue, web, remover, batch, history>>

\* The quarantined object is deleted and the message acknowledged.
RemoveQuarantined(w) ==
    /\ worker[w].step = "remove"
    /\ worker' = [worker EXCEPT ![w] = Free]
    /\ objects' = objects \ {<<"quarantine", worker[w].doc>>}
    /\ UNCHANGED <<rows, queue, web, remover, batch, history>>

\* A call throws (SCANNER_UNAVAILABLE among them), or the consumer dies: the
\* message is retried.  The job keeps its state, and its lease.
WorkerFails(w) ==
    /\ Fault
    /\ worker[w] # Free
    /\ GiveUp(w)
    /\ Strands(worker[w].doc, worker[w].step = "remove")
    /\ UNCHANGED <<rows, objects, web, remover, batch, passed, overrun>>

\* Five minutes have passed since the claim.
LeaseExpires(d) ==
    /\ IsBusy(d)
    /\ job' = [job EXCEPT ![d].leased = FALSE]
    /\ overrun' = IF \E w \in Workers : worker[w].step \in WorkSteps /\ worker[w].doc = d
                  THEN overrun \cup {d} ELSE overrun
    /\ UNCHANGED <<document, listed, outbox, objects, queue, web, remover, batch, worker,
                   passed, stranded, faults>>

-------------------------------------------------------------------------------
WebStep(d) ==
    \/ PutObject(d) \/ CommitUpload(d) \/ Enqueue(d) \/ Revert(d) \/ RemoveObject(d)

Deliver == \E w \in Workers, m \in Message : Skip(w, m) \/ TurnAway(w, m) \/ Claim(w, m)

WorkerStep(w) ==
    \/ InspectMissing(w) \/ Inspect(w) \/ Store(w) \/ Finish(w) \/ RemoveQuarantined(w)

Cron == DrainSend \/ DrainCommit

Failures ==
    \/ \E d \in Docs : UploadFails(d) \/ RevertFails(d) \/ WebCrash(d) \/ DeleteFails(d)
    \/ \E w \in Workers : WorkerFails(w)
    \/ DrainFails

Next ==
    \/ \E d \in Docs : Upload(d) \/ WebStep(d)
    \/ \E d \in Docs : Delete(d) \/ DeleteObject(d)
    \/ \E d \in Docs : LeaseExpires(d)
    \/ Deliver
    \/ \E w \in Workers : WorkerStep(w)
    \/ Cron
    \/ Failures

Spec == Init /\ [][Next]_vars

\* An upload that is not stopped goes on, the cron trigger fires every two
\* minutes, the queue delivers what it holds and a consumer that is not stopped
\* goes on.  Nothing is assumed of uploads and deletions that users may start,
\* nor of the time a lease takes.
FairSpec ==
    /\ Spec
    /\ \A d \in Docs : WF_vars(WebStep(d))
    /\ WF_vars(Cron)
    /\ WF_vars(Deliver)
    /\ \A w \in Workers : WF_vars(WorkerStep(w))

-------------------------------------------------------------------------------
(* Properties.                                                             *)

\* Every variable has its type: rows and consumers know the two verdicts only.
TypeOK ==
    /\ document \in [Docs -> [status : {"none", "pending", "revoked"} \cup Verdicts,
                              key : Prefixes]]
    /\ job \in [Docs -> [state : {"none", "pending", "queued", "processing"} \cup Verdicts,
                         leased : BOOLEAN]]
    /\ listed \in [Docs -> {"none", "quarantined"} \cup Verdicts]
    /\ outbox \in [Docs -> {"none", "pending", "published"}]
    /\ objects \subseteq Prefixes \X Docs
    /\ messages \in [Message -> Nat]
    /\ dead \subseteq Docs
    /\ web \in [Docs -> WebSteps]
    /\ remover \in [Docs -> {"idle", "done"} \cup Prefixes]
    /\ batch \subseteq Docs
    /\ worker \in [Workers -> Busy \cup {Free}]
    /\ passed \subseteq Docs /\ overrun \subseteq Docs /\ stranded \subseteq Docs
    /\ faults \in 0..MaxFaults

\* A document shown to its owner as clean can be downloaded, and a scan has
\* passed it: also when two consumers disagree about it, when a deletion runs
\* against them and when any of them fails half-way.
ListedIsServable ==
    \A d \in Docs : listed[d] = "clean" => Servable(d) /\ d \in passed

\* As long as its lease lasts, one consumer works on a job: messages are sent
\* twice by design (at once and by the cron trigger), and retried.
OneWorkerPerJob ==
    \A d \in Docs \ overrun :
      \A v, w \in Workers :
        /\ worker[v].step \in WorkSteps /\ worker[v].doc = d
        /\ worker[w].step \in WorkSteps /\ worker[w].doc = d
        => v = w

\* A job that waits for its scan has its bytes in quarantine, unless the owner
\* deleted the document: no failed upload, no duplicate of a message and no
\* consumer that ran over its lease takes them away.
UndecidedHasObject ==
    \A d \in Docs :
      job[d].state \in {"queued", "processing"} /\ document[d].status # "revoked"
        => <<"quarantine", d>> \in objects

\* Where the database says a document's bytes are, there they are: both of the above.
ObjectsFollowStatus == ListedIsServable /\ UndecidedHasObject

\* A verdict stands, unless a consumer ran over its lease: neither a second
\* message nor the compensation of a failed upload replaces it.
VerdictIsFinal ==
    [][\A d \in Docs \ overrun :
         job[d].state \in Verdicts => job'[d].state = job[d].state]_vars

\* A queued job gets its verdict, or one of its messages ends in the dead-letter
\* queue; and that only after a fault, or when the owner deleted the document.
QueuedIsDecided ==
    \A d \in Docs :
      job[d].state = "queued" ~>
        \/ job[d].state \in Verdicts
        \/ d \in dead /\ (faults > 0 \/ document[d].status = "revoked")

\* The bytes of a job with a verdict leave quarantine, whatever fails at any
\* other step, however often its message is delivered and whoever runs over a
\* lease: only where the very process that wrote the verdict (a consumer, or the
\* compensation of an upload) failed before it deleted the object do they stay,
\* because processJob returns early on a job with a verdict.
DecidedLeavesQuarantine ==
    \A d \in Docs :
      job[d].state \in Verdicts ~> <<"quarantine", d>> \notin objects \/ d \in stranded

\* What the user interface says of a deletion: the file is permanently deleted.
DeletedIsGone ==
    \A d \in Docs : remover[d] = "done" => ~Servable(d)
===============================================================================

---------------------------- MODULE DocumentProofs ----------------------------
(***************************************************************************)
(* Proofs about DocumentPipeline: type correctness, the exclusion of       *)
(* consumers, the finality of verdicts and the places of the bytes.  All   *)
(* four rest on one inductive invariant, PipelineInv.                      *)
(***************************************************************************)
EXTENDS DocumentPipeline, TLAPS

\* Consumer w has document d in hand; it is still working towards a verdict.
On(w, d)        == worker[w] # Free /\ worker[w].doc = d
WorkingOn(w, d) == worker[w].step \in WorkSteps /\ worker[w].doc = d

\* Nothing of the document has reached the outbox, the queue or a consumer.
Unqueued(d) ==
    /\ outbox[d] = "none" /\ d \notin batch
    /\ \A m \in Message : m.doc = d => messages[m] = 0
    /\ \A w \in Workers : ~On(w, d)

\* Nothing has before the second transaction of the upload, and nothing will
\* when that was not reached: the job is then pending, or rejected at once.
UploadInv(d) ==
    /\ web[d] \notin {"enqueue", "done"} \/ job[d].state \in {"none", "pending"}
          => Unqueued(d)
    /\ web[d] = "idle" => /\ document[d].status = "none" /\ job[d].state = "none"
                          /\ listed[d] = "none" /\ remover[d] = "idle"
    /\ web[d] \in {"put_object", "commit", "revert"} => job[d].state = "pending"
    /\ web[d] = "enqueue" => job[d].state \notin {"none", "pending"}
    /\ web[d] = "remove_object" => job[d].state \in {"pending", "rejected"}
    /\ web[d] = "commit" => <<"quarantine", d>> \in objects \/ document[d].status = "revoked"

\* A deletion in progress has taken the row in documents; what it revoked only a
\* verdict un-revokes.
DeletionInv(d) ==
    remover[d] \in Prefixes =>
        /\ listed[d] = "none"
        /\ document[d].status = "revoked" \/ job[d].state \in Verdicts

\* A consumer that has scanned has a verdict, one that passed the bytes is
\* recorded, one that has stored them finds them stored (unless a deletion came
\* in between), and one that has only the quarantine to clear has written its
\* verdict.
ConsumerInv(w) ==
    LET d == worker[w].doc
    IN  /\ worker[w].step \in {"store", "finish"} =>
              /\ worker[w].verdict \in Verdicts
              /\ worker[w].verdict = "clean" => d \in passed
        /\ worker[w].step = "finish" =>
              <<worker[w].verdict, d>> \in objects \/ listed[d] = "none"
        /\ worker[w].step = "remove" => job[d].state \in Verdicts

\* Who works within the lease finds the job as it claimed it.
LeaseInv(d) ==
    d \notin overrun => \A w \in Workers : WorkingOn(w, d) => IsBusy(d)

PipelineInv ==
    /\ \A d \in Docs : UploadInv(d) /\ DeletionInv(d) /\ LeaseInv(d)
    /\ \A w \in Workers : worker[w] # Free => ConsumerInv(w)
    /\ OneWorkerPerJob
    /\ ObjectsFollowStatus


-------------------------------------------------------------------------------
(* Type correctness. *)

\* Counters of messages stay natural numbers: what is sent is added, what is
\* taken was there, and what is retried comes back once.
LEMMA SentCounts ==
    ASSUME TypeOK, NEW D
    PROVE  Sent(D) \in [Message -> Nat]
<1>1. \A m \in Message : messages[m] \in Nat
  BY DEF TypeOK
<1> QED
  BY <1>1 DEF Sent

\* Taking a waiting message off a queue leaves counts.
LEMMA TakenCounts ==
    ASSUME TypeOK, NEW m \in Message, Waiting(m)
    PROVE  Taken(m) \in [Message -> Nat]
<1>1. messages \in [Message -> Nat]
  BY DEF TypeOK
<1>2. messages[m] - 1 \in Nat
  BY <1>1 DEF Waiting
<1> QED
  BY <1>1, <1>2 DEF Taken

\* A message that is retried is counted, one out of retries goes to the dead letters.
LEMMA RetryCounts ==
    ASSUME TypeOK, NEW m \in Message, NEW rest \in [Message -> Nat], Retry(m, rest)
    PROVE  /\ messages' \in [Message -> Nat]
           /\ dead' \subseteq Docs
<1>1. m.doc \in Docs /\ m.tries \in 0..MaxRetries
  BY DEF Message
<1>2. CASE m.tries < MaxRetries /\ UNCHANGED dead
           /\ messages' = [rest EXCEPT ![[m EXCEPT !.tries = @ + 1]] = @ + 1]
  <2>1. [m EXCEPT !.tries = @ + 1] \in Message
    BY <1>1, <1>2, PipelineAssumption DEF Message
  <2>2. rest[[m EXCEPT !.tries = @ + 1]] + 1 \in Nat
    BY <2>1
  <2> QED
    BY <1>2, <2>2 DEF TypeOK
<1>3. CASE messages' = rest /\ dead' = dead \cup {m.doc}
  BY <1>1, <1>3 DEF TypeOK
<1> QED
  BY <1>2, <1>3 DEF Retry

\* A consumer that is not free has a document and its message in hand.
LEMMA InHand ==
    ASSUME TypeOK, NEW w \in Workers, worker[w] # Free
    PROVE  /\ worker[w] \in Busy
           /\ worker[w].doc \in Docs
           /\ worker[w].step \in WorkerSteps
           /\ MessageOf(w) \in Message
<1>1. worker[w] \in Busy
  BY DEF TypeOK
<1> QED
  BY <1>1 DEF Busy, MessageOf, Message

\* A worker with nothing in hand is at no step of a job.
LEMMA FreeIsIdle ==
    ASSUME NEW w, worker[w] = Free
    PROVE  worker[w].step = "idle" /\ worker[w].step \notin WorkerSteps
BY DEF Free, WorkerSteps, WorkSteps

\* Every step keeps the types.
LEMMA TypeStep ==
    ASSUME TypeOK, PipelineInv, [Next]_vars
    PROVE  TypeOK'
<1> USE DEF TypeOK, vars, rows, queue, history
<1>1. ASSUME NEW d \in Docs, \/ Upload(d) \/ WebStep(d) \/ UploadFails(d) \/ RevertFails(d)
                             \/ WebCrash(d)
      PROVE  TypeOK'
  <2> USE PipelineAssumption DEF WebSteps
  <2>1. CASE Upload(d)
    BY <2>1 DEF Upload, Verdicts
  <2>2. CASE PutObject(d)
    BY <2>2 DEF PutObject, Prefixes
  <2>3. CASE CommitUpload(d)
    BY <2>3 DEF CommitUpload, Verdicts
  <2>4. CASE Enqueue(d)
    BY <2>4, SentCounts DEF Enqueue
  <2>5. CASE Revert(d)
    BY <2>5 DEF Revert, ListedAs, Verdicts
  <2>6. CASE RemoveObject(d)
    BY <2>6 DEF RemoveObject
  <2>7. CASE UploadFails(d) \/ RevertFails(d) \/ WebCrash(d)
    <3>1. faults' \in 0..MaxFaults
      BY <2>7 DEF UploadFails, RevertFails, WebCrash, Fault
    <3>2. web' \in [Docs -> WebSteps]
      BY <2>7 DEF UploadFails, RevertFails, WebCrash
    <3>3. stranded' \subseteq Docs
      BY <2>7 DEF UploadFails, RevertFails, WebCrash, Strands
    <3> QED
      BY <2>7, <3>1, <3>2, <3>3 DEF UploadFails, RevertFails, WebCrash
  <2> QED
    BY <1>1, <2>1, <2>2, <2>3, <2>4, <2>5, <2>6, <2>7 DEF WebStep
<1>2. ASSUME NEW d \in Docs, Delete(d) \/ DeleteObject(d) \/ DeleteFails(d)
      PROVE  TypeOK'
  <2>1. CASE Delete(d)
    BY <2>1 DEF Delete
  <2>2. CASE DeleteObject(d)
    BY <2>2 DEF DeleteObject
  <2>3. CASE DeleteFails(d)
    BY <2>3, PipelineAssumption DEF DeleteFails, Fault
  <2> QED
    BY <1>2, <2>1, <2>2, <2>3
<1>3. ASSUME NEW d \in Docs, LeaseExpires(d)
      PROVE  TypeOK'
  <2>1. job' \in [Docs -> [state : {"none", "pending", "queued", "processing"} \cup Verdicts,
                           leased : BOOLEAN]]
    BY <1>3 DEF LeaseExpires
  <2>2. overrun' \subseteq Docs
    BY <1>3 DEF LeaseExpires
  <2> QED
    BY <1>3, <2>1, <2>2 DEF LeaseExpires
<1>4. ASSUME Cron \/ DrainFails
      PROVE  TypeOK'
  <2>1. CASE DrainSend
    BY <2>1, SentCounts DEF DrainSend
  <2>2. CASE DrainCommit
    BY <2>2 DEF DrainCommit
  <2>3. CASE DrainFails
    BY <2>3, PipelineAssumption DEF DrainFails, Fault
  <2> QED
    BY <1>4, <2>1, <2>2, <2>3 DEF Cron
<1>5. ASSUME NEW w \in Workers, NEW m \in Message, Skip(w, m) \/ TurnAway(w, m) \/ Claim(w, m)
      PROVE  TypeOK'
  <2>1. Taken(m) \in [Message -> Nat]
    BY <1>5, TakenCounts DEF Skip, TurnAway, Claim
  <2>2. m.doc \in Docs /\ m.tries \in 0..MaxRetries
    BY DEF Message
  <2>3. CASE Skip(w, m)
    BY <2>1, <2>3 DEF Skip
  <2>4. CASE TurnAway(w, m)
    <3>1. messages' \in [Message -> Nat] /\ dead' \subseteq Docs
      BY <2>1, <2>4, RetryCounts DEF TurnAway
    <3> QED
      BY <2>4, <3>1 DEF TurnAway
  <2>5. CASE Claim(w, m)
    <3>1. job' \in [Docs -> [state : {"none", "pending", "queued", "processing"} \cup Verdicts,
                             leased : BOOLEAN]]
      BY <2>5 DEF Claim
    <3>2. worker' \in [Workers -> Busy \cup {Free}]
      BY <2>2, <2>5 DEF Claim, Busy, WorkerSteps, WorkSteps
    <3> QED
      BY <2>1, <2>5, <3>1, <3>2 DEF Claim
  <2> QED
    BY <1>5, <2>3, <2>4, <2>5
<1>6. ASSUME NEW w \in Workers, WorkerStep(w) \/ WorkerFails(w)
      PROVE  TypeOK'
  <2>1. worker[w] # Free
    BY <1>6, FreeIsIdle DEF WorkerStep, InspectMissing, Inspect, Store, Finish,
                            RemoveQuarantined, WorkerFails, WorkerSteps, WorkSteps
  <2>2. worker[w] \in Busy /\ worker[w].doc \in Docs /\ MessageOf(w) \in Message
    BY <2>1, InHand
  <2>3. CASE GiveUp(w) /\ UNCHANGED <<rows, objects, web, remover, batch, passed, overrun>>
             /\ stranded' \subseteq Docs /\ faults' \in 0..MaxFaults
    <3>1. messages' \in [Message -> Nat] /\ dead' \subseteq Docs
      BY <2>2, <2>3, RetryCounts DEF GiveUp
    <3>2. worker' \in [Workers -> Busy \cup {Free}]
      BY <2>3 DEF GiveUp
    <3> QED
      BY <2>3, <3>1, <3>2
  <2>4. CASE InspectMissing(w)
    BY <2>3, <2>4 DEF InspectMissing
  <2>5. CASE WorkerFails(w)
    <3>1. faults' \in 0..MaxFaults
      BY <2>5, PipelineAssumption DEF WorkerFails, Fault
    <3>2. stranded' \subseteq Docs
      BY <2>2, <2>5 DEF WorkerFails, Strands
    <3> QED
      BY <2>3, <2>5, <3>1, <3>2 DEF WorkerFails
  <2>6. CASE Inspect(w)
    <3>1. PICK v \in Verdicts :
              worker' = [worker EXCEPT ![w].step = "store", ![w].verdict = v]
      BY <2>6 DEF Inspect
    <3>2. worker' \in [Workers -> Busy \cup {Free}]
      BY <2>2, <3>1 DEF Busy, WorkerSteps, WorkSteps
    <3>3. passed' \subseteq Docs
      BY <2>2, <2>6 DEF Inspect
    <3> QED
      BY <2>6, <3>2, <3>3 DEF Inspect
  <2>7. CASE Store(w)
    <3>1. worker' \in [Workers -> Busy \cup {Free}]
      BY <2>2, <2>7 DEF Store, Busy, WorkerSteps, WorkSteps
    <3>2. worker[w].verdict \in Verdicts
      BY <2>1, <2>7 DEF Store, PipelineInv, ConsumerInv
    <3>3. objects' \subseteq Prefixes \X Docs
      BY <2>2, <2>7, <3>2 DEF Store, Verdicts, Prefixes
    <3> QED
      BY <2>7, <3>1, <3>3 DEF Store
  <2>8. CASE Finish(w)
    <3>1. worker' \in [Workers -> Busy \cup {Free}]
      BY <2>2, <2>8 DEF Finish, Busy, WorkerSteps, WorkSteps
    <3>2. worker[w].verdict \in Verdicts
      BY <2>1, <2>8 DEF Finish, PipelineInv, ConsumerInv
    <3>3. document' \in [Docs -> [status : {"none", "pending", "revoked"} \cup Verdicts,
                                  key : Prefixes]]
      BY <2>8, <3>2 DEF Finish, Verdicts, Prefixes
    <3>4. job' \in [Docs -> [state : {"none", "pending", "queued", "processing"} \cup Verdicts,
                             leased : BOOLEAN]]
      BY <2>8, <3>2 DEF Finish
    <3>5. listed' \in [Docs -> {"none", "quarantined"} \cup Verdicts]
      BY <2>8, <3>2 DEF Finish, ListedAs
    <3> QED
      BY <2>8, <3>1, <3>3, <3>4, <3>5 DEF Finish
  <2>9. CASE RemoveQuarantined(w)
    BY <2>9 DEF RemoveQuarantined
  <2> QED
    BY <1>6, <2>4, <2>5, <2>6, <2>7, <2>8, <2>9 DEF WorkerStep
<1>7. ASSUME UNCHANGED vars PROVE TypeOK'
  BY <1>7
<1> QED
  BY <1>1, <1>2, <1>3, <1>4, <1>5, <1>6, <1>7 DEF Next, Deliver, Failures

-------------------------------------------------------------------------------
(* The upload. *)

\* Only a document whose upload has committed is in the queue's reach, and its
\* job has been queued.
LEMMA QueuedIsCommitted ==
    ASSUME TypeOK, PipelineInv, NEW d \in Docs,
           \/ outbox[d] # "none" \/ d \in batch
           \/ \E m \in Message : m.doc = d /\ Waiting(m)
           \/ \E w \in Workers : On(w, d)
    PROVE  /\ web[d] \in {"enqueue", "done"}
           /\ job[d].state \notin {"none", "pending"}
<1>1. ~Unqueued(d)
  BY DEF Unqueued, Waiting
<1> QED
  BY <1>1 DEF PipelineInv, UploadInv

\* A message that comes back, or is taken, is a message of its own document.
LEMMA RetryElsewhere ==
    ASSUME TypeOK, NEW m \in Message, NEW rest \in [Message -> Nat], Retry(m, rest),
           NEW n \in Message, n.doc # m.doc
    PROVE  messages'[n] = rest[n]
<1>1. [m EXCEPT !.tries = @ + 1].doc = m.doc
  BY DEF Message
<1> QED
  BY <1>1 DEF Retry

\* A step of a consumer leaves the others alone, and the document in its hand.
LEMMA OneConsumer ==
    ASSUME TypeOK, NEW w \in Workers, WorkerStep(w) \/ WorkerFails(w)
    PROVE  /\ worker[w] # Free
           /\ \A v \in Workers \ {w} : worker'[v] = worker[v]
           /\ worker'[w] = Free \/ worker'[w].doc = worker[w].doc
           /\ web' = web
<1>1. worker[w] # Free
  BY FreeIsIdle DEF WorkerStep, InspectMissing, Inspect, Store, Finish, RemoveQuarantined,
                    WorkerFails, WorkerSteps, WorkSteps
<1>2. worker[w] \in Busy
  BY <1>1, InHand
<1> USE <1>1, <1>2 DEF TypeOK, Busy, WorkerSteps, WorkSteps
<1>3. CASE GiveUp(w) /\ web' = web
  BY <1>3 DEF GiveUp
<1>4. CASE Inspect(w)
  BY <1>4 DEF Inspect
<1>5. CASE Store(w)
  BY <1>5 DEF Store
<1>6. CASE Finish(w)
  BY <1>6 DEF Finish
<1>7. CASE RemoveQuarantined(w)
  BY <1>7 DEF RemoveQuarantined
<1> QED
  BY <1>3, <1>4, <1>5, <1>6, <1>7 DEF WorkerStep, InspectMissing, WorkerFails

\* Every step keeps what holds of a document whose upload is under way.
LEMMA UploadStep ==
    ASSUME TypeOK, PipelineInv, [Next]_vars, NEW d \in Docs
    PROVE  UploadInv(d)'
<1> USE DEF vars, rows, queue, history
<1>1. UploadInv(d) /\ web[d] \in WebSteps
  BY DEF PipelineInv, TypeOK
<1>2. ASSUME NEW e \in Docs, \/ Upload(e) \/ WebStep(e) \/ UploadFails(e) \/ RevertFails(e)
                             \/ WebCrash(e)
      PROVE  UploadInv(d)'
  <2> USE <1>1 DEF UploadInv, Unqueued, On, WebSteps, TypeOK
  <2>1. CASE Upload(e)
    BY <2>1 DEF Upload
  <2>2. CASE PutObject(e)
    BY <2>2 DEF PutObject
  <2>3. CASE CommitUpload(e)
    BY <2>3 DEF CommitUpload
  <2>4. CASE Enqueue(e)
    BY <2>4 DEF Enqueue, Sent
  <2>5. CASE Revert(e)
    BY <2>5 DEF Revert, ListedAs
  <2>6. CASE RemoveObject(e)
    BY <2>6 DEF RemoveObject
  <2>7. CASE UploadFails(e) \/ RevertFails(e) \/ WebCrash(e)
    BY <2>7 DEF UploadFails, RevertFails, WebCrash
  <2> QED
    BY <1>2, <2>1, <2>2, <2>3, <2>4, <2>5, <2>6, <2>7 DEF WebStep
<1>3. ASSUME NEW e \in Docs, Delete(e) \/ DeleteObject(e) \/ DeleteFails(e)
      PROVE  UploadInv(d)'
  BY <1>1, <1>3 DEF Delete, DeleteObject, DeleteFails, UploadInv, Unqueued, On, TypeOK,
                    PipelineInv, DeletionInv, Verdicts, Prefixes, WebSteps
<1>4. ASSUME NEW e \in Docs, LeaseExpires(e)
      PROVE  UploadInv(d)'
  <2>1. job'[d].state = job[d].state
    BY <1>4 DEF LeaseExpires, TypeOK
  <2> QED
    BY <1>1, <1>4, <2>1 DEF LeaseExpires, UploadInv, Unqueued, On
<1>5. ASSUME Cron \/ DrainFails
      PROVE  UploadInv(d)'
  BY <1>1, <1>5 DEF Cron, DrainSend, DrainCommit, DrainFails, Sent, UploadInv, Unqueued, On,
                    TypeOK
<1>6. ASSUME NEW w \in Workers, NEW m \in Message, Skip(w, m) \/ TurnAway(w, m) \/ Claim(w, m)
      PROVE  UploadInv(d)'
  <2>1. Waiting(m) /\ Taken(m) \in [Message -> Nat] /\ m.doc \in Docs
    BY <1>6, TakenCounts DEF Skip, TurnAway, Claim, Message
  <2>2. \A n \in Message : n.doc # m.doc => messages'[n] = messages[n]
    <3>1. \A n \in Message : n.doc # m.doc => Taken(m)[n] = messages[n]
      BY DEF Taken, TypeOK
    <3>2. CASE TurnAway(w, m)
      BY <2>1, <3>1, <3>2, RetryElsewhere DEF TurnAway
    <3>3. CASE Skip(w, m) \/ Claim(w, m)
      BY <3>1, <3>3 DEF Skip, Claim
    <3> QED
      BY <1>6, <3>2, <3>3
  <2>3. CASE d = m.doc
    <3>1. web[d] \in {"enqueue", "done"} /\ job[d].state \notin {"none", "pending"}
      BY <2>1, <2>3, QueuedIsCommitted
    <3>2. web' = web
      BY <1>6 DEF Skip, TurnAway, Claim
    <3>3. job'[d].state \notin {"none", "pending"}
      BY <1>6, <3>1 DEF Skip, TurnAway, Claim, TypeOK
    <3> QED
      BY <3>1, <3>2, <3>3 DEF UploadInv
  <2>4. CASE d # m.doc
    <3>1. /\ \A n \in Message : n.doc = d => messages'[n] = messages[n]
          /\ job'[d] = job[d]
          /\ \A v \in Workers : On(v, d)' => On(v, d)
      <4>1. \A n \in Message : n.doc = d => messages'[n] = messages[n]
        BY <2>2, <2>4
      <4>2. job'[d] = job[d]
        BY <1>6, <2>4 DEF Skip, TurnAway, Claim, TypeOK
      <4>3. \A v \in Workers : On(v, d)' => On(v, d)
        BY <1>6, <2>4 DEF Skip, TurnAway, Claim, On, TypeOK
      <4> QED
        BY <4>1, <4>2, <4>3
    <3>2. UNCHANGED <<web, document, listed, remover, objects, outbox, batch>>
      BY <1>6 DEF Skip, TurnAway, Claim
    <3>3. Unqueued(d) => Unqueued(d)'
      BY <3>1, <3>2 DEF Unqueued
    <3> QED
      BY <1>1, <3>1, <3>2, <3>3 DEF UploadInv
  <2> QED
    BY <2>3, <2>4
<1>7. ASSUME NEW w \in Workers, WorkerStep(w) \/ WorkerFails(w)
      PROVE  UploadInv(d)'
  <2> DEFINE e == worker[w].doc
  <2>1. worker[w] # Free
    BY <1>7, OneConsumer
  <2>2. /\ e \in Docs /\ MessageOf(w) \in Message /\ MessageOf(w).doc = e
        /\ worker[w].step \in WorkerSteps
    BY <2>1, InHand DEF MessageOf
  <2>3. web' = web
    BY <1>7, OneConsumer
  <2>4. CASE d = e
    <3>1. web[d] \in {"enqueue", "done"} /\ job[d].state \notin {"none", "pending"}
      BY <2>1, <2>4, QueuedIsCommitted DEF On
    <3>2. UNCHANGED job \/ Finish(w)
      BY <1>7 DEF WorkerStep, InspectMissing, Inspect, Store, RemoveQuarantined, WorkerFails
    <3>3. job'[d].state \notin {"none", "pending"}
      <4>1. CASE Finish(w)
        <5>1. worker[w].verdict \in Verdicts
          BY <2>1, <4>1 DEF Finish, PipelineInv, ConsumerInv
        <5> QED
          BY <2>2, <2>4, <4>1, <5>1 DEF Finish, TypeOK, Verdicts
      <4> QED
        BY <3>1, <3>2, <4>1
    <3> QED
      BY <2>3, <3>1, <3>3 DEF UploadInv
  <2>5. CASE d # e
    <3>1. \A n \in Message : n.doc = d => messages'[n] = messages[n]
      <4>1. CASE GiveUp(w)
        BY <2>2, <2>5, <4>1, RetryElsewhere DEF GiveUp, TypeOK
      <4>2. CASE UNCHANGED messages
        BY <4>2
      <4> QED
        BY <1>7, <4>1, <4>2 DEF WorkerStep, InspectMissing, Inspect, Store, Finish,
                                RemoveQuarantined, WorkerFails
    <3>2. \A v \in Workers : On(v, d)' => On(v, d)
      BY <1>7, <2>5, OneConsumer DEF On
    <3>3. /\ document'[d] = document[d] /\ job'[d] = job[d] /\ listed'[d] = listed[d]
          /\ UNCHANGED <<outbox, remover, batch>>
          /\ <<"quarantine", d>> \in objects => <<"quarantine", d>> \in objects'
      BY <1>7, <2>5 DEF TypeOK, WorkerStep, InspectMissing, Inspect, Store, Finish,
                              RemoveQuarantined, WorkerFails, ListedAs
    <3> QED
      BY <1>1, <2>3, <3>1, <3>2, <3>3 DEF UploadInv, Unqueued
  <2> QED
    BY <2>4, <2>5
<1>8. ASSUME UNCHANGED vars PROVE UploadInv(d)'
  BY <1>1, <1>8 DEF UploadInv, Unqueued, On
<1> QED
  BY <1>2, <1>3, <1>4, <1>5, <1>6, <1>7, <1>8 DEF Next, Deliver, Failures

-------------------------------------------------------------------------------
(* Verdicts and deletions. *)

\* Who writes the state of a job.
LEMMA JobCases ==
    ASSUME [Next]_vars
    PROVE  \/ UNCHANGED job
           \/ \E e \in Docs : Upload(e) \/ CommitUpload(e) \/ Revert(e) \/ LeaseExpires(e)
           \/ \E w \in Workers, m \in Message : Claim(w, m)
           \/ \E w \in Workers : Finish(w)
<1> USE DEF vars, rows
<1>1. ASSUME NEW e \in Docs, \/ WebStep(e) \/ Delete(e) \/ DeleteObject(e)
                             \/ UploadFails(e) \/ RevertFails(e) \/ WebCrash(e) \/ DeleteFails(e)
      PROVE  UNCHANGED job \/ CommitUpload(e) \/ Revert(e)
  BY <1>1 DEF WebStep, PutObject, Enqueue, RemoveObject, Delete, DeleteObject, UploadFails,
              RevertFails, WebCrash, DeleteFails
<1>2. ASSUME Cron \/ DrainFails PROVE UNCHANGED job
  BY <1>2 DEF Cron, DrainSend, DrainCommit, DrainFails
<1>3. ASSUME NEW w \in Workers, NEW m \in Message, Skip(w, m) \/ TurnAway(w, m)
      PROVE  UNCHANGED job
  BY <1>3 DEF Skip, TurnAway
<1>4. ASSUME NEW w \in Workers, WorkerStep(w) \/ WorkerFails(w)
      PROVE  UNCHANGED job \/ Finish(w)
  BY <1>4 DEF WorkerStep, InspectMissing, Inspect, Store, RemoveQuarantined, WorkerFails
<1> QED
  BY <1>1, <1>2, <1>3, <1>4 DEF Next, Deliver, Failures

\* A job with a verdict keeps one, and keeps this one within the lease.
LEMMA VerdictStep ==
    ASSUME TypeOK, PipelineInv, [Next]_vars, NEW d \in Docs, job[d].state \in Verdicts
    PROVE  /\ job'[d].state \in Verdicts
           /\ d \notin overrun => job'[d].state = job[d].state
<1> USE DEF vars, rows
<1>1. job[d].state \notin {"none", "pending", "queued", "processing"}
  BY DEF Verdicts
<1>2. CASE UNCHANGED job
  BY <1>2
<1>3. ASSUME NEW e \in Docs, Upload(e) \/ CommitUpload(e) \/ Revert(e)
      PROVE  job'[d].state = job[d].state
  <2>1. job[e].state \in {"none", "pending"}
    BY <1>3 DEF PipelineInv, UploadInv, Upload, CommitUpload, Revert
  <2> QED
    BY <1>1, <1>3, <2>1 DEF Upload, CommitUpload, Revert, TypeOK
<1>4. ASSUME NEW e \in Docs, LeaseExpires(e)
      PROVE  job'[d].state = job[d].state
  BY <1>4 DEF LeaseExpires, TypeOK
<1>5. ASSUME NEW w \in Workers, NEW m \in Message, Claim(w, m)
      PROVE  job'[d].state = job[d].state
  BY <1>5 DEF Claim, HasVerdict, TypeOK
<1>6. ASSUME NEW w \in Workers, Finish(w)
      PROVE  /\ job'[d].state \in Verdicts
             /\ d \notin overrun => job'[d].state = job[d].state
  <2>1. worker[w] # Free
    BY <1>6, FreeIsIdle DEF Finish, WorkerSteps, WorkSteps
  <2>2. worker[w].doc \in Docs /\ worker[w].verdict \in Verdicts
    BY <1>6, <2>1, InHand DEF PipelineInv, ConsumerInv, Finish
  <2>3. d \notin overrun => worker[w].doc # d
    BY <1>1, <1>6 DEF PipelineInv, LeaseInv, WorkingOn, WorkSteps, IsBusy, Finish
  <2> QED
    BY <1>6, <2>2, <2>3 DEF Finish, TypeOK
<1> QED
  BY <1>2, <1>3, <1>4, <1>5, <1>6, JobCases

\* A step of the rows of document d: of its upload, of a deletion, or of a
\* consumer that writes its verdict.
LEMMA RowCases ==
    ASSUME TypeOK, [Next]_vars, NEW d \in Docs
    PROVE  \/ /\ document'[d] = document[d] /\ listed'[d] = listed[d]
           \/ Upload(d) \/ Revert(d) \/ Delete(d)
           \/ \E w \in Workers : Finish(w) /\ worker[w].doc = d
<1> USE DEF TypeOK, vars, rows
<1>1. ASSUME NEW e \in Docs, \/ Upload(e) \/ WebStep(e) \/ Delete(e) \/ DeleteObject(e)
                             \/ UploadFails(e) \/ RevertFails(e) \/ WebCrash(e) \/ DeleteFails(e)
                             \/ LeaseExpires(e)
      PROVE  \/ /\ document'[d] = document[d] /\ listed'[d] = listed[d]
             \/ Upload(d) \/ Revert(d) \/ Delete(d)
  <2>1. CASE Upload(e)
    BY <2>1 DEF Upload
  <2>2. CASE Revert(e)
    BY <2>2 DEF Revert, ListedAs
  <2>3. CASE Delete(e)
    BY <2>3 DEF Delete
  <2> QED
    BY <1>1, <2>1, <2>2, <2>3 DEF WebStep, PutObject, CommitUpload, Enqueue, RemoveObject,
                DeleteObject, UploadFails, RevertFails, WebCrash, DeleteFails, LeaseExpires
<1>2. ASSUME Cron \/ DrainFails PROVE UNCHANGED <<document, listed>>
  BY <1>2 DEF Cron, DrainSend, DrainCommit, DrainFails
<1>3. ASSUME NEW w \in Workers, NEW m \in Message, Skip(w, m) \/ TurnAway(w, m) \/ Claim(w, m)
      PROVE  UNCHANGED <<document, listed>>
  BY <1>3 DEF Skip, TurnAway, Claim
<1>4. ASSUME NEW w \in Workers, WorkerStep(w) \/ WorkerFails(w)
      PROVE  \/ document'[d] = document[d] /\ listed'[d] = listed[d]
             \/ Finish(w) /\ worker[w].doc = d
  <2>1. CASE Finish(w)
    BY <2>1 DEF Finish, ListedAs
  <2> QED
    BY <1>4, <2>1 DEF WorkerStep, InspectMissing, Inspect, Store, RemoveQuarantined, WorkerFails
<1> QED
  BY <1>1, <1>2, <1>3, <1>4 DEF Next, Deliver, Failures

\* A row of documents that was deleted does not come back.
LEMMA DeletedStays ==
    ASSUME TypeOK, PipelineInv, [Next]_vars, NEW d \in Docs, listed[d] = "none", web[d] # "idle"
    PROVE  listed'[d] = "none"
<1> USE DEF TypeOK
<1>1. CASE Revert(d)
  BY <1>1 DEF Revert, ListedAs
<1>2. CASE Delete(d)
  BY <1>2 DEF Delete
<1>3. ASSUME NEW w \in Workers, Finish(w), worker[w].doc = d
      PROVE  listed'[d] = "none"
  BY <1>3 DEF Finish, ListedAs
<1> QED
  BY <1>1, <1>2, <1>3, RowCases DEF Upload

\* Every step keeps what a deletion under way has found.
LEMMA DeletionStep ==
    ASSUME TypeOK, PipelineInv, [Next]_vars, NEW d \in Docs
    PROVE  DeletionInv(d)'
<1> SUFFICES ASSUME remover'[d] \in Prefixes
             PROVE  /\ listed'[d] = "none"
                    /\ document'[d].status = "revoked" \/ job'[d].state \in Verdicts
  BY DEF DeletionInv
<1>1. CASE Delete(d)
  BY <1>1 DEF Delete, TypeOK
<1>2. CASE ~Delete(d)
  <2>1. remover[d] \in Prefixes
    <3>1. ASSUME NEW e \in Docs, Delete(e) \/ DeleteObject(e) \/ DeleteFails(e)
          PROVE  remover[d] \in Prefixes
      BY <1>2, <3>1 DEF Delete, DeleteObject, DeleteFails, TypeOK, Prefixes
    <3>2. ASSUME NEW e \in Docs, \/ Upload(e) \/ WebStep(e) \/ LeaseExpires(e) \/ UploadFails(e)
                                 \/ RevertFails(e) \/ WebCrash(e)
          PROVE  remover' = remover
      BY <3>2 DEF Upload, WebStep, PutObject, CommitUpload, Enqueue, Revert, RemoveObject,
                  LeaseExpires, UploadFails, RevertFails, WebCrash
    <3>3. ASSUME NEW w \in Workers, NEW m \in Message, Skip(w, m) \/ TurnAway(w, m) \/ Claim(w, m)
          PROVE  remover' = remover
      BY <3>3 DEF Skip, TurnAway, Claim
    <3>4. ASSUME NEW w \in Workers, WorkerStep(w) \/ WorkerFails(w)
          PROVE  remover' = remover
      BY <3>4 DEF WorkerStep, InspectMissing, Inspect, Store, Finish, RemoveQuarantined, WorkerFails
    <3>5. ASSUME Cron \/ DrainFails \/ UNCHANGED vars PROVE remover' = remover
      BY <3>5 DEF Cron, DrainSend, DrainCommit, DrainFails, vars
    <3> QED
      BY <3>1, <3>2, <3>3, <3>4, <3>5 DEF Next, Deliver, Failures
  <2>2. /\ listed[d] = "none"
        /\ document[d].status = "revoked" \/ job[d].state \in Verdicts
        /\ web[d] # "idle"
    BY <2>1 DEF PipelineInv, DeletionInv, UploadInv, Prefixes
  <2>3. listed'[d] = "none"
    BY <2>2, DeletedStays
  <2>4. CASE job[d].state \in Verdicts
    BY <2>3, <2>4, VerdictStep
  <2>5. CASE document'[d] = document[d]
    BY <2>2, <2>3, <2>4, <2>5
  <2>6. CASE Revert(d)
    BY <2>3, <2>6 DEF Revert, TypeOK, Verdicts
  <2>7. ASSUME NEW w \in Workers, Finish(w), worker[w].doc = d
        PROVE  job'[d].state \in Verdicts
    <3>1. worker[w] # Free
      BY <2>7, FreeIsIdle DEF Finish, WorkerSteps, WorkSteps
    <3> QED
      BY <2>7, <3>1 DEF Finish, TypeOK, PipelineInv, ConsumerInv
  <2> QED
    BY <1>2, <2>2, <2>3, <2>5, <2>6, <2>7, RowCases DEF Upload
<1> QED
  BY <1>1, <1>2

-------------------------------------------------------------------------------
(* Consumers and objects. *)

\* Who takes an object away: the compensation of an upload and a consumer that
\* has finished take the quarantined one, a deletion the one it read the key of.
LEMMA ObjectCases ==
    ASSUME TypeOK, [Next]_vars, NEW p \in Prefixes, NEW d \in Docs,
           <<p, d>> \in objects, <<p, d>> \notin objects'
    PROVE  \/ p = "quarantine" /\ RemoveObject(d)
           \/ remover[d] = p
           \/ p = "quarantine" /\ \E w \in Workers : worker[w].step = "remove" /\ worker[w].doc = d
<1> USE DEF vars
<1>1. ASSUME NEW e \in Docs, \/ Upload(e) \/ WebStep(e) \/ Delete(e) \/ DeleteObject(e)
                             \/ UploadFails(e) \/ RevertFails(e) \/ WebCrash(e) \/ DeleteFails(e)
                             \/ LeaseExpires(e)
      PROVE  (p = "quarantine" /\ RemoveObject(d)) \/ remover[d] = p
  BY <1>1 DEF Upload, WebStep, PutObject, CommitUpload, Enqueue, Revert, RemoveObject, Delete,
              DeleteObject, UploadFails, RevertFails, WebCrash, DeleteFails, LeaseExpires
<1>2. ASSUME Cron \/ DrainFails PROVE FALSE
  BY <1>2 DEF Cron, DrainSend, DrainCommit, DrainFails
<1>3. ASSUME NEW w \in Workers, NEW m \in Message, Skip(w, m) \/ TurnAway(w, m) \/ Claim(w, m)
      PROVE  FALSE
  BY <1>3 DEF Skip, TurnAway, Claim
<1>4. ASSUME NEW w \in Workers, WorkerStep(w) \/ WorkerFails(w)
      PROVE  p = "quarantine" /\ worker[w].step = "remove" /\ worker[w].doc = d
  BY <1>4 DEF WorkerStep, InspectMissing, Inspect, Store, Finish, RemoveQuarantined, WorkerFails
<1> QED
  BY <1>1, <1>2, <1>3, <1>4 DEF Next, Deliver, Failures

\* A verdict's copy of the bytes stays as long as the row in documents does.
LEMMA CopyStays ==
    ASSUME TypeOK, PipelineInv, [Next]_vars, NEW d \in Docs, NEW v \in Verdicts,
           <<v, d>> \in objects, listed[d] # "none"
    PROVE  <<v, d>> \in objects'
<1>1. v \in Prefixes /\ v # "quarantine"
  BY DEF Verdicts, Prefixes
<1>2. remover[d] # v
  BY <1>1 DEF PipelineInv, DeletionInv
<1> QED
  BY <1>1, <1>2, ObjectCases

\* Which consumers a step moves.
LEMMA WorkerCases ==
    ASSUME TypeOK, [Next]_vars, NEW w \in Workers, worker'[w] # worker[w], worker'[w] # Free
    PROVE  \/ Inspect(w) \/ Store(w) \/ Finish(w)
           \/ \E m \in Message : Claim(w, m)
<1> USE DEF vars, TypeOK
<1>1. ASSUME NEW e \in Docs, \/ Upload(e) \/ WebStep(e) \/ Delete(e) \/ DeleteObject(e)
                             \/ UploadFails(e) \/ RevertFails(e) \/ WebCrash(e) \/ DeleteFails(e)
                             \/ LeaseExpires(e)
      PROVE  FALSE
  BY <1>1 DEF Upload, WebStep, PutObject, CommitUpload, Enqueue, Revert, RemoveObject, Delete,
              DeleteObject, UploadFails, RevertFails, WebCrash, DeleteFails, LeaseExpires
<1>2. ASSUME Cron \/ DrainFails PROVE FALSE
  BY <1>2 DEF Cron, DrainSend, DrainCommit, DrainFails
<1>3. ASSUME NEW v \in Workers, NEW m \in Message, Skip(v, m) \/ TurnAway(v, m) \/ Claim(v, m)
      PROVE  Claim(w, m)
  BY <1>3 DEF Skip, TurnAway, Claim
<1>4. ASSUME NEW v \in Workers, WorkerStep(v) \/ WorkerFails(v)
      PROVE  Inspect(w) \/ Store(w) \/ Finish(w)
  <2>1. v = w
    BY <1>4, OneConsumer
  <2> QED
    BY <1>4, <2>1 DEF WorkerStep, InspectMissing, RemoveQuarantined, WorkerFails, GiveUp
<1> QED
  BY <1>1, <1>2, <1>3, <1>4 DEF Next, Deliver, Failures

\* What a scan has passed stays passed.
LEMMA PassedGrows ==
    ASSUME [Next]_vars
    PROVE  passed \subseteq passed' /\ overrun \subseteq overrun'
<1> USE DEF vars, history
<1>1. ASSUME NEW e \in Docs, \/ Upload(e) \/ WebStep(e) \/ Delete(e) \/ DeleteObject(e)
                             \/ UploadFails(e) \/ RevertFails(e) \/ WebCrash(e) \/ DeleteFails(e)
                             \/ LeaseExpires(e)
      PROVE  passed \subseteq passed' /\ overrun \subseteq overrun'
  BY <1>1 DEF Upload, WebStep, PutObject, CommitUpload, Enqueue, Revert, RemoveObject, Delete,
              DeleteObject, UploadFails, RevertFails, WebCrash, DeleteFails, LeaseExpires
<1>2. ASSUME Cron \/ DrainFails PROVE UNCHANGED <<passed, overrun>>
  BY <1>2 DEF Cron, DrainSend, DrainCommit, DrainFails
<1>3. ASSUME NEW w \in Workers, NEW m \in Message, Skip(w, m) \/ TurnAway(w, m) \/ Claim(w, m)
      PROVE  UNCHANGED <<passed, overrun>>
  BY <1>3 DEF Skip, TurnAway, Claim
<1>4. ASSUME NEW w \in Workers, WorkerStep(w) \/ WorkerFails(w)
      PROVE  passed \subseteq passed' /\ overrun \subseteq overrun'
  BY <1>4 DEF WorkerStep, InspectMissing, Inspect, Store, Finish, RemoveQuarantined, WorkerFails
<1> QED
  BY <1>1, <1>2, <1>3, <1>4 DEF Next, Deliver, Failures

\* Every step keeps what a worker knows of the job in its hands.
LEMMA ConsumerStep ==
    ASSUME TypeOK, PipelineInv, [Next]_vars, NEW w \in Workers, worker'[w] # Free
    PROVE  ConsumerInv(w)'
<1> DEFINE d == worker[w].doc
<1>1. CASE worker'[w] = worker[w]
  <2>1. d \in Docs /\ worker[w] # Free
    BY <1>1, InHand
  <2>2. ConsumerInv(w) /\ On(w, d) /\ web[d] # "idle"
    BY <2>1, QueuedIsCommitted DEF PipelineInv, On
  <2>3. ASSUME worker[w].step \in {"store", "finish"}
        PROVE  worker[w].verdict \in Verdicts /\ (worker[w].verdict = "clean" => d \in passed')
    BY <2>2, <2>3, PassedGrows DEF ConsumerInv
  <2>4. ASSUME worker[w].step = "finish"
        PROVE  <<worker[w].verdict, d>> \in objects' \/ listed'[d] = "none"
    <3>1. CASE listed[d] = "none"
      BY <2>1, <2>2, <3>1, DeletedStays
    <3>2. CASE listed[d] # "none"
      BY <2>1, <2>2, <2>4, <3>2, CopyStays DEF ConsumerInv
    <3> QED
      BY <3>1, <3>2
  <2>5. ASSUME worker[w].step = "remove" PROVE job'[d].state \in Verdicts
    BY <2>1, <2>2, <2>5, VerdictStep DEF ConsumerInv
  <2> QED
    BY <1>1, <2>3, <2>4, <2>5 DEF ConsumerInv
<1>2. ASSUME NEW m \in Message, Claim(w, m)
      PROVE  ConsumerInv(w)'
  BY <1>2 DEF Claim, ConsumerInv, TypeOK
<1>3. CASE Inspect(w)
  <2>1. worker[w] # Free
    BY <1>3, FreeIsIdle DEF Inspect, WorkerSteps, WorkSteps
  <2>2. worker[w] \in Busy
    BY <2>1, InHand
  <2>3. PICK v \in Verdicts :
            /\ worker' = [worker EXCEPT ![w].step = "store", ![w].verdict = v]
            /\ passed' = IF v = "clean" THEN passed \cup {d} ELSE passed
    BY <1>3 DEF Inspect
  <2>4. worker'[w].step = "store" /\ worker'[w].verdict = v /\ worker'[w].doc = d
    BY <2>2, <2>3 DEF TypeOK, Busy
  <2>5. v = "clean" => d \in passed'
    BY <2>3
  <2> QED
    BY <2>4, <2>5 DEF ConsumerInv
<1>4. CASE Store(w)
  <2>1. worker[w] # Free
    BY <1>4, FreeIsIdle DEF Store, WorkerSteps, WorkSteps
  <2>2. worker[w] \in Busy
    BY <2>1, InHand
  <2>3. /\ worker'[w].step = "finish" /\ worker'[w].verdict = worker[w].verdict
        /\ worker'[w].doc = d
    BY <1>4, <2>2 DEF Store, TypeOK, Busy
  <2>4. worker[w].verdict \in Verdicts /\ (worker[w].verdict = "clean" => d \in passed')
    BY <1>4, <2>1 DEF Store, PipelineInv, ConsumerInv, history
  <2>5. <<worker[w].verdict, d>> \in objects'
    BY <1>4 DEF Store
  <2> QED
    BY <2>3, <2>4, <2>5 DEF ConsumerInv
<1>5. CASE Finish(w)
  <2>1. worker[w] # Free
    BY <1>5, FreeIsIdle DEF Finish, WorkerSteps, WorkSteps
  <2>2. worker[w] \in Busy /\ d \in Docs /\ worker[w].verdict \in Verdicts
    BY <1>5, <2>1, InHand DEF Finish, PipelineInv, ConsumerInv
  <2>3. worker'[w].step = "remove" /\ worker'[w].doc = d /\ job'[d].state \in Verdicts
    BY <1>5, <2>2 DEF Finish, TypeOK, Busy
  <2> QED
    BY <2>3 DEF ConsumerInv
<1> QED
  BY <1>1, <1>2, <1>3, <1>4, <1>5, WorkerCases

\* Who works on a document did so before, or has claimed it now.
LEMMA WorkingCases ==
    ASSUME TypeOK, [Next]_vars, NEW d \in Docs, NEW w \in Workers, WorkingOn(w, d)'
    PROVE  \/ WorkingOn(w, d) /\ ~Finish(w)
           \/ \E m \in Message : m.doc = d /\ Claim(w, m)
<1>1. worker'[w] # Free
  BY DEF WorkingOn, Free, WorkSteps
<1>2. ASSUME NEW m \in Message, Claim(w, m) PROVE m.doc = d
  BY <1>2 DEF Claim, WorkingOn, TypeOK
<1>3. CASE Inspect(w) \/ Store(w)
  <2>1. worker[w].step \in {"inspect", "store"}
    BY <1>3 DEF Inspect, Store
  <2>2. worker[w] # Free
    BY <2>1, FreeIsIdle DEF WorkerSteps, WorkSteps
  <2>3. worker'[w].doc = worker[w].doc
    BY <1>1, <1>3, OneConsumer DEF WorkerStep
  <2> QED
    BY <2>1, <2>3 DEF WorkingOn, WorkSteps, Finish
<1>4. CASE Finish(w)
  <2>1. worker[w] \in Busy
    BY <1>4, FreeIsIdle, InHand DEF Finish, WorkerSteps, WorkSteps
  <2>2. worker'[w].step = "remove"
    BY <1>4, <2>1 DEF Finish, TypeOK, Busy
  <2> QED
    BY <2>2 DEF WorkingOn, WorkSteps
<1>5. CASE worker'[w] = worker[w]
  BY <1>4, <1>5 DEF WorkingOn
<1> QED
  BY <1>1, <1>2, <1>3, <1>4, <1>5, WorkerCases

\* One consumer at a time within the lease, and it finds the job as it claimed it.
Exclusive(d) ==
    \A v, w \in Workers : WorkingOn(v, d) /\ WorkingOn(w, d) => v = w

\* OneWorkerPerJob, document by document.
LEMMA ExclusiveDocs ==
    OneWorkerPerJob <=> \A d \in Docs \ overrun : Exclusive(d)
BY DEF OneWorkerPerJob, Exclusive, WorkingOn

\* While a lease is not overrun, a claim finds the document without a worker.
LEMMA LeaseStep ==
    ASSUME TypeOK, PipelineInv, [Next]_vars, NEW d \in Docs, d \notin overrun'
    PROVE  Exclusive(d)' /\ LeaseInv(d)'
<1> USE DEF TypeOK
<1>1. d \notin overrun
  BY PassedGrows
<1>2. Exclusive(d) /\ \A w \in Workers : WorkingOn(w, d) => IsBusy(d)
  BY <1>1, ExclusiveDocs DEF PipelineInv, LeaseInv
<1>3. ASSUME NEW w \in Workers, NEW m \in Message, Claim(w, m), m.doc = d
      PROVE  Exclusive(d)' /\ LeaseInv(d)'
  <2>1. \A v \in Workers : ~WorkingOn(v, d)
    BY <1>2, <1>3 DEF Claim
  <2>2. \A v \in Workers : WorkingOn(v, d)' => v = w
    BY <1>3, <2>1 DEF Claim, WorkingOn
  <2>3. IsBusy(d)'
    BY <1>3 DEF Claim, IsBusy
  <2> QED
    BY <2>2, <2>3 DEF Exclusive, LeaseInv
<1>4. ASSUME ~ \E w \in Workers, m \in Message : m.doc = d /\ Claim(w, m)
      PROVE  Exclusive(d)' /\ LeaseInv(d)'
  <2>1. \A w \in Workers : WorkingOn(w, d)' => WorkingOn(w, d) /\ ~Finish(w)
    BY <1>4, WorkingCases
  <2>2. Exclusive(d)'
    BY <1>2, <2>1 DEF Exclusive
  <2>3. ASSUME NEW w \in Workers, WorkingOn(w, d), ~Finish(w)
        PROVE  job'[d] = job[d]
    <3>1. On(w, d) /\ IsBusy(d)
      BY <1>2, <2>3, FreeIsIdle DEF On, WorkingOn, WorkerSteps
    <3>2. web[d] \in {"enqueue", "done"}
      BY <3>1, QueuedIsCommitted
    <3>3. ASSUME NEW e \in Docs, Upload(e) \/ CommitUpload(e) \/ Revert(e)
          PROVE  job'[d] = job[d]
      BY <3>2, <3>3 DEF Upload, CommitUpload, Revert
    <3>4. ASSUME NEW e \in Docs, LeaseExpires(e)
          PROVE  job'[d] = job[d]
      <4>1. e # d
        BY <2>3, <3>4 DEF LeaseExpires, WorkingOn
      <4> QED
        BY <3>4, <4>1 DEF LeaseExpires
    <3>5. ASSUME NEW v \in Workers, NEW m \in Message, Claim(v, m)
          PROVE  job'[d] = job[d]
      BY <1>4, <3>5 DEF Claim
    <3>6. ASSUME NEW v \in Workers, Finish(v)
          PROVE  job'[d] = job[d]
      <4>1. worker[v].doc # d
        BY <1>2, <2>3, <3>6 DEF Exclusive, WorkingOn, WorkSteps, Finish
      <4> QED
        BY <3>6, <4>1 DEF Finish
    <3> QED
      BY <3>3, <3>4, <3>5, <3>6, JobCases
  <2>4. LeaseInv(d)'
    BY <1>2, <2>1, <2>3 DEF LeaseInv, IsBusy
  <2> QED
    BY <2>2, <2>4
<1> QED
  BY <1>3, <1>4

\* A document becomes listed as clean only with its bytes in clean storage.
LEMMA ListedStep ==
    ASSUME TypeOK, PipelineInv, [Next]_vars, NEW d \in Docs, listed'[d] = "clean"
    PROVE  Servable(d)' /\ d \in passed'
<1> USE DEF TypeOK
<1>1. ASSUME document'[d] = document[d], listed'[d] = listed[d]
      PROVE  Servable(d)' /\ d \in passed'
  <2>1. Servable(d) /\ d \in passed
    BY <1>1 DEF PipelineInv, ObjectsFollowStatus, ListedIsServable
  <2>2. <<"clean", d>> \in objects'
    BY <1>1, <2>1, CopyStays DEF Servable, Verdicts
  <2> QED
    BY <1>1, <2>1, <2>2, PassedGrows DEF Servable
<1>2. ASSUME NEW w \in Workers, Finish(w), worker[w].doc = d
      PROVE  Servable(d)' /\ d \in passed'
  <2>1. worker[w] # Free
    BY <1>2, FreeIsIdle DEF Finish, WorkerSteps, WorkSteps
  <2>2. listed[d] # "none" /\ worker[w].verdict = "clean"
    BY <1>2 DEF Finish, ListedAs
  <2>3. <<"clean", d>> \in objects /\ d \in passed
    BY <1>2, <2>1, <2>2 DEF PipelineInv, ConsumerInv, Finish
  <2> QED
    BY <1>2, <2>2, <2>3 DEF Finish, Servable, history
<1>3. ~Upload(d) /\ ~Revert(d) /\ ~Delete(d)
  BY DEF Upload, Revert, ListedAs, Delete
<1> QED
  BY <1>1, <1>2, <1>3, RowCases

\* While a job is undecided nothing takes the bytes out of quarantine.
LEMMA UndecidedStep ==
    ASSUME TypeOK, PipelineInv, [Next]_vars, NEW d \in Docs,
           job'[d].state \in {"queued", "processing"}, document'[d].status # "revoked"
    PROVE  <<"quarantine", d>> \in objects'
<1> USE DEF TypeOK
<1>1. job[d].state \notin Verdicts
  BY VerdictStep DEF Verdicts
<1>2. CASE CommitUpload(d)
  BY <1>2 DEF CommitUpload, PipelineInv, UploadInv
<1>3. CASE ~CommitUpload(d)
  <2>1. job[d].state \in {"queued", "processing"}
    <3>1. ASSUME NEW w \in Workers, NEW m \in Message, Claim(w, m), m.doc = d
          PROVE  job[d].state \notin {"none", "pending"}
      BY <3>1, QueuedIsCommitted DEF Claim
    <3>2. ASSUME NEW w \in Workers, Finish(w), job'[d] # job[d]
          PROVE  FALSE
      <4>1. worker[w] # Free
        BY <3>2, FreeIsIdle DEF Finish, WorkerSteps, WorkSteps
      <4> QED
        BY <3>2, <4>1 DEF Finish, PipelineInv, ConsumerInv, Verdicts
    <3>3. ASSUME job'[d].state # job[d].state
          PROVE  \E w \in Workers, m \in Message : Claim(w, m) /\ m.doc = d
      <4>1. ASSUME NEW e \in Docs, Upload(e) \/ CommitUpload(e) \/ Revert(e) \/ LeaseExpires(e)
            PROVE  job'[d].state = job[d].state
        <5>1. CASE e = d
          <6>1. CASE Upload(d)
            BY <6>1 DEF Upload
          <6>2. CASE Revert(d)
            BY <6>2 DEF Revert
          <6>3. CASE LeaseExpires(d)
            BY <6>3 DEF LeaseExpires
          <6> QED
            BY <1>3, <4>1, <5>1, <6>1, <6>2, <6>3
        <5>2. CASE e # d
          BY <4>1, <5>2 DEF Upload, CommitUpload, Revert, LeaseExpires
        <5> QED
          BY <5>1, <5>2
      <4>2. ASSUME NEW w \in Workers, NEW m \in Message, Claim(w, m)
            PROVE  m.doc = d
        BY <3>3, <4>2 DEF Claim
      <4> QED
        BY <3>2, <3>3, <4>1, <4>2, JobCases
    <3> QED
      BY <1>1, <3>1, <3>3 DEF Verdicts
  <2>2. document[d].status # "revoked"
    <3>1. ~Upload(d) /\ ~Revert(d) /\ ~Delete(d)
      BY <2>1 DEF Upload, Revert, Delete, PipelineInv, UploadInv
    <3>2. ASSUME NEW w \in Workers, Finish(w), worker[w].doc = d
          PROVE  FALSE
      <4>1. worker[w] # Free
        BY <3>2, FreeIsIdle DEF Finish, WorkerSteps, WorkSteps
      <4> QED
        BY <3>2, <4>1 DEF Finish, PipelineInv, ConsumerInv, Verdicts
    <3> QED
      BY <3>1, <3>2, RowCases
  <2>3. <<"quarantine", d>> \in objects
    BY <2>1, <2>2 DEF PipelineInv, ObjectsFollowStatus, UndecidedHasObject
  <2>4. ~RemoveObject(d)
    BY <2>1 DEF RemoveObject, PipelineInv, UploadInv
  <2>5. remover[d] # "quarantine"
    BY <1>1, <2>2 DEF PipelineInv, DeletionInv, Prefixes
  <2>6. \A w \in Workers : ~(worker[w].step = "remove" /\ worker[w].doc = d)
    BY <1>1, FreeIsIdle DEF PipelineInv, ConsumerInv, WorkerSteps
  <2> QED
    BY <2>3, <2>4, <2>5, <2>6, ObjectCases DEF Prefixes
<1> QED
  BY <1>2, <1>3

-------------------------------------------------------------------------------
(* The theorems. *)

\* The initial states satisfy the invariant.
LEMMA PipelineInit == Init => TypeOK /\ PipelineInv
<1> SUFFICES ASSUME Init PROVE TypeOK /\ PipelineInv
  OBVIOUS
<1>1. TypeOK
  BY PipelineAssumption DEF Init, TypeOK, WebSteps, Prefixes
<1>2. \A w \in Workers : worker[w] = Free
  BY DEF Init
<1>3. \A d \in Docs : UploadInv(d) /\ DeletionInv(d)
  BY <1>2 DEF Init, UploadInv, Unqueued, On, DeletionInv, Prefixes
<1>4. \A d \in Docs, w \in Workers : ~WorkingOn(w, d)
  BY <1>2, FreeIsIdle DEF WorkingOn, WorkerSteps
<1>5. ObjectsFollowStatus
  BY DEF Init, ObjectsFollowStatus, ListedIsServable, UndecidedHasObject
<1> QED
  BY <1>1, <1>2, <1>3, <1>4, <1>5, ExclusiveDocs DEF PipelineInv, LeaseInv, Exclusive

\* Every step keeps the invariant.
LEMMA PipelineStep ==
    ASSUME TypeOK, PipelineInv, [Next]_vars
    PROVE  TypeOK' /\ PipelineInv'
<1>1. \A d \in Docs : UploadInv(d)' /\ DeletionInv(d)'
  BY UploadStep, DeletionStep
<1>2. \A d \in Docs \ overrun' : Exclusive(d)' /\ LeaseInv(d)'
  BY LeaseStep
<1>3. \A d \in Docs : LeaseInv(d)'
  BY <1>2 DEF LeaseInv
<1>4. OneWorkerPerJob'
  BY <1>2 DEF OneWorkerPerJob, Exclusive, WorkingOn
<1>5. \A w \in Workers : worker'[w] # Free => ConsumerInv(w)'
  BY ConsumerStep
<1>6. ObjectsFollowStatus'
  BY ListedStep, UndecidedStep DEF ObjectsFollowStatus, ListedIsServable, UndecidedHasObject
<1> QED
  BY <1>1, <1>3, <1>4, <1>5, <1>6, TypeStep DEF PipelineInv

\* The invariant of the pipeline, on which the other theorems rest.
THEOREM PipelineInvariant == Spec => [](TypeOK /\ PipelineInv)
<1>1. TypeOK /\ PipelineInv /\ [Next]_vars => TypeOK' /\ PipelineInv'
  BY PipelineStep
<1> QED
  BY <1>1, PipelineInit, PTL DEF Spec

\* Every variable has its type in every reachable state; in particular what the
\* cron trigger, the queue and the retries do to the message counters never
\* takes a message that was not sent.
THEOREM TypeCorrect == Spec => []TypeOK
BY PipelineInvariant, PTL

\* However many messages of a job there are and however many consumers, one
\* consumer at a time works on it as long as its lease lasts (startJob, the
\* UPDATE with its WHERE clause).
THEOREM LeaseExcludes == Spec => []OneWorkerPerJob
<1>1. PipelineInv => OneWorkerPerJob
  BY DEF PipelineInv
<1> QED
  BY <1>1, PipelineInvariant, PTL

\* What the owner is shown as clean can be served, and what waits for its scan
\* has its bytes in quarantine, through every failure the pipeline handles.
THEOREM BytesAreThere == Spec => []ObjectsFollowStatus
<1>1. PipelineInv => ObjectsFollowStatus
  BY DEF PipelineInv
<1> QED
  BY <1>1, PipelineInvariant, PTL

\* A verdict written within the lease is never written over.
THEOREM VerdictsStand == Spec => VerdictIsFinal
<1>1. TypeOK /\ PipelineInv /\ [Next]_vars =>
          [\A d \in Docs \ overrun :
              job[d].state \in Verdicts => job'[d].state = job[d].state]_vars
  BY VerdictStep
<1> QED
  BY <1>1, PipelineInvariant, PTL DEF Spec, VerdictIsFinal
===============================================================================

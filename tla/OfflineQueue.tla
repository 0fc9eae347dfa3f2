----------------------------- MODULE OfflineQueue -----------------------------
(***************************************************************************)
(* The two queues of the mobile app (lib/offline.ts): writes made without  *)
(* a connection, and documents to upload.  A flush reads the rows in order *)
(* of their ids and, row by row, sends one and then deletes it; the first  *)
(* error ends it.  Nothing keeps two flushes from running at once, and the *)
(* app may be killed at any step.                                          *)
(***************************************************************************)
EXTENDS Integers, Sequences

CONSTANTS
    Mutations,  \* rows of one queue, in the order of their ids
    Refused,    \* rows the API always refuses
    Flushers,   \* flushes that may run at a time
    MaxErrors   \* bound on requests without an answer and on kills of the app

ASSUME QueueAssumption ==
    Mutations \in Seq(Nat) /\ MaxErrors \in Nat

VARIABLES
    next,     \* how many rows have been enqueued
    queue,    \* the rows of mutation_queue or document_upload_queue
    flusher,  \* the rows a flush has still to send, in the order of ids, and its step
    server,   \* the accepted mutations in the order of arrival
    errors

queueVars == <<next, queue, flusher, server, errors>>

Resting == [at |-> "idle", rows |-> {}]

QueueInit ==
    /\ next = 0 /\ queue = {}
    /\ flusher = [f \in Flushers |-> Resting]
    /\ server = <<>>
    /\ errors = 0

-------------------------------------------------------------------------------
\* A mutation, or a document, is put aside while offline.
Enqueue ==
    /\ next < Len(Mutations)
    /\ next' = next + 1
    /\ queue' = queue \cup {next + 1}
    /\ UNCHANGED <<flusher, server, errors>>

\* The row a flush is at (ORDER BY id).
First(rows) == CHOOSE i \in rows : \A j \in rows : i <= j

\* Mutant of Flush: one row alone is not worth a flush.
FlushBatched(f) ==
    /\ flusher[f] = Resting
    /\ \E i, j \in queue : i # j
    /\ flusher' = [flusher EXCEPT ![f] = [at |-> "send", rows |-> queue]]
    /\ UNCHANGED <<next, queue, server, errors>>

Flush(f) ==
    /\ flusher[f] = Resting
    /\ queue # {}
    /\ flusher' = [flusher EXCEPT ![f] = [at |-> "send", rows |-> queue]]
    /\ UNCHANGED <<next, queue, server, errors>>

\* The API accepts the mutation, although the row may be gone by now.
Send(f) ==
    /\ flusher[f].at = "send"
    /\ First(flusher[f].rows) \notin Refused
    /\ server' = Append(server, First(flusher[f].rows))
    /\ flusher' = [flusher EXCEPT ![f].at = "delete"]
    /\ UNCHANGED <<next, queue, errors>>

\* apiRequest throws: the flush ends with every row from this one on kept.
SendRefused(f) ==
    /\ flusher[f].at = "send"
    /\ First(flusher[f].rows) \in Refused
    /\ flusher' = [flusher EXCEPT ![f] = Resting]
    /\ UNCHANGED <<next, queue, server, errors>>

\* Mutant of DeleteRow: the rows read at the start are all deleted after the first.
DeleteRowsRead(f) ==
    /\ flusher[f].at = "delete"
    /\ queue' = queue \ flusher[f].rows
    /\ flusher' = [flusher EXCEPT ![f] = Resting]
    /\ UNCHANGED <<next, server, errors>>

DeleteRow(f) ==
    /\ flusher[f].at = "delete"
    /\ LET row  == First(flusher[f].rows)
           rest == flusher[f].rows \ {row}
       IN  /\ queue' = queue \ {row}
           /\ flusher' = [flusher EXCEPT ![f] = IF rest = {} THEN Resting
                                                ELSE [at |-> "send", rows |-> rest]]
    /\ UNCHANGED <<next, server, errors>>

\* No connection, or the app is killed: before the request arrives, between its
\* arrival and its answer (at "delete"), or before the row is deleted.
Breaks(f) ==
    /\ flusher[f] # Resting
    /\ errors < MaxErrors
    /\ errors' = errors + 1
    /\ flusher' = [flusher EXCEPT ![f] = Resting]
    /\ UNCHANGED <<next, queue, server>>

QueueStep(f) == Send(f) \/ SendRefused(f) \/ DeleteRow(f)

QueueNext == Enqueue \/ \E f \in Flushers : Flush(f) \/ QueueStep(f) \/ Breaks(f)

\* The user opens the app again as long as something waits; a flush goes on.
QueueFairness == \A f \in Flushers : WF_queueVars(Flush(f)) /\ WF_queueVars(QueueStep(f))

-------------------------------------------------------------------------------
(* Properties.                                                             *)

QueueTypeOK ==
    /\ next \in 0..Len(Mutations)
    /\ queue \subseteq 1..next
    /\ \A f \in Flushers : (flusher[f] = Resting) <=> (flusher[f].rows = {})

\* The API sees the mutations in the order in which they were made (ORDER BY id),
\* and none leaves the queue unseen (DELETE after apiRequest): with two flushes and
\* kills at any step they may arrive again, but when one arrives all that were made
\* before it have arrived, and a row that is gone has arrived.
ArrivesInOrder ==
    /\ \A k \in 1..Len(server) : \A i \in 1..(server[k] - 1) :
           \E j \in 1..(k - 1) : server[j] = i
    /\ \A i \in (1..next) \ queue : \E k \in 1..Len(server) : server[k] = i

\* Every mutation that is not behind a refused one reaches the API in the end and
\* leaves the queue.
QueueDrains ==
    \A i \in 1..Len(Mutations) :
        (i \in queue /\ \A j \in 1..i : j \notin Refused) ~> (i \notin queue)
===============================================================================

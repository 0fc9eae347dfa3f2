------------------------------- MODULE Requests -------------------------------
(***************************************************************************)
(* Requests of the API in flight.  The API is one Node process: a handler  *)
(* runs alone up to its next await, so a step of a request is one storage  *)
(* operation together with the code that follows it, and anything may      *)
(* happen between two steps.  The service modules share this state, each   *)
(* with its own collections.                                               *)
(*                                                                         *)
(* A refused call changes nothing and is not modelled: its condition is a  *)
(* guard of the first step.  Audit records and outbox events are written   *)
(* last, read by nothing in the API, and left out.                         *)
(***************************************************************************)
EXTENDS Integers, FiniteSets

CONSTANTS
    Request,   \* requests that may be in flight at a time
    MaxFaults  \* bound on the requests that die half-way

ASSUME RequestsAssumption == MaxFaults \in Nat

VARIABLES
    req,       \* what each request waits for, and its locals
    calls,     \* calls that may still begin: a bound on the behaviours
    contested, \* history: records that two requests worked on at the same time
    faulted    \* history: records on which a request died half-way

requestVars == <<req, calls, contested, faulted>>

Idle == [at |-> "idle"]

RequestsInit ==
    /\ req = [r \in Request |-> Idle]
    /\ contested = {}
    /\ faulted = {}

At(r, step) == req[r].at = step

\* Nobody else had a request on record x in flight while one of them was.
Undisturbed(x) == x \notin contested \cup faulted

Others(r, x) == \E q \in Request \ {r} : req[q] # Idle /\ req[q].on = x

\* The fields of a record before those of another, where both have a field.
With(some, rest) ==
    [f \in DOMAIN some \cup DOMAIN rest |-> IF f \in DOMAIN some THEN some[f] ELSE rest[f]]

\* A call on record x begins; next holds what it has read.
Begin(r, x, next) ==
    /\ req[r] = Idle
    /\ calls > 0
    /\ calls' = calls - 1
    /\ req' = [req EXCEPT ![r] = With(next, [on |-> x])]
    /\ contested' = IF Others(r, x) THEN contested \cup {x} ELSE contested
    /\ UNCHANGED faulted

\* A call whose only step that matters is one write.
Single(r, x) ==
    /\ req[r] = Idle
    /\ calls > 0
    /\ calls' = calls - 1
    /\ contested' = IF Others(r, x) THEN contested \cup {x} ELSE contested
    /\ UNCHANGED <<req, faulted>>

Goto(r, next) ==
    /\ req' = [req EXCEPT ![r] = With(next, req[r])]
    /\ UNCHANGED <<calls, contested, faulted>>

Answer(r) ==
    /\ req' = [req EXCEPT ![r] = Idle]
    /\ UNCHANGED <<calls, contested, faulted>>

\* A storage operation rejects, or the process dies: the rest never runs.
Dies(r) ==
    /\ req[r] # Idle
    /\ Cardinality(faulted) < MaxFaults
    /\ req[r].on \notin faulted
    /\ faulted' = faulted \cup {req[r].on}
    /\ req' = [req EXCEPT ![r] = Idle]
    /\ UNCHANGED <<calls, contested>>
===============================================================================

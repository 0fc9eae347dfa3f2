------------------------------ MODULE Dashboard --------------------------------
(***************************************************************************)
(* What the website's workspace shows of the rows of an account: the tasks *)
(* a journey begins with (createJourney), the counts (getWorkspace), and   *)
(* the progress and the chapter of the journey shown (the dashboard, the   *)
(* account page and the shell around every page).                          *)
(***************************************************************************)
EXTENDS Readiness

Chapters == 8

WorkTasks  == <<"passport", "verify", "cost", "documents", "application", "permit", "departure", "outcome">>
StudyTasks == <<"passport", "match", "shortlist", "materials", "funding", "application", "visa", "outcome">>

\* The keys of the tasks in their order: what is open in the passport, then the steps
\* of every journey of the path.
TaskKeys(assessment, path) ==
    LET plan == PreparationPlan(assessment)
        steps == IF path = "work" THEN WorkTasks ELSE StudyTasks
    IN  [k \in DOMAIN plan |-> <<"readiness", plan[k].id>>] \o [k \in DOMAIN steps |-> <<"step", steps[k]>>]

\* Math.round(done / total * 100)
ProgressOf(done, total) == IF total = 0 THEN 0 ELSE (200 * done + total) \div (2 * total)

\* Math.min(7, Math.floor(percent / 100 * 8)), counted from zero.
ChapterOf(percent) ==
    LET eighths == (Chapters * percent) \div 100 IN IF eighths > Chapters - 1 THEN Chapters - 1 ELSE eighths

OpenTasks(done, keys) == {k \in DOMAIN keys : k \notin done}
NextTask(done, keys)  == IF OpenTasks(done, keys) = {} THEN 0 ELSE Min(OpenTasks(done, keys))

\* A journey as the dashboard shows it, once the tasks `done` are.
JourneyShown(done, keys) ==
    LET percent == ProgressOf(Cardinality(done), Len(keys))
    IN  [percent |-> percent, chapter |-> ChapterOf(percent), next |-> NextTask(done, keys)]

\* The counts of a workspace with these rows; a record that is due comes with its alert.
Counts(rows) ==
    LET Of(table, statuses) == Cardinality({r \in rows : r.table = table /\ r.status \in statuses})
    IN  [pendingVerifications |-> Of("verification_requests", {"submitted", "in_review"}),
         activeDelegations    |-> Of("delegations", {"active"}),
         openSupportTickets   |-> Cardinality({r \in rows : r.table = "support_tickets" /\ r.status # "closed"}),
         unreadAlerts         |-> Cardinality({r \in rows : r.table = "alerts" /\ ~r.read})]
===============================================================================

------------------------------- MODULE Passport -------------------------------
(***************************************************************************)
(* The migration passport of one user (PassportService): three records     *)
(* that are found or created on every use, updated from the copy that was  *)
(* found, assessed and matched.  Storage is PostgreSQL: of two records of  *)
(* a kind the one that was written longest ago is found.                   *)
(***************************************************************************)
EXTENDS Requests, Collections

Kinds == <<"shared", "work", "study">>
KindSet == {Kinds[i] : i \in 1..3}

VARIABLES
    records,     \* the records of each kind with their versions, as list gives them
    assessments, \* readinessAssessments: the shared version and that of the path
    matches,     \* recommendations: the version named, and that of the assessments
    legacy,      \* storage.profiles: the versions of work and study it was copied from
    updates      \* history: how many updates of each kind were written

passportVars == <<records, assessments, matches, legacy, updates>>

PassportInit ==
    /\ records = [k \in KindSet |-> <<>>]
    /\ assessments = {} /\ matches = {}
    /\ legacy = [work |-> 0, study |-> 0]
    /\ updates = [k \in KindSet |-> 0]

\* storage.find returns the first record of the list.
Found(k) == Len(records[k]) > 0
Version(k) == records[k][1].version

-------------------------------------------------------------------------------
(* getBundle, first part of every call: three finds, then a put for each   *)
(* record that was not found.  bundle holds the record used, id 0 if none. *)

Use(r, purpose) ==
    /\ Begin(r, "passport", [at |-> "find", todo |-> 1, bundle |-> <<>>, for |-> purpose])
    /\ UNCHANGED passportVars

Find(r) ==
    /\ At(r, "find")
    /\ LET k == Kinds[req[r].todo]
           copy == IF Found(k) THEN records[k][1] ELSE [id |-> 0, version |-> 1]
       IN  IF req[r].todo < 3
           THEN Goto(r, [todo |-> req[r].todo + 1, bundle |-> Append(req[r].bundle, copy)])
           ELSE Goto(r, [at |-> "create", todo |-> 1, bundle |-> Append(req[r].bundle, copy)])
    /\ UNCHANGED passportVars

Missing(r) == {i \in 1..3 : req[r].bundle[i].id = 0}
\* The next step of a call whose bundle is complete.
After(r) == req[r].for

Create(r) ==
    /\ At(r, "create")
    /\ IF Missing(r) = {}
       THEN /\ UNCHANGED records
            /\ IF After(r) = "read" THEN Answer(r) ELSE Goto(r, [at |-> After(r)])
       ELSE LET i == CHOOSE j \in Missing(r) : \A m \in Missing(r) : j <= m
                k == Kinds[i]
                new == Len(records[k]) + 1
            IN  /\ records' = [records EXCEPT ![k] = PostgresPut(@, [id |-> new, version |-> 1])]
                /\ Goto(r, [bundle |-> [req[r].bundle EXCEPT ![i].id = new]])
    /\ UNCHANGED <<assessments, matches, legacy, updates>>

\* Mutant of Update: the version is taken from the record as it is found first.
UpdateFirst(r, i) ==
    /\ At(r, Kinds[i])
    /\ records' = [records EXCEPT ![Kinds[i]][1].version = 2]
    /\ updates' = [updates EXCEPT ![Kinds[i]] = @ + 1]
    /\ IF i = 1 THEN Answer(r) ELSE Goto(r, [at |-> "find_legacy", written |-> 2])
    /\ UNCHANGED <<assessments, matches, legacy>>

\* updateShared, updateWork, updateStudy: the copy with the patch and one more version.
Update(r, i) ==
    /\ At(r, Kinds[i])
    /\ records' = [records EXCEPT ![Kinds[i]] =
                      PostgresPut(@, [req[r].bundle[i] EXCEPT !.version = @ + 1])]
    /\ updates' = [updates EXCEPT ![Kinds[i]] = @ + 1]
    /\ IF i = 1 THEN Answer(r)
       ELSE Goto(r, [at |-> "find_legacy", written |-> req[r].bundle[i].version + 1])
    /\ UNCHANGED <<assessments, matches, legacy>>

\* updateWork and updateStudy then copy what they wrote into the older profile,
\* each the fields of its own, onto the copy of the rest.
FindLegacy(r) ==
    /\ At(r, "find_legacy")
    /\ Goto(r, [at |-> "put_legacy", copy |-> legacy])
    /\ UNCHANGED passportVars

PutLegacy(r) ==
    /\ At(r, "put_legacy")
    /\ legacy' = [req[r].copy EXCEPT ![req[r].for] = req[r].written]
    /\ Answer(r)
    /\ UNCHANGED <<records, assessments, matches, updates>>

\* assess: one assessment per path, from the bundle; match goes on with the result.
PutAssessments(r) ==
    /\ At(r, "assess")
    /\ assessments' = assessments \cup
           {[shared |-> req[r].bundle[1].version, path |-> Kinds[i],
             version |-> req[r].bundle[i].version] : i \in 2..3}
    /\ IF "first" \in DOMAIN req[r] THEN Goto(r, [at |-> "put_match"]) ELSE Answer(r)
    /\ UNCHANGED <<records, matches, legacy, updates>>

\* match reads a bundle, then calls assess, which reads another.
Reassess(r) ==
    /\ At(r, "match")
    /\ Goto(r, [at |-> "find", todo |-> 1, bundle |-> <<>>, for |-> "assess",
                first |-> req[r].bundle[1].version])
    /\ UNCHANGED passportVars

PutMatch(r) ==
    /\ At(r, "put_match")
    /\ matches' = matches \cup {[named |-> req[r].first, assessed |-> req[r].bundle[1].version]}
    /\ Answer(r)
    /\ UNCHANGED <<records, assessments, legacy, updates>>

PassportCall(r) == \E purpose \in KindSet \cup {"read", "assess", "match"} : Use(r, purpose)

PassportStep(r) ==
    \/ Find(r) \/ Create(r)
    \/ \E i \in 1..3 : Update(r, i)
    \/ FindLegacy(r) \/ PutLegacy(r)
    \/ PutAssessments(r) \/ Reassess(r) \/ PutMatch(r)

PassportNext == \E r \in Request : PassportStep(r) \/ PassportCall(r)

-------------------------------------------------------------------------------
(* Properties.                                                             *)

PassportTypeOK ==
    /\ \A k \in KindSet : \A i \in DOMAIN records[k] : records[k][i].version \in Nat \ {0}
    /\ \A a \in assessments : a.path \in {"work", "study"}

\* The passport keeps what is written to it (getBundle and the updates).  In every
\* interleaving versions, of records and of assessments, are ones that updates have
\* led to.  While no two calls overlap there is one record of each kind, its version counts the updates,
\* recommendations name the version they were assessed on, and at rest, when nothing
\* failed, the older profile says what the passport says.
PassportKeepsUpdates ==
    /\ \A k \in KindSet : \A i \in DOMAIN records[k] : records[k][i].version <= 1 + updates[k]
    /\ \A a \in assessments : /\ a.shared <= 1 + updates["shared"]
                              /\ a.version <= 1 + updates[a.path]
    /\ "passport" \notin contested =>
           /\ \A k \in KindSet : /\ Len(records[k]) <= 1
                                 /\ Found(k) => Version(k) = 1 + updates[k]
           /\ \A m \in matches : m.named = m.assessed
           /\ Undisturbed("passport") /\ (\A r \in Request : req[r] = Idle) =>
                  \A k \in {"work", "study"} : updates[k] > 0 => legacy[k] = Version(k)
===============================================================================

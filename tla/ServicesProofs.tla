---------------------------- MODULE ServicesProofs ----------------------------
(***************************************************************************)
(* Proofs about Services: what concurrent calls of the API can do to each  *)
(* other's records.  Each service has an inductive invariant of its own,   *)
(* about its collections and the requests in flight on them; while another *)
(* service is exercised its collections stay as they are.  Here are the    *)
(* facts about requests that all of them use, cases, the queue of the      *)
(* mobile app, and the record storage.                                     *)
(***************************************************************************)
EXTENDS Services, SequenceTheorems, FiniteSetTheorems, TLAPS

-------------------------------------------------------------------------------
(* Requests. *)

\* A request in flight names its step and its record, and two on one record
\* have contested it.
RequestInv ==
    /\ DOMAIN req = Request
    /\ \A r \in Request : req[r] # Idle =>
          {"at", "on"} \subseteq DOMAIN req[r] /\ req[r].at # "idle"
    /\ \A q, r \in Request :
          q # r /\ req[q] # Idle /\ req[r] # Idle /\ req[q].on = req[r].on
              => req[q].on \in contested

\* What the steps that the services are built from do to the requests: the one
\* that takes the step changes, and the invariant above is kept.
LEMMA AtIsBusy ==
    ASSUME NEW r, NEW step, At(r, step), step # "idle"
    PROVE  req[r] # Idle
BY DEF At, Idle

\* A call that begins occupies a free request and names its record.
LEMMA RequestsBegin ==
    ASSUME RequestInv, NEW r \in Request, NEW x, NEW fields, Begin(r, x, fields),
           "at" \in DOMAIN fields, fields.at # "idle", "on" \notin DOMAIN fields
    PROVE  /\ RequestInv'
           /\ req'[r] = With(fields, [on |-> x]) /\ req'[r] # Idle
           /\ req'[r].on = x
           /\ \A f \in DOMAIN fields : f \in DOMAIN req'[r] /\ req'[r][f] = fields[f]
           /\ \A q \in Request \ {r} : req'[q] = req[q]
           /\ req[r] = Idle
<1>1. /\ req' = [req EXCEPT ![r] = With(fields, [on |-> x])]
      /\ req[r] = Idle
      /\ contested' = IF Others(r, x) THEN contested \cup {x} ELSE contested
  BY DEF Begin
<1>2. /\ With(fields, [on |-> x]).on = x
      /\ \A f \in DOMAIN fields : /\ f \in DOMAIN With(fields, [on |-> x])
                                  /\ With(fields, [on |-> x])[f] = fields[f]
      /\ "on" \in DOMAIN With(fields, [on |-> x])
  BY DEF With
<1>3. req'[r] = With(fields, [on |-> x]) /\ \A q \in Request \ {r} : req'[q] = req[q]
  BY <1>1 DEF RequestInv
<1>4. req'[r] # Idle
  BY <1>2, <1>3 DEF Idle
<1>5. \A q \in Request \ {r} : req[q] # Idle /\ req[q].on = x => x \in contested'
  BY <1>1 DEF Others
<1>6. RequestInv'
  BY <1>1, <1>2, <1>3, <1>5 DEF RequestInv
<1> QED
  BY <1>1, <1>2, <1>3, <1>4, <1>6

\* A request that goes on keeps the record it named.
LEMMA RequestsGoto ==
    ASSUME RequestInv, NEW r \in Request, NEW fields, Goto(r, fields), req[r] # Idle,
           "at" \in DOMAIN fields => fields.at # "idle", "on" \notin DOMAIN fields
    PROVE  /\ RequestInv'
           /\ req'[r] = With(fields, req[r]) /\ req'[r] # Idle
           /\ req'[r].on = req[r].on
           /\ \A f \in DOMAIN fields : f \in DOMAIN req'[r] /\ req'[r][f] = fields[f]
           /\ \A f \in DOMAIN req[r] \ DOMAIN fields :
                  f \in DOMAIN req'[r] /\ req'[r][f] = req[r][f]
           /\ \A q \in Request \ {r} : req'[q] = req[q]
<1>1. req' = [req EXCEPT ![r] = With(fields, req[r])] /\ contested' = contested
  BY DEF Goto
<1>2. {"at", "on"} \subseteq DOMAIN req[r] /\ req[r].at # "idle"
  BY DEF RequestInv
<1>3. /\ \A f \in DOMAIN fields : /\ f \in DOMAIN With(fields, req[r])
                                  /\ With(fields, req[r])[f] = fields[f]
      /\ \A f \in DOMAIN req[r] \ DOMAIN fields :
             f \in DOMAIN With(fields, req[r]) /\ With(fields, req[r])[f] = req[r][f]
  BY DEF With
<1>4. req'[r] = With(fields, req[r]) /\ \A q \in Request \ {r} : req'[q] = req[q]
  BY <1>1 DEF RequestInv
<1>5. /\ {"at", "on"} \subseteq DOMAIN req'[r] /\ req'[r].at # "idle" /\ req'[r].on = req[r].on
  BY <1>2, <1>3, <1>4
<1>6. req'[r] # Idle
  BY <1>5 DEF Idle
<1>7. RequestInv'
  BY <1>1, <1>4, <1>5 DEF RequestInv
<1> QED
  BY <1>3, <1>4, <1>5, <1>6, <1>7

\* A request that ends or dies leaves the others alone.
LEMMA RequestsEnd ==
    ASSUME RequestInv, NEW r \in Request, Answer(r) \/ Dies(r)
    PROVE  /\ RequestInv'
           /\ req'[r] = Idle
           /\ \A q \in Request \ {r} : req'[q] = req[q]
<1>1. req' = [req EXCEPT ![r] = Idle] /\ contested' = contested
  BY DEF Answer, Dies
<1>2. req'[r] = Idle /\ \A q \in Request \ {r} : req'[q] = req[q]
  BY <1>1 DEF RequestInv
<1> QED
  BY <1>1, <1>2 DEF RequestInv

\* A call done in one step leaves every request alone.
LEMMA RequestsSingle ==
    ASSUME RequestInv, NEW r \in Request, NEW x, Single(r, x)
    PROVE  RequestInv' /\ req' = req
BY DEF Single, RequestInv

\* Nothing is in flight at first.
LEMMA RequestsStart ==
    ASSUME RequestsInit
    PROVE  RequestInv /\ \A r \in Request : req[r] = Idle
BY DEF RequestsInit, RequestInv

\* What a step leaves in the request that takes it.
LEMMA BeginWrites ==
    ASSUME RequestInv, NEW r \in Request, NEW x, NEW fields, Begin(r, x, fields)
    PROVE  /\ req'[r] = With(fields, [on |-> x])
           /\ \A q \in Request \ {r} : req'[q] = req[q]
           /\ req[r] = Idle /\ faulted' = faulted
           /\ contested' = IF Others(r, x) THEN contested \cup {x} ELSE contested
BY DEF Begin, RequestInv

\* What a request that goes on writes, and what it leaves alone.
LEMMA GotoWrites ==
    ASSUME RequestInv, NEW r \in Request, NEW fields, Goto(r, fields)
    PROVE  /\ req'[r] = With(fields, req[r])
           /\ \A q \in Request \ {r} : req'[q] = req[q]
           /\ contested' = contested /\ faulted' = faulted
BY DEF Goto, RequestInv

\* It keeps naming its step and its record.
LEMMA BeginKeeps ==
    ASSUME RequestInv, NEW r \in Request, NEW x, NEW fields, Begin(r, x, fields),
           {"at", "on"} \subseteq DOMAIN req'[r], req'[r].at # "idle", req'[r].on = x
    PROVE  RequestInv'
<1>1. /\ req' = [req EXCEPT ![r] = With(fields, [on |-> x])]
      /\ contested' = IF Others(r, x) THEN contested \cup {x} ELSE contested
  BY DEF Begin
<1>2. \A q \in Request \ {r} : req'[q] = req[q]
  BY <1>1
<1>3. \A q \in Request \ {r} : req[q] # Idle /\ req[q].on = x => x \in contested'
  BY <1>1 DEF Others
<1> QED
  BY <1>1, <1>2, <1>3 DEF RequestInv

\* A request that goes on keeps naming its step and its record.
LEMMA GotoKeeps ==
    ASSUME RequestInv, NEW r \in Request, NEW fields, Goto(r, fields), req[r] # Idle,
           {"at", "on"} \subseteq DOMAIN req'[r], req'[r].at # "idle", req'[r].on = req[r].on
    PROVE  RequestInv'
<1>1. req' = [req EXCEPT ![r] = With(fields, req[r])] /\ contested' = contested
  BY DEF Goto
<1>2. \A q \in Request \ {r} : req'[q] = req[q]
  BY <1>1
<1> QED
  BY <1>1, <1>2 DEF RequestInv

\* Requests on the record of a request that waits have contested it.
LEMMA OthersContest ==
    ASSUME RequestInv, NEW r \in Request, req[r] # Idle, contested' = contested
    PROVE  \A q \in Request \ {r} : req[q] # Idle /\ req[q].on = req[r].on => req[r].on \in contested'
BY DEF RequestInv

\* A call that begins contests its record when another request is on it.
LEMMA BeginContests ==
    ASSUME NEW r \in Request, NEW x,
           contested' = IF Others(r, x) THEN contested \cup {x} ELSE contested
    PROVE  /\ contested \subseteq contested'
           /\ \A q \in Request \ {r} : req[q] # Idle /\ req[q].on = x => x \in contested'
BY DEF Others

OneAtMost(S) == \A x, y \in S : x = y

\* A set in which any two are the same has one element at most.
LEMMA AtMostOne ==
    ASSUME NEW S, OneAtMost(S)
    PROVE  Cardinality(S) <= 1
<1>1. CASE S = {}
  BY <1>1, FS_EmptySet
<1>2. CASE S # {}
  <2>1. PICK x : S = {x}
    BY <1>2 DEF OneAtMost
  <2> QED
    BY <2>1, FS_Singleton
<1> QED
  BY <1>1, <1>2

\* The service exercised stays the one, and the others stand still.
LEMMA OneScenario ==
    ASSUME [ServicesNext]_vars
    PROVE  /\ scenario' = scenario
           /\ \/ scenario = "cases" /\ CaseNext
              \/ (\E r \in Request : Dies(r)) /\ UNCHANGED caseVars
              \/ UNCHANGED requestVars /\ UNCHANGED caseVars
              \/ scenario # "cases" /\ UNCHANGED caseVars
BY DEF ServicesNext, Move, Publish, Apply, Oversee, Account, Prepare, SignIn, Settle,
       TrackJourneys, Keep, Persist, Synchronize, Only, Die, vars

-------------------------------------------------------------------------------
(* Cases. *)

CaseEntry == [from : CaseStates, to : CaseStates, asked : BOOLEAN]
Milestone == [status : {"pending", "evidence_submitted", "verified"},
              evidence : BOOLEAN, attested : BOOLEAN]
CaseRecord ==
    [state : CaseStates, history : Seq(CaseEntry), parts : SUBSET Parts, done : BOOLEAN,
     milestones : [MilestoneKeys -> Milestone]]

\* A case whose history is a walk of the state machine that ends in its state:
\* what HistoryIsWalk says of each stored case.
Reached(h, i) == IF i = 0 THEN "DRAFT" ELSE h[i].to
Leads(from, to) ==
    /\ from \notin {"WITHDRAWN", "CANCELLED"}
    /\ from \in Members(HappyPath) /\ to \in Members(HappyPath) => Forward(from) = <<to>>
    /\ from = "REJECTED" => to \notin Members(HappyPath)
Walked(record) ==
    LET h == record.history
    IN  /\ record.state = Reached(h, Len(h))
        /\ \A i \in 1..Len(h) : h[i].from = Reached(h, i - 1) /\ Leads(h[i].from, h[i].to)

\* A stored case is a walk, and so is the copy that a transition will write back,
\* with a target that the state machine allows from the state of the copy.
CaseRequest(r) ==
    req[r] # Idle =>
        /\ req[r].on \in Cases /\ Exists(req[r].on)
        /\ req[r].at \in {"put_tasks", "put_milestones", "put_items", "put_plan",
                          "put_evidence", "put_verified", "put_case"}
        /\ req[r].at \in {"put_evidence", "put_verified"} =>
              req[r].key \in MilestoneKeys /\ req[r].copy \in Milestone
        /\ req[r].at = "put_evidence" => req[r].given \in BOOLEAN
        /\ req[r].at = "put_case" =>
              /\ req[r].copy \in CaseRecord /\ Walked(req[r].copy)
              /\ req[r].target \in Members(NextCaseStates(req[r].copy.state))
              /\ req[r].asked \in BOOLEAN

CaseInv ==
    /\ DOMAIN mobilityCase = Cases
    /\ \A c \in Cases : Exists(c) => mobilityCase[c] \in CaseRecord /\ Walked(mobilityCase[c])
    /\ scenario = "cases" => RequestInv /\ \A r \in Request : CaseRequest(r)

\* The state machine: from where a state can be reached.
LEMMA Lists ==
    /\ HappyPath \in Seq(CaseStates) /\ Interrupts \in Seq(CaseStates)
    /\ Len(Interrupts) = 5 /\ Members(<<>>) = {}
    /\ Members(HappyPath) \cap Members(Interrupts) = {}
<1>1. HappyPath \in Seq(Members(HappyPath)) /\ Interrupts \in Seq(Members(Interrupts))
  BY DEF Members, HappyPath, Interrupts
<1>2. Members(HappyPath) \cap Members(Interrupts) = {}
  BY DEF Members, HappyPath, Interrupts
<1>3. Len(Interrupts) = 5 /\ Members(<<>>) = {}
  BY DEF Interrupts, Members
<1> QED
  BY <1>1, <1>2, <1>3 DEF CaseStates

\* The step forward leads along the happy path.
LEMMA ForwardIs ==
    ASSUME NEW state
    PROVE  \/ Forward(state) = <<>>
           \/ \E i \in 2..18 : /\ Forward(state) = <<HappyPath[i]>>
                               /\ state = HappyPath[i - 1]
<1> DEFINE Here == {i \in 1..17 : HappyPath[i] = state}
           k == CHOOSE i \in Here : TRUE
<1>1. Len(HappyPath) = 18
  BY DEF HappyPath
<1>2. Forward(state) = IF Here = {} THEN <<>> ELSE <<HappyPath[k + 1]>>
  BY <1>1 DEF Forward
<1>3. CASE Here # {}
  <2>1. k \in 1..17 /\ HappyPath[k] = state
    BY <1>3
  <2>2. Forward(state) = <<HappyPath[k + 1]>>
    BY <1>2, <1>3
  <2>3. PICK j \in 1..17 : HappyPath[j] = state /\ Forward(state) = <<HappyPath[j + 1]>>
    BY <2>1, <2>2
  <2>4. j + 1 \in 2..18 /\ state = HappyPath[(j + 1) - 1]
    BY <2>3
  <2> QED
    BY <2>3, <2>4, Zenon
<1> QED
  BY <1>2, <1>3

\* The members of two sequences one after the other.
LEMMA MembersConcat ==
    ASSUME NEW A, NEW a \in Seq(A), NEW b \in Seq(A)
    PROVE  Members(a \o b) = Members(a) \cup Members(b)
<1>1. \A i \in 1..Len(a \o b) : (a \o b)[i] \in Members(a) \cup Members(b)
  BY DEF Members
<1>2. \A i \in 1..Len(a) : i \in 1..Len(a \o b) /\ (a \o b)[i] = a[i]
  OBVIOUS
<1>3. \A i \in 1..Len(b) : i + Len(a) \in 1..Len(a \o b) /\ (a \o b)[i + Len(a)] = b[i]
  OBVIOUS
<1> QED
  BY <1>1, <1>2, <1>3 DEF Members

\* The other interruptions are interruptions, without the state itself.
LEMMA OtherInterruptsAre ==
    ASSUME NEW state, NEW s \in Members(OtherInterrupts(state))
    PROVE  s \in Members(Interrupts) /\ s # state
<1> DEFINE Here == {i \in 1..Len(Interrupts) : Interrupts[i] = state}
           k == CHOOSE i \in Here : TRUE
<1>1. Interrupts \in Seq(CaseStates) /\ Len(Interrupts) = 5
  BY Lists
<1>2. CASE Here = {}
  BY <1>2 DEF OtherInterrupts, Members
<1>3. CASE Here # {}
  <2>1. k \in 1..5 /\ Interrupts[k] = state
    BY <1>1, <1>3
  <2> HIDE DEF k
  <2>2. OtherInterrupts(state) = SubSeq(Interrupts, 1, k - 1) \o SubSeq(Interrupts, k + 1, 5)
    BY <1>1, <1>3 DEF OtherInterrupts, RemoveAt, k
  <2>3. PICK j \in 1..Len(OtherInterrupts(state)) : s = OtherInterrupts(state)[j]
    BY DEF Members
  <2>4. \E i \in 1..5 \ {k} : s = Interrupts[i]
    BY <1>1, <2>1, <2>2, <2>3
  <2>5. \A i \in 1..5 \ {k} : Interrupts[i] # Interrupts[k]
    BY <2>1 DEF Interrupts
  <2> QED
    BY <1>1, <2>1, <2>4, <2>5 DEF Members
<1> QED
  BY <1>2, <1>3

\* Every state offered next is one the lifecycle leads to.
LEMMA NextLeads ==
    ASSUME NEW state \in CaseStates, NEW s \in Members(NextCaseStates(state))
    PROVE  s \in CaseStates /\ Leads(state, s)
<1>1. CASE state \in Final
  <2>1. NextCaseStates(state) = <<>>
    BY <1>1 DEF NextCaseStates, Final
  <2> QED
    BY <2>1, Lists
<1>2. CASE state \in {"PAUSED", "DISPUTED"}
  <2>1. NextCaseStates(state) = HappyPath \o <<"WITHDRAWN", "CANCELLED">>
    BY <1>2 DEF NextCaseStates, Final
  <2>2. s \in Members(HappyPath) \cup Members(<<"WITHDRAWN", "CANCELLED">>)
    <3>1. <<"WITHDRAWN", "CANCELLED">> \in Seq(CaseStates)
      BY DEF CaseStates, Members, Interrupts
    <3> QED
      BY <2>1, <3>1, Lists, MembersConcat
  <2>3. s \in CaseStates
    BY <2>2 DEF CaseStates, Members, Interrupts
  <2>4. state \notin Members(HappyPath)
    BY <1>2 DEF Members, HappyPath
  <2> QED
    BY <1>2, <2>3, <2>4 DEF Leads
<1>3. CASE state \notin Final \cup {"PAUSED", "DISPUTED"}
  <2>1. NextCaseStates(state) = Forward(state) \o OtherInterrupts(state)
    BY <1>3 DEF NextCaseStates
  <2>2. Forward(state) \in Seq(CaseStates) /\ OtherInterrupts(state) \in Seq(CaseStates)
    <3>1. HappyPath \in Seq(CaseStates) /\ Len(HappyPath) = 18
      BY Lists DEF HappyPath
    <3>2. Forward(state) \in Seq(CaseStates)
      <4>1. \A i \in 2..18 : HappyPath[i] \in CaseStates
        <5>1. \A i \in 2..18 : i \in 1..Len(HappyPath)
          BY <3>1
        <5> QED
          BY <3>1, <5>1, ElementOfSeq
      <4>2. \A x \in CaseStates : <<x>> \in Seq(CaseStates)
        OBVIOUS
      <4>3. <<>> \in Seq(CaseStates)
        OBVIOUS
      <4> QED
        BY <4>1, <4>2, <4>3, ForwardIs
    <3>3. \A k \in 1..5 : RemoveAt(Interrupts, k) \in Seq(CaseStates)
      <4> SUFFICES ASSUME NEW k \in 1..5 PROVE RemoveAt(Interrupts, k) \in Seq(CaseStates)
        OBVIOUS
      <4>1. /\ SubSeq(Interrupts, 1, k - 1) \in Seq(CaseStates)
            /\ SubSeq(Interrupts, k + 1, 5) \in Seq(CaseStates)
        <5>1. \A i \in 1..5 : Interrupts[i] \in CaseStates
          BY Lists, ElementOfSeq
        <5> QED
          BY <5>1, SubSeqProperties
      <4> QED
        BY <4>1, Lists DEF RemoveAt
    <3>4. OtherInterrupts(state) \in Seq(CaseStates)
      BY <3>3, Lists DEF OtherInterrupts
    <3> QED
      BY <3>2, <3>4
  <2>3. s \in Members(Forward(state)) \/ s \in Members(OtherInterrupts(state))
    BY <2>1, <2>2, MembersConcat
  <2>4. CASE s \in Members(Forward(state))
    <3>1. PICK i \in 2..18 : Forward(state) = <<HappyPath[i]>> /\ state = HappyPath[i - 1]
      BY <2>4, ForwardIs, Lists
    <3>2. Len(HappyPath) = 18
      BY DEF HappyPath
    <3>3. s = HappyPath[i] /\ {s, state} \subseteq Members(HappyPath)
      BY <2>4, <3>1, <3>2 DEF Members
    <3>4. Forward(state) = <<s>>
      BY <3>1, <3>3
    <3>5. state # "REJECTED"
      BY <3>3, Lists DEF Members, Interrupts
    <3> QED
      BY <1>3, <3>3, <3>4, <3>5 DEF Leads, Final, CaseStates
  <2>5. CASE s \in Members(OtherInterrupts(state))
    <3>1. s \in Members(Interrupts)
      BY <2>5, OtherInterruptsAre
    <3>2. s \notin Members(HappyPath)
      BY <3>1 DEF Members, Interrupts, HappyPath
    <3> QED
      BY <1>3, <3>1, <3>2 DEF Leads, Final, CaseStates
  <2> QED
    BY <2>3, <2>4, <2>5
<1> QED
  BY <1>1, <1>2, <1>3

\* The case that a transition writes back is a walk one step longer than the copy.
LEMMA WalkGrows ==
    ASSUME NEW record \in CaseRecord, Walked(record),
           NEW target \in Members(NextCaseStates(record.state)), NEW asked \in BOOLEAN,
           NEW longer \in CaseRecord, longer.state = target,
           longer.history = Append(record.history, Entry(record.state, target, asked))
    PROVE  Walked(longer)
<1> DEFINE h == record.history
           g == longer.history
<1>1. h \in Seq(CaseEntry) /\ record.state \in CaseStates
  BY DEF CaseRecord
<1>2. Len(g) = Len(h) + 1 /\ g[Len(g)] = Entry(record.state, target, asked)
  BY <1>1
<1>3. \A i \in 1..Len(h) : g[i] = h[i]
  BY <1>1
<1>4. Len(h) \in Nat
  BY <1>1
<1> HIDE DEF h, g
<1>5. \A i \in 0..Len(h) : Reached(g, i) = Reached(h, i)
  BY <1>3, <1>4 DEF Reached
<1>6. record.state = Reached(h, Len(h))
  BY DEF Walked, h
<1>7. ASSUME NEW i \in 1..Len(g)
      PROVE  g[i].from = Reached(g, i - 1) /\ Leads(g[i].from, g[i].to)
  <2>1. CASE i \in 1..Len(h)
    <3>1. h[i].from = Reached(h, i - 1) /\ Leads(h[i].from, h[i].to)
      BY <2>1 DEF Walked, h
    <3> QED
      BY <1>3, <1>4, <1>5, <2>1, <3>1
  <2>2. CASE i = Len(h) + 1
    <3>1. g[i].from = record.state /\ g[i].to = target
      BY <1>2, <2>2 DEF Entry
    <3>2. Leads(record.state, target)
      BY <1>1, NextLeads
    <3> QED
      BY <1>4, <1>5, <1>6, <2>2, <3>1, <3>2
  <2> QED
    BY <1>2, <1>4, <2>1, <2>2
<1>8. longer.state = Reached(g, Len(g))
  BY <1>2, <1>4 DEF Reached, Entry
<1> QED
  BY <1>7, <1>8 DEF Walked, g

\* A new case has walked nothing yet.
LEMMA NewCaseIsWalked == NewCase \in CaseRecord /\ Walked(NewCase)
<1>1. HappyPath[1] = "DRAFT" /\ HappyPath[1] \in CaseStates
  BY DEF HappyPath, CaseStates, Members
<1>2. NewCase \in CaseRecord
  BY <1>1 DEF NewCase, CaseRecord, Pending, Milestone, Parts
<1> QED
  BY <1>1, <1>2 DEF NewCase, Walked, Reached

\* The cases the runs start from have walked the happy path so far.
LEMMA CaseAtIsWalked ==
    ASSUME NEW n \in 0..17
    PROVE  CaseAt(n) \in CaseRecord /\ Walked(CaseAt(n))
<1> DEFINE h == [i \in 1..n |-> Entry(HappyPath[i], HappyPath[i + 1], TRUE)]
<1>1. \A i \in 1..18 : HappyPath[i] \in CaseStates /\ HappyPath[i] \in Members(HappyPath)
  <2>1. Len(HappyPath) = 18
    BY DEF HappyPath
  <2> QED
    BY <2>1, Lists, ElementOfSeq DEF Members
<1>2. h \in Seq(CaseEntry) /\ Len(h) = n
  <2>1. \A i \in 1..n : Entry(HappyPath[i], HappyPath[i + 1], TRUE) \in CaseEntry
    BY <1>1 DEF Entry, CaseEntry
  <2>2. h \in [1..n -> CaseEntry] /\ n \in Nat
    <3>1. h \in [1..n -> CaseEntry]
      BY <2>1, Zenon
    <3> HIDE DEF h
    <3> QED
      BY <3>1
  <2> HIDE DEF h
  <2>3. h \in Seq(CaseEntry)
    BY <2>2
  <2>4. DOMAIN h = 1..n /\ DOMAIN h = 1..Len(h) /\ Len(h) \in Nat
    BY <2>2, <2>3
  <2> QED
    BY <2>2, <2>3, <2>4
<1>3. /\ CaseAt(n).state = HappyPath[n + 1] /\ CaseAt(n).history = h
      /\ CaseAt(n) \in CaseRecord
  <2>1. /\ CaseAt(n) = [NewCase EXCEPT !.state = HappyPath[n + 1], !.parts = Parts, !.history = h]
        /\ NewCase \in CaseRecord
    BY NewCaseIsWalked DEF CaseAt
  <2>2. HappyPath[n + 1] \in CaseStates /\ Parts \in SUBSET Parts
    BY <1>1
  <2> HIDE DEF h
  <2> QED
    BY <1>2, <2>1, <2>2 DEF CaseRecord
<1>4. \A i \in 1..n : h[i].from = HappyPath[i] /\ h[i].to = HappyPath[i + 1]
  BY DEF Entry
<1> HIDE DEF h
<1>5. \A i \in 0..n : Reached(h, i) = HappyPath[i + 1]
  <2>1. HappyPath[1] = "DRAFT"
    BY DEF HappyPath
  <2> QED
    BY <1>4, <2>1 DEF Reached
<1>6. \A i \in 1..n : Leads(HappyPath[i], HappyPath[i + 1])
  <2> SUFFICES ASSUME NEW i \in 1..n PROVE Leads(HappyPath[i], HappyPath[i + 1])
    OBVIOUS
  <2>1. HappyPath[i] \notin Members(Interrupts)
    <3>1. HappyPath[i] \in Members(HappyPath)
      BY <1>1
    <3> QED
      BY <3>1, Lists
  <2>2. HappyPath[i] \notin {"WITHDRAWN", "CANCELLED", "REJECTED"}
    BY <2>1 DEF Members, Interrupts
  <2>3. Forward(HappyPath[i]) = <<HappyPath[i + 1]>>
    <3> DEFINE Here == {j \in 1..Len(HappyPath) - 1 : HappyPath[j] = HappyPath[i]}
    <3>1. i \in 1..17 /\ Len(HappyPath) = 18
      BY DEF HappyPath
    <3>2. \A j \in 1..17 : HappyPath[j] = HappyPath[i] => j = i
      BY <3>1 DEF HappyPath
    <3>3. Here = {i}
      BY <3>1, <3>2
    <3> QED
      BY <3>3 DEF Forward
  <2> QED
    BY <2>2, <2>3 DEF Leads
<1> QED
  BY <1>2, <1>3, <1>4, <1>5, <1>6 DEF Walked

\* The initial states satisfy the invariant of the cases.
LEMMA CaseStart == ServicesInit => CaseInv
<1> SUFFICES ASSUME ServicesInit PROVE CaseInv
  OBVIOUS
<1>1. DOMAIN mobilityCase = Cases
  BY DEF ServicesInit, CaseInit
<1>2. ASSUME NEW c \in Cases, Exists(c)
      PROVE  mobilityCase[c] \in CaseRecord /\ Walked(mobilityCase[c])
  <2>1. PICK n \in Progress : mobilityCase[c] = CaseAt(n)
    BY <1>2 DEF ServicesInit, CaseInit, Exists
  <2>2. n \in 0..17
    BY CaseAssumption DEF HappyPath
  <2> QED
    BY <2>1, <2>2, CaseAtIsWalked
<1>3. RequestInv /\ \A r \in Request : CaseRequest(r)
  BY RequestsStart DEF ServicesInit, CaseRequest
<1> QED
  BY <1>1, <1>2, <1>3 DEF CaseInv

\* A record is not an absent case.
LEMMA RecordIsCase == \A record \in CaseRecord : record # NoCase
<1>1. "none" \notin CaseStates
  BY DEF CaseStates, Members, HappyPath, Interrupts
<1> QED
  BY <1>1 DEF CaseRecord, NoCase

\* One step of a request on the cases.
LEMMA CaseMoves ==
    ASSUME CaseInv, scenario = "cases", scenario' = scenario, NEW r \in Request,
           CaseStep(r) \/ \E c \in Cases : CaseCall(r, c)
    PROVE  CaseInv'
<1> DEFINE Kept ==
        /\ RequestInv' /\ CaseRequest(r)'
        /\ \A q \in Request \ {r} : req'[q] = req[q]
<1>1. RequestInv /\ \A q \in Request : CaseRequest(q)
  BY DEF CaseInv
\* It is enough to look at the case and the request of the step.
<1>2. ASSUME NEW c \in Cases, NEW record \in CaseRecord, Walked(record),
             mobilityCase' = [mobilityCase EXCEPT ![c] = record], Kept
      PROVE  CaseInv'
  <2>1. \A d \in Cases : mobilityCase'[d] = IF d = c THEN record ELSE mobilityCase[d]
    BY <1>2 DEF CaseInv
  <2>2. \A d \in Cases : Exists(d) => Exists(d)'
    BY <2>1, RecordIsCase DEF Exists
  <2>3. \A d \in Cases : Exists(d)' => mobilityCase'[d] \in CaseRecord /\ Walked(mobilityCase[d])'
    BY <1>2, <2>1 DEF CaseInv, Exists, Walked
  <2>4. \A q \in Request \ {r} : CaseRequest(q)'
    BY <1>1, <1>2, <2>2 DEF CaseRequest
  <2> QED
    BY <1>2, <2>3, <2>4 DEF CaseInv
<1>3. ASSUME UNCHANGED mobilityCase, Kept
      PROVE  CaseInv'
  <2>1. \A q \in Request \ {r} : CaseRequest(q)'
    BY <1>1, <1>3 DEF CaseRequest, Exists
  <2> QED
    BY <1>3, <2>1 DEF CaseInv, Exists, Walked
\* The calls.
<1>4. ASSUME NEW c \in Cases, CreateCase(r, c)
      PROVE  CaseInv'
  <2>1. Kept
    <3>1. Begin(r, c, [at |-> "put_tasks"])
      BY <1>4 DEF CreateCase
    <3>2. /\ RequestInv' /\ req'[r].on = c /\ req'[r].at = "put_tasks"
          /\ \A q \in Request \ {r} : req'[q] = req[q]
      <4> DEFINE fields == [at |-> "put_tasks"]
      <4>1. /\ DOMAIN fields = {"at"} /\ fields.at = "put_tasks"
            /\ fields.at # "idle" /\ "at" \in DOMAIN fields /\ "on" \notin DOMAIN fields
        OBVIOUS
      <4> HIDE DEF fields
      <4>2. Begin(r, c, fields)
        BY <3>1 DEF fields
      <4>3. req'[r].at = fields.at
        BY <1>1, <4>1, <4>2, RequestsBegin
      <4> QED
        BY <1>1, <4>1, <4>2, <4>3, RequestsBegin
    <3>3. Exists(c)'
      BY <1>4, NewCaseIsWalked, RecordIsCase DEF CreateCase, Exists, CaseInv
    <3> QED
      BY <3>2, <3>3 DEF CaseRequest
  <2> QED
    BY <1>2, <1>4, <2>1, NewCaseIsWalked DEF CreateCase
<1>5. ASSUME NEW c \in Cases, CompleteTask(r, c)
      PROVE  CaseInv'
  <2>1. Kept
    <3>1. RequestInv' /\ req' = req
      BY <1>1, <1>5, RequestsSingle DEF CompleteTask
    <3>2. \A d \in Cases : Exists(d) => Exists(d)'
      <4>1. [mobilityCase[c] EXCEPT !.done = TRUE] # NoCase
        BY <1>5, RecordIsCase DEF CompleteTask, CaseInv, CaseRecord
      <4> QED
        BY <1>5, <4>1 DEF CompleteTask, Exists, CaseInv
    <3> QED
      BY <1>1, <3>1, <3>2 DEF CaseRequest
  <2>2. mobilityCase[c] \in CaseRecord /\ Walked(mobilityCase[c])
    BY <1>5 DEF CompleteTask, CaseInv
  <2>3. /\ [mobilityCase[c] EXCEPT !.done = TRUE] \in CaseRecord
        /\ Walked([mobilityCase[c] EXCEPT !.done = TRUE])
    BY <2>2 DEF CaseRecord, Walked
  <2> QED
    BY <1>2, <1>5, <2>1, <2>3 DEF CompleteTask
<1>6. ASSUME NEW c \in Cases, NEW k \in MilestoneKeys, NEW given \in BOOLEAN,
             \/ ReadMilestone(r, c, k, [at |-> "put_evidence", given |-> given])
             \/ ReadMilestone(r, c, k, [at |-> "put_verified"])
      PROVE  CaseInv'
  <2> DEFINE copy == mobilityCase[c].milestones[k]
             evidence == With([at |-> "put_evidence", given |-> given], [key |-> k, copy |-> copy])
             verified == With([at |-> "put_verified"], [key |-> k, copy |-> copy])
  <2>1. copy \in Milestone /\ Exists(c) /\ UNCHANGED mobilityCase
    BY <1>6 DEF ReadMilestone, CaseInv, CaseRecord, caseVars
  <2> HIDE DEF copy
  <2>2. /\ DOMAIN evidence = {"at", "given", "key", "copy"} /\ evidence.at = "put_evidence"
        /\ evidence.given = given /\ evidence.key = k /\ evidence.copy = copy
    BY DEF With
  <2>3. /\ DOMAIN verified = {"at", "key", "copy"} /\ verified.at = "put_verified"
        /\ verified.key = k /\ verified.copy = copy
    BY DEF With
  <2>4. Begin(r, c, evidence) \/ Begin(r, c, verified)
    BY <1>6 DEF ReadMilestone, copy
  <2> HIDE DEF evidence, verified
  <2>5. CASE Begin(r, c, evidence)
    <3>1. /\ RequestInv' /\ req'[r].on = c /\ req'[r].at = "put_evidence"
          /\ req'[r].key = k /\ req'[r].copy = copy /\ req'[r].given = given
          /\ \A q \in Request \ {r} : req'[q] = req[q]
      <4>1. /\ evidence.at # "idle" /\ "at" \in DOMAIN evidence /\ "on" \notin DOMAIN evidence
        BY <2>2
      <4>2. \A f \in DOMAIN evidence : req'[r][f] = evidence[f]
        BY <1>1, <2>5, <4>1, RequestsBegin
      <4> QED
        BY <1>1, <2>2, <2>5, <4>1, <4>2, RequestsBegin
    <3>2. CaseRequest(r)'
      BY <2>1, <3>1 DEF CaseRequest, Exists
    <3> QED
      BY <1>3, <2>1, <3>1, <3>2
  <2>6. CASE Begin(r, c, verified)
    <3>1. /\ RequestInv' /\ req'[r].on = c /\ req'[r].at = "put_verified"
          /\ req'[r].key = k /\ req'[r].copy = copy
          /\ \A q \in Request \ {r} : req'[q] = req[q]
      <4>1. /\ verified.at # "idle" /\ "at" \in DOMAIN verified /\ "on" \notin DOMAIN verified
        BY <2>3
      <4>2. \A f \in DOMAIN verified : req'[r][f] = verified[f]
        BY <1>1, <2>6, <4>1, RequestsBegin
      <4> QED
        BY <1>1, <2>3, <2>6, <4>1, <4>2, RequestsBegin
    <3>2. CaseRequest(r)'
      BY <2>1, <3>1 DEF CaseRequest, Exists
    <3> QED
      BY <1>3, <2>1, <3>1, <3>2
  <2> QED
    BY <2>4, <2>5, <2>6
<1>7. ASSUME NEW c \in Cases, Exists(c), NEW target, NEW asked \in BOOLEAN,
             ReadCase(r, c, target, asked)
      PROVE  CaseInv'
  <2> DEFINE fields == [at |-> "put_case", copy |-> mobilityCase[c],
                        target |-> target, asked |-> asked]
  <2>1. /\ target \in Members(NextCaseStates(mobilityCase[c].state))
        /\ Begin(r, c, fields) /\ UNCHANGED mobilityCase
    BY <1>7 DEF ReadCase, caseVars
  <2>2. /\ RequestInv' /\ req'[r].on = c /\ req'[r].at = "put_case"
        /\ req'[r].copy = mobilityCase[c] /\ req'[r].target = target /\ req'[r].asked = asked
        /\ \A q \in Request \ {r} : req'[q] = req[q]
    <3>1. /\ DOMAIN fields = {"at", "copy", "target", "asked"} /\ fields.at = "put_case"
          /\ fields.copy = mobilityCase[c] /\ fields.target = target /\ fields.asked = asked
      OBVIOUS
    <3> HIDE DEF fields
    <3>2. /\ fields.at # "idle" /\ "at" \in DOMAIN fields /\ "on" \notin DOMAIN fields
      BY <3>1
    <3>3. \A f \in DOMAIN fields : req'[r][f] = fields[f]
      BY <1>1, <2>1, <3>2, RequestsBegin
    <3> QED
      BY <1>1, <2>1, <3>1, <3>2, <3>3, RequestsBegin
  <2>3. mobilityCase[c] \in CaseRecord /\ Walked(mobilityCase[c])
    BY <1>7 DEF CaseInv
  <2>4. CaseRequest(r)'
    BY <1>7, <2>1, <2>2, <2>3 DEF CaseRequest, Exists
  <2> QED
    BY <1>3, <2>1, <2>2, <2>4
\* The steps.
<1>8. ASSUME NEW c \in Cases, NEW record \in CaseRecord, Walked(record), Answer(r),
             mobilityCase' = [mobilityCase EXCEPT ![c] = record]
      PROVE  CaseInv'
  <2>1. RequestInv' /\ req'[r] = Idle /\ \A q \in Request \ {r} : req'[q] = req[q]
    BY <1>1, <1>8, RequestsEnd
  <2> QED
    BY <1>2, <1>8, <2>1 DEF CaseRequest
<1>9. ASSUME NEW part \in Parts, NEW step \in {"put_milestones", "put_items", "put_plan"},
             req[r] # Idle, Put(r, part), Goto(r, [at |-> step]) \/ Answer(r)
      PROVE  CaseInv'
  <2> PICK c \in Cases : c = req[r].on
    BY <1>1, <1>9 DEF CaseRequest
  <2> DEFINE record == [mobilityCase[c] EXCEPT !.parts = @ \cup {part}]
  <2>1. c \in Cases /\ mobilityCase[c] \in CaseRecord /\ Walked(mobilityCase[c])
    BY <1>1, <1>9 DEF CaseRequest, CaseInv
  <2>2. record \in CaseRecord /\ Walked(record)
    BY <2>1 DEF CaseRecord, Walked
  <2>3. mobilityCase' = [mobilityCase EXCEPT ![c] = record]
    BY <1>9 DEF Put
  <2>4. Exists(c)'
    <3>1. mobilityCase'[c] = record
      BY <2>1, <2>3 DEF CaseInv
    <3>2. record # NoCase
      BY <2>2, RecordIsCase
    <3> QED
      BY <3>1, <3>2 DEF Exists
  <2>5. CASE Goto(r, [at |-> step])
    <3>1. /\ RequestInv' /\ req'[r].on = c /\ req'[r].at = step
          /\ \A q \in Request \ {r} : req'[q] = req[q]
      BY <1>1, <1>9, <2>5, RequestsGoto
    <3>2. CaseRequest(r)'
      BY <2>1, <2>4, <3>1 DEF CaseRequest
    <3> QED
      BY <1>2, <2>1, <2>2, <2>3, <3>1, <3>2
  <2>6. CASE Answer(r)
    BY <1>8, <2>1, <2>2, <2>3, <2>6
  <2> QED
    BY <1>9, <2>5, <2>6
<1>10. ASSUME NEW milestone \in Milestone, req[r].key \in MilestoneKeys, req[r] # Idle,
              PutMilestone(r, milestone)
       PROVE  CaseInv'
  <2> DEFINE c == req[r].on
             record == [mobilityCase[c] EXCEPT !.milestones[req[r].key] = milestone]
  <2>1. c \in Cases /\ mobilityCase[c] \in CaseRecord /\ Walked(mobilityCase[c])
    BY <1>1, <1>10 DEF CaseRequest, CaseInv
  <2>2. record \in CaseRecord /\ Walked(record)
    BY <1>10, <2>1 DEF CaseRecord, Walked
  <2>3. mobilityCase' = [mobilityCase EXCEPT ![c] = record] /\ Answer(r)
    BY <1>10 DEF PutMilestone
  <2> QED
    BY <1>8, <2>1, <2>2, <2>3
<1>11. ASSUME PutEvidence(r) \/ PutVerified(r)
       PROVE  CaseInv'
  <2>1. req[r] # Idle /\ req[r].at \in {"put_evidence", "put_verified"}
    BY <1>11, AtIsBusy DEF PutEvidence, PutVerified, At
  <2>2. req[r].key \in MilestoneKeys /\ req[r].copy \in Milestone
    BY <1>1, <2>1 DEF CaseRequest
  <2>3. PICK milestone \in Milestone : PutMilestone(r, milestone)
    <3>1. CASE PutEvidence(r)
      <4>1. req[r].given \in BOOLEAN
        BY <1>1, <2>1, <3>1 DEF CaseRequest, PutEvidence, At
      <4> QED
        BY <2>2, <3>1, <4>1 DEF PutEvidence, Milestone
    <3>2. CASE PutVerified(r)
      BY <2>2, <3>2 DEF PutVerified, Milestone
    <3> QED
      BY <1>11, <3>1, <3>2
  <2> QED
    BY <1>10, <2>1, <2>2, <2>3
<1>12. ASSUME PutCase(r)
       PROVE  CaseInv'
  <2> DEFINE c == req[r].on
             copy == req[r].copy
             entry == Entry(copy.state, req[r].target, req[r].asked)
             record == [mobilityCase[c] EXCEPT !.state = req[r].target,
                                               !.history = Append(copy.history, entry)]
  <2>1. req[r] # Idle /\ req[r].at = "put_case"
    BY <1>12, AtIsBusy DEF PutCase, At
  <2>2. /\ c \in Cases /\ Exists(c) /\ copy \in CaseRecord /\ Walked(copy)
        /\ req[r].target \in Members(NextCaseStates(copy.state))
        /\ req[r].asked \in BOOLEAN
    BY <1>1, <2>1 DEF CaseRequest
  <2>3. mobilityCase[c] \in CaseRecord
    BY <2>2 DEF CaseInv
  <2>4. copy.state \in CaseStates /\ copy.history \in Seq(CaseEntry)
    BY <2>2 DEF CaseRecord
  <2>5. req[r].target \in CaseStates
    BY <2>2, <2>4, NextLeads
  <2>6. entry \in CaseEntry
    BY <2>2, <2>4, <2>5 DEF Entry, CaseEntry
  <2>7. Append(copy.history, entry) \in Seq(CaseEntry)
    BY <2>4, <2>6
  <2>8. /\ record \in CaseRecord /\ record.state = req[r].target
        /\ record.history = Append(copy.history, entry)
    <3> HIDE DEF entry
    <3> QED
      BY <2>3, <2>5, <2>7 DEF CaseRecord
  <2>9. Walked(record)
    BY <2>2, <2>8, WalkGrows
  <2>10. mobilityCase' = [mobilityCase EXCEPT ![c] = record] /\ Answer(r)
    BY <1>12, <2>3 DEF PutCase, CaseRecord
  <2> HIDE DEF record, c
  <2> QED
    BY <1>8, <2>2, <2>8, <2>9, <2>10
<1>13. CASE CaseStep(r)
  <2>1. CASE PutTasks(r) \/ PutMilestones(r) \/ PutItems(r) \/ PutPlan(r)
    BY <1>9, <2>1, AtIsBusy DEF PutTasks, PutMilestones, PutItems, PutPlan, Parts
  <2> QED
    BY <1>11, <1>12, <1>13, <2>1 DEF CaseStep
<1>14. ASSUME NEW c \in Cases, CaseCall(r, c)
       PROVE  CaseInv'
  BY <1>4, <1>5, <1>6, <1>7, <1>14 DEF CaseCall, SubmitMilestoneEvidence, VerifyMilestone,
                                        Advance, AdvanceUntargeted, Withdraw
<1> QED
  BY <1>13, <1>14

\* Every step keeps the invariant of the cases.
LEMMA CaseInvStep ==
    ASSUME CaseInv, [ServicesNext]_vars
    PROVE  CaseInv'
<1>1. scenario' = scenario
  BY OneScenario
<1>2. CASE scenario = "cases" /\ CaseNext
  BY <1>1, <1>2, CaseMoves DEF CaseNext
<1>3. ASSUME NEW r \in Request, Dies(r), UNCHANGED caseVars
      PROVE  CaseInv'
  <2>1. scenario = "cases" => RequestInv' /\ \A q \in Request : req'[q] \in {Idle, req[q]}
    BY <1>3, RequestsEnd DEF CaseInv
  <2> QED
    BY <1>1, <1>3, <2>1 DEF CaseInv, CaseRequest, Exists, caseVars
<1>4. CASE UNCHANGED requestVars /\ UNCHANGED caseVars
  BY <1>1, <1>4 DEF CaseInv, CaseRequest, RequestInv, Exists, caseVars, requestVars
<1>5. CASE scenario # "cases" /\ UNCHANGED caseVars
  BY <1>1, <1>5 DEF CaseInv, Exists, caseVars
<1> QED
  BY <1>2, <1>3, <1>4, <1>5, OneScenario

\* The history of a case is a walk of the state machine, whatever copies the
\* calls of act write back over each other (cases.service.ts transition).
THEOREM CasesWalk == ServicesSpec => []HistoryIsWalk
<1>1. CaseInv => HistoryIsWalk
  BY DEF CaseInv, HistoryIsWalk, Walked, Reached, Leads
<1> QED
  BY <1>1, CaseStart, CaseInvStep, PTL DEF ServicesSpec

-------------------------------------------------------------------------------
(* The queue of the mobile app. *)

\* The API has seen row i.
Arrived(i) == \E k \in 1..Len(server) : server[k] = i

\* A flush goes through the rows it has read in order: before each of them are only
\* rows that it has read too and rows that have arrived.
FlushInv(f) ==
    /\ flusher[f] \in [at : {"idle", "send", "delete"}, rows : SUBSET (1..next)]
    /\ flusher[f].at \in {"send", "delete"} => flusher[f].rows # {}
    /\ \A i \in flusher[f].rows : \A j \in 1..(i - 1) : j \in flusher[f].rows \/ Arrived(j)
    /\ flusher[f].at = "delete" => Arrived(First(flusher[f].rows))

QueueInv ==
    /\ next \in Nat /\ queue \subseteq 1..next /\ server \in Seq(Nat)
    /\ DOMAIN flusher = Flushers
    /\ \A f \in Flushers : FlushInv(f)
    /\ ArrivesInOrder

\* There is a first row.
LEMMA FirstIs ==
    ASSUME NEW Q, Q \subseteq Nat, Q # {}
    PROVE  First(Q) \in Q /\ \A j \in Q : First(Q) <= j
<1>1. PICK x \in Q : \A y \in Q : ~ (<<y, x>> \in OpToRel(<, Nat))
  <2>1. Q \subseteq Nat /\ Q # {}
    OBVIOUS
  <2> QED
    BY <2>1, NatLessThanWellFounded, WFMin, Zenon
<1>2. \A y \in Q : x <= y
  <2> SUFFICES ASSUME NEW y \in Q, y < x PROVE FALSE
    OBVIOUS
  <2>1. y \in Nat /\ x \in Nat /\ y < x
    OBVIOUS
  <2>2. <<y, x>> \in OpToRel(<, Nat)
    BY <2>1, Zenon DEF OpToRel
  <2> QED
    BY <1>1, <2>2
<1> QED
  BY <1>2 DEF First

\* The initial states satisfy the invariant of the queue.
LEMMA QueueStart == ServicesInit => QueueInv
<1> SUFFICES ASSUME ServicesInit PROVE QueueInv
  OBVIOUS
<1>1. /\ next = 0 /\ queue = {} /\ server = <<>>
      /\ flusher = [f \in Flushers |-> Resting]
  BY DEF ServicesInit, QueueInit
<1>2. server \in Seq(Nat) /\ Len(server) = 0
  BY <1>1
<1>3. \A f \in Flushers : FlushInv(f)
  BY <1>1 DEF FlushInv, Resting
<1>4. ArrivesInOrder
  BY <1>1, <1>2 DEF ArrivesInOrder
<1> QED
  BY <1>1, <1>2, <1>3, <1>4 DEF QueueInv

\* Every step of a flush, of the user and of the phone keeps it.
LEMMA QueueMoves ==
    ASSUME QueueInv, QueueNext
    PROVE  QueueInv'
<1> USE DEF QueueInv
<1>1. \A f \in Flushers : /\ FlushInv(f) /\ flusher[f].rows \subseteq Nat
                          /\ flusher[f].rows \subseteq 1..next
  BY DEF FlushInv
<1>2. CASE Enqueue
  <2>1. /\ next' = next + 1 /\ queue' = queue \cup {next + 1}
        /\ flusher' = flusher /\ server' = server
    BY <1>2 DEF Enqueue
  <2>2. \A f \in Flushers : FlushInv(f)'
    BY <2>1 DEF FlushInv, Arrived
  <2>3. ArrivesInOrder'
    BY <2>1 DEF ArrivesInOrder
  <2> QED
    BY <2>1, <2>2, <2>3
<1>3. ASSUME NEW f \in Flushers, Flush(f) PROVE QueueInv'
  <2>1. /\ flusher' = [flusher EXCEPT ![f] = [at |-> "send", rows |-> queue]]
        /\ queue # {} /\ UNCHANGED <<next, queue, server>>
    BY <1>3 DEF Flush
  <2>2. \A i \in (1..next) \ queue : Arrived(i)
    BY DEF ArrivesInOrder, Arrived
  <2>3. FlushInv(f)'
    <3>1. flusher'[f] = [at |-> "send", rows |-> queue]
      BY <2>1
    <3>2. \A i \in queue : \A j \in 1..(i - 1) : j \in queue \/ Arrived(j)
      BY <2>2
    <3> QED
      BY <2>1, <3>1, <3>2 DEF FlushInv, Arrived
  <2>4. \A g \in Flushers : FlushInv(g)'
    BY <2>1, <2>3 DEF FlushInv, Arrived
  <2> QED
    BY <2>1, <2>4 DEF ArrivesInOrder
<1>4. ASSUME NEW f \in Flushers, Send(f) PROVE QueueInv'
  <2>1. PICK row : row = First(flusher[f].rows)
    OBVIOUS
  <2>2. /\ flusher[f].at = "send"
        /\ server' = Append(server, row)
        /\ flusher' = [flusher EXCEPT ![f].at = "delete"]
        /\ UNCHANGED <<next, queue>>
    BY <1>4, <2>1 DEF Send
  <2>3. row \in flusher[f].rows /\ \A j \in flusher[f].rows : row <= j
    BY <1>1, <2>1, <2>2, FirstIs DEF FlushInv
  <2>4. row \in 1..next /\ \A j \in 1..(row - 1) : Arrived(j)
    BY <1>1, <2>3 DEF FlushInv
  <2>5. /\ server' \in Seq(Nat) /\ Len(server') = Len(server) + 1
        /\ server'[Len(server) + 1] = row
        /\ \A k \in 1..Len(server) : server'[k] = server[k]
    BY <2>2, <2>4
  <2>6. Arrived(row)' /\ \A i : Arrived(i) => Arrived(i)'
    BY <2>5 DEF Arrived
  <2>7. ArrivesInOrder'
    <3>1. ASSUME NEW k \in 1..Len(server'), NEW i \in 1..(server'[k] - 1)
          PROVE  \E j \in 1..(k - 1) : server'[j] = i
      <4>1. CASE k \in 1..Len(server)
        <5>1. server'[k] = server[k] /\ \A j \in 1..(k - 1) : server'[j] = server[j]
          BY <2>5, <4>1
        <5>2. \E j \in 1..(k - 1) : server[j] = i
          BY <4>1, <5>1 DEF ArrivesInOrder
        <5> QED
          BY <5>1, <5>2
      <4>2. CASE k = Len(server) + 1
        <5>1. Arrived(i)
          BY <2>4, <2>5, <4>2
        <5> QED
          BY <2>5, <4>2, <5>1 DEF Arrived
      <4> QED
        BY <2>5, <4>1, <4>2
    <3>2. \A i \in (1..next') \ queue' : Arrived(i)'
      BY <2>2, <2>6 DEF ArrivesInOrder, Arrived
    <3> QED
      BY <3>1, <3>2 DEF ArrivesInOrder, Arrived
  <2>8. ASSUME NEW g \in Flushers PROVE FlushInv(g)'
    <3>1. CASE g = f
      <4>1. flusher'[g].at = "delete" /\ flusher'[g].rows = flusher[f].rows
            /\ flusher'[g] \in [at : {"idle", "send", "delete"}, rows : SUBSET (1..next)]
        BY <1>1, <2>2, <3>1 DEF FlushInv
      <4>2. Arrived(First(flusher[g].rows))'
        BY <2>1, <2>6, <4>1
      <4> QED
        BY <1>1, <2>2, <2>3, <2>6, <4>1, <4>2 DEF FlushInv
    <3>2. CASE g # f
      <4>1. flusher'[g] = flusher[g]
        BY <2>2, <3>2
      <4> QED
        BY <1>1, <2>2, <2>6, <4>1 DEF FlushInv
    <3> QED
      BY <3>1, <3>2
  <2> QED
    BY <2>2, <2>5, <2>7, <2>8
<1>5. ASSUME NEW f \in Flushers, flusher' = [flusher EXCEPT ![f] = Resting],
             UNCHANGED <<next, queue, server>>
      PROVE  QueueInv'
  <2>1. flusher'[f] = Resting /\ \A g \in Flushers \ {f} : flusher'[g] = flusher[g]
    BY <1>5
  <2>2. FlushInv(f)'
    BY <2>1 DEF FlushInv, Resting
  <2>3. \A g \in Flushers \ {f} : FlushInv(g)'
    BY <1>5, <2>1 DEF FlushInv, Arrived
  <2> QED
    BY <1>5, <2>2, <2>3 DEF ArrivesInOrder
<1>6. ASSUME NEW f \in Flushers, DeleteRow(f) PROVE QueueInv'
  <2> DEFINE row  == First(flusher[f].rows)
             rest == flusher[f].rows \ {row}
  <2>1. /\ flusher[f].at = "delete"
        /\ queue' = queue \ {row}
        /\ flusher' = [flusher EXCEPT ![f] = IF rest = {} THEN Resting
                                             ELSE [at |-> "send", rows |-> rest]]
        /\ UNCHANGED <<next, server>>
    BY <1>6 DEF DeleteRow
  <2>2. Arrived(row)
    BY <2>1 DEF FlushInv
  <2>3. rest \subseteq 1..next /\ \A i \in rest : \A j \in 1..(i - 1) : j \in rest \/ Arrived(j)
    BY <1>1, <2>2 DEF FlushInv
  <2> HIDE DEF row, rest
  <2>4. FlushInv(f)'
    <3>1. CASE rest = {}
      <4>1. flusher'[f] = Resting
        BY <2>1, <3>1
      <4> QED
        BY <4>1 DEF FlushInv, Resting
    <3>2. CASE rest # {}
      <4>1. flusher'[f] = [at |-> "send", rows |-> rest]
        BY <2>1, <3>2
      <4> QED
        BY <2>1, <2>3, <3>2, <4>1 DEF FlushInv, Arrived
    <3> QED
      BY <3>1, <3>2
  <2>5. \A g \in Flushers \ {f} : FlushInv(g)'
    BY <2>1 DEF FlushInv, Arrived
  <2>6. ArrivesInOrder'
    BY <2>1, <2>2 DEF ArrivesInOrder, Arrived
  <2> QED
    BY <2>1, <2>4, <2>5, <2>6
<1> QED
  BY <1>2, <1>3, <1>4, <1>5, <1>6 DEF QueueNext, QueueStep, SendRefused, Breaks

\* Every step keeps the invariant of the queue.
LEMMA QueueInvStep == QueueInv /\ [ServicesNext]_vars => QueueInv'
<1> SUFFICES ASSUME QueueInv, [ServicesNext]_vars PROVE QueueInv'
  OBVIOUS
<1>1. QueueNext \/ UNCHANGED queueVars
  BY DEF ServicesNext, Move, Publish, Apply, Oversee, Account, Prepare, SignIn, Settle,
         TrackJourneys, Keep, Persist, Synchronize, Only, Die, vars
<1>2. CASE UNCHANGED queueVars
  BY <1>2 DEF queueVars, QueueInv, FlushInv, Arrived, ArrivesInOrder
<1> QED
  BY <1>1, <1>2, QueueMoves

\* A queue never sends a mutation before those made earlier have arrived, and never
\* forgets one that has not, whichever flushes overlap, break off and are killed
\* (flushMutationQueue, flushDocumentQueue).
THEOREM MutationsArriveInOrder == ServicesSpec => []ArrivesInOrder
<1>1. QueueInv => ArrivesInOrder
  BY DEF QueueInv
<1> QED
  BY <1>1, QueueStart, QueueInvStep, PTL DEF ServicesSpec

-------------------------------------------------------------------------------
(* The rows of the record storage. *)

\* No two rows have one id.
EachOnce(rows) == \A i, j \in DOMAIN rows : rows[i].id = rows[j].id => i = j

\* Removal takes the row with the id and leaves the others.
LEMMA WithoutIs ==
    ASSUME NEW S, NEW rows \in Seq(S), EachOnce(rows), NEW id
    PROVE  /\ Without(rows, id) \in Seq(S) /\ EachOnce(Without(rows, id))
           /\ RowIds(Without(rows, id)) = RowIds(rows) \ {id}
           /\ \A i \in DOMAIN Without(rows, id) : \E j \in DOMAIN rows :
                  Without(rows, id)[i] = rows[j]
<1>1. CASE id \notin RowIds(rows)
  BY <1>1 DEF Without
<1>2. CASE id \in RowIds(rows)
  <2> DEFINE p == Place(rows, id)
             W == RemoveAt(rows, p)
  <2>1. p \in 1..Len(rows) /\ rows[p].id = id /\ Without(rows, id) = W
    BY <1>2 DEF Place, RowIds, Without
  <2> HIDE DEF p
  <2>2. /\ W \in Seq(S) /\ Len(W) = Len(rows) - 1
        /\ \A i \in 1..Len(W) : W[i] = rows[IF i < p THEN i ELSE i + 1]
    <3> DEFINE a == SubSeq(rows, 1, p - 1)
               b == SubSeq(rows, p + 1, Len(rows))
    <3>1. a \in Seq(S) /\ Len(a) = p - 1 /\ \A i \in 1..(p - 1) : a[i] = rows[i]
      BY <2>1
    <3>2. /\ b \in Seq(S) /\ Len(b) = Len(rows) - p
          /\ \A i \in 1..(Len(rows) - p) : b[i] = rows[p + i]
      BY <2>1
    <3>3. W = a \o b
      BY DEF RemoveAt
    <3> HIDE DEF a, b, W
    <3>4. /\ W \in Seq(S) /\ Len(W) = Len(a) + Len(b)
          /\ \A i \in 1..(Len(a) + Len(b)) : W[i] = IF i <= Len(a) THEN a[i] ELSE b[i - Len(a)]
      <4>1. a \in Seq(S) /\ b \in Seq(S)
        BY <3>1, <3>2
      <4> QED
        BY <3>3, <4>1, ConcatProperties, Zenon
    <3>5. Len(W) = Len(rows) - 1
      BY <2>1, <3>1, <3>2, <3>4
    <3>6. ASSUME NEW i \in 1..Len(W), i < p PROVE W[i] = rows[i]
      BY <2>1, <3>1, <3>4, <3>6
    <3>7. ASSUME NEW i \in 1..Len(W), ~(i < p) PROVE W[i] = rows[i + 1]
      <4>1. i - (p - 1) \in 1..(Len(rows) - p) /\ p + (i - (p - 1)) = i + 1
        BY <2>1, <3>5, <3>7
      <4> QED
        BY <2>1, <3>1, <3>2, <3>4, <3>7, <4>1
    <3> QED
      BY <3>4, <3>5, <3>6, <3>7
  <2> HIDE DEF W
  <2>3. \A i \in DOMAIN W : \E j \in DOMAIN rows : W[i] = rows[j] /\ j # p
    BY <2>1, <2>2
  <2>4. EachOnce(W)
    BY <2>1, <2>2 DEF EachOnce
  <2>5. \A j \in DOMAIN rows : j # p => \E i \in DOMAIN W : W[i] = rows[j]
    <3> SUFFICES ASSUME NEW j \in 1..Len(rows), j # p
                 PROVE  \E i \in DOMAIN W : W[i] = rows[j]
      OBVIOUS
    <3>1. CASE j < p
      BY <2>1, <2>2, <3>1
    <3>2. CASE j > p
      <4>1. j - 1 \in 1..Len(W) /\ W[j - 1] = rows[j]
        BY <2>1, <2>2, <3>2
      <4> QED
        BY <2>2, <4>1
    <3> QED
      BY <2>1, <3>1, <3>2
  <2>6. \A j \in DOMAIN rows : j # p => rows[j].id # id
    BY <2>1 DEF EachOnce
  <2>7. RowIds(W) = RowIds(rows) \ {id}
    <3>1. RowIds(W) \subseteq RowIds(rows) \ {id}
      <4> SUFFICES ASSUME NEW i \in DOMAIN W
                   PROVE  W[i].id \in RowIds(rows) \ {id}
        BY DEF RowIds
      <4>1. PICK j \in DOMAIN rows : W[i] = rows[j] /\ j # p
        BY <2>3
      <4> QED
        BY <2>6, <4>1 DEF RowIds
    <3>2. ASSUME NEW x \in RowIds(rows) \ {id} PROVE x \in RowIds(W)
      <4>1. PICK j \in DOMAIN rows : rows[j].id = x
        BY DEF RowIds
      <4>2. j # p
        BY <2>1, <4>1
      <4>3. PICK i \in DOMAIN W : W[i] = rows[j]
        BY <2>5, <4>2
      <4> QED
        BY <4>1, <4>3 DEF RowIds
    <3> QED
      BY <3>1, <3>2
  <2> QED
    BY <2>1, <2>2, <2>3, <2>4, <2>7
<1> QED
  BY <1>1, <1>2

\* A row appended under an id of its own.
LEMMA AppendIs ==
    ASSUME NEW S, NEW rows \in Seq(S), EachOnce(rows), NEW row \in S, row.id \notin RowIds(rows)
    PROVE  /\ Append(rows, row) \in Seq(S) /\ EachOnce(Append(rows, row))
           /\ RowIds(Append(rows, row)) = RowIds(rows) \cup {row.id}
           /\ \A i \in DOMAIN Append(rows, row) :
                  Append(rows, row)[i] = row \/ \E j \in DOMAIN rows : Append(rows, row)[i] = rows[j]
<1> DEFINE A == Append(rows, row)
<1>1. /\ A \in Seq(S) /\ Len(A) = Len(rows) + 1 /\ A[Len(rows) + 1] = row
      /\ \A i \in 1..Len(rows) : A[i] = rows[i]
      /\ DOMAIN rows = 1..Len(rows) /\ DOMAIN A = 1..Len(A) /\ Len(rows) \in Nat
  OBVIOUS
<1> HIDE DEF A
<1>2. \A i \in DOMAIN A : i \in DOMAIN rows \/ i = Len(rows) + 1
  BY <1>1
<1>3. EachOnce(A)
  BY <1>1, <1>2 DEF EachOnce, RowIds
<1>4. RowIds(A) = RowIds(rows) \cup {row.id}
  <2>1. RowIds(A) \subseteq RowIds(rows) \cup {row.id}
    BY <1>1, <1>2 DEF RowIds
  <2>2. RowIds(rows) \subseteq RowIds(A)
    BY <1>1 DEF RowIds
  <2>3. row.id \in RowIds(A)
    BY <1>1 DEF RowIds
  <2> QED
    BY <2>1, <2>2, <2>3
<1> QED
  BY <1>1, <1>2, <1>3, <1>4 DEF A

\* Rows appended that have ids of their own.
LEMMA ConcatIs ==
    ASSUME NEW S, NEW rows \in Seq(S), EachOnce(rows), NEW more \in Seq(S), EachOnce(more),
           RowIds(rows) \cap RowIds(more) = {}
    PROVE  /\ rows \o more \in Seq(S) /\ EachOnce(rows \o more)
           /\ RowIds(rows \o more) = RowIds(rows) \cup RowIds(more)
           /\ \A i \in DOMAIN (rows \o more) :
                  \/ \E j \in DOMAIN rows : (rows \o more)[i] = rows[j]
                  \/ \E j \in DOMAIN more : (rows \o more)[i] = more[j]
<1> DEFINE A == rows \o more
<1>1. /\ A \in Seq(S) /\ Len(A) = Len(rows) + Len(more)
      /\ \A i \in 1..Len(rows) : A[i] = rows[i]
      /\ \A i \in 1..Len(more) : A[Len(rows) + i] = more[i]
      /\ DOMAIN rows = 1..Len(rows) /\ DOMAIN A = 1..Len(A) /\ DOMAIN more = 1..Len(more)
      /\ Len(rows) \in Nat /\ Len(more) \in Nat
  OBVIOUS
<1> HIDE DEF A
<1>2. \A i \in DOMAIN A : \/ i \in DOMAIN rows /\ A[i] = rows[i]
                          \/ i - Len(rows) \in DOMAIN more /\ A[i] = more[i - Len(rows)]
  <2> TAKE i \in DOMAIN A
  <2>1. CASE i <= Len(rows)
    BY <1>1, <2>1
  <2>2. CASE i > Len(rows)
    <3>1. i - Len(rows) \in 1..Len(more) /\ Len(rows) + (i - Len(rows)) = i
      BY <1>1, <2>2
    <3> QED
      BY <1>1, <3>1
  <2> QED
    BY <1>1, <2>1, <2>2
<1>3. EachOnce(A)
  <2> SUFFICES ASSUME NEW i \in DOMAIN A, NEW j \in DOMAIN A, A[i].id = A[j].id PROVE i = j
    BY DEF EachOnce
  <2>1. i \in Int /\ j \in Int /\ Len(rows) \in Int
    BY <1>1
  <2>2. CASE i \in DOMAIN rows /\ A[i] = rows[i] /\ j \in DOMAIN rows /\ A[j] = rows[j]
    BY <2>2 DEF EachOnce
  <2>3. CASE /\ i - Len(rows) \in DOMAIN more /\ A[i] = more[i - Len(rows)]
             /\ j - Len(rows) \in DOMAIN more /\ A[j] = more[j - Len(rows)]
    <3>1. i - Len(rows) = j - Len(rows)
      BY <2>3 DEF EachOnce
    <3> QED
      BY <2>1, <3>1
  <2> QED
    BY <1>2, <2>2, <2>3 DEF RowIds
<1>4. RowIds(A) = RowIds(rows) \cup RowIds(more)
  <2>1. RowIds(A) \subseteq RowIds(rows) \cup RowIds(more)
    BY <1>2 DEF RowIds
  <2>2. RowIds(rows) \subseteq RowIds(A)
    BY <1>1 DEF RowIds
  <2>3. \A i \in DOMAIN more : Len(rows) + i \in DOMAIN A
    BY <1>1
  <2>4. RowIds(more) \subseteq RowIds(A)
    BY <1>1, <2>3 DEF RowIds
  <2> QED
    BY <2>1, <2>2, <2>4
<1> QED
  BY <1>1, <1>2, <1>3, <1>4 DEF A

\* A finite set as a sequence: every element once.
LEMMA SequenceOf ==
    ASSUME NEW S, IsFiniteSet(S)
    PROVE  /\ SetToSeq(S) \in Seq(S) /\ DOMAIN SetToSeq(S) = 1..Len(SetToSeq(S))
           /\ \A i, j \in DOMAIN SetToSeq(S) : SetToSeq(S)[i] = SetToSeq(S)[j] => i = j
           /\ \A x \in S : \E i \in DOMAIN SetToSeq(S) : SetToSeq(S)[i] = x
<1> DEFINE n == Cardinality(S)
           f == SetToSeq(S)
<1>1. n \in Nat /\ ExistsBijection(1..n, S)
  BY FS_CardinalityType
<1>2. PICK g : g \in Bijection(1..n, S)
  BY <1>1 DEF ExistsBijection
<1>3. g \in [1..n -> S] /\ IsInjective(g)
  BY <1>2 DEF Bijection, Injection
<1>4. f \in [1..n -> S] /\ IsInjective(f)
  BY <1>3 DEF SetToSeq
<1> HIDE DEF f, n
<1>5. f \in Injection(1..n, S)
  BY <1>4 DEF Injection
<1>6. IsFiniteSet(1..n) /\ Cardinality(1..n) = n
  <2>1. 1 \in Int /\ n \in Int
    BY <1>1
  <2>2. IsFiniteSet(1..n) /\ Cardinality(1..n) = IF 1 > n THEN 0 ELSE n - 1 + 1
    BY <2>1, FS_Interval
  <2> QED
    BY <1>1, <2>2
<1>7. f \in Surjection(1..n, S)
  BY <1>5, <1>6, FS_Injection DEF n
<1>8. \A x \in S : \E i \in 1..n : f[i] = x
  BY <1>7 DEF Surjection
<1>9. f \in Seq(S) /\ DOMAIN f = 1..n /\ Len(f) = n
  BY <1>1, <1>4
<1> QED
  BY <1>4, <1>8, <1>9 DEF f, IsInjective

Values == {"seed", "first", "second"}
StoreRow(ns) == {Encode(ns, id, value) : id \in RowsOf(ns), value \in Values}
References == {Reference[i] : i \in DOMAIN Reference}

\* The rows of a collection are those of the ids that hold something, each once, and
\* each holds what its id does.
Filled(ns, rows, held) ==
    /\ rows \in Seq(StoreRow(ns)) /\ EachOnce(rows)
    /\ \A i \in DOMAIN rows : rows[i] = Encode(ns, rows[i].id, held[rows[i].id])
    /\ DOMAIN held = RowsOf(ns)
    /\ \A id \in RowsOf(ns) : held[id] = NoRecord <=> id \notin RowIds(rows)

\* A row has the id it was encoded for, opens under it, and is of its collection.
LEMMA EncodeIs ==
    ASSUME NEW ns, NEW id, NEW value
    PROVE  /\ Encode(ns, id, value).id = id
           /\ Decode(ns, Encode(ns, id, value)) = value
           /\ id \in RowsOf(ns) /\ value \in Values => Encode(ns, id, value) \in StoreRow(ns)
BY DEF Encode, Decode, StoreRow

\* The ids of a collection's rows are ids of that collection.
LEMMA FilledIds ==
    ASSUME NEW ns, NEW rows, NEW held, Filled(ns, rows, held)
    PROVE  RowIds(rows) \subseteq RowsOf(ns)
<1> SUFFICES ASSUME NEW i \in DOMAIN rows PROVE rows[i].id \in RowsOf(ns)
  BY DEF RowIds
<1>1. rows[i] \in StoreRow(ns)
  BY DEF Filled
<1> QED
  BY <1>1 DEF StoreRow, Encode

\* What is read of a collection is what its ids hold.
LEMMA FilledReads ==
    ASSUME NEW ns, NEW rows, NEW held, Filled(ns, rows, held), NEW id \in RowsOf(ns)
    PROVE  held[id] = IF id \in RowIds(rows) THEN Decode(ns, Get(rows, id)) ELSE NoRecord
<1>1. CASE id \in RowIds(rows)
  <2>1. Place(rows, id) \in DOMAIN rows /\ rows[Place(rows, id)].id = id
    BY <1>1 DEF Place, RowIds
  <2>2. Get(rows, id) = Encode(ns, id, held[id])
    BY <2>1 DEF Filled, Get
  <2> QED
    BY <1>1, <2>2, EncodeIs
<1>2. CASE id \notin RowIds(rows)
  BY <1>2 DEF Filled
<1> QED
  BY <1>1, <1>2

\* An empty collection holds nothing.
LEMMA FilledEmpty ==
    ASSUME NEW ns
    PROVE  Filled(ns, <<>>, [id \in RowsOf(ns) |-> NoRecord])
<1>1. <<>> \in Seq(StoreRow(ns)) /\ DOMAIN <<>> = {} /\ RowIds(<<>>) = {}
  BY DEF RowIds
<1> QED
  BY <1>1 DEF Filled, EachOnce

\* The rows of the seed, each once.
LEMMA FilledSeed ==
    ASSUME NEW ns \in References, StoreAssumption
    PROVE  Filled(ns, SeedRows(ns), Seeded(ns)) /\ RowIds(SeedRows(ns)) = SeedIds
<1> DEFINE ids == SetToSeq(SeedIds)
           rows == SeedRows(ns)
<1>1. IsFiniteSet(SeedIds) /\ ns # "document" /\ RowsOf(ns) = SeedIds
  BY DEF StoreAssumption, References, RowsOf
<1>2. /\ ids \in Seq(SeedIds) /\ DOMAIN ids = 1..Len(ids)
      /\ \A i, j \in DOMAIN ids : ids[i] = ids[j] => i = j
      /\ \A x \in SeedIds : \E i \in DOMAIN ids : ids[i] = x
  BY <1>1, SequenceOf
<1>3. rows = [i \in DOMAIN ids |-> Encode(ns, ids[i], "seed")]
  BY DEF SeedRows
<1> HIDE DEF ids, rows
<1>4. DOMAIN rows = DOMAIN ids /\ Len(ids) \in Nat /\ \A i \in DOMAIN ids : ids[i] \in SeedIds
  BY <1>2, <1>3
<1>5. \A i \in DOMAIN rows : /\ rows[i] = Encode(ns, ids[i], "seed") /\ rows[i].id = ids[i]
                             /\ rows[i] \in StoreRow(ns)
  <2>1. "seed" \in Values
    BY DEF Values
  <2> QED
    BY <1>1, <1>3, <1>4, <2>1, EncodeIs
<1>6. rows \in Seq(StoreRow(ns))
  BY <1>2, <1>3, <1>4, <1>5
<1>7. RowIds(rows) = SeedIds
  BY <1>2, <1>4, <1>5 DEF RowIds
<1>8. EachOnce(rows)
  BY <1>2, <1>4, <1>5 DEF EachOnce
<1> QED
  BY <1>1, <1>4, <1>5, <1>6, <1>7, <1>8 DEF Filled, Seeded, NoRecord, rows

\* A put puts the row under its id; the others stay.
LEMMA FilledPut ==
    ASSUME NEW ns, NEW rows, NEW held, Filled(ns, rows, held), NEW id \in RowsOf(ns),
           NEW value \in Values, NEW row, row = Encode(ns, id, value),
           NEW held1, held1 = [held EXCEPT ![id] = value],
           NEW rows1, rows1 = MemoryPut(rows, row) \/ rows1 = PostgresPut(rows, row)
    PROVE  Filled(ns, rows1, held1) /\ RowIds(rows1) = RowIds(rows) \cup {id}
<1> DEFINE S == StoreRow(ns)
           M == MemoryPut(rows, row)
           P == PostgresPut(rows, row)
           W == Without(rows, id)
<1>1. row.id = id /\ row \in S /\ value # NoRecord
  BY EncodeIs DEF Values, NoRecord
<1>2. /\ rows \in Seq(S) /\ EachOnce(rows) /\ DOMAIN held = RowsOf(ns)
      /\ \A i \in DOMAIN rows : rows[i] = Encode(ns, rows[i].id, held[rows[i].id])
      /\ \A x \in RowsOf(ns) : held[x] = NoRecord <=> x \notin RowIds(rows)
      /\ RowIds(rows) \subseteq RowsOf(ns)
  BY FilledIds DEF Filled
<1>3. /\ DOMAIN held1 = RowsOf(ns) /\ held1[id] = value
      /\ \A x \in RowsOf(ns) \ {id} : held1[x] = held[x]
  BY <1>2
<1>4. row = Encode(ns, id, held1[id])
  BY <1>3
<1>5. M = IF id \in RowIds(rows)
          THEN [i \in DOMAIN rows |-> IF rows[i].id = id THEN row ELSE rows[i]]
          ELSE Append(rows, row)
  BY <1>1 DEF MemoryPut
<1>6. P = Append(W, row)
  BY <1>1 DEF PostgresPut
<1>7. /\ W \in Seq(S) /\ EachOnce(W) /\ RowIds(W) = RowIds(rows) \ {id}
      /\ \A i \in DOMAIN W : \E j \in DOMAIN rows : W[i] = rows[j]
  BY <1>2, WithoutIs
<1> HIDE DEF S, M, P, W
\* Rows with other ids are as before.
<1>8. ASSUME NEW i \in DOMAIN rows, rows[i].id # id
      PROVE  rows[i] = Encode(ns, rows[i].id, held1[rows[i].id])
  BY <1>2, <1>3, <1>8 DEF RowIds
<1>9. ASSUME NEW Q \in Seq(S), EachOnce(Q), RowIds(Q) = RowIds(rows) \cup {id},
             \A i \in DOMAIN Q :
                 Q[i] = row \/ \E j \in DOMAIN rows : Q[i] = rows[j] /\ rows[j].id # id
      PROVE  Filled(ns, Q, held1)
  <2>1. \A i \in DOMAIN Q : Q[i] = Encode(ns, Q[i].id, held1[Q[i].id])
    BY <1>1, <1>4, <1>8, <1>9
  <2>2. \A x \in RowsOf(ns) : held1[x] = NoRecord <=> x \notin RowIds(Q)
    BY <1>1, <1>2, <1>3, <1>9
  <2> QED
    BY <1>3, <1>9, <2>1, <2>2 DEF Filled, S
<1>10. Filled(ns, P, held1) /\ RowIds(P) = RowIds(rows) \cup {id}
  <2>1. id \notin RowIds(W)
    BY <1>7
  <2>2. /\ P \in Seq(S) /\ EachOnce(P) /\ RowIds(P) = RowIds(W) \cup {id}
        /\ \A i \in DOMAIN P : P[i] = row \/ \E j \in DOMAIN W : P[i] = W[j]
    BY <1>1, <1>6, <1>7, <2>1, AppendIs
  <2>3. \A j \in DOMAIN W : \E k \in DOMAIN rows : W[j] = rows[k] /\ rows[k].id # id
    <3> SUFFICES ASSUME NEW j \in DOMAIN W
                 PROVE  \E k \in DOMAIN rows : W[j] = rows[k] /\ rows[k].id # id
      OBVIOUS
    <3>1. W[j].id # id
      BY <2>1 DEF RowIds
    <3>2. PICK k \in DOMAIN rows : W[j] = rows[k]
      BY <1>7
    <3> QED
      BY <3>1, <3>2
  <2>4. RowIds(P) = RowIds(rows) \cup {id}
    BY <1>7, <2>2
  <2>5. \A i \in DOMAIN P :
            P[i] = row \/ \E j \in DOMAIN rows : P[i] = rows[j] /\ rows[j].id # id
    BY <2>2, <2>3
  <2> QED
    BY <1>9, <2>2, <2>4, <2>5
<1>11. Filled(ns, M, held1) /\ RowIds(M) = RowIds(rows) \cup {id}
  <2>1. CASE id \notin RowIds(rows)
    <3>1. /\ M \in Seq(S) /\ EachOnce(M) /\ RowIds(M) = RowIds(rows) \cup {id}
          /\ \A i \in DOMAIN M : M[i] = row \/ \E j \in DOMAIN rows : M[i] = rows[j]
      BY <1>1, <1>2, <1>5, <2>1, AppendIs
    <3>2. \A j \in DOMAIN rows : rows[j].id # id
      BY <2>1 DEF RowIds
    <3> QED
      BY <1>9, <3>1, <3>2
  <2>2. CASE id \in RowIds(rows)
    <3>1. /\ DOMAIN M = DOMAIN rows
          /\ \A i \in DOMAIN rows : M[i] = IF rows[i].id = id THEN row ELSE rows[i]
      BY <1>5, <2>2
    <3>2. \A i \in DOMAIN rows : M[i] \in S /\ M[i].id = rows[i].id
      BY <1>1, <1>2, <3>1
    <3>3. M \in Seq(S)
      BY <1>2, <1>5, <2>2, <3>1, <3>2
    <3>4. EachOnce(M) /\ RowIds(M) = RowIds(rows)
      BY <1>2, <3>1, <3>2 DEF EachOnce, RowIds
    <3> QED
      BY <1>9, <2>2, <3>1, <3>3, <3>4
  <2> QED
    BY <2>1, <2>2
<1> QED
  BY <1>10, <1>11 DEF M, P

\* A removal takes what the id held.
LEMMA FilledRemove ==
    ASSUME NEW ns, NEW rows, NEW held, Filled(ns, rows, held), NEW id \in RowsOf(ns)
    PROVE  Filled(ns, Without(rows, id), [held EXCEPT ![id] = NoRecord])
<1> DEFINE held1 == [held EXCEPT ![id] = NoRecord]
           S == StoreRow(ns)
           W == Without(rows, id)
<1>1. /\ rows \in Seq(S) /\ EachOnce(rows) /\ DOMAIN held = RowsOf(ns)
      /\ \A i \in DOMAIN rows : rows[i] = Encode(ns, rows[i].id, held[rows[i].id])
      /\ \A x \in RowsOf(ns) : held[x] = NoRecord <=> x \notin RowIds(rows)
      /\ RowIds(rows) \subseteq RowsOf(ns)
  BY FilledIds DEF Filled
<1>2. /\ W \in Seq(S) /\ EachOnce(W) /\ RowIds(W) = RowIds(rows) \ {id}
      /\ \A i \in DOMAIN W : \E j \in DOMAIN rows : W[i] = rows[j]
  BY <1>1, WithoutIs
<1>3. /\ DOMAIN held1 = RowsOf(ns) /\ held1[id] = NoRecord
      /\ \A x \in RowsOf(ns) \ {id} : held1[x] = held[x]
  BY <1>1
<1> HIDE DEF held1, S, W
<1>4. \A i \in DOMAIN W : W[i] = Encode(ns, W[i].id, held1[W[i].id])
  <2> SUFFICES ASSUME NEW i \in DOMAIN W
               PROVE  W[i] = Encode(ns, W[i].id, held1[W[i].id])
    OBVIOUS
  <2>1. W[i].id \in RowsOf(ns) \ {id}
    BY <1>1, <1>2 DEF RowIds
  <2> QED
    BY <1>1, <1>2, <1>3, <2>1
<1>5. \A x \in RowsOf(ns) : held1[x] = NoRecord <=> x \notin RowIds(W)
  BY <1>1, <1>2, <1>3
<1> QED
  BY <1>2, <1>3, <1>4, <1>5 DEF Filled, S, W, held1

\* A start adds the rows of the seed that are missing, and no other.
LEMMA FilledMany ==
    ASSUME NEW ns \in References, StoreAssumption, NEW rows, NEW held, Filled(ns, rows, held)
    PROVE  LET more == PostgresPutMany(rows, SeedRows(ns))
           IN  /\ Filled(ns, more, [id \in SeedIds |-> IF held[id] = NoRecord THEN "seed" ELSE held[id]])
               /\ RowIds(more) = SeedIds
<1> DEFINE held1 == [id \in SeedIds |-> IF held[id] = NoRecord THEN "seed" ELSE held[id]]
           S == StoreRow(ns)
           seed == SeedRows(ns)
           Unfilled == {k \in DOMAIN seed : seed[k].id \notin RowIds(rows)}
           Added == {seed[i] : i \in Unfilled}
           T == SeedIds \ RowIds(rows)
           added == SetToSeq(Added)
<1>1. /\ rows \in Seq(S) /\ EachOnce(rows) /\ RowsOf(ns) = SeedIds
      /\ \A i \in DOMAIN rows : rows[i] = Encode(ns, rows[i].id, held[rows[i].id])
      /\ \A x \in SeedIds : held[x] = NoRecord <=> x \notin RowIds(rows)
      /\ RowIds(rows) \subseteq SeedIds
  BY FilledIds DEF Filled, StoreAssumption, References, RowsOf
<1>2. Filled(ns, seed, Seeded(ns)) /\ RowIds(seed) = SeedIds
  BY FilledSeed
<1>3. \A i \in DOMAIN seed : /\ seed[i].id \in SeedIds /\ seed[i] \in S
                             /\ seed[i] = Encode(ns, seed[i].id, "seed")
  BY <1>2 DEF Filled, RowIds, Seeded
<1>4. PostgresPutMany(rows, seed) = rows \o added
  BY DEF PostgresPutMany
<1> HIDE DEF seed
<1>5. Added \subseteq S /\ \A row \in Added : row = Encode(ns, row.id, "seed") /\ row.id \in T
  BY <1>3
<1>6. \A id \in T : \E row \in Added : row.id = id
  BY <1>2 DEF RowIds
<1>7. IsFiniteSet(Added)
  <2> DEFINE f == [id \in T |-> Encode(ns, id, "seed")]
  <2>1. IsFiniteSet(T)
    BY FS_Subset DEF StoreAssumption
  <2>2. \A id \in T : Encode(ns, id, "seed") \in Added
    BY <1>5, <1>6
  <2> HIDE DEF T, Added
  <2>3. f \in [T -> Added]
    BY <2>2
  <2>4. \A row \in Added : row.id \in T /\ f[row.id] = row
    BY <1>5
  <2> HIDE DEF f
  <2>5. f \in Surjection(T, Added)
    BY <2>3, <2>4 DEF Surjection
  <2> QED
    BY <2>1, <2>5, FS_Surjection
<1> HIDE DEF Added
<1>8. /\ added \in Seq(Added) /\ DOMAIN added = 1..Len(added)
      /\ \A i, j \in DOMAIN added : added[i] = added[j] => i = j
      /\ \A x \in Added : \E i \in DOMAIN added : added[i] = x
  BY <1>7, SequenceOf
<1> HIDE DEF added
<1>9. \A i \in DOMAIN added : added[i] \in Added
  BY <1>8
<1>10. added \in Seq(S)
  BY <1>5, <1>8, <1>9
<1>11. EachOnce(added)
  BY <1>5, <1>8, <1>9 DEF EachOnce
<1>12. RowIds(added) = T
  <2>1. RowIds(added) \subseteq T
    BY <1>5, <1>9 DEF RowIds
  <2>2. T \subseteq RowIds(added)
    BY <1>6, <1>8 DEF RowIds
  <2> QED
    BY <2>1, <2>2
<1> DEFINE all == rows \o added
<1>13. RowIds(rows) \cap RowIds(added) = {}
  BY <1>12
<1>14. /\ all \in Seq(S) /\ EachOnce(all) /\ RowIds(all) = RowIds(rows) \cup RowIds(added)
       /\ \A i \in DOMAIN all : \/ \E j \in DOMAIN rows : all[i] = rows[j]
                               \/ \E j \in DOMAIN added : all[i] = added[j]
  BY <1>1, <1>10, <1>11, <1>13, ConcatIs
<1> HIDE DEF all
<1>15. RowIds(all) = SeedIds
  BY <1>1, <1>12, <1>14
<1>16. /\ DOMAIN held1 = SeedIds
       /\ \A x \in RowIds(rows) : held1[x] = held[x]
       /\ \A x \in T : held1[x] = "seed"
       /\ \A x \in SeedIds : held1[x] # NoRecord
  BY <1>1 DEF NoRecord
<1> HIDE DEF held1, T
<1>17. \A j \in DOMAIN rows : rows[j] = Encode(ns, rows[j].id, held1[rows[j].id])
  BY <1>1, <1>16 DEF RowIds
<1>18. \A j \in DOMAIN added : added[j] = Encode(ns, added[j].id, held1[added[j].id])
  BY <1>5, <1>9, <1>16
<1>19. \A i \in DOMAIN all : all[i] = Encode(ns, all[i].id, held1[all[i].id])
  BY <1>14, <1>17, <1>18
<1>20. Filled(ns, all, held1)
  BY <1>1, <1>14, <1>15, <1>16, <1>19 DEF Filled, S
<1> QED
  BY <1>4, <1>15, <1>20 DEF all, held1, seed

-------------------------------------------------------------------------------
(* The record storage. *)

\* All that the seed has in a collection is there.
Full(ns) == RowIds(stored[ns]) = SeedIds

\* An instance that seeds has put all collections before the one it is at.
StoreRequest(r) ==
    req[r] # Idle =>
        /\ req[r].on = "seed" /\ req[r].at \in {"count", "put_seed"}
        /\ At(r, "put_seed") =>
               /\ "todo" \in DOMAIN req[r] /\ req[r].todo \in 1..Len(Reference)
               /\ \A i \in 1..(req[r].todo - 1) : Full(Reference[i])

\* Until an instance died: when one has started, or a row of the reference data is there,
\* all of it is or an instance is at putting it.
SeedIsPut ==
    "seed" \notin faulted /\ (serving \/ \E ns \in References : stored[ns] # <<>>) =>
        (\A ns \in References : Full(ns)) \/ \E r \in Request : At(r, "put_seed")

StoreInv ==
    /\ DOMAIN stored = Collection /\ DOMAIN promised = Collection
    /\ storageDriver \in {"memory", "postgres"}
    /\ \A ns \in Collection : Filled(ns, stored[ns], promised[ns])
    /\ scenario # "store" => ~serving
    /\ scenario = "store" => RequestInv /\ (\A r \in Request : StoreRequest(r)) /\ SeedIsPut

\* The invariant says what the port promises.
LEMMA StoreIsKept == StoreAssumption /\ StoreInv => StoreHolds
<1> SUFFICES ASSUME StoreAssumption, StoreInv PROVE StoreHolds
  OBVIOUS
<1>1. ASSUME NEW ns \in Collection
      PROVE  /\ \A i, j \in DOMAIN stored[ns] : stored[ns][i].id = stored[ns][j].id => i = j
             /\ \A id \in RowsOf(ns) : Read(ns, id) = promised[ns][id]
  <2>1. Filled(ns, stored[ns], promised[ns])
    BY DEF StoreInv
  <2> QED
    BY <2>1, FilledReads DEF Filled, EachOnce, Read
<1>2. ASSUME serving, "seed" \notin faulted, \A r \in Request : req[r] = Idle
      PROVE  \A ns \in Collection \ {"document"} : RowIds(stored[ns]) = SeedIds
  <2>1. SeedIsPut
    BY <1>2 DEF StoreInv
  <2>2. \A r \in Request : ~At(r, "put_seed")
    BY <1>2 DEF At, Idle
  <2>3. \A ns \in Collection \ {"document"} : ns \in References
    BY DEF Collection, References
  <2> QED
    BY <1>2, <2>1, <2>2, <2>3 DEF SeedIsPut, Full
<1> QED
  BY <1>1, <1>2 DEF StoreHolds

\* The initial states satisfy the invariant of the storage.
LEMMA StoreStart == ServicesInit => StoreInv
<1> SUFFICES ASSUME ServicesInit PROVE StoreInv
  OBVIOUS
<1>1. StoreInit /\ RequestsInit
  BY DEF ServicesInit
<1>2. RequestInv /\ \A r \in Request : req[r] = Idle
  BY <1>1, RequestsStart
<1>3. /\ stored = [ns \in Collection |-> <<>>]
      /\ promised = [ns \in Collection |-> [id \in RowsOf(ns) |-> NoRecord]]
      /\ storageDriver \in {"memory", "postgres"} /\ serving = FALSE
  BY <1>1 DEF StoreInit
<1>4. \A ns \in Collection : Filled(ns, stored[ns], promised[ns])
  BY <1>3, FilledEmpty
<1>5. References \subseteq Collection
  BY DEF Collection, References
<1>6. SeedIsPut
  BY <1>3, <1>5 DEF SeedIsPut
<1> QED
  BY <1>2, <1>3, <1>4, <1>6 DEF StoreInv, StoreRequest

\* The rows of one collection as a step leaves them.
LEMMA FilledAfter ==
    ASSUME storageDriver' = storageDriver, NEW ns, NEW rows, NEW held,
           stored'[ns] = rows, promised'[ns] = held, Filled(ns, rows, held)
    PROVE  Filled(ns, stored[ns], promised[ns])'
<1>1. \A id, value : Encode(ns, id, value)' = Encode(ns, id, value)
  BY DEF Encode
<1>2. StoreRow(ns)' = StoreRow(ns)
  BY <1>1 DEF StoreRow
<1>3. \A i \in DOMAIN rows :
          Encode(ns, rows[i].id, held[rows[i].id])' = Encode(ns, rows[i].id, held[rows[i].id])
  BY <1>1
<1> HIDE DEF Encode
<1> QED
  BY <1>2, <1>3 DEF Filled

\* Every step of the storage keeps it.
LEMMA StoreMoves ==
    ASSUME StoreAssumption, StoreInv, scenario = "store", scenario' = scenario, StoreNext
    PROVE  StoreInv'
<1> USE DEF StoreInv
<1>1. /\ RequestInv /\ \A r \in Request : StoreRequest(r)
      /\ References \subseteq Collection /\ "document" \in Collection
      /\ \A ns \in References : ns # "document" /\ RowsOf(ns) = SeedIds
      /\ \A ns \in Collection : ns \in References \/ ns = "document"
      /\ \A i \in 1..Len(Reference) : Reference[i] \in References
      /\ \A ns \in References : \E i \in 1..Len(Reference) : ns = Reference[i]
      /\ RowsOf("document") = RecordIds /\ Len(Reference) \in Nat \ {0}
  BY DEF Collection, References, RowsOf, StoreAssumption
\* Enough to know: no row of the reference data goes.
<1>2. ASSUME DOMAIN stored' = Collection, DOMAIN promised' = Collection,
             storageDriver' = storageDriver,
             \A ns \in Collection : Filled(ns, stored'[ns], promised'[ns]),
             RequestInv', \A r \in Request : StoreRequest(r)', SeedIsPut'
      PROVE  StoreInv'
  <2>1. \A ns \in Collection : Filled(ns, stored[ns], promised[ns])'
    BY <1>2, FilledAfter
  <2> QED
    BY <1>2, <2>1
<1>3. ASSUME NEW ns \in Collection, NEW rows, NEW held, Filled(ns, rows, held),
             stored' = [stored EXCEPT ![ns] = rows], promised' = [promised EXCEPT ![ns] = held]
      PROVE  /\ DOMAIN stored' = Collection /\ DOMAIN promised' = Collection
             /\ \A m \in Collection : Filled(m, stored'[m], promised'[m])
             /\ \A m \in Collection \ {ns} : stored'[m] = stored[m]
             /\ stored'[ns] = rows
  BY <1>3
<1>4. ASSUME NEW ns \in References, stored'[ns] = stored[ns] PROVE Full(ns)' = Full(ns)
  BY <1>4 DEF Full
\* A call done in one step.
<1>5. ASSUME NEW r \in Request, NEW x, Single(r, x),
             \A ns \in References : Full(ns) => Full(ns)'
      PROVE  RequestInv' /\ req' = req /\ faulted' = faulted /\ \A q \in Request : StoreRequest(q)'
  <2>1. RequestInv' /\ req' = req /\ faulted' = faulted
    BY <1>1, <1>5, RequestsSingle DEF Single
  <2>2. ASSUME NEW q \in Request PROVE StoreRequest(q)'
    BY <1>1, <1>5, <2>1 DEF StoreRequest, At
  <2> QED
    BY <2>1, <2>2
<1>6. ASSUME NEW r \in Request, StartInMemory(r) PROVE StoreInv'
  <2>1. /\ Single(r, "seed") /\ storageDriver' = storageDriver
        /\ stored' = [ns \in Collection |-> IF ns = "document" THEN <<>> ELSE SeedRows(ns)]
        /\ promised' = [ns \in Collection |->
                           IF ns = "document" THEN [id \in RecordIds |-> NoRecord] ELSE Seeded(ns)]
    BY <1>6 DEF StartInMemory
  <2>2. \A ns \in References : /\ stored'[ns] = SeedRows(ns) /\ promised'[ns] = Seeded(ns)
                              /\ Filled(ns, SeedRows(ns), Seeded(ns))
                              /\ RowIds(SeedRows(ns)) = SeedIds
    BY <1>1, <2>1, FilledSeed
  <2>3. Filled("document", stored'["document"], promised'["document"])
    BY <1>1, <2>1, FilledEmpty
  <2>4. \A ns \in References : Full(ns)'
    BY <2>2 DEF Full
  <2>5. \A ns \in Collection : Filled(ns, stored'[ns], promised'[ns])
    BY <1>1, <2>2, <2>3
  <2> QED
    BY <1>2, <1>5, <2>1, <2>4, <2>5 DEF SeedIsPut
<1>7. ASSUME NEW r \in Request, Connect(r) PROVE StoreInv'
  <2>1. Begin(r, "seed", [at |-> "count"]) /\ UNCHANGED storeVars
    BY <1>7 DEF Connect
  <2>2. /\ req'[r] = With([at |-> "count"], [on |-> "seed"]) /\ req[r] = Idle /\ faulted' = faulted
        /\ \A q \in Request \ {r} : req'[q] = req[q]
    BY <1>1, <2>1, BeginWrites
  <2>3. {"at", "on"} \subseteq DOMAIN req'[r] /\ req'[r].at = "count" /\ req'[r].on = "seed"
    BY <2>2 DEF With
  <2>4. RequestInv'
    BY <1>1, <2>1, <2>3, BeginKeeps
  <2>5. \A ns \in References : Full(ns)' = Full(ns)
    BY <1>4, <2>1 DEF storeVars
  <2>6. ASSUME NEW q \in Request PROVE StoreRequest(q)'
    BY <1>1, <2>2, <2>3, <2>5 DEF StoreRequest, At
  <2>7. SeedIsPut'
    <3>1. \A q \in Request : At(q, "put_seed") => At(q, "put_seed")'
      BY <2>2 DEF At, Idle
    <3> QED
      BY <2>1, <2>2, <2>5, <3>1 DEF SeedIsPut, storeVars
  <2> QED
    BY <1>2, <2>1, <2>4, <2>6, <2>7 DEF storeVars
<1>8. ASSUME NEW r \in Request, Reset(r) PROVE StoreInv'
  <2>1. /\ Single(r, "document") /\ storageDriver' = storageDriver /\ serving' = serving
        /\ stored' = [stored EXCEPT !["document"] = <<>>]
        /\ promised' = [promised EXCEPT !["document"] = [id \in RecordIds |-> NoRecord]]
    BY <1>8 DEF Reset
  <2>2. Filled("document", <<>>, [id \in RecordIds |-> NoRecord])
    BY <1>1, FilledEmpty
  <2>3. /\ DOMAIN stored' = Collection /\ DOMAIN promised' = Collection
        /\ \A m \in Collection : Filled(m, stored'[m], promised'[m])
        /\ \A m \in Collection \ {"document"} : stored'[m] = stored[m]
    BY <1>1, <1>3, <2>1, <2>2
  <2>4. \A ns \in References : stored'[ns] = stored[ns] /\ Full(ns)' = Full(ns)
    BY <1>1, <1>4, <2>3
  <2>5. req' = req /\ faulted' = faulted /\ RequestInv' /\ \A q \in Request : StoreRequest(q)'
    BY <1>5, <2>1, <2>4
  <2>6. SeedIsPut'
    BY <2>1, <2>4, <2>5 DEF SeedIsPut, At
  <2> QED
    BY <1>2, <2>1, <2>3, <2>5, <2>6
<1>9. ASSUME NEW r \in Request, NEW ns \in Collection, NEW id \in RowsOf(ns), NEW value \in Values,
             PutRecord(r, ns, id, value)
      PROVE  StoreInv'
  <2> DEFINE row == Encode(ns, id, value)
             held1 == [promised[ns] EXCEPT ![id] = value]
  <2>1. /\ Single(r, id) /\ storageDriver' = storageDriver /\ serving' = serving /\ serving
        /\ stored' = [stored EXCEPT ![ns] = IF storageDriver = "memory" THEN MemoryPut(stored[ns], row)
                                            ELSE PostgresPut(stored[ns], row)]
        /\ promised' = [promised EXCEPT ![ns] = held1]
    BY <1>9 DEF PutRecord
  <2>2. PICK rows : /\ stored' = [stored EXCEPT ![ns] = rows] /\ Filled(ns, rows, held1)
                    /\ RowIds(rows) = RowIds(stored[ns]) \cup {id}
    <3>1. Filled(ns, stored[ns], promised[ns])
      OBVIOUS
    <3>2. PICK rows : /\ rows = MemoryPut(stored[ns], row) \/ rows = PostgresPut(stored[ns], row)
                      /\ stored' = [stored EXCEPT ![ns] = rows]
      BY <2>1
    <3>3. row = Encode(ns, id, value) /\ held1 = [promised[ns] EXCEPT ![id] = value]
      OBVIOUS
    <3> HIDE DEF row, held1
    <3>4. Filled(ns, rows, held1) /\ RowIds(rows) = RowIds(stored[ns]) \cup {id}
      BY ONLY <3>1, <3>2, <3>3, FilledPut, id \in RowsOf(ns), value \in Values
    <3> QED
      BY <3>2, <3>4
  <2> HIDE DEF row, held1
  <2>3. /\ DOMAIN stored' = Collection /\ DOMAIN promised' = Collection
        /\ \A m \in Collection : Filled(m, stored'[m], promised'[m])
        /\ \A m \in Collection \ {ns} : stored'[m] = stored[m]
        /\ stored'[ns] = rows
    BY <1>3, <2>1, <2>2
  <2>4. ASSUME NEW m \in References, Full(m) PROVE Full(m)'
    <3>1. CASE m # ns
      BY <1>1, <1>4, <2>3, <2>4, <3>1
    <3>2. CASE m = ns
      <4>1. RowIds(rows) = SeedIds
        BY <1>1, <2>2, <2>4, <3>2 DEF Full
      <4> QED
        BY <2>3, <3>2, <4>1 DEF Full
    <3> QED
      BY <3>1, <3>2
  <2>5. req' = req /\ faulted' = faulted /\ RequestInv' /\ \A q \in Request : StoreRequest(q)'
    BY <1>5, <2>1, <2>4
  <2>6. SeedIsPut'
    BY <2>1, <2>4, <2>5 DEF SeedIsPut, At
  <2> QED
    BY <1>2, <2>1, <2>3, <2>5, <2>6
<1>10. ASSUME NEW r \in Request, NEW id \in RowsOf("document"), RemoveRecord(r, "document", id)
      PROVE  StoreInv'
  <2> DEFINE held1 == [promised["document"] EXCEPT ![id] = NoRecord]
             rows == Without(stored["document"], id)
  <2>1. /\ Single(r, id) /\ storageDriver' = storageDriver /\ serving' = serving
        /\ stored' = [stored EXCEPT !["document"] = rows]
        /\ promised' = [promised EXCEPT !["document"] = held1]
    BY <1>10 DEF RemoveRecord
  <2>2. Filled("document", rows, held1)
    BY <1>1, FilledRemove
  <2> HIDE DEF rows, held1
  <2>3. /\ DOMAIN stored' = Collection /\ DOMAIN promised' = Collection
        /\ \A m \in Collection : Filled(m, stored'[m], promised'[m])
        /\ \A m \in Collection \ {"document"} : stored'[m] = stored[m]
    BY <1>1, <1>3, <2>1, <2>2
  <2>4. \A m \in References : stored'[m] = stored[m] /\ Full(m)' = Full(m)
    BY <1>1, <1>4, <2>3
  <2>5. req' = req /\ faulted' = faulted /\ RequestInv' /\ \A q \in Request : StoreRequest(q)'
    BY <1>5, <2>1, <2>4
  <2>6. SeedIsPut'
    BY <2>1, <2>4, <2>5 DEF SeedIsPut, At
  <2> QED
    BY <1>2, <2>1, <2>3, <2>5, <2>6
<1>11. ASSUME NEW r \in Request, CountSeed(r) PROVE StoreInv'
  <2>1. /\ At(r, "count") /\ req[r] # Idle
        /\ storageDriver' = storageDriver /\ stored' = stored /\ promised' = promised
    BY <1>11, AtIsBusy DEF CountSeed
  <2>2. \A ns \in References : Full(ns)' = Full(ns)
    BY <1>4, <2>1
  <2>3. ASSUME NEW q \in Request \ {r}, req'[q] = req[q] PROVE StoreRequest(q)'
    BY <1>1, <2>2, <2>3 DEF StoreRequest, At
  <2>4. CASE stored[Reference[1]] # <<>>
    <3>1. Answer(r)
      BY <1>11, <2>4 DEF CountSeed
    <3>2. /\ RequestInv' /\ req'[r] = Idle /\ faulted' = faulted
          /\ \A q \in Request \ {r} : req'[q] = req[q]
      BY <1>1, <2>1, <3>1, RequestsEnd DEF Answer
    <3>3. \A q \in Request : StoreRequest(q)'
      BY <2>3, <3>2 DEF StoreRequest
    <3>4. SeedIsPut'
      <4>1. Reference[1] \in References
        BY <1>1
      <4>2. \A q \in Request : At(q, "put_seed") => At(q, "put_seed")'
        BY <2>1, <3>2 DEF At
      <4> QED
        BY <1>1, <2>1, <2>2, <2>4, <3>2, <4>1, <4>2 DEF SeedIsPut
    <3> QED
      BY <1>2, <2>1, <3>2, <3>3, <3>4
  <2>5. CASE ~(stored[Reference[1]] # <<>>)
    <3>1. Goto(r, [at |-> "put_seed", todo |-> 1])
      BY <1>11, <2>5 DEF CountSeed
    <3>2. /\ req'[r] = With([at |-> "put_seed", todo |-> 1], req[r])
          /\ \A q \in Request \ {r} : req'[q] = req[q]
      BY <1>1, <3>1, GotoWrites
    <3>3. /\ {"at", "on", "todo"} \subseteq DOMAIN req'[r] /\ req'[r].at = "put_seed"
          /\ req'[r].on = req[r].on /\ req'[r].todo = 1
      BY <1>1, <2>1, <3>2 DEF With, RequestInv
    <3>4. RequestInv'
      BY <1>1, <2>1, <3>1, <3>3, GotoKeeps
    <3>5. StoreRequest(r)'
      BY <1>1, <2>1, <3>3 DEF StoreRequest, At
    <3>6. \A q \in Request : StoreRequest(q)'
      BY <2>3, <3>2, <3>5
    <3>7. SeedIsPut'
      BY <3>3 DEF SeedIsPut, At
    <3> QED
      BY <1>2, <2>1, <3>4, <3>6, <3>7
  <2> QED
    BY <2>4, <2>5
<1>12. ASSUME NEW r \in Request, PutSeed(r) PROVE StoreInv'
  <2>1. PICK ns : ns = Reference[req[r].todo]
    OBVIOUS
  <2> DEFINE rows == PostgresPutMany(stored[ns], SeedRows(ns))
             held1 == [id \in SeedIds |-> IF promised[ns][id] = NoRecord THEN "seed"
                                          ELSE promised[ns][id]]
  <2>2. /\ At(r, "put_seed") /\ req[r] # Idle /\ storageDriver' = storageDriver
        /\ stored' = [stored EXCEPT ![ns] = rows]
        /\ promised' = [promised EXCEPT ![ns] = held1]
    BY <1>12, <2>1, AtIsBusy DEF PutSeed
  <2>3. /\ req[r].todo \in 1..Len(Reference) /\ ns \in References /\ req[r].on = "seed"
        /\ "todo" \in DOMAIN req[r] /\ \A i \in 1..(req[r].todo - 1) : Full(Reference[i])
    BY <1>1, <2>1, <2>2 DEF StoreRequest
  <2>4. Filled(ns, rows, held1) /\ RowIds(rows) = SeedIds
    BY <1>1, <2>3, FilledMany
  <2> HIDE DEF rows, held1
  <2>5. /\ DOMAIN stored' = Collection /\ DOMAIN promised' = Collection
        /\ \A m \in Collection : Filled(m, stored'[m], promised'[m])
        /\ \A m \in Collection \ {ns} : stored'[m] = stored[m]
        /\ stored'[ns] = rows
    BY <1>1, <1>3, <2>2, <2>3, <2>4
  <2>6. /\ Full(ns)' /\ \A m \in References : Full(m) => Full(m)'
    <3>1. Full(ns)'
      BY <2>4, <2>5 DEF Full
    <3>2. ASSUME NEW m \in References, Full(m) PROVE Full(m)'
      BY <1>1, <1>4, <2>5, <3>1, <3>2
    <3> QED
      BY <3>1, <3>2
  <2>7. ASSUME NEW q \in Request \ {r}, req'[q] = req[q] PROVE StoreRequest(q)'
    BY <1>1, <2>6, <2>7 DEF StoreRequest, At
  <2>8. CASE req[r].todo = Len(Reference)
    <3>1. Answer(r)
      BY <1>12, <2>8 DEF PutSeed
    <3>2. /\ RequestInv' /\ req'[r] = Idle
          /\ \A q \in Request \ {r} : req'[q] = req[q]
      BY <1>1, <2>2, <3>1, RequestsEnd
    <3>3. \A q \in Request : StoreRequest(q)'
      BY <2>7, <3>2 DEF StoreRequest
    <3>4. ASSUME NEW m \in References PROVE Full(m)'
      <4>1. PICK i \in 1..Len(Reference) : m = Reference[i]
        BY <1>1
      <4>2. i = req[r].todo \/ i \in 1..(req[r].todo - 1)
        BY <1>1, <2>8
      <4> QED
        BY <2>1, <2>3, <2>6, <4>1, <4>2
    <3>5. SeedIsPut'
      BY <3>4 DEF SeedIsPut
    <3> QED
      BY <1>2, <2>2, <2>5, <3>2, <3>3, <3>5
  <2>9. CASE req[r].todo # Len(Reference)
    <3> DEFINE n == req[r].todo + 1
    <3>1. Goto(r, [todo |-> n])
      BY <1>12, <2>9 DEF PutSeed
    <3>2. /\ req'[r] = With([todo |-> n], req[r])
          /\ \A q \in Request \ {r} : req'[q] = req[q]
      BY <1>1, <3>1, GotoWrites
    <3>3. /\ {"at", "on", "todo"} \subseteq DOMAIN req'[r] /\ req'[r].at = "put_seed"
          /\ req'[r].on = "seed" /\ req'[r].todo = n
      BY <1>1, <2>2, <2>3, <3>2 DEF With, RequestInv, At
    <3>4. RequestInv'
      BY <1>1, <2>2, <2>3, <3>1, <3>3, GotoKeeps
    <3>5. n \in 1..Len(Reference) /\ \A i \in 1..(n - 1) : i = req[r].todo \/ i \in 1..(req[r].todo - 1)
      BY <1>1, <2>3, <2>9
    <3>6. \A i \in 1..(n - 1) : Full(Reference[i])'
      <4> TAKE i \in 1..(n - 1)
      <4>1. CASE i = req[r].todo
        BY <2>1, <2>6, <4>1
      <4>2. CASE i \in 1..(req[r].todo - 1)
        <5>1. Full(Reference[i]) /\ i \in 1..Len(Reference)
          BY <2>3, <4>2
        <5> QED
          BY <1>1, <2>6, <5>1
      <4> QED
        BY <3>5, <4>1, <4>2
    <3> HIDE DEF n
    <3>7. StoreRequest(r)'
      BY <3>3, <3>5, <3>6 DEF StoreRequest
    <3>8. \A q \in Request : StoreRequest(q)'
      BY <2>7, <3>2, <3>7
    <3>9. SeedIsPut'
      BY <3>3 DEF SeedIsPut, At
    <3> QED
      BY <1>2, <2>2, <2>5, <3>4, <3>8, <3>9
  <2> QED
    BY <2>8, <2>9
<1> QED
  BY <1>6, <1>7, <1>8, <1>9, <1>10, <1>11, <1>12 DEF StoreNext, StoreStep, StoreCall, Values

\* The invariant of the storage holds in every state.
LEMMA StoreInvStep == StoreAssumption /\ StoreInv /\ [ServicesNext]_vars => StoreInv'
<1> SUFFICES ASSUME StoreAssumption, StoreInv, [ServicesNext]_vars PROVE StoreInv'
  OBVIOUS
<1>1. /\ scenario' = scenario
      /\ \/ scenario = "store" /\ StoreNext
         \/ (\E r \in Request : Dies(r)) /\ UNCHANGED storeVars
         \/ UNCHANGED requestVars /\ UNCHANGED storeVars
         \/ scenario # "store" /\ UNCHANGED storeVars
  BY DEF ServicesNext, Move, Publish, Apply, Oversee, Account, Prepare, SignIn, Settle,
         TrackJourneys, Keep, Persist, Synchronize, Only, Die, vars
\* The rows are as they were.
<1>2. ASSUME UNCHANGED storeVars
      PROVE  /\ DOMAIN stored' = Collection /\ DOMAIN promised' = Collection
             /\ storageDriver' \in {"memory", "postgres"} /\ serving' = serving
             /\ \A ns \in Collection : Filled(ns, stored[ns], promised[ns])'
             /\ \A ns : Full(ns)' = Full(ns)
  <2>1. stored' = stored /\ promised' = promised /\ storageDriver' = storageDriver /\ serving' = serving
    BY <1>2 DEF storeVars
  <2>2. \A ns \in Collection : Filled(ns, stored[ns], promised[ns])'
    BY <2>1, FilledAfter DEF StoreInv
  <2> QED
    BY <2>1, <2>2 DEF StoreInv, Full
<1>3. ASSUME scenario = "store", NEW r \in Request, Dies(r), UNCHANGED storeVars
      PROVE  StoreInv'
  <2>1. /\ RequestInv' /\ req'[r] = Idle
        /\ \A q \in Request \ {r} : req'[q] = req[q]
    BY <1>3, RequestsEnd DEF StoreInv
  <2>2. "seed" \in faulted'
    BY <1>3 DEF Dies, StoreInv, StoreRequest
  <2>3. \A q \in Request : StoreRequest(q)'
    BY <1>2, <1>3, <2>1 DEF StoreInv, StoreRequest, At
  <2> QED
    BY <1>1, <1>2, <1>3, <2>1, <2>2, <2>3 DEF StoreInv, SeedIsPut
<1>4. CASE UNCHANGED requestVars /\ UNCHANGED storeVars
  <2>1. req' = req /\ contested' = contested /\ faulted' = faulted /\ stored' = stored
    BY <1>4 DEF requestVars, storeVars
  <2> QED
    BY <1>1, <1>2, <1>4, <2>1 DEF StoreInv, StoreRequest, SeedIsPut, RequestInv, At
<1>5. CASE scenario # "store" /\ UNCHANGED storeVars
  BY <1>1, <1>2, <1>5 DEF StoreInv
<1> QED
  BY <1>1, <1>3, <1>4, <1>5, StoreMoves
===============================================================================

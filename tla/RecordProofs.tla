----------------------------- MODULE RecordProofs -----------------------------
(***************************************************************************)
(* Proofs about the records that users keep: their account at the web app, *)
(* the direction and the journeys of their workspace, their documents, and *)
(* the migration passport; and the types of the records of all services.   *)
(***************************************************************************)
EXTENDS SupplyProofs

-------------------------------------------------------------------------------
(* Sign-in at the web app. *)

\* The account a request would give its subject is no one's yet, and no other request
\* would give it; one that reads the link again finds it.
IdentityRequest(r) ==
    req[r] # Idle =>
        /\ req[r].on \in ProviderSubjects
        /\ req[r].at \in {"insert_link", "reread_link"}
        /\ At(r, "insert_link") =>
               /\ "mine" \in DOMAIN req[r] /\ req[r].mine \in WebAccounts
               /\ \A s \in ProviderSubjects : link[s] # req[r].mine
               /\ \A q \in Request : q # r /\ At(q, "insert_link") => req[q].mine # req[r].mine
        /\ At(r, "reread_link") => Linked(req[r].on)

IdentityInv ==
    /\ link \in [ProviderSubjects -> WebAccounts \cup {Unlinked}]
    /\ \A h \in resolved : h.subject \in ProviderSubjects /\ Linked(h.subject)
    /\ SubjectKeepsAccount
    /\ scenario = "sign_in" => RequestInv /\ \A r \in Request : IdentityRequest(r)

\* The initial states satisfy the invariant of the sign-in.
LEMMA IdentityStart == ServicesInit => IdentityInv
<1> SUFFICES ASSUME ServicesInit PROVE IdentityInv
  OBVIOUS
<1>1. IdentityInit /\ RequestsInit
  BY DEF ServicesInit
<1>2. RequestInv /\ \A r \in Request : req[r] = Idle
  BY <1>1, RequestsStart
<1> QED
  BY <1>1, <1>2 DEF IdentityInit, IdentityInv, SubjectKeepsAccount, Linked, Unlinked, IdentityRequest

\* A new link of a subject without one is its own, and is not taken back.
LEMMA LinkAdded ==
    ASSUME IdentityInv, NEW s \in ProviderSubjects, ~Linked(s), NEW a \in WebAccounts,
           \A t \in ProviderSubjects : link[t] # a,
           driver = "postgres" =>
               \A t \in ProviderSubjects : Linked(t) => EmailOf[t] # EmailOf[s],
           link' = [link EXCEPT ![s] = a], driver' = driver,
           resolved' = resolved \/ Hand(s, a)
    PROVE  /\ link' \in [ProviderSubjects -> WebAccounts \cup {Unlinked}] /\ Linked(s)'
           /\ \A t \in ProviderSubjects : Linked(t) => Linked(t)'
           /\ \A h \in resolved' : h.subject \in ProviderSubjects /\ Linked(h.subject)'
           /\ SubjectKeepsAccount'
<1>1. a # Unlinked
  BY WebIdentityAssumption DEF Unlinked
<1>2. /\ link' \in [ProviderSubjects -> WebAccounts \cup {Unlinked}] /\ link'[s] = a
      /\ \A t \in ProviderSubjects \ {s} : link'[t] = link[t]
  BY DEF IdentityInv
<1>3. Linked(s)' /\ \A t \in ProviderSubjects \ {s} : Linked(t)' <=> Linked(t)
  BY <1>1, <1>2 DEF Linked
<1>4. \A h \in resolved : h.subject \in ProviderSubjects \ {s} /\ link[h.subject] = h.account
                          /\ Linked(h.subject)
  BY DEF IdentityInv, SubjectKeepsAccount
<1>5. \A h \in resolved' : h.subject \in ProviderSubjects /\ link'[h.subject] = h.account
                           /\ Linked(h.subject)'
  BY <1>2, <1>3, <1>4 DEF Hand
<1>6. \A t, u \in ProviderSubjects :
          t # u /\ Linked(t)' /\ Linked(u)' =>
              link'[t] # link'[u] /\ (driver' = "postgres" => EmailOf[t] # EmailOf[u])
  BY <1>2, <1>3 DEF IdentityInv, SubjectKeepsAccount
<1> QED
  BY <1>2, <1>3, <1>5, <1>6 DEF SubjectKeepsAccount

\* Every step of the sign-in keeps it.
LEMMA IdentityMoves ==
    ASSUME IdentityInv, scenario = "sign_in", scenario' = scenario, IdentityNext
    PROVE  IdentityInv'
<1>1. RequestInv /\ \A r \in Request : IdentityRequest(r)
  BY DEF IdentityInv
<1>2. ASSUME NEW r \in Request, NEW s \in ProviderSubjects, ResolveKnown(r, s)
      PROVE  IdentityInv'
  <2>1. Linked(s) /\ Hand(s, link[s]) /\ Single(r, s) /\ UNCHANGED <<driver, link>>
    BY <1>2 DEF ResolveKnown
  <2>2. RequestInv' /\ req' = req
    BY <1>1, <2>1, RequestsSingle
  <2>3. \A q \in Request : IdentityRequest(q)'
    BY <1>1, <2>1, <2>2 DEF IdentityRequest, At, Linked
  <2> QED
    BY <2>1, <2>2, <2>3 DEF IdentityInv, SubjectKeepsAccount, Hand, Linked
<1>3. ASSUME NEW r \in Request, NEW s \in ProviderSubjects, ResolveUnknown(r, s)
      PROVE  IdentityInv'
  <2>1. PICK a \in FreshAccounts : Begin(r, s, [at |-> "insert_link", mine |-> a])
    BY <1>3 DEF ResolveUnknown
  <2>2. UNCHANGED identityVars
    BY <1>3 DEF ResolveUnknown
  <2>3. /\ a \in WebAccounts /\ \A t \in ProviderSubjects : link[t] # a
        /\ \A q \in Request : At(q, "insert_link") => req[q].mine # a
    BY DEF FreshAccounts
  <2>4. /\ req'[r] = With([at |-> "insert_link", mine |-> a], [on |-> s])
        /\ \A q \in Request \ {r} : req'[q] = req[q]
    BY <1>1, <2>1, BeginWrites
  <2>5. /\ {"at", "on"} \subseteq DOMAIN req'[r] /\ req'[r].at = "insert_link"
        /\ req'[r].on = s /\ "mine" \in DOMAIN req'[r] /\ req'[r].mine = a
    BY <2>4 DEF With
  <2>6. RequestInv'
    BY <1>1, <2>1, <2>5, BeginKeeps
  <2>7. \A q \in Request : IdentityRequest(q)'
    BY <1>1, <2>2, <2>3, <2>4, <2>5 DEF IdentityRequest, At, Linked, Idle, identityVars
  <2> QED
    BY <2>2, <2>6, <2>7 DEF IdentityInv, SubjectKeepsAccount, Linked, identityVars
<1>4. ASSUME NEW r \in Request, InsertLink(r) PROVE IdentityInv'
  <2> PICK s, a : s = req[r].on /\ a = req[r].mine
    OBVIOUS
  <2>1. /\ At(r, "insert_link") /\ driver = "d1" /\ UNCHANGED <<driver, resolved>>
        /\ link' = [link EXCEPT ![s] = IF Linked(s) THEN @ ELSE a]
        /\ Goto(r, [at |-> "reread_link"])
    BY <1>4 DEF InsertLink
  <2>2. req[r] # Idle
    BY <2>1, AtIsBusy
  <2>3. /\ s \in ProviderSubjects /\ a \in WebAccounts /\ "on" \in DOMAIN req[r]
        /\ \A t \in ProviderSubjects : link[t] # a
        /\ \A q \in Request : q # r /\ At(q, "insert_link") => req[q].mine # a
    BY <1>1, <2>1, <2>2 DEF IdentityRequest, RequestInv
  <2>4. /\ link' \in [ProviderSubjects -> WebAccounts \cup {Unlinked}] /\ Linked(s)'
        /\ \A t \in ProviderSubjects : Linked(t) => Linked(t)'
        /\ \A h \in resolved' : h.subject \in ProviderSubjects /\ Linked(h.subject)'
        /\ SubjectKeepsAccount'
        /\ \A t \in ProviderSubjects : link'[t] \in {link[t], a}
    <3>1. CASE Linked(s)
      <4>1. link' = link
        BY <2>1, <3>1 DEF IdentityInv
      <4> QED
        BY <2>1, <3>1, <4>1 DEF IdentityInv, SubjectKeepsAccount, Linked
    <3>2. CASE ~Linked(s)
      <4>1. link' = [link EXCEPT ![s] = a]
        BY <2>1, <3>2
      <4>2. \A t \in ProviderSubjects : link'[t] \in {link[t], a}
        BY <4>1 DEF IdentityInv
      <4> QED
        <5>1. driver = "postgres" => \A t \in ProviderSubjects : Linked(t) => EmailOf[t] # EmailOf[s]
          BY <2>1
        <5>2. driver' = driver /\ (resolved' = resolved \/ Hand(s, a))
          BY <2>1
        <5> QED
          BY <2>3, <3>2, <4>1, <4>2, <5>1, <5>2, LinkAdded, ZenonT(60)
    <3> QED
      BY <3>1, <3>2
  <2>5. /\ req'[r] = With([at |-> "reread_link"], req[r])
        /\ \A q \in Request \ {r} : req'[q] = req[q]
    BY <1>1, <2>1, GotoWrites
  <2>6. {"at", "on"} \subseteq DOMAIN req'[r] /\ req'[r].at = "reread_link" /\ req'[r].on = s
    BY <2>3, <2>5 DEF With
  <2>7. RequestInv'
    BY <1>1, <2>1, <2>2, <2>6, GotoKeeps
  <2>8. IdentityRequest(r)'
    BY <2>3, <2>4, <2>6 DEF IdentityRequest, At
  <2>9. \A q \in Request \ {r} : IdentityRequest(q)'
    BY <1>1, <2>3, <2>4, <2>5, <2>6 DEF IdentityRequest, At
  <2> QED
    BY <2>4, <2>7, <2>8, <2>9 DEF IdentityInv
<1>5. ASSUME NEW r \in Request, RereadLink(r) PROVE IdentityInv'
  <2>1. /\ At(r, "reread_link") /\ Hand(req[r].on, link[req[r].on]) /\ Answer(r)
        /\ UNCHANGED <<driver, link>>
    BY <1>5 DEF RereadLink
  <2>2. req[r].on \in ProviderSubjects /\ Linked(req[r].on)
    BY <1>1, <2>1, AtIsBusy DEF IdentityRequest
  <2>3. /\ RequestInv' /\ req'[r] = Idle
        /\ \A q \in Request \ {r} : req'[q] = req[q]
    BY <1>1, <2>1, RequestsEnd
  <2>4. \A q \in Request : IdentityRequest(q)'
    BY <1>1, <2>1, <2>3 DEF IdentityRequest, At, Linked, Idle
  <2> QED
    BY <2>1, <2>2, <2>3, <2>4 DEF IdentityInv, SubjectKeepsAccount, Hand, Linked
<1>6. ASSUME NEW r \in Request, CommitIdentity(r) PROVE IdentityInv'
  <2> PICK s, a : s = req[r].on /\ a = req[r].mine
    OBVIOUS
  <2>1. /\ At(r, "insert_link") /\ driver' = driver /\ Answer(r)
        /\ IF Taken(s) THEN UNCHANGED <<link, resolved>>
           ELSE link' = [link EXCEPT ![s] = a] /\ Hand(s, a)
    BY <1>6 DEF CommitIdentity
  <2>2. /\ s \in ProviderSubjects /\ a \in WebAccounts
        /\ \A t \in ProviderSubjects : link[t] # a
        /\ \A q \in Request : q # r /\ At(q, "insert_link") => req[q].mine # a
    BY <1>1, <2>1, AtIsBusy DEF IdentityRequest
  <2>3. /\ RequestInv' /\ req'[r] = Idle
        /\ \A q \in Request \ {r} : req'[q] = req[q]
    BY <1>1, <2>1, RequestsEnd
  <2>4. /\ link' \in [ProviderSubjects -> WebAccounts \cup {Unlinked}]
        /\ \A t \in ProviderSubjects : Linked(t) => Linked(t)'
        /\ \A h \in resolved' : h.subject \in ProviderSubjects /\ Linked(h.subject)'
        /\ SubjectKeepsAccount'
        /\ \A t \in ProviderSubjects : link'[t] \in {link[t], a}
    <3>1. CASE Taken(s)
      BY <2>1, <3>1 DEF IdentityInv, SubjectKeepsAccount, Linked
    <3>2. CASE ~Taken(s)
      <4>1. /\ link' = [link EXCEPT ![s] = a] /\ Hand(s, a)
            /\ ~Linked(s) /\ \A t \in ProviderSubjects : Linked(t) => EmailOf[t] # EmailOf[s]
        BY <2>1, <3>2 DEF Taken
      <4>2. \A t \in ProviderSubjects : link'[t] \in {link[t], a}
        BY <4>1 DEF IdentityInv
      <4> QED
        <5>1. driver' = driver /\ (resolved' = resolved \/ Hand(s, a))
          BY <2>1, <4>1
        <5> QED
          BY <2>2, <4>1, <4>2, <5>1, LinkAdded, ZenonT(60)
    <3> QED
      BY <3>1, <3>2
  <2>5. \A q \in Request : IdentityRequest(q)'
    BY <1>1, <2>2, <2>3, <2>4 DEF IdentityRequest, At, Idle
  <2> QED
    BY <2>3, <2>4, <2>5 DEF IdentityInv
<1>7. ASSUME NEW r \in Request, NEW s \in ProviderSubjects, UserDeleted(r, s)
      PROVE  IdentityInv'
  <2>1. Single(r, s) /\ UNCHANGED <<driver, link, resolved>>
    BY <1>7 DEF UserDeleted
  <2>2. RequestInv' /\ req' = req
    BY <1>1, <2>1, RequestsSingle
  <2>3. \A q \in Request : IdentityRequest(q)'
    BY <1>1, <2>1, <2>2 DEF IdentityRequest, At, Linked
  <2> QED
    BY <2>1, <2>2, <2>3 DEF IdentityInv, SubjectKeepsAccount, Linked
<1> QED
  BY <1>2, <1>3, <1>4, <1>5, <1>6, <1>7 DEF IdentityNext

\* The invariant of the sign-in holds in every state.
LEMMA IdentityInvStep == IdentityInv /\ [ServicesNext]_vars => IdentityInv'
<1> SUFFICES ASSUME IdentityInv, [ServicesNext]_vars PROVE IdentityInv'
  OBVIOUS
<1>1. /\ scenario' = scenario
      /\ \/ scenario = "sign_in" /\ IdentityNext
         \/ (\E r \in Request : Dies(r)) /\ UNCHANGED identityVars
         \/ UNCHANGED requestVars /\ UNCHANGED identityVars
         \/ scenario # "sign_in" /\ UNCHANGED identityVars
  BY DEF ServicesNext, Move, Publish, Apply, Oversee, Account, Prepare, SignIn, Settle,
         TrackJourneys, Keep, Persist, Synchronize, Only, Die, vars
<1>2. ASSUME scenario = "sign_in", NEW r \in Request, Dies(r), UNCHANGED identityVars
      PROVE  IdentityInv'
  <2>1. /\ RequestInv' /\ req'[r] = Idle
        /\ \A q \in Request \ {r} : req'[q] = req[q]
    BY <1>2, RequestsEnd DEF IdentityInv
  <2>2. \A q \in Request : IdentityRequest(q)'
    BY <1>2, <2>1 DEF IdentityInv, IdentityRequest, identityVars, At, Idle, Linked
  <2> QED
    BY <1>2, <2>1, <2>2 DEF IdentityInv, SubjectKeepsAccount, identityVars, Linked
<1>3. CASE UNCHANGED requestVars /\ UNCHANGED identityVars
  BY <1>1, <1>3 DEF IdentityInv, SubjectKeepsAccount, Linked, IdentityRequest, RequestInv, At,
                    identityVars, requestVars
<1>4. CASE scenario # "sign_in" /\ UNCHANGED identityVars
  BY <1>1, <1>4 DEF IdentityInv, SubjectKeepsAccount, Linked, identityVars
<1> QED
  BY <1>1, <1>2, <1>3, <1>4, IdentityMoves

-------------------------------------------------------------------------------
(* The direction of the workspace. *)

WebPassport   == [intent : Intents, version : Nat]
ProfileRecord == [active : Intents, enabled : SUBSET Paths, onboarded : BOOLEAN,
                  passport : WebPassport]

\* What a request on the profile writes is a direction; that of the one request on an
\* uncontested profile still fits what it has read.
ProfileRequest(r) ==
    req[r] # Idle =>
        /\ req[r].on = "profile"
        /\ At(r, "write_direction") \/ At(r, "write_active") => Known
        /\ At(r, "write_direction") =>
               /\ {"direction", "copy"} \subseteq DOMAIN req[r]
               /\ req[r].direction \in Directions /\ req[r].copy \in WebPassport
               /\ "profile" \notin contested => req[r].copy.version = saves
        /\ At(r, "write_active") =>
               /\ "path" \in DOMAIN req[r] /\ req[r].path \in Paths
               /\ "profile" \notin contested => req[r].path \in profile.enabled

ProfileInv ==
    /\ saves \in Nat
    /\ Known => profile \in ProfileRecord
    /\ ~Known => saves = 0
    /\ DirectionHolds
    /\ scenario # "profile" => ~Known
    /\ scenario = "profile" => RequestInv /\ \A r \in Request : ProfileRequest(r)

\* The initial states satisfy the invariant of the profile.
LEMMA ProfileStart == ServicesInit => ProfileInv
<1> SUFFICES ASSUME ServicesInit PROVE ProfileInv
  OBVIOUS
<1>1. WorkspaceInit /\ RequestsInit
  BY DEF ServicesInit
<1>2. RequestInv /\ \A r \in Request : req[r] = Idle
  BY <1>1, RequestsStart
<1> QED
  BY <1>1, <1>2 DEF WorkspaceInit, ProfileInv, DirectionHolds, Known, ProfileRequest

\* A profile on record is not the absent one.
LEMMA ProfileIsKnown == \A p \in ProfileRecord : p # NoProfile
<1> SUFFICES ASSUME NEW p \in ProfileRecord, p = NoProfile PROVE FALSE
  OBVIOUS
<1>1. "enabled" \in DOMAIN p /\ "enabled" \notin DOMAIN NoProfile
  BY DEF ProfileRecord, NoProfile
<1> QED
  BY <1>1

\* A call on the profile in one statement: when another is under way it is contested.
LEMMA ProfileSaved ==
    ASSUME ProfileInv, scenario = "profile", scenario' = scenario,
           NEW r \in Request, Single(r, "profile"),
           profile' \in ProfileRecord, DirectionHolds', saves' \in Nat
    PROVE  ProfileInv'
<1>1. RequestInv /\ \A q \in Request : ProfileRequest(q)
  BY DEF ProfileInv
<1>2. /\ RequestInv' /\ req' = req /\ req[r] = Idle
      /\ contested' = IF Others(r, "profile") THEN contested \cup {"profile"} ELSE contested
  BY <1>1, RequestsSingle DEF Single
<1>3. \A q \in Request \ {r} : req[q] # Idle => "profile" \in contested'
  BY <1>1, <1>2, BeginContests DEF ProfileRequest
<1>4. Known'
  BY ProfileIsKnown DEF Known
<1>5. \A q \in Request : ProfileRequest(q)'
  BY <1>1, <1>2, <1>3, <1>4 DEF ProfileRequest, At
<1> QED
  BY <1>2, <1>4, <1>5 DEF ProfileInv

\* A step that answers, or a request that dies: it was the only one, or the
\* profile is contested.
LEMMA ProfileWritten ==
    ASSUME ProfileInv, scenario = "profile", scenario' = scenario,
           NEW r \in Request, req[r] # Idle, Answer(r) \/ Dies(r), saves' = saves,
           profile' = profile \/ profile' \in ProfileRecord, DirectionHolds'
    PROVE  ProfileInv'
<1>1. RequestInv /\ \A q \in Request : ProfileRequest(q)
  BY DEF ProfileInv
<1>2. /\ RequestInv' /\ req'[r] = Idle /\ contested' = contested
      /\ \A q \in Request \ {r} : req'[q] = req[q]
  BY <1>1, RequestsEnd DEF Answer, Dies
<1>3. \A q \in Request \ {r} : req[q] # Idle => "profile" \in contested'
  BY <1>1, <1>2, OthersContest DEF ProfileRequest
<1>4. Known => Known'
  BY ProfileIsKnown DEF Known
<1>5. \A q \in Request : ProfileRequest(q)'
  BY <1>1, <1>2, <1>3, <1>4 DEF ProfileRequest, At, Idle
<1> QED
  BY <1>2, <1>4, <1>5 DEF ProfileInv, Known

\* Every step on the profile keeps it.
LEMMA ProfileMoves ==
    ASSUME ProfileInv, scenario = "profile", scenario' = scenario, ProfileNext
    PROVE  ProfileInv'
<1>1. RequestInv /\ \A r \in Request : ProfileRequest(r)
  BY DEF ProfileInv
<1>2. /\ saves \in Nat
      /\ Known => profile \in ProfileRecord
      /\ ~Known => saves = 0
      /\ DirectionHolds
  BY DEF ProfileInv
<1>3. \A d \in Directions : d.path \in Paths /\ d.enabled \subseteq Paths /\ d.path \in d.enabled
  BY DEF Directions
<1>4. Paths \subseteq Intents /\ \A d \in Directions : IntentOf(d) \in Intents
  BY <1>3 DEF Intents, IntentOf
<1>5. ASSUME NEW r \in Request, NEW i \in Intents, SavePassport(r, i) PROVE ProfileInv'
  <2>1. Single(r, "profile") /\ saves' = saves + 1
    BY <1>5 DEF SavePassport
  <2>2. CASE Known /\ profile.onboarded
    <3>1. profile' = [profile EXCEPT !.passport = [intent |-> i, version |-> saves']]
      BY <1>5, <2>2 DEF SavePassport
    <3>2. /\ profile' \in ProfileRecord
          /\ profile'.active = profile.active /\ profile'.enabled = profile.enabled
          /\ profile'.onboarded = profile.onboarded /\ profile'.passport.version = saves'
      <4>1. profile \in ProfileRecord /\ saves' \in Nat
        BY <1>2, <2>1, <2>2
      <4>2. [intent |-> i, version |-> saves'] \in WebPassport
        BY <4>1 DEF WebPassport
      <4>3. profile' \in ProfileRecord
        BY <3>1, <4>1, <4>2 DEF ProfileRecord
      <4> QED
        BY <3>1, <4>1, <4>3 DEF ProfileRecord
    <3>3. DirectionHolds'
      BY <1>2, <2>1, <2>2, <3>2 DEF DirectionHolds, Single
    <3> QED
      BY <1>2, <2>1, <3>2, <3>3, ProfileSaved
  <2>3. CASE ~(Known /\ profile.onboarded)
    <3>1. profile' = [active |-> i, enabled |-> EnabledBy(i), onboarded |-> FALSE,
                      passport |-> [intent |-> i, version |-> saves']]
      BY <1>5, <2>3 DEF SavePassport
    <3>2. EnabledBy(i) \subseteq Paths
      BY DEF EnabledBy
    <3>3. profile' \in ProfileRecord
      BY <1>2, <2>1, <3>1, <3>2 DEF ProfileRecord, WebPassport
    <3>4. DirectionHolds'
      BY <3>1 DEF DirectionHolds
    <3> QED
      BY <1>2, <2>1, <3>3, <3>4, ProfileSaved
  <2> QED
    BY <2>2, <2>3
<1>6. ASSUME NEW r \in Request, NEW d \in Directions, CompleteOnboarding(r, d)
      PROVE  ProfileInv'
  <2> DEFINE set == {IF p = "work" THEN "worker" ELSE "student" : p \in d.enabled}
  <2>1. /\ Begin(r, "profile", [at |-> "set_roles", roles |-> set]) /\ saves' = saves
        /\ profile' = [active |-> d.path, enabled |-> d.enabled, onboarded |-> TRUE,
                       passport |-> IF Known THEN profile.passport
                                    ELSE [intent |-> IntentOf(d), version |-> 0]]
    BY <1>6 DEF CompleteOnboarding
  <2> HIDE DEF set
  <2>2. /\ req'[r] = With([at |-> "set_roles", roles |-> set], [on |-> "profile"])
        /\ \A q \in Request \ {r} : req'[q] = req[q]
        /\ contested' = IF Others(r, "profile") THEN contested \cup {"profile"} ELSE contested
    BY <1>1, <2>1, BeginWrites
  <2>3. {"at", "on"} \subseteq DOMAIN req'[r] /\ req'[r].at = "set_roles" /\ req'[r].on = "profile"
    BY <2>2 DEF With
  <2>4. RequestInv'
    BY <1>1, <2>1, <2>3, BeginKeeps
  <2>5. /\ profile' \in ProfileRecord /\ profile'.active = d.path
        /\ profile'.enabled = d.enabled
        /\ profile'.passport = IF Known THEN profile.passport
                               ELSE [intent |-> IntentOf(d), version |-> 0]
    BY <1>2, <1>3, <1>4, <2>1 DEF ProfileRecord, WebPassport
  <2>6. Known'
    BY <2>5, ProfileIsKnown DEF Known
  <2>7. \A q \in Request \ {r} : req[q] # Idle => "profile" \in contested'
    BY <1>1, <2>2, BeginContests DEF ProfileRequest
  <2>8. \A q \in Request \ {r} : ProfileRequest(q)'
    BY <1>1, <2>1, <2>2, <2>6, <2>7 DEF ProfileRequest, At
  <2>9. ProfileRequest(r)'
    BY <2>3 DEF ProfileRequest, At
  <2>10. DirectionHolds'
    BY <1>2, <1>3, <2>1, <2>2, <2>5 DEF DirectionHolds
  <2> QED
    BY <1>2, <2>1, <2>4, <2>5, <2>6, <2>8, <2>9, <2>10 DEF ProfileInv
<1>7. ASSUME NEW r \in Request, SetRoles(r) PROVE ProfileInv'
  <2>1. /\ req[r] # Idle /\ Answer(r) /\ UNCHANGED <<profile, saves>>
    BY <1>7, AtIsBusy DEF SetRoles
  <2>2. DirectionHolds'
    BY <1>2, <2>1 DEF DirectionHolds, Known, Answer
  <2> QED
    BY <2>1, <2>2, ProfileWritten
<1>8. ASSUME NEW r \in Request, NEW d \in Directions, UpdateDirection(r, d) PROVE ProfileInv'
  <2>1. /\ Begin(r, "profile", [at |-> "write_direction", direction |-> d,
                                copy |-> profile.passport])
        /\ Known /\ UNCHANGED workspaceVars
    BY <1>8 DEF UpdateDirection
  <2>2. /\ req'[r] = With([at |-> "write_direction", direction |-> d,
                           copy |-> profile.passport], [on |-> "profile"])
        /\ \A q \in Request \ {r} : req'[q] = req[q]
        /\ contested' = IF Others(r, "profile") THEN contested \cup {"profile"} ELSE contested
    BY <1>1, <2>1, BeginWrites
  <2>3. /\ {"at", "on", "direction", "copy"} \subseteq DOMAIN req'[r]
        /\ req'[r].at = "write_direction" /\ req'[r].on = "profile"
        /\ req'[r].direction = d /\ req'[r].copy = profile.passport
    BY <2>2 DEF With
  <2>4. RequestInv'
    BY <1>1, <2>1, <2>3, BeginKeeps
  <2>5. contested \subseteq contested'
    BY <2>2
  <2>6. ProfileRequest(r)'
    <3>1. profile.passport \in WebPassport
      BY <1>2, <2>1 DEF ProfileRecord
    <3>2. "profile" \notin contested' => profile.passport.version = saves
      BY <1>2, <2>1, <2>5 DEF DirectionHolds
    <3> QED
      BY <2>1, <2>3, <3>1, <3>2 DEF ProfileRequest, At, Known, workspaceVars
  <2>7. \A q \in Request \ {r} : ProfileRequest(q)'
    BY <1>1, <2>1, <2>2, <2>5 DEF ProfileRequest, At, Known, workspaceVars
  <2> QED
    BY <1>2, <2>1, <2>4, <2>5, <2>6, <2>7 DEF ProfileInv, DirectionHolds, Known, workspaceVars
<1>9. ASSUME NEW r \in Request, WriteDirection(r) PROVE ProfileInv'
  <2> PICK d, copy : d = req[r].direction /\ copy = req[r].copy
    OBVIOUS
  <2>1. /\ At(r, "write_direction") /\ Answer(r) /\ saves' = saves
        /\ profile' = [profile EXCEPT !.active = d.path, !.enabled = d.enabled,
                                      !.passport = [copy EXCEPT !.intent = IntentOf(d)]]
    BY <1>9 DEF WriteDirection
  <2>2. /\ req[r] # Idle /\ Known /\ d \in Directions /\ copy \in WebPassport
        /\ "profile" \notin contested => copy.version = saves
    BY <1>1, <2>1, AtIsBusy DEF ProfileRequest
  <2>3. /\ profile' \in ProfileRecord /\ profile'.active = d.path /\ profile'.enabled = d.enabled
        /\ profile'.passport.version = copy.version
    BY <1>2, <1>3, <1>4, <2>1, <2>2 DEF ProfileRecord, WebPassport
  <2>4. DirectionHolds'
    BY <1>3, <2>1, <2>2, <2>3 DEF DirectionHolds, Answer
  <2> QED
    BY <2>1, <2>2, <2>3, <2>4, ProfileWritten
<1>10. ASSUME NEW r \in Request, NEW p \in Paths, SetActiveWorkspace(r, p) PROVE ProfileInv'
  <2>1. /\ Begin(r, "profile", [at |-> "write_active", path |-> p])
        /\ Known /\ p \in profile.enabled /\ UNCHANGED workspaceVars
    BY <1>10 DEF SetActiveWorkspace
  <2>2. /\ req'[r] = With([at |-> "write_active", path |-> p], [on |-> "profile"])
        /\ \A q \in Request \ {r} : req'[q] = req[q]
        /\ contested' = IF Others(r, "profile") THEN contested \cup {"profile"} ELSE contested
    BY <1>1, <2>1, BeginWrites
  <2>3. /\ {"at", "on", "path"} \subseteq DOMAIN req'[r]
        /\ req'[r].at = "write_active" /\ req'[r].on = "profile" /\ req'[r].path = p
    BY <2>2 DEF With
  <2>4. RequestInv'
    BY <1>1, <2>1, <2>3, BeginKeeps
  <2>5. contested \subseteq contested'
    BY <2>2
  <2>6. ProfileRequest(r)'
    BY <2>1, <2>3 DEF ProfileRequest, At, Known, workspaceVars
  <2>7. \A q \in Request \ {r} : ProfileRequest(q)'
    BY <1>1, <2>1, <2>2, <2>5 DEF ProfileRequest, At, Known, workspaceVars
  <2> QED
    BY <1>2, <2>1, <2>4, <2>5, <2>6, <2>7 DEF ProfileInv, DirectionHolds, Known, workspaceVars
<1>11. ASSUME NEW r \in Request, WriteActive(r) PROVE ProfileInv'
  <2> PICK p : p = req[r].path
    OBVIOUS
  <2>1. /\ At(r, "write_active") /\ Answer(r) /\ saves' = saves
        /\ profile' = [profile EXCEPT !.active = p]
    BY <1>11 DEF WriteActive
  <2>2. /\ req[r] # Idle /\ Known /\ p \in Paths
        /\ "profile" \notin contested => p \in profile.enabled
    BY <1>1, <2>1, AtIsBusy DEF ProfileRequest
  <2>3. /\ profile' \in ProfileRecord /\ profile'.active = p
        /\ profile'.enabled = profile.enabled /\ profile'.passport = profile.passport
    BY <1>2, <1>4, <2>1, <2>2 DEF ProfileRecord
  <2>4. DirectionHolds'
    BY <1>2, <2>1, <2>2, <2>3 DEF DirectionHolds, Answer
  <2> QED
    BY <2>1, <2>2, <2>3, <2>4, ProfileWritten
<1> QED
  BY <1>5, <1>6, <1>7, <1>8, <1>9, <1>10, <1>11 DEF ProfileNext

\* The invariant of the profile holds in every state.
LEMMA ProfileInvStep == ProfileInv /\ [ServicesNext]_vars => ProfileInv'
<1> SUFFICES ASSUME ProfileInv, [ServicesNext]_vars PROVE ProfileInv'
  OBVIOUS
<1>1. /\ scenario' = scenario
      /\ \/ scenario = "profile" /\ ProfileNext
         \/ (\E r \in Request : Dies(r)) /\ UNCHANGED workspaceVars
         \/ UNCHANGED requestVars /\ UNCHANGED workspaceVars
         \/ scenario = "journeys" /\ JourneysNext
         \/ scenario # "profile" /\ UNCHANGED workspaceVars
  BY DEF ServicesNext, Move, Publish, Apply, Oversee, Account, Prepare, SignIn, Settle,
         TrackJourneys, Keep, Persist, Synchronize, Only, Die, vars
<1>2. ASSUME scenario = "profile", NEW r \in Request, Dies(r), UNCHANGED workspaceVars
      PROVE  ProfileInv'
  <2>1. req[r] # Idle /\ profile' = profile /\ saves' = saves /\ contested' = contested
    BY <1>2 DEF Dies, workspaceVars
  <2>2. DirectionHolds'
    BY <2>1 DEF ProfileInv, DirectionHolds, Known
  <2> QED
    BY <1>1, <1>2, <2>1, <2>2, ProfileWritten
<1>3. CASE UNCHANGED requestVars /\ UNCHANGED workspaceVars
  BY <1>1, <1>3 DEF ProfileInv, DirectionHolds, Known, ProfileRequest, RequestInv, At,
                    workspaceVars, requestVars
<1>4. CASE scenario # "profile" /\ UNCHANGED <<profile, saves>>
  BY <1>1, <1>4 DEF ProfileInv, DirectionHolds, Known
<1>5. JourneysNext => UNCHANGED <<profile, saves>>
  BY DEF JourneysNext, InsertJourney, InsertAlert, CreateJourney, CompleteJourneyTask,
              MarkAlertRead, AddJourneyRecord, SetJourneyRecordStatus, CreateOutcomeReport,
              AddLedgerEntry, CreateVerificationRequest, CreateSupportTicket,
              CreatePartnerSubmission, File, AddDelegation, RevokeDelegation, workspaceVars
<1> QED
  BY <1>1, <1>2, <1>3, <1>4, <1>5, ProfileMoves DEF workspaceVars

-------------------------------------------------------------------------------
(* The journeys of the workspace. *)

JourneyEntry  == [due : BOOLEAN, status : {"planned", "completed"}]
JourneyRecord ==
    [target : Targets \cup {Blank}, path : Paths, done : BOOLEAN, records : Seq(JourneyEntry),
     alerts : [unread : Nat, read : Nat], reports : Nat]

DueAt(j)   == {n \in 1..Len(journey[j].records) : journey[j].records[n].due}
Raising(j) == {r \in Request : At(r, "insert_alert") /\ req[r].on = j}
Raised(j)  == journey[j].alerts.unread + journey[j].alerts.read

\* A journey about to be inserted for an uncontested target will be the only one.
JourneyRequest(r) ==
    req[r] # Idle =>
        /\ At(r, "insert_journey") =>
               /\ "path" \in DOMAIN req[r] /\ req[r].path \in Paths
               /\ req[r].on \in Targets \cup {Blank}
               /\ req[r].on \in Targets \ contested => For(req[r].on) = {}
        /\ At(r, "insert_alert") => req[r].on \in Begun

Alerted(j) ==
    /\ IsFiniteSet(Raising(j))
    /\ j \in Begun /\ j \notin faulted => Raised(j) + Cardinality(Raising(j)) = Cardinality(DueAt(j))

JourneysInv ==
    /\ DOMAIN journey = Journeys
    /\ \A j \in Begun : journey[j] \in JourneyRecord
    /\ scenario # "journeys" => Begun = {}
    /\ scenario = "journeys" =>
           /\ RequestInv /\ \A r \in Request : JourneyRequest(r)
           /\ \A t \in Targets \ contested : OneAtMost(For(t))
           /\ \A j \in Journeys : Alerted(j)

\* A journey on record is not the absent one.
LEMMA JourneyIsBegun == \A x \in JourneyRecord : x # NoJourney
<1> SUFFICES ASSUME NEW x \in JourneyRecord, x = NoJourney PROVE FALSE
  OBVIOUS
<1>1. "path" \in DOMAIN x /\ "path" \notin DOMAIN NoJourney
  BY DEF JourneyRecord, NoJourney
<1> QED
  BY <1>1

\* The initial states satisfy the invariant of the journeys.
LEMMA JourneysStart == ServicesInit => JourneysInv
<1> SUFFICES ASSUME ServicesInit PROVE JourneysInv
  OBVIOUS
<1>1. WorkspaceInit /\ RequestsInit
  BY DEF ServicesInit
<1>2. RequestInv /\ \A r \in Request : req[r] = Idle
  BY <1>1, RequestsStart
<1>3. DOMAIN journey = Journeys /\ Begun = {}
  BY <1>1 DEF WorkspaceInit, Begun
<1>4. \A j : Raising(j) = {}
  BY <1>2 DEF Raising, At, Idle
<1>5. \A j \in Journeys : Alerted(j)
  BY <1>3, <1>4, FS_EmptySet DEF Alerted
<1>6. ASSUME NEW t PROVE For(t) = {}
  BY <1>3 DEF For
<1> QED
  BY <1>2, <1>3, <1>5, <1>6 DEF JourneysInv, JourneyRequest, OneAtMost

\* A journey that changes keeps its target, and the others stay.
LEMMA JourneyChanged ==
    ASSUME JourneysInv, NEW j \in Begun, NEW x \in JourneyRecord,
           x.target = journey[j].target, journey' = [journey EXCEPT ![j] = x]
    PROVE  /\ journey'[j] = x /\ Begun' = Begun /\ DOMAIN journey' = Journeys
           /\ \A i \in Journeys \ {j} : journey'[i] = journey[i]
           /\ \A i \in Begun' : journey'[i] \in JourneyRecord
           /\ \A t : For(t)' = For(t)
<1>1. j \in Journeys /\ DOMAIN journey = Journeys
  BY DEF Begun, JourneysInv
<1>2. /\ journey'[j] = x /\ DOMAIN journey' = Journeys
      /\ \A i \in Journeys \ {j} : journey'[i] = journey[i]
  BY <1>1
<1>3. Begun' = Begun
  BY <1>1, <1>2, JourneyIsBegun DEF Begun
<1>4. \A t : For(t)' = For(t)
  BY <1>1, <1>2, <1>3 DEF For, Begun
<1> QED
  BY <1>2, <1>3, <1>4 DEF JourneysInv, Begun

\* What is due is finite, and a new record that is due adds one to it.
LEMMA DueCounts ==
    ASSUME NEW s \in Seq(JourneyEntry), NEW e \in JourneyEntry
    PROVE  LET D == {n \in 1..Len(s) : s[n].due}
               S == Append(s, e)
               E == {n \in 1..Len(S) : S[n].due}
           IN  /\ IsFiniteSet(D) /\ Cardinality(D) \in Nat
               /\ S \in Seq(JourneyEntry)
               /\ Cardinality(E) = IF e.due THEN Cardinality(D) + 1 ELSE Cardinality(D)
<1> DEFINE D == {n \in 1..Len(s) : s[n].due}
           S == Append(s, e)
           E == {n \in 1..Len(S) : S[n].due}
<1>1. /\ S \in Seq(JourneyEntry) /\ Len(S) = Len(s) + 1 /\ S[Len(s) + 1] = e
      /\ \A n \in 1..Len(s) : S[n] = s[n]
  OBVIOUS
<1>2. IsFiniteSet(D) /\ Cardinality(D) \in Nat
  <2>1. Len(s) \in Int /\ 1 \in Int
    OBVIOUS
  <2>2. IsFiniteSet(1..Len(s))
    BY <2>1, FS_Interval
  <2> QED
    BY <2>2, FS_Subset, FS_CardinalityType
<1>3. CASE e.due
  <2>1. E = D \cup {Len(s) + 1} /\ Len(s) + 1 \notin D
    BY <1>1, <1>3
  <2> HIDE DEF D, E, S
  <2>2. Cardinality(E) = Cardinality(D) + 1
    BY <1>2, <2>1, FS_AddElement
  <2> QED
    BY <1>1, <1>2, <1>3, <2>2 DEF D, E, S
<1>4. CASE ~e.due
  <2>1. E = D
    BY <1>1, <1>4
  <2> QED
    BY <1>1, <1>2, <1>4, <2>1
<1> QED
  BY <1>3, <1>4

\* A call done in one step, after which as many alerts are due and raised.
LEMMA JourneyCalled ==
    ASSUME JourneysInv, scenario = "journeys", scenario' = scenario,
           NEW r \in Request, NEW y, Single(r, y),
           DOMAIN journey' = Journeys, Begun' = Begun, \A t : For(t)' = For(t),
           \A j \in Begun' : journey'[j] \in JourneyRecord,
           \A j \in Begun : /\ Raised(j)' = Raised(j)
                            /\ Cardinality(DueAt(j))' = Cardinality(DueAt(j))
    PROVE  JourneysInv'
<1>1. RequestInv
  BY DEF JourneysInv
<1>2. RequestInv' /\ req' = req /\ contested \subseteq contested' /\ faulted' = faulted
  BY <1>1, RequestsSingle DEF Single
<1>3. \A q \in Request : JourneyRequest(q)'
  BY <1>2 DEF JourneysInv, JourneyRequest, At
<1>4. \A j : Raising(j)' = Raising(j)
  BY <1>2 DEF Raising, At
<1>5. \A j \in Journeys : Alerted(j)'
  <2> SUFFICES ASSUME NEW j \in Journeys PROVE Alerted(j)'
    OBVIOUS
  <2>1. Alerted(j)
    BY DEF JourneysInv
  <2>2. Raising(j)' = Raising(j) /\ Cardinality(Raising(j))' = Cardinality(Raising(j))
    BY <1>4
  <2> QED
    BY <1>2, <2>1, <2>2 DEF Alerted
<1> QED
  <2>1. \A t \in Targets \ contested' : OneAtMost(For(t))'
    BY <1>2 DEF JourneysInv, OneAtMost
  <2> QED
    BY <1>2, <1>3, <1>5, <2>1 DEF JourneysInv

\* A call that begins, or an alert that is raised, with what each has to show for it.
LEMMA JourneysKept ==
    ASSUME JourneysInv, scenario = "journeys", scenario' = scenario,
           NEW r \in Request, RequestInv', JourneyRequest(r)',
           \A q \in Request \ {r} : req'[q] = req[q],
           contested \subseteq contested', faulted \subseteq faulted',
           DOMAIN journey' = Journeys, Begun \subseteq Begun',
           \A j \in Begun' : journey'[j] \in JourneyRecord,
           \A q \in Request \ {r} : At(q, "insert_journey") /\ req[q].on \in Targets \ contested'
               => For(req[q].on)' = For(req[q].on),
           \A t \in Targets \ contested' : OneAtMost(For(t))',
           \A j \in Journeys : Alerted(j)'
    PROVE  JourneysInv'
<1>1. ASSUME NEW q \in Request \ {r} PROVE JourneyRequest(q)'
  <2>1. JourneyRequest(q) /\ req'[q] = req[q]
    BY DEF JourneysInv
  <2> QED
    BY <2>1 DEF JourneyRequest, At, Idle
<1> QED
  BY <1>1 DEF JourneysInv

\* Every step on the journeys keeps the invariant.
LEMMA JourneysMove ==
    ASSUME JourneysInv, scenario = "journeys", scenario' = scenario, JourneysNext
    PROVE  JourneysInv'
<1>1. /\ RequestInv /\ DOMAIN journey = Journeys
      /\ \A q \in Request : JourneyRequest(q)
      /\ \A t \in Targets \ contested : OneAtMost(For(t))
      /\ \A j \in Journeys : Alerted(j)
      /\ \A j \in Begun : journey[j] \in JourneyRecord
  BY DEF JourneysInv
<1>2. \A j \in Begun : /\ j \in Journeys /\ journey[j].records \in Seq(JourneyEntry)
                       /\ journey[j].alerts \in [unread : Nat, read : Nat]
                       /\ journey[j].reports \in Nat
  BY <1>1 DEF JourneyRecord, Begun
\* A call in one step that changes one journey.
<1>3. ASSUME NEW r \in Request, NEW j \in Begun, Single(r, j), NEW x \in JourneyRecord,
             journey' = [journey EXCEPT ![j] = x], x.target = journey[j].target,
             x.alerts.unread + x.alerts.read = Raised(j),
             Cardinality({n \in 1..Len(x.records) : x.records[n].due}) = Cardinality(DueAt(j))
      PROVE  JourneysInv'
  <2>1. /\ journey'[j] = x /\ Begun' = Begun /\ DOMAIN journey' = Journeys
        /\ \A i \in Journeys \ {j} : journey'[i] = journey[i]
        /\ \A i \in Begun' : journey'[i] \in JourneyRecord
        /\ \A t : For(t)' = For(t)
    BY <1>3, JourneyChanged
  <2>2. ASSUME NEW i \in Begun
        PROVE  Raised(i)' = Raised(i) /\ Cardinality(DueAt(i))' = Cardinality(DueAt(i))
    <3>1. CASE i = j
      BY <1>3, <2>1, <3>1 DEF Raised, DueAt
    <3>2. CASE i # j
      <4>1. journey'[i] = journey[i]
        BY <1>2, <2>1, <3>2
      <4> QED
        BY <4>1 DEF Raised, DueAt
    <3> QED
      BY <3>1, <3>2
  <2> QED
    BY <1>3, <2>1, <2>2, JourneyCalled
\* A call in one step on something else.
<1>4. ASSUME NEW r \in Request, NEW y, Single(r, y), journey' = journey PROVE JourneysInv'
  <2>1. Begun' = Begun /\ \A t : For(t)' = For(t)
    BY <1>4 DEF Begun, For
  <2>2. \A j : Raised(j)' = Raised(j) /\ DueAt(j)' = DueAt(j)
    BY <1>4 DEF Raised, DueAt
  <2>3. \A j \in Begun : Cardinality(DueAt(j))' = Cardinality(DueAt(j))
    BY <2>2
  <2> QED
    BY <1>1, <1>4, <2>1, <2>2, <2>3, JourneyCalled
<1>5. ASSUME NEW r \in Request, NEW j \in Begun, CompleteJourneyTask(r, j) PROVE JourneysInv'
  <2> DEFINE x == [journey[j] EXCEPT !.done = TRUE]
  <2>1. Single(r, j) /\ journey' = [journey EXCEPT ![j] = x]
    BY <1>5 DEF CompleteJourneyTask
  <2>2. /\ x \in JourneyRecord /\ x.target = journey[j].target
        /\ x.alerts = journey[j].alerts /\ x.records = journey[j].records
    BY <1>1 DEF JourneyRecord
  <2> HIDE DEF x
  <2> QED
    BY <1>3, <2>1, <2>2 DEF Raised, DueAt
<1>6. ASSUME NEW r \in Request, NEW j \in Begun, NEW p \in Paths, CreateOutcomeReport(r, j, p)
      PROVE  JourneysInv'
  <2> DEFINE x == [journey[j] EXCEPT !.reports = @ + 1]
  <2>1. Single(r, j) /\ journey' = [journey EXCEPT ![j] = x]
    BY <1>6 DEF CreateOutcomeReport
  <2>2. /\ x \in JourneyRecord /\ x.target = journey[j].target
        /\ x.alerts = journey[j].alerts /\ x.records = journey[j].records
    BY <1>1, <1>2 DEF JourneyRecord
  <2> HIDE DEF x
  <2> QED
    BY <1>3, <2>1, <2>2 DEF Raised, DueAt
<1>7. ASSUME NEW r \in Request, NEW j \in Begun, MarkAlertRead(r, j) PROVE JourneysInv'
  <2> DEFINE alerts == [unread |-> journey[j].alerts.unread - 1,
                        read   |-> journey[j].alerts.read + 1]
             x == [journey[j] EXCEPT !.alerts = alerts]
  <2>1. Single(r, j) /\ journey[j].alerts.unread > 0
    BY <1>7 DEF MarkAlertRead
  <2>2. journey' = [journey EXCEPT ![j] = x]
    <3>1. journey' = [[journey EXCEPT ![j].alerts.unread = @ - 1] EXCEPT ![j].alerts.read = @ + 1]
      BY <1>7 DEF MarkAlertRead
    <3> DEFINE y == [journey[j] EXCEPT !.alerts.unread = @ - 1]
               z == [y EXCEPT !.alerts.read = @ + 1]
    <3>2. /\ j \in Journeys /\ DOMAIN journey = Journeys
          /\ journey[j] \in JourneyRecord /\ journey[j].alerts \in [unread : Nat, read : Nat]
      BY <1>1, <1>2 DEF JourneysInv, JourneyRecord
    <3>3. z = x
      <4>1. y = [journey[j] EXCEPT !.alerts =
                    [journey[j].alerts EXCEPT !.unread = journey[j].alerts.unread - 1]]
        BY Zenon
      <4>2. /\ y.alerts = [unread |-> journey[j].alerts.unread - 1,
                           read |-> journey[j].alerts.read]
            /\ DOMAIN y = DOMAIN journey[j]
            /\ \A f \in DOMAIN y \ {"alerts"} : y[f] = journey[j][f]
        BY <3>2, <4>1 DEF JourneyRecord
      <4> HIDE DEF y
      <4>3. z = [y EXCEPT !.alerts = [y.alerts EXCEPT !.read = @ + 1]]
        OBVIOUS
      <4>4. [y.alerts EXCEPT !.read = @ + 1] = alerts
        BY <4>2
      <4> QED
        BY <4>2, <4>3, <4>4
    <3>4. journey' = [journey EXCEPT ![j] = z]
      BY <3>1, <3>2
    <3> QED
      BY <3>3, <3>4
  <2>3. alerts \in [unread : Nat, read : Nat] /\ alerts.unread + alerts.read = Raised(j)
    BY <1>2, <2>1 DEF Raised
  <2> HIDE DEF alerts
  <2>4. /\ x \in JourneyRecord /\ x.target = journey[j].target
        /\ x.alerts = alerts /\ x.records = journey[j].records
    BY <1>1, <2>3 DEF JourneyRecord
  <2> HIDE DEF x
  <2> QED
    BY <1>3, <2>1, <2>2, <2>3, <2>4 DEF DueAt
<1>8. ASSUME NEW r \in Request, NEW j \in Begun, NEW n \in 1..Len(journey[j].records),
             SetJourneyRecordStatus(r, j, n, "completed")
      PROVE  JourneysInv'
  <2> DEFINE records1 == [journey[j].records EXCEPT ![n].status = "completed"]
             x == [journey[j] EXCEPT !.records = records1]
  <2>1. Single(r, j) /\ journey' = [journey EXCEPT ![j] = x]
    BY <1>8 DEF SetJourneyRecordStatus
  <2>2. /\ records1 \in Seq(JourneyEntry) /\ Len(records1) = Len(journey[j].records)
        /\ \A k \in 1..Len(journey[j].records) : records1[k].due = journey[j].records[k].due
    <3>1. journey[j].records \in Seq(JourneyEntry)
      BY <1>2 DEF JourneyRecord
    <3> DEFINE e == [journey[j].records[n] EXCEPT !.status = "completed"]
    <3>2. journey[j].records[n] \in JourneyEntry
      BY <3>1
    <3>3. e \in JourneyEntry /\ e.due = journey[j].records[n].due
      BY <3>2 DEF JourneyEntry
    <3>4. records1 = [journey[j].records EXCEPT ![n] = e]
      BY <3>1
    <3> HIDE DEF e, records1
    <3> QED
      BY <3>1, <3>3, <3>4
  <2> HIDE DEF records1
  <2>3. /\ x \in JourneyRecord /\ x.target = journey[j].target
        /\ x.alerts = journey[j].alerts /\ x.records = records1
    BY <1>1, <2>2 DEF JourneyRecord
  <2> HIDE DEF x
  <2>4. {k \in 1..Len(x.records) : x.records[k].due} = DueAt(j)
    BY <2>2, <2>3 DEF DueAt
  <2> QED
    BY <1>3, <2>1, <2>3, <2>4 DEF Raised
<1>9. ASSUME NEW r \in Request, NEW j \in Begun, NEW due \in BOOLEAN, AddJourneyRecord(r, j, due)
      PROVE  JourneysInv'
  <2> DEFINE e == [due |-> due, status |-> "planned"]
             records1 == Append(journey[j].records, e)
             x == [journey[j] EXCEPT !.records = records1]
  <2>1. journey' = [journey EXCEPT ![j] = x]
    BY <1>9 DEF AddJourneyRecord
  <2>2. e \in JourneyEntry /\ e.due = due
    BY DEF JourneyEntry
  <2> HIDE DEF e
  <2>3. /\ records1 \in Seq(JourneyEntry) /\ IsFiniteSet(DueAt(j)) /\ Cardinality(DueAt(j)) \in Nat
        /\ Cardinality({n \in 1..Len(records1) : records1[n].due})
               = IF due THEN Cardinality(DueAt(j)) + 1 ELSE Cardinality(DueAt(j))
    BY <1>2, <2>2, DueCounts DEF DueAt
  <2> HIDE DEF records1
  <2>4. /\ x \in JourneyRecord /\ x.target = journey[j].target
        /\ x.alerts = journey[j].alerts /\ x.records = records1
    BY <1>1, <2>3 DEF JourneyRecord
  <2> HIDE DEF x
  <2>5. CASE ~due
    <3>1. Single(r, j)
      BY <1>9, <2>5 DEF AddJourneyRecord
    <3> QED
      BY <1>3, <2>1, <2>3, <2>4, <2>5, <3>1 DEF Raised
  <2>6. CASE due
    <3>1. Begin(r, j, [at |-> "insert_alert"])
      BY <1>9, <2>6 DEF AddJourneyRecord
    <3>2. /\ req'[r] = With([at |-> "insert_alert"], [on |-> j]) /\ req[r] = Idle
          /\ \A q \in Request \ {r} : req'[q] = req[q]
          /\ contested \subseteq contested' /\ faulted' = faulted
      BY <1>1, <3>1, BeginWrites
    <3>3. {"at", "on"} \subseteq DOMAIN req'[r] /\ req'[r].at = "insert_alert" /\ req'[r].on = j
      BY <3>2 DEF With
    <3>4. RequestInv'
      BY <1>1, <3>1, <3>3, BeginKeeps
    <3>5. /\ journey'[j] = x /\ Begun' = Begun /\ DOMAIN journey' = Journeys
          /\ \A i \in Journeys \ {j} : journey'[i] = journey[i]
          /\ \A i \in Begun' : journey'[i] \in JourneyRecord
          /\ \A t : For(t)' = For(t)
      BY <2>1, <2>4, JourneyChanged
    <3>6. JourneyRequest(r)'
      BY <3>3, <3>5 DEF JourneyRequest, At
    <3>7. \A i \in Journeys \ {j} : Raising(i)' = Raising(i)
      BY <3>2, <3>3 DEF Raising, At, Idle
    <3>8. Raising(j)' = Raising(j) \cup {r} /\ r \notin Raising(j)
      BY <3>2, <3>3 DEF Raising, At, Idle
    <3>9. IsFiniteSet(Raising(j)') /\ Cardinality(Raising(j)') = Cardinality(Raising(j)) + 1
          /\ Cardinality(Raising(j)) \in Nat
      <4>1. IsFiniteSet(Raising(j))
        BY <1>1, <1>2 DEF Alerted
      <4> QED
        BY <3>8, <4>1, FS_AddElement, FS_CardinalityType
    <3>10. Alerted(j)'
      <4>1. Raised(j)' = Raised(j) /\ Raised(j) \in Nat
        BY <1>2, <2>4, <3>5 DEF Raised
      <4>2. Cardinality(DueAt(j)') = Cardinality(DueAt(j)) + 1
        BY <2>3, <2>4, <2>6, <3>5 DEF DueAt
      <4>3. j \notin faulted => Raised(j) + Cardinality(Raising(j)) = Cardinality(DueAt(j))
        BY <1>1, <1>2 DEF Alerted
      <4> QED
        BY <2>3, <3>2, <3>9, <4>1, <4>2, <4>3 DEF Alerted
    <3>11. ASSUME NEW i \in Journeys \ {j} PROVE Alerted(i)'
      <4>1. Alerted(i) /\ journey'[i] = journey[i] /\ Raising(i)' = Raising(i)
        BY <1>1, <3>5, <3>7
      <4>2. Raised(i)' = Raised(i) /\ DueAt(i)' = DueAt(i)
        BY <4>1 DEF Raised, DueAt
      <4> QED
        BY <3>2, <3>5, <4>1, <4>2 DEF Alerted
    <3>12. \A t \in Targets \ contested' : OneAtMost(For(t))'
      BY <1>1, <3>2, <3>5 DEF OneAtMost
    <3> QED
      BY <3>2, <3>4, <3>5, <3>6, <3>10, <3>11, <3>12, JourneysKept
  <2> QED
    BY <2>5, <2>6
<1>10. ASSUME NEW r \in Request, NEW t \in Targets \cup {Blank}, NEW p \in Paths,
              CreateJourney(r, t, p)
       PROVE  JourneysInv'
  <2>1. /\ t \in Targets => For(t) = {}
        /\ Begin(r, t, [at |-> "insert_journey", path |-> p]) /\ journey' = journey
    BY <1>10 DEF CreateJourney, workspaceVars
  <2>2. /\ req'[r] = With([at |-> "insert_journey", path |-> p], [on |-> t]) /\ req[r] = Idle
        /\ \A q \in Request \ {r} : req'[q] = req[q]
        /\ contested \subseteq contested' /\ faulted' = faulted
    BY <1>1, <2>1, BeginWrites
  <2>3. /\ {"at", "on", "path"} \subseteq DOMAIN req'[r] /\ req'[r].at = "insert_journey"
        /\ req'[r].on = t /\ req'[r].path = p
    BY <2>2 DEF With
  <2>4. RequestInv'
    BY <1>1, <2>1, <2>3, BeginKeeps
  <2>5. Begun' = Begun /\ \A y : For(y)' = For(y)
    BY <2>1 DEF Begun, For
  <2>6. JourneyRequest(r)'
    BY <2>1, <2>3, <2>5 DEF JourneyRequest, At
  <2>7. ASSUME NEW j \in Journeys PROVE Alerted(j)'
    <3>1. Raising(j)' = Raising(j)
      BY <2>2, <2>3 DEF Raising, At, Idle
    <3>2. Raised(j)' = Raised(j) /\ DueAt(j)' = DueAt(j) /\ Alerted(j)
      BY <1>1, <2>1 DEF Raised, DueAt
    <3> QED
      BY <2>2, <2>5, <3>1, <3>2 DEF Alerted
  <2>8. \A y \in Targets \ contested' : OneAtMost(For(y))'
    BY <1>1, <2>2, <2>5 DEF OneAtMost
  <2> QED
    BY <1>1, <2>1, <2>2, <2>4, <2>5, <2>6, <2>7, <2>8, JourneysKept
<1>11. ASSUME NEW r \in Request, InsertJourney(r) PROVE JourneysInv'
  <2> PICK t, p : t = req[r].on /\ p = req[r].path
    OBVIOUS
  <2> DEFINE x == [target |-> t, path |-> p, done |-> FALSE, records |-> <<>>,
                   alerts |-> [unread |-> 0, read |-> 0], reports |-> 0]
  <2>1. At(r, "insert_journey") /\ Answer(r)
    BY <1>11 DEF InsertJourney
  <2>2. PICK j \in Journeys \ Begun : journey' = [journey EXCEPT ![j] = x]
    BY <1>11 DEF InsertJourney
  <2>3. /\ req[r] # Idle /\ t \in Targets \cup {Blank} /\ p \in Paths
        /\ t \in Targets \ contested => For(t) = {}
    BY <1>1, <2>1, AtIsBusy DEF JourneyRequest
  <2>4. /\ x \in JourneyRecord /\ x.target = t /\ x.records = <<>>
        /\ x.alerts.unread = 0 /\ x.alerts.read = 0
    BY <2>3 DEF JourneyRecord
  <2> HIDE DEF x
  <2>5. /\ journey'[j] = x /\ DOMAIN journey' = Journeys
        /\ \A i \in Journeys \ {j} : journey'[i] = journey[i]
    BY <1>1, <2>2
  <2>6. Begun' = Begun \cup {j}
    BY <2>4, <2>5, JourneyIsBegun DEF Begun
  <2>7. /\ For(t)' = For(t) \cup {j}
        /\ \A y : y # t => For(y)' = For(y)
    BY <2>2, <2>4, <2>5, <2>6 DEF For, Begun
  <2>8. /\ RequestInv' /\ req'[r] = Idle /\ contested' = contested /\ faulted' = faulted
        /\ \A q \in Request \ {r} : req'[q] = req[q]
    BY <1>1, <2>1, RequestsEnd DEF Answer
  <2>9. \A q \in Request \ {r} : req[q] # Idle /\ req[q].on = t => t \in contested'
    BY <1>1, <2>3, <2>8, OthersContest
  <2>10. \A i \in Begun' : journey'[i] \in JourneyRecord
    BY <1>1, <2>4, <2>5, <2>6 DEF Begun
  <2>11. ASSUME NEW i \in Journeys PROVE Alerted(i)'
    <3>1. Raising(i)' = Raising(i) /\ Alerted(i)
      BY <1>1, <2>1, <2>8 DEF Raising, At, Idle
    <3>2. CASE i = j
      <4>1. Raising(i) = {}
        <5> SUFFICES ASSUME NEW q \in Raising(i) PROVE FALSE
          OBVIOUS
        <5>1. At(q, "insert_alert") /\ req[q].on = i /\ q \in Request
          BY DEF Raising
        <5>2. i \in Begun
          BY <1>1, <5>1, AtIsBusy DEF JourneyRequest
        <5> QED
          BY <2>2, <3>2, <5>2
      <4>2. Raised(i)' = 0 /\ DueAt(i)' = {}
        BY <2>4, <2>5, <3>2 DEF Raised, DueAt
      <4> QED
        BY <3>1, <4>1, <4>2, FS_EmptySet DEF Alerted
    <3>3. CASE i # j
      <4>1. Raised(i)' = Raised(i) /\ DueAt(i)' = DueAt(i) /\ (i \in Begun' <=> i \in Begun)
        BY <2>5, <2>6, <3>3 DEF Raised, DueAt
      <4> QED
        BY <2>8, <3>1, <4>1 DEF Alerted
    <3> QED
      BY <3>2, <3>3
  <2>12. \A q \in Request \ {r} : At(q, "insert_journey") /\ req[q].on \in Targets \ contested'
             => For(req[q].on)' = For(req[q].on)
    <3> SUFFICES ASSUME NEW q \in Request \ {r}, At(q, "insert_journey"),
                        req[q].on \in Targets \ contested'
                 PROVE  For(req[q].on)' = For(req[q].on)
      OBVIOUS
    <3>1. req[q].on # t /\ req'[q] = req[q]
      BY <2>8, <2>9, AtIsBusy
    <3> QED
      BY <2>7, <3>1
  <2>13. \A y \in Targets \ contested' : OneAtMost(For(y))'
    BY <1>1, <2>3, <2>7, <2>8 DEF OneAtMost
  <2>14. JourneyRequest(r)'
    BY <2>8 DEF JourneyRequest
  <2> QED
    BY <2>5, <2>6, <2>8, <2>10, <2>11, <2>12, <2>13, <2>14, JourneysKept
<1>12. ASSUME NEW r \in Request, InsertAlert(r) PROVE JourneysInv'
  <2> PICK j : j = req[r].on
    OBVIOUS
  <2>1. /\ At(r, "insert_alert") /\ Answer(r)
        /\ journey' = [journey EXCEPT ![j].alerts.unread = @ + 1]
    BY <1>12 DEF InsertAlert
  <2>2. req[r] # Idle /\ j \in Begun
    BY <1>1, <2>1, AtIsBusy DEF JourneyRequest
  <2> DEFINE alerts == [journey[j].alerts EXCEPT !.unread = @ + 1]
             x == [journey[j] EXCEPT !.alerts = alerts]
  <2>3. journey' = [journey EXCEPT ![j] = x]
    BY <2>1
  <2>4. alerts \in [unread : Nat, read : Nat] /\ alerts.unread + alerts.read = Raised(j) + 1
    BY <1>2, <2>2 DEF Raised
  <2> HIDE DEF alerts
  <2>5. /\ x \in JourneyRecord /\ x.target = journey[j].target
        /\ x.alerts = alerts /\ x.records = journey[j].records
    BY <1>1, <2>2, <2>4 DEF JourneyRecord
  <2> HIDE DEF x
  <2>6. /\ journey'[j] = x /\ Begun' = Begun /\ DOMAIN journey' = Journeys
        /\ \A i \in Journeys \ {j} : journey'[i] = journey[i]
        /\ \A i \in Begun' : journey'[i] \in JourneyRecord
        /\ \A y : For(y)' = For(y)
    BY <2>2, <2>3, <2>5, JourneyChanged
  <2>7. /\ RequestInv' /\ req'[r] = Idle /\ contested' = contested /\ faulted' = faulted
        /\ \A q \in Request \ {r} : req'[q] = req[q]
    BY <1>1, <2>1, RequestsEnd DEF Answer
  <2>8. Raising(j)' = Raising(j) \ {r} /\ r \in Raising(j)
    BY <2>1, <2>7 DEF Raising, At, Idle
  <2>9. ASSUME NEW i \in Journeys PROVE Alerted(i)'
    <3>1. CASE i = j
      <4>1. IsFiniteSet(Raising(j)) /\ Cardinality(Raising(j)) \in Nat
        BY <1>1, <3>1, FS_CardinalityType DEF Alerted
      <4>2. /\ IsFiniteSet(Raising(j)')
            /\ Cardinality(Raising(j)') = Cardinality(Raising(j)) - 1
        BY <2>8, <4>1, FS_RemoveElement
      <4>3. Raised(j)' = Raised(j) + 1 /\ Raised(j) \in Nat /\ DueAt(j)' = DueAt(j)
        BY <1>2, <2>2, <2>4, <2>5, <2>6 DEF Raised, DueAt
      <4>4. j \notin faulted => Raised(j) + Cardinality(Raising(j)) = Cardinality(DueAt(j))
        BY <1>1, <2>2, <3>1 DEF Alerted
      <4> QED
        BY <2>7, <3>1, <4>1, <4>2, <4>3, <4>4 DEF Alerted
    <3>2. CASE i # j
      <4>1. Raised(i)' = Raised(i) /\ DueAt(i)' = DueAt(i)
        BY <2>6, <3>2 DEF Raised, DueAt
      <4>2. Raising(i)' = Raising(i)
        BY <2>1, <2>7, <3>2 DEF Raising, At, Idle
      <4> QED
        BY <1>1, <2>6, <2>7, <4>1, <4>2 DEF Alerted
    <3> QED
      BY <3>1, <3>2
  <2>10. \A y \in Targets \ contested' : OneAtMost(For(y))'
    BY <1>1, <2>6, <2>7 DEF OneAtMost
  <2>11. JourneyRequest(r)'
    BY <2>7 DEF JourneyRequest
  <2> QED
    BY <2>6, <2>7, <2>9, <2>10, <2>11, JourneysKept
<1>13. ASSUME NEW r \in Request,
              \/ AddLedgerEntry(r) \/ CreateVerificationRequest(r) \/ CreateSupportTicket(r)
              \/ CreatePartnerSubmission(r) \/ AddDelegation(r) \/ RevokeDelegation(r)
       PROVE  JourneysInv'
  BY <1>4, <1>13 DEF AddLedgerEntry, CreateVerificationRequest, CreateSupportTicket,
                     CreatePartnerSubmission, AddDelegation, RevokeDelegation, File
<1> QED
  BY <1>5, <1>6, <1>7, <1>8, <1>9, <1>10, <1>11, <1>12, <1>13 DEF JourneysNext

\* The invariant of the journeys holds in every state.
LEMMA JourneysInvStep == JourneysInv /\ [ServicesNext]_vars => JourneysInv'
<1> SUFFICES ASSUME JourneysInv, [ServicesNext]_vars PROVE JourneysInv'
  OBVIOUS
<1>1. /\ scenario' = scenario
      /\ \/ scenario = "journeys" /\ JourneysNext
         \/ (\E r \in Request : Dies(r)) /\ UNCHANGED workspaceVars
         \/ UNCHANGED requestVars /\ UNCHANGED workspaceVars
         \/ scenario = "profile" /\ ProfileNext
         \/ scenario # "journeys" /\ UNCHANGED workspaceVars
  BY DEF ServicesNext, Move, Publish, Apply, Oversee, Account, Prepare, SignIn, Settle,
         TrackJourneys, Keep, Persist, Synchronize, Only, Die, vars
<1>2. ASSUME scenario = "journeys", NEW r \in Request, Dies(r), UNCHANGED workspaceVars
      PROVE  JourneysInv'
  <2>1. /\ RequestInv' /\ req'[r] = Idle /\ contested' = contested
        /\ faulted' = faulted \cup {req[r].on}
        /\ \A q \in Request \ {r} : req'[q] = req[q]
    BY <1>2, RequestsEnd DEF JourneysInv, Dies
  <2>2. journey' = journey /\ Begun' = Begun /\ DOMAIN journey = Journeys
    BY <1>2 DEF workspaceVars, Begun, JourneysInv
  <2>3. ASSUME NEW t PROVE For(t)' = For(t)
    BY <2>2 DEF For
  <2>4. ASSUME NEW i \in Journeys PROVE Alerted(i)'
    <3>1. Alerted(i) /\ Raised(i)' = Raised(i) /\ DueAt(i)' = DueAt(i)
      BY <1>2, <2>2 DEF Raised, DueAt, JourneysInv
    <3>2. CASE r \in Raising(i)
      <4>1. i \in faulted' /\ Raising(i)' \subseteq Raising(i)
        BY <2>1, <3>2 DEF Raising, At, Idle
      <4>2. IsFiniteSet(Raising(i)')
        BY <3>1, <4>1, FS_Subset DEF Alerted
      <4> QED
        BY <4>1, <4>2 DEF Alerted
    <3>3. CASE r \notin Raising(i)
      <4>1. Raising(i)' = Raising(i)
        BY <2>1, <3>3 DEF Raising, At, Idle
      <4> QED
        BY <2>1, <2>2, <3>1, <4>1 DEF Alerted
    <3> QED
      BY <3>2, <3>3
  <2>5. \A t \in Targets \ contested' : OneAtMost(For(t))'
    BY <1>2, <2>1, <2>3 DEF OneAtMost, JourneysInv
  <2>6. JourneyRequest(r)' /\ \A j \in Begun' : journey'[j] \in JourneyRecord
    BY <2>1, <2>2 DEF JourneyRequest, JourneysInv
  <2> QED
    BY <1>1, <1>2, <2>1, <2>2, <2>3, <2>4, <2>5, <2>6, JourneysKept
<1>3. CASE UNCHANGED requestVars /\ UNCHANGED workspaceVars
  <2>1. /\ req' = req /\ contested' = contested /\ faulted' = faulted /\ journey' = journey
    BY <1>3 DEF requestVars, workspaceVars
  <2>2. Begun' = Begun
    BY <2>1 DEF Begun
  <2>3. ASSUME NEW y
        PROVE  For(y)' = For(y) /\ Raising(y)' = Raising(y) /\ Raised(y)' = Raised(y)
               /\ DueAt(y)' = DueAt(y)
    BY <2>1, <2>2 DEF For, Raising, Raised, DueAt, At
  <2>4. \A j : Alerted(j)' <=> Alerted(j)
    BY <2>1, <2>2, <2>3 DEF Alerted
  <2>5. /\ RequestInv => RequestInv'
        /\ \A r \in Request : JourneyRequest(r) => JourneyRequest(r)'
        /\ \A t : OneAtMost(For(t)) => OneAtMost(For(t))'
    BY <2>1, <2>2, <2>3 DEF RequestInv, JourneyRequest, OneAtMost, At
  <2> QED
    BY <1>1, <2>1, <2>2, <2>4, <2>5 DEF JourneysInv
<1>4. CASE scenario # "journeys" /\ journey' = journey
  BY <1>1, <1>4 DEF JourneysInv, Begun
<1>5. ProfileNext => journey' = journey
  BY DEF ProfileNext, SetRoles, WriteDirection, WriteActive, SavePassport, CompleteOnboarding,
         UpdateDirection, SetActiveWorkspace, workspaceVars
<1> QED
  BY <1>1, <1>2, <1>3, <1>4, <1>5, JourneysMove DEF workspaceVars

\* What the invariant says of a journey is what JourneysComplete asks.
LEMMA JourneysAreComplete == JourneysInv => JourneysComplete
<1> SUFFICES ASSUME JourneysInv PROVE JourneysComplete
  OBVIOUS
<1>1. CASE scenario # "journeys"
  <2>1. Begun = {} /\ \A t : For(t) = {}
    BY <1>1 DEF JourneysInv, For
  <2>2. \A t : Cardinality(For(t)) <= 1
    BY <2>1, FS_EmptySet
  <2> QED
    BY <2>1, <2>2 DEF JourneysComplete
<1>2. CASE scenario = "journeys"
  <2>1. \A t \in Targets \ contested : Cardinality(For(t)) <= 1
    BY <1>2, AtMostOne DEF JourneysInv
  <2>2. \A j \in Begun : j \notin faulted =>
            Raised(j) + Cardinality(Raising(j)) = Cardinality(DueAt(j))
    BY <1>2 DEF JourneysInv, Alerted, Begun
  <2> QED
    BY <2>1, <2>2 DEF JourneysComplete, Raised, Raising, DueAt
<1> QED
  BY <1>1, <1>2

-------------------------------------------------------------------------------
(* The document wallet. *)

\* The file is there before the record is put; a share under way is new, and no
\* other call has its id; a share that is being revoked is on record.
WalletRequest(r) ==
    req[r] # Idle =>
        /\ At(r, "put_document") => req[r].on \in bytes
        /\ At(r, "put_share") \/ At(r, "put_revoked") =>
               "share" \in DOMAIN req[r] /\ req[r].share \in Shares
        /\ At(r, "put_share") =>
               /\ shares[req[r].share] = "none"
               /\ \A q \in Request : q # r /\ At(q, "put_share") => req[q].share # req[r].share
        /\ At(r, "put_revoked") => shares[req[r].share] # "none"

WalletInv ==
    /\ DOMAIN shares = Shares /\ withdrawn \subseteq Shares
    /\ WalletHolds
    /\ scenario = "wallet" => RequestInv /\ \A r \in Request : WalletRequest(r)

\* The initial states satisfy the invariant of the wallet.
LEMMA WalletStart == ServicesInit => WalletInv
<1> SUFFICES ASSUME ServicesInit PROVE WalletInv
  OBVIOUS
<1>1. WalletInit /\ RequestsInit
  BY DEF ServicesInit
<1>2. RequestInv /\ \A r \in Request : req[r] = Idle
  BY <1>1, RequestsStart
<1> QED
  BY <1>1, <1>2 DEF WalletInit, WalletInv, WalletHolds, WalletRequest

\* Every step of the wallet keeps it.
LEMMA WalletMoves ==
    ASSUME WalletInv, scenario = "wallet", scenario' = scenario, WalletNext
    PROVE  WalletInv'
<1> USE DEF WalletInv
<1>1. RequestInv
  OBVIOUS
<1>2. ASSUME NEW r \in Request, NEW d \in Files, Upload(r, d) PROVE WalletInv'
  <2>1. Begin(r, d, [at |-> "put_document"]) /\ bytes' = bytes \cup {d}
        /\ UNCHANGED <<documents, shares, withdrawn>>
    BY <1>2 DEF Upload
  <2>2. /\ req'[r] = With([at |-> "put_document"], [on |-> d])
        /\ \A q \in Request \ {r} : req'[q] = req[q]
    BY <1>1, <2>1, BeginWrites
  <2>3. /\ {"at", "on"} \subseteq DOMAIN req'[r]
        /\ req'[r].at = "put_document" /\ req'[r].on = d
    BY <2>2 DEF With
  <2>4. RequestInv'
    BY <1>1, <2>1, <2>3, BeginKeeps
  <2>5. \A q \in Request : WalletRequest(q)'
    BY <2>1, <2>2, <2>3 DEF WalletRequest, At
  <2> QED
    BY <2>1, <2>4, <2>5 DEF WalletHolds
<1>3. ASSUME NEW r \in Request, NEW d \in Files, NEW s \in Shares, Share(r, d, s)
      PROVE  WalletInv'
  <2>1. /\ Begin(r, d, [at |-> "put_share", share |-> s]) /\ UNCHANGED walletVars
        /\ shares[s] = "none"
        /\ \A q \in Request : ~(At(q, "put_share") /\ req[q].share = s)
    BY <1>3 DEF Share
  <2>2. /\ req'[r] = With([at |-> "put_share", share |-> s], [on |-> d])
        /\ \A q \in Request \ {r} : req'[q] = req[q]
    BY <1>1, <2>1, BeginWrites
  <2>3. /\ {"at", "on"} \subseteq DOMAIN req'[r] /\ req'[r].at = "put_share" /\ req'[r].on = d
        /\ "share" \in DOMAIN req'[r] /\ req'[r].share = s
    BY <2>2 DEF With
  <2>4. RequestInv'
    BY <1>1, <2>1, <2>3, BeginKeeps
  <2>5. \A q \in Request : WalletRequest(q)'
    BY <2>1, <2>2, <2>3 DEF WalletRequest, At, walletVars
  <2> QED
    BY <2>1, <2>4, <2>5 DEF WalletHolds, walletVars
<1>4. ASSUME NEW r \in Request, NEW s \in Shares, RevokeShare(r, s) PROVE WalletInv'
  <2>1. /\ Begin(r, s, [at |-> "put_revoked", share |-> s]) /\ UNCHANGED walletVars
        /\ shares[s] # "none"
    BY <1>4 DEF RevokeShare
  <2>2. /\ req'[r] = With([at |-> "put_revoked", share |-> s], [on |-> s])
        /\ \A q \in Request \ {r} : req'[q] = req[q]
    BY <1>1, <2>1, BeginWrites
  <2>3. /\ {"at", "on"} \subseteq DOMAIN req'[r] /\ req'[r].at = "put_revoked" /\ req'[r].on = s
        /\ "share" \in DOMAIN req'[r] /\ req'[r].share = s
    BY <2>2 DEF With
  <2>4. RequestInv'
    BY <1>1, <2>1, <2>3, BeginKeeps
  <2>5. \A q \in Request : WalletRequest(q)'
    BY <2>1, <2>2, <2>3 DEF WalletRequest, At, walletVars
  <2> QED
    BY <2>1, <2>4, <2>5 DEF WalletHolds, walletVars
<1>5. ASSUME NEW r \in Request, PutDocument(r) \/ PutShare(r) \/ PutShareRevoked(r)
      PROVE  WalletInv'
  <2>1. Answer(r) /\ req[r] # Idle
    BY <1>5, AtIsBusy DEF PutDocument, PutShare, PutShareRevoked
  <2>2. /\ RequestInv' /\ req'[r] = Idle
        /\ \A q \in Request \ {r} : req'[q] = req[q]
    BY <1>1, <2>1, RequestsEnd
  <2>3. WalletRequest(r) /\ WalletRequest(r)'
    BY <2>2 DEF WalletRequest
  <2>4. CASE PutDocument(r)
    <3>1. /\ At(r, "put_document") /\ documents' = documents \cup {req[r].on}
          /\ UNCHANGED <<bytes, shares, withdrawn>>
      BY <2>4 DEF PutDocument
    <3>2. \A q \in Request : WalletRequest(q)'
      BY <2>2, <2>3, <3>1 DEF WalletRequest, At, Idle
    <3> QED
      BY <2>1, <2>2, <2>3, <3>1, <3>2 DEF WalletHolds, WalletRequest
  <2>5. CASE PutShare(r)
    <3>1. /\ At(r, "put_share") /\ shares' = [shares EXCEPT ![req[r].share] = "granted"]
          /\ UNCHANGED <<bytes, documents, withdrawn>>
      BY <2>5 DEF PutShare
    <3>2. /\ req[r].share \in Shares /\ shares[req[r].share] = "none"
          /\ \A q \in Request \ {r} : At(q, "put_share") => req[q].share # req[r].share
      BY <2>1, <2>3, <3>1 DEF WalletRequest
    <3>3. \A q \in Request \ {r} : WalletRequest(q)'
      BY <2>2, <3>1, <3>2 DEF WalletRequest, At, Idle
    <3> QED
      BY <2>2, <2>3, <3>1, <3>2, <3>3 DEF WalletHolds
  <2>6. CASE PutShareRevoked(r)
    <3>1. /\ At(r, "put_revoked") /\ shares' = [shares EXCEPT ![req[r].share] = "revoked"]
          /\ withdrawn' = withdrawn \cup {req[r].share}
          /\ UNCHANGED <<bytes, documents>>
      BY <2>6 DEF PutShareRevoked
    <3>2. req[r].share \in Shares /\ shares[req[r].share] # "none"
      BY <2>1, <2>3, <3>1 DEF WalletRequest
    <3>3. \A q \in Request \ {r} : WalletRequest(q)'
      BY <2>2, <3>1, <3>2 DEF WalletRequest, At, Idle
    <3> QED
      BY <2>2, <2>3, <3>1, <3>2, <3>3 DEF WalletHolds
  <2> QED
    BY <1>5, <2>4, <2>5, <2>6
<1> QED
  BY <1>2, <1>3, <1>4, <1>5 DEF WalletNext

\* The invariant of the wallet holds in every state.
LEMMA WalletInvStep == WalletInv /\ [ServicesNext]_vars => WalletInv'
<1> SUFFICES ASSUME WalletInv, [ServicesNext]_vars PROVE WalletInv'
  OBVIOUS
<1>1. /\ scenario' = scenario
      /\ \/ scenario = "wallet" /\ WalletNext
         \/ (\E r \in Request : Dies(r)) /\ UNCHANGED walletVars
         \/ UNCHANGED requestVars /\ UNCHANGED walletVars
         \/ scenario # "wallet" /\ UNCHANGED walletVars
  BY DEF ServicesNext, Move, Publish, Apply, Oversee, Account, Prepare, SignIn, Settle,
         TrackJourneys, Keep, Persist, Synchronize, Only, Die, vars
<1>2. ASSUME scenario = "wallet", NEW r \in Request, Dies(r), UNCHANGED walletVars
      PROVE  WalletInv'
  <2>1. /\ RequestInv' /\ req'[r] = Idle
        /\ \A q \in Request \ {r} : req'[q] = req[q]
    BY <1>2, RequestsEnd DEF WalletInv
  <2>2. \A q \in Request : WalletRequest(q)'
    BY <1>2, <2>1 DEF WalletInv, WalletRequest, walletVars, At, Idle
  <2> QED
    BY <1>2, <2>1, <2>2 DEF WalletInv, WalletHolds, walletVars
<1>3. CASE UNCHANGED requestVars /\ UNCHANGED walletVars
  BY <1>1, <1>3 DEF WalletInv, WalletHolds, WalletRequest, RequestInv, At, walletVars, requestVars
<1>4. CASE scenario # "wallet" /\ UNCHANGED walletVars
  BY <1>1, <1>4 DEF WalletInv, WalletHolds, walletVars
<1> QED
  BY <1>1, <1>2, <1>3, <1>4, WalletMoves

-------------------------------------------------------------------------------
(* What users keep. *)

\* One account for a subject that signs in, the direction chosen last, every journey
\* once and whole, the file of each document, each revocation of a share, and what was
\* put last in the storage (UserRecordsHold), whatever calls overlap and wherever they
\* fail.
THEOREM UserRecordsAreKept == ServicesSpec => []UserRecordsHold
<1> DEFINE Inv == IdentityInv /\ ProfileInv /\ JourneysInv /\ WalletInv /\ StoreInv
<1>1. ServicesInit => Inv
  BY IdentityStart, ProfileStart, JourneysStart, WalletStart, StoreStart
<1>2. Inv /\ [ServicesNext]_vars => Inv'
  BY IdentityInvStep, ProfileInvStep, JourneysInvStep, WalletInvStep, StoreInvStep, StoreAssumption
<1>3. Inv => UserRecordsHold
  <2> SUFFICES ASSUME Inv PROVE UserRecordsHold
    OBVIOUS
  <2>1. SubjectKeepsAccount /\ DirectionHolds /\ WalletHolds
    BY DEF IdentityInv, ProfileInv, WalletInv
  <2>2. JourneysComplete /\ StoreHolds
    BY JourneysAreComplete, StoreIsKept, StoreAssumption
  <2> QED
    BY <2>1, <2>2 DEF UserRecordsHold
<1> QED
  BY <1>1, <1>2, <1>3, PTL DEF ServicesSpec

-------------------------------------------------------------------------------
(* The passport. *)

Recorded(n) == [id : Nat, version : 1..n]
Purposes    == KindSet \cup {"read", "assess", "match"}

\* The copies that a call holds have versions that updates have led to.
Versions(bundle) ==
    /\ bundle \in Seq([id : Nat, version : Nat]) /\ Len(bundle) <= 3
    /\ \A i \in 1..Len(bundle) : bundle[i] \in Recorded(1 + updates[Kinds[i]])
PassportRequest(r) ==
    req[r] # Idle =>
        /\ req[r].on = "passport"
        /\ req[r].at \in {"find", "create", "find_legacy", "put_legacy", "put_match",
                          "assess", "match"} \cup KindSet
        /\ {"for", "bundle", "todo"} \subseteq DOMAIN req[r]
        /\ req[r].for \in Purposes
        /\ req[r].at \in {"assess", "match"} \cup KindSet => req[r].at = req[r].for
        /\ Versions(req[r].bundle)
        /\ At(r, "find") => req[r].todo \in 1..3 /\ Len(req[r].bundle) = req[r].todo - 1
        /\ ~At(r, "find") => Len(req[r].bundle) = 3
        /\ At(r, "find_legacy") \/ At(r, "put_legacy") =>
               "written" \in DOMAIN req[r] /\ req[r].for \in {"work", "study"}
        /\ At(r, "put_legacy") => "copy" \in DOMAIN req[r]
        /\ "first" \in DOMAIN req[r] =>
               /\ req[r].at \in {"find", "create", "assess", "put_match"}
               /\ req[r].for = "assess"
        /\ At(r, "put_match") => "first" \in DOMAIN req[r]

Assessed(a) ==
    /\ a.path \in {"work", "study"} /\ a.shared \in Nat /\ a.version \in Nat
    /\ a.shared <= 1 + updates["shared"] /\ a.version <= 1 + updates[a.path]

PassportRows ==
    /\ DOMAIN records = KindSet /\ DOMAIN updates = KindSet
    /\ \A k \in KindSet : updates[k] \in Nat /\ records[k] \in Seq(Recorded(1 + updates[k]))
    /\ \A a \in assessments : Assessed(a)

\* A call that has the passport to itself holds copies of what is there.
Copy(k) == IF Found(k) THEN records[k][1] ELSE [id |-> 0, version |-> 1]
CallAlone(r) ==
    req[r] # Idle =>
        /\ req[r].at \notin {"find_legacy", "put_legacy"} =>
               \A i \in 1..Len(req[r].bundle) : req[r].bundle[i] = Copy(Kinds[i])
        /\ req[r].at \notin {"find", "create"} => \A i \in 1..3 : Found(Kinds[i])
        /\ "first" \in DOMAIN req[r] => req[r].first = 1 + updates["shared"] /\ Found("shared")
        /\ At(r, "find_legacy") \/ At(r, "put_legacy") => req[r].written = 1 + updates[req[r].for]
        /\ At(r, "put_legacy") => req[r].copy = legacy

\* The older profile says what the record says, or is about to.
Copied(k) ==
    \/ legacy[k] = 1 + updates[k]
    \/ \E r \in Request : (At(r, "find_legacy") \/ At(r, "put_legacy")) /\ req[r].for = k

OneRecord(k) ==
    \/ records[k] = <<>> /\ updates[k] = 0
    \/ records[k] = <<[id |-> 1, version |-> 1 + updates[k]]>>

PassportAlone ==
    /\ DOMAIN legacy = {"work", "study"}
    /\ \A k \in KindSet : OneRecord(k)
    /\ \A m \in matches : m.named = m.assessed
    /\ \A r \in Request : CallAlone(r)
    /\ "passport" \notin faulted => \A k \in {"work", "study"} : updates[k] > 0 => Copied(k)

PassportInv ==
    /\ PassportRows
    /\ scenario # "passport" => matches = {} /\ \A k \in KindSet : records[k] = <<>> /\ updates[k] = 0
    /\ scenario = "passport" =>
           /\ RequestInv /\ \A r \in Request : PassportRequest(r)
           /\ "passport" \notin contested => PassportAlone

\* The records of a passport.
LEMMA KindsAre ==
    /\ Kinds[1] = "shared" /\ Kinds[2] = "work" /\ Kinds[3] = "study"
    /\ KindSet = {"shared", "work", "study"}
BY DEF Kinds, KindSet

\* The only record of a kind has the version that its updates have led to.
LEMMA OneRecordIs ==
    ASSUME NEW k \in KindSet, OneRecord(k), updates[k] \in Nat
    PROVE  /\ Len(records[k]) <= 1 /\ Copy(k).version = 1 + updates[k]
           /\ Found(k) <=> records[k] # <<>>
           /\ Found(k) => /\ records[k] = <<[id |-> 1, version |-> 1 + updates[k]]>>
                          /\ Version(k) = 1 + updates[k]
                          /\ Copy(k) = [id |-> 1, version |-> 1 + updates[k]]
           /\ ~Found(k) => Copy(k) = [id |-> 0, version |-> 1] /\ records[k] = <<>>
<1> DEFINE row == [id |-> 1, version |-> 1 + updates[k]]
<1>1. CASE records[k] = <<>> /\ updates[k] = 0
  <2>1. Len(records[k]) = 0 /\ ~Found(k)
    BY <1>1 DEF Found
  <2> QED
    BY <1>1, <2>1 DEF Copy
<1>2. CASE records[k] = <<row>>
  <2>1. Len(records[k]) = 1 /\ records[k][1] = row /\ Found(k) /\ records[k] # <<>>
    BY <1>2 DEF Found
  <2> QED
    BY <1>2, <2>1 DEF Copy, Version
<1> QED
  BY <1>1, <1>2 DEF OneRecord

\* A put keeps the rows among those that there can be.
LEMMA PutIsRow ==
    ASSUME NEW S, NEW rows \in Seq(S), NEW row \in S
    PROVE  PostgresPut(rows, row) \in Seq(S)
<1>1. Without(rows, row.id) \in Seq(S)
  <2>1. CASE row.id \in RowIds(rows)
    <3> DEFINE p == Place(rows, row.id)
    <3>1. p \in 1..Len(rows) /\ Without(rows, row.id) = RemoveAt(rows, p)
      BY <2>1 DEF Place, RowIds, Without
    <3> HIDE DEF p
    <3>2. SubSeq(rows, 1, p - 1) \in Seq(S) /\ SubSeq(rows, p + 1, Len(rows)) \in Seq(S)
      BY <3>1
    <3> QED
      BY <3>1, <3>2 DEF RemoveAt
  <2> QED
    BY <2>1 DEF Without
<1> QED
  BY <1>1 DEF PostgresPut

\* A put of the only row.
LEMMA PutAlone ==
    ASSUME NEW rows, NEW row, rows = <<>> \/ \E x : rows = <<x>> /\ x.id = row.id
    PROVE  PostgresPut(rows, row) = <<row>>
<1>1. Without(rows, row.id) = <<>>
  <2>1. CASE rows = <<>>
    BY <2>1 DEF Without, RowIds
  <2>2. CASE rows # <<>>
    <3>1. PICK x : rows = <<x>> /\ x.id = row.id
      BY <2>2
    <3>2. DOMAIN rows = {1} /\ rows[1] = x /\ Len(rows) = 1
      BY <3>1
    <3>3. row.id \in RowIds(rows) /\ Place(rows, row.id) = 1
      BY <3>1, <3>2 DEF RowIds, Place
    <3>4. SubSeq(rows, 1, 1 - 1) = <<>> /\ SubSeq(rows, 1 + 1, 1) = <<>>
      BY <3>1
    <3> QED
      BY <3>2, <3>3, <3>4 DEF Without, RemoveAt
  <2> QED
    BY <2>1, <2>2
<1> QED
  BY <1>1 DEF PostgresPut

\* The initial states satisfy the invariant of the passport.
LEMMA PassportStart == ServicesInit => PassportInv
<1> SUFFICES ASSUME ServicesInit PROVE PassportInv
  OBVIOUS
<1>1. PassportInit /\ RequestsInit
  BY DEF ServicesInit
<1>2. RequestInv /\ \A r \in Request : req[r] = Idle
  BY <1>1, RequestsStart
<1>3. /\ \A k \in KindSet : records[k] = <<>> /\ updates[k] = 0
      /\ DOMAIN records = KindSet /\ DOMAIN updates = KindSet
      /\ DOMAIN legacy = {"work", "study"} /\ assessments = {} /\ matches = {}
  BY <1>1 DEF PassportInit
<1>4. PassportRows
  <2>1. \A k \in KindSet : updates[k] \in Nat /\ records[k] \in Seq(Recorded(1 + updates[k]))
    <3> TAKE k \in KindSet
    <3>1. <<>> \in Seq(Recorded(1 + updates[k]))
      OBVIOUS
    <3>2. records[k] = <<>> /\ updates[k] \in Nat
      BY <1>3
    <3> QED
      BY <3>1, <3>2
  <2> QED
    BY <1>3, <2>1 DEF PassportRows
<1>5. PassportAlone
  <2>1. (\A k \in KindSet : OneRecord(k)) /\ \A r \in Request : CallAlone(r)
    BY <1>2, <1>3 DEF OneRecord, CallAlone
  <2>2. \A k \in {"work", "study"} : ~(updates[k] > 0)
    BY <1>3, KindsAre
  <2> QED
    BY <1>3, <2>1, <2>2 DEF PassportAlone
<1> QED
  BY <1>2, <1>3, <1>4, <1>5 DEF PassportInv, PassportRequest

\* The invariant says that the passport keeps its updates.
LEMMA PassportIsKept == PassportInv => PassportKeepsUpdates
<1> SUFFICES ASSUME PassportInv PROVE PassportKeepsUpdates
  OBVIOUS
<1>1. \A k \in KindSet : \A i \in DOMAIN records[k] : records[k][i].version <= 1 + updates[k]
  <2> SUFFICES ASSUME NEW k \in KindSet, NEW i \in DOMAIN records[k]
               PROVE  records[k][i].version <= 1 + updates[k]
    OBVIOUS
  <2>1. updates[k] \in Nat /\ records[k] \in Seq(Recorded(1 + updates[k]))
    BY DEF PassportInv, PassportRows
  <2>2. records[k][i] \in Recorded(1 + updates[k])
    BY <2>1
  <2> QED
    BY <2>1, <2>2 DEF Recorded
<1>2. ASSUME "passport" \notin contested, scenario = "passport"
      PROVE  /\ \A k \in KindSet : Len(records[k]) <= 1 /\ (Found(k) => Version(k) = 1 + updates[k])
             /\ \A m \in matches : m.named = m.assessed
             /\ Undisturbed("passport") /\ (\A r \in Request : req[r] = Idle) =>
                    \A k \in {"work", "study"} : updates[k] > 0 => legacy[k] = Version(k)
  <2>1. PassportAlone /\ PassportRows
    BY <1>2 DEF PassportInv
  <2>2. \A k \in KindSet : /\ Len(records[k]) <= 1 /\ (Found(k) => Version(k) = 1 + updates[k])
                           /\ updates[k] > 0 => Found(k)
    BY <2>1, OneRecordIs DEF PassportAlone, PassportRows, OneRecord
  <2>3. ASSUME "passport" \notin faulted, \A r \in Request : req[r] = Idle,
               NEW k \in {"work", "study"}, updates[k] > 0
        PROVE  legacy[k] = Version(k)
    <3>1. Copied(k) /\ k \in KindSet
      BY <2>1, <2>3, KindsAre DEF PassportAlone
    <3>2. legacy[k] = 1 + updates[k]
      BY <2>3, <3>1 DEF Copied, At, Idle
    <3> QED
      BY <2>2, <2>3, <3>1, <3>2
  <2> QED
    BY <2>1, <2>2, <2>3 DEF PassportAlone, Undisturbed
<1>3. ASSUME scenario # "passport"
      PROVE  /\ \A k \in KindSet : Len(records[k]) <= 1 /\ ~Found(k)
             /\ \A m \in matches : m.named = m.assessed
             /\ \A k \in {"work", "study"} : ~(updates[k] > 0)
  BY <1>3, KindsAre DEF PassportInv, Found
<1> QED
  BY <1>1, <1>2, <1>3 DEF PassportKeepsUpdates, PassportInv, PassportRows, Assessed

\* Every step of the passport keeps it.
LEMMA PassportMoves ==
    ASSUME PassportInv, scenario = "passport", scenario' = scenario, PassportNext
    PROVE  PassportInv'
<1> USE DEF PassportInv
<1>1. RequestInv /\ (\A r \in Request : PassportRequest(r)) /\ PassportRows
  OBVIOUS
\* Who waits while nobody contests has the passport to itself.
<1>2. ASSUME NEW r \in Request, req[r] # Idle, contested' = contested, "passport" \notin contested
      PROVE  \A q \in Request \ {r} : req[q] = Idle
  BY <1>1, <1>2, OthersContest DEF PassportRequest
\* The copies of the calls that stand still, whatever updates the step writes.
<1>3. ASSUME NEW b, Versions(b), DOMAIN updates' = KindSet,
             \A k \in KindSet : updates'[k] \in Nat /\ updates[k] <= updates'[k]
      PROVE  Versions(b)'
  <2> SUFFICES ASSUME NEW i \in 1..Len(b) PROVE b[i] \in Recorded(1 + updates'[Kinds[i]])
    BY <1>3 DEF Versions
  <2>1. i \in {1, 2, 3} /\ b[i] \in Recorded(1 + updates[Kinds[i]])
    BY <1>3 DEF Versions
  <2>2. Kinds[i] \in KindSet
    BY <2>1, KindsAre
  <2>3. PICK m : m = updates[Kinds[i]]
    OBVIOUS
  <2>4. PICK n : n = updates'[Kinds[i]]
    OBVIOUS
  <2>5. m \in Nat /\ n \in Nat /\ m <= n
    BY <1>1, <1>3, <2>2, <2>3, <2>4 DEF PassportRows
  <2>6. Recorded(1 + m) \subseteq Recorded(1 + n)
    BY <2>5 DEF Recorded
  <2> QED
    BY <2>1, <2>3, <2>4, <2>6
<1>4. ASSUME NEW q \in Request, req'[q] = req[q], DOMAIN updates' = KindSet,
             \A k \in KindSet : updates'[k] \in Nat /\ updates[k] <= updates'[k]
      PROVE  PassportRequest(q)'
  <2> SUFFICES ASSUME req[q] # Idle PROVE PassportRequest(q)'
    BY <1>4 DEF PassportRequest
  <2>1. PICK b : b = req[q].bundle
    OBVIOUS
  <2>2. Versions(b)'
    BY <1>1, <1>3, <1>4, <2>1 DEF PassportRequest
  <2> QED
    BY <1>1, <1>4, <2>1, <2>2 DEF PassportRequest, At
\* Steps that write no record, update or older profile.
<1>5. ASSUME NEW r \in Request, records' = records, updates' = updates, legacy' = legacy,
             \A q \in Request \ {r} : req'[q] = req[q],
             RequestInv', PassportRequest(r)',
             \A a \in assessments' \ assessments : Assessed(a),
             "passport" \notin contested' =>
                 /\ "passport" \notin contested /\ \A q \in Request \ {r} : req[q] = Idle
                 /\ CallAlone(r)' /\ \A m \in matches' : m.named = m.assessed,
             faulted' = faulted,
             At(r, "find_legacy") => At(r, "put_legacy")' /\ req'[r].for = req[r].for,
             ~At(r, "put_legacy")
      PROVE  PassportInv'
  <2>1. \A q \in Request : PassportRequest(q)'
    BY <1>1, <1>4, <1>5 DEF PassportRows
  <2>2. PassportRows'
    BY <1>1, <1>5 DEF PassportRows, Assessed
  <2>3. ASSUME "passport" \notin contested' PROVE PassportAlone'
    <3>1. PassportAlone
      BY <1>5, <2>3
    <3>2. \A q \in Request : CallAlone(q)'
      BY <1>5, <2>3 DEF CallAlone
    <3>3. \A k : Copied(k) => Copied(k)'
      <4> SUFFICES ASSUME NEW k, Copied(k) PROVE Copied(k)'
        OBVIOUS
      <4>1. CASE legacy[k] = 1 + updates[k]
        BY <1>5, <4>1 DEF Copied
      <4>2. CASE At(r, "find_legacy") /\ req[r].for = k
        BY <1>5, <4>2 DEF Copied
      <4> QED
        BY <1>5, <2>3, <4>1, <4>2 DEF Copied, At, Idle
    <3>4. \A k \in KindSet : OneRecord(k)'
      BY <1>5, <3>1 DEF PassportAlone, OneRecord
    <3> QED
      BY <1>5, <2>3, <3>1, <3>2, <3>3, <3>4 DEF PassportAlone
  <2> QED
    BY <1>5, <2>1, <2>2, <2>3
<1>6. ASSUME NEW r \in Request, NEW purpose \in Purposes, Use(r, purpose) PROVE PassportInv'
  <2> DEFINE fields == [at |-> "find", todo |-> 1, bundle |-> <<>>, for |-> purpose]
  <2>1. Begin(r, "passport", fields) /\ UNCHANGED passportVars
    BY <1>6 DEF Use
  <2>2. /\ req'[r] = With(fields, [on |-> "passport"]) /\ req[r] = Idle /\ faulted' = faulted
        /\ \A q \in Request \ {r} : req'[q] = req[q]
        /\ contested' = IF Others(r, "passport") THEN contested \cup {"passport"} ELSE contested
    BY <1>1, <2>1, BeginWrites
  <2>3. /\ DOMAIN req'[r] = {"at", "on", "todo", "bundle", "for"}
        /\ req'[r].at = "find" /\ req'[r].on = "passport" /\ req'[r].todo = 1
        /\ req'[r].bundle = <<>> /\ req'[r].for = purpose
    BY <2>2 DEF With
  <2>4. RequestInv'
    BY <1>1, <2>1, <2>3, BeginKeeps
  <2>5. Versions(<<>>)' /\ Len(<<>>) = 0
    BY DEF Versions
  <2>6. PassportRequest(r)'
    BY <2>3, <2>5, KindsAre DEF PassportRequest, At
  <2>7. CallAlone(r)'
    BY <2>3, <2>5 DEF CallAlone, At
  <2>8. "passport" \notin contested' =>
            "passport" \notin contested /\ \A q \in Request \ {r} : req[q] = Idle
    BY <1>1, <2>2 DEF Others, PassportRequest
  <2> QED
    BY <1>5, <2>1, <2>2, <2>4, <2>6, <2>7, <2>8 DEF passportVars, At, Idle, PassportAlone
\* What a request that goes on or ends leaves alone.
<1>7. ASSUME NEW r \in Request, NEW fields, Goto(r, fields), req[r] # Idle
      PROVE  /\ req'[r] = With(fields, req[r]) /\ contested' = contested /\ faulted' = faulted
             /\ \A q \in Request \ {r} : req'[q] = req[q]
             /\ "passport" \notin contested' => \A q \in Request \ {r} : req[q] = Idle
  BY <1>1, <1>2, <1>7, GotoWrites
<1>8. ASSUME NEW r \in Request, Answer(r), req[r] # Idle
      PROVE  /\ req'[r] = Idle /\ contested' = contested /\ faulted' = faulted
             /\ \A q \in Request \ {r} : req'[q] = req[q]
             /\ "passport" \notin contested' => \A q \in Request \ {r} : req[q] = Idle
             /\ RequestInv' /\ PassportRequest(r)' /\ CallAlone(r)'
  <2>1. contested' = contested /\ faulted' = faulted
    BY <1>8 DEF Answer
  <2>2. RequestInv' /\ req'[r] = Idle /\ \A q \in Request \ {r} : req'[q] = req[q]
    BY <1>1, <1>8, RequestsEnd
  <2> QED
    BY <1>2, <1>8, <2>1, <2>2 DEF PassportRequest, CallAlone
<1>9. ASSUME NEW r \in Request, Find(r) PROVE PassportInv'
  <2>1. At(r, "find") /\ UNCHANGED passportVars /\ req[r] # Idle
    BY <1>9, AtIsBusy DEF Find
  <2>2. PICK n : n = req[r].todo
    OBVIOUS
  <2>3. PICK b : b = req[r].bundle
    OBVIOUS
  <2>4. PICK copy : copy = Copy(Kinds[n])
    OBVIOUS
  <2>5. n \in 1..3 /\ Versions(b) /\ Len(b) = n - 1 /\ Kinds[n] \in KindSet
    BY <1>1, <2>1, <2>2, <2>3, KindsAre DEF PassportRequest
  <2>6. copy \in Recorded(1 + updates[Kinds[n]]) /\ copy \in [id : Nat, version : Nat]
    <3>1. updates[Kinds[n]] \in Nat /\ records[Kinds[n]] \in Seq(Recorded(1 + updates[Kinds[n]]))
      BY <1>1, <2>5 DEF PassportRows
    <3>2. Found(Kinds[n]) => records[Kinds[n]][1] \in Recorded(1 + updates[Kinds[n]])
      BY <3>1 DEF Found
    <3>3. [id |-> 0, version |-> 1] \in Recorded(1 + updates[Kinds[n]])
      BY <3>1 DEF Recorded
    <3>4. Recorded(1 + updates[Kinds[n]]) \subseteq [id : Nat, version : Nat]
      BY <3>1 DEF Recorded
    <3> QED
      BY <2>4, <3>2, <3>3, <3>4 DEF Copy
  <2>7. PICK bundle : bundle = Append(b, copy)
    OBVIOUS
  <2>8. /\ Versions(bundle) /\ Len(bundle) = n
        /\ \A i \in 1..n : bundle[i] = IF i < n THEN b[i] ELSE copy
    <3>1. /\ bundle \in Seq([id : Nat, version : Nat]) /\ Len(bundle) = n
          /\ \A i \in 1..n : bundle[i] = IF i < n THEN b[i] ELSE copy
      BY <2>5, <2>6, <2>7 DEF Versions
    <3>2. \A i \in 1..n : bundle[i] \in Recorded(1 + updates[Kinds[i]])
      <4> TAKE i \in 1..n
      <4>1. CASE i < n
        BY <2>5, <3>1, <4>1 DEF Versions
      <4>2. CASE ~(i < n)
        <5>1. i = n /\ bundle[i] = copy
          BY <2>5, <3>1, <4>2
        <5> QED
          BY <2>6, <5>1
      <4> QED
        BY <4>1, <4>2
    <3> QED
      BY <2>5, <3>1, <3>2 DEF Versions
  <2>9. PICK fields : /\ Goto(r, fields)
                      /\ \/ n < 3 /\ fields = [todo |-> n + 1, bundle |-> bundle]
                         \/ ~(n < 3) /\ fields = [at |-> "create", todo |-> 1, bundle |-> bundle]
    BY <1>9, <2>2, <2>3, <2>4, <2>7 DEF Find, Copy
  <2>10. /\ req'[r] = With(fields, req[r]) /\ contested' = contested /\ faulted' = faulted
         /\ \A q \in Request \ {r} : req'[q] = req[q]
         /\ "passport" \notin contested' => \A q \in Request \ {r} : req[q] = Idle
    BY <1>7, <2>1, <2>9
  <2>11. {"at", "on", "todo", "bundle", "for"} \subseteq DOMAIN req[r] /\ req[r].at = "find"
    BY <1>1, <2>1 DEF PassportRequest, RequestInv, At
  <2>12. /\ DOMAIN req'[r] = DOMAIN req[r] /\ req'[r].on = req[r].on /\ req'[r].for = req[r].for
         /\ req'[r].bundle = bundle
         /\ \/ n < 3 /\ req'[r].at = "find" /\ req'[r].todo = n + 1
            \/ n = 3 /\ req'[r].at = "create"
         /\ "first" \in DOMAIN req[r] => req'[r].first = req[r].first
    BY <2>5, <2>9, <2>10, <2>11 DEF With
  <2>13. RequestInv'
    BY <1>1, <2>1, <2>9, <2>11, <2>12, GotoKeeps
  <2>14. updates' = updates /\ records' = records
    BY <2>1 DEF passportVars
  <2>15. PassportRequest(r)'
    <3>1. Versions(bundle)'
      BY <2>8, <2>14 DEF Versions
    <3> QED
      BY <1>1, <2>1, <2>5, <2>8, <2>11, <2>12, <3>1, KindsAre DEF PassportRequest, At
  <2>16. "passport" \notin contested => CallAlone(r)'
    <3> SUFFICES ASSUME "passport" \notin contested PROVE CallAlone(r)'
      OBVIOUS
    <3>1. CallAlone(r)
      BY DEF PassportAlone
    <3>2. \A k : Copy(k)' = Copy(k) /\ Found(k)' = Found(k)
      BY <2>14 DEF Copy, Found
    <3>3. \A i \in 1..n : bundle[i] = Copy(Kinds[i])
      <4>1. \A i \in 1..Len(b) : b[i] = Copy(Kinds[i])
        BY <2>1, <2>3, <2>11, <3>1 DEF CallAlone
      <4> QED
        BY <2>4, <2>5, <2>8, <4>1
    <3> QED
      BY <2>1, <2>8, <2>11, <2>12, <2>14, <3>1, <3>2, <3>3 DEF CallAlone, At
  <2> QED
    BY <1>5, <2>1, <2>10, <2>11, <2>13, <2>15, <2>16 DEF passportVars, At, PassportAlone
<1>10. ASSUME NEW r \in Request, Create(r), Missing(r) = {} PROVE PassportInv'
  <2>1. /\ At(r, "create") /\ UNCHANGED passportVars /\ req[r] # Idle
        /\ \/ req[r].for = "read" /\ Answer(r)
           \/ req[r].for # "read" /\ Goto(r, [at |-> req[r].for])
    BY <1>10, AtIsBusy DEF Create, After, passportVars
  <2>2. CASE Answer(r)
    BY <1>5, <1>8, <2>1, <2>2, KindsAre DEF passportVars, At, PassportAlone
  <2>3. CASE req[r].for # "read" /\ Goto(r, [at |-> req[r].for])
    <3>1. PICK x : x = req[r].for
      OBVIOUS
    <3>2. PICK b : b = req[r].bundle
      OBVIOUS
    <3>3. /\ {"at", "on", "todo", "bundle", "for"} \subseteq DOMAIN req[r] /\ req[r].at = "create"
          /\ x \in KindSet \cup {"assess", "match"} /\ Versions(b) /\ Len(b) = 3
          /\ "first" \in DOMAIN req[r] => x = "assess"
      BY <1>1, <2>1, <2>3, <3>1, <3>2 DEF PassportRequest, RequestInv, At, Purposes
    <3>4. /\ req'[r] = With([at |-> x], req[r]) /\ contested' = contested /\ faulted' = faulted
          /\ \A q \in Request \ {r} : req'[q] = req[q]
          /\ "passport" \notin contested' => \A q \in Request \ {r} : req[q] = Idle
      BY <1>7, <2>1, <2>3, <3>1
    <3>5. /\ DOMAIN req'[r] = DOMAIN req[r] /\ req'[r].on = req[r].on /\ req'[r].for = x
          /\ req'[r].bundle = b /\ req'[r].at = x
          /\ "first" \in DOMAIN req[r] => req'[r].first = req[r].first
      BY <3>1, <3>2, <3>3, <3>4 DEF With
    <3>6. RequestInv'
      <4>1. x # "idle" /\ Goto(r, [at |-> x])
        BY <2>3, <3>1, <3>3, KindsAre
      <4> QED
        BY <1>1, <2>1, <3>3, <3>5, <4>1, GotoKeeps
    <3>7. updates' = updates /\ records' = records
      BY <2>1 DEF passportVars
    <3>8. PassportRequest(r)'
      <4>1. Versions(b)'
        BY <3>3, <3>7 DEF Versions
      <4> QED
        BY <1>1, <2>1, <3>3, <3>5, <4>1, KindsAre DEF PassportRequest, At, Purposes
    <3>9. "passport" \notin contested => CallAlone(r)'
      <4> SUFFICES ASSUME "passport" \notin contested PROVE CallAlone(r)'
        OBVIOUS
      <4>1. /\ CallAlone(r) /\ \A k \in KindSet : OneRecord(k)
        BY DEF PassportAlone
      <4>2. \A k : Copy(k)' = Copy(k) /\ Found(k)' = Found(k)
        BY <3>7 DEF Copy, Found
      <4>3. \A i \in 1..3 : b[i] = Copy(Kinds[i]) /\ b[i].id # 0
        BY <1>10, <2>1, <3>2, <3>3, <4>1 DEF CallAlone, Missing
      <4>4. \A i \in 1..3 : Found(Kinds[i])
        BY <4>3 DEF Copy
      <4> QED
        BY <2>1, <3>3, <3>5, <3>7, <4>1, <4>2, <4>3, <4>4, KindsAre DEF CallAlone, At
    <3> QED
      BY <1>5, <2>1, <3>3, <3>4, <3>6, <3>8, <3>9 DEF passportVars, At, PassportAlone
  <2> QED
    BY <2>1, <2>2, <2>3
<1>11. ASSUME NEW r \in Request, Create(r), Missing(r) # {} PROVE PassportInv'
  <2>1. /\ At(r, "create") /\ UNCHANGED <<assessments, matches, legacy, updates>> /\ req[r] # Idle
    BY <1>11, AtIsBusy DEF Create
  <2>2. PICK i : i = CHOOSE j \in Missing(r) : \A m \in Missing(r) : j <= m
    OBVIOUS
  <2>3. i \in 1..3 /\ req[r].bundle[i].id = 0
    <3>1. Missing(r) \subseteq Nat /\ Missing(r) # {}
      BY <1>11 DEF Missing
    <3>2. i = First(Missing(r))
      BY <2>2 DEF First
    <3>3. i \in Missing(r)
      BY <3>1, <3>2, FirstIs
    <3> QED
      BY <3>3 DEF Missing
  <2>4. PICK k : k = Kinds[i]
    OBVIOUS
  <2>5. PICK b : b = req[r].bundle
    OBVIOUS
  <2>6. PICK new : new = Len(records[k]) + 1
    OBVIOUS
  <2>7. PICK rows : rows = PostgresPut(records[k], [id |-> new, version |-> 1])
    OBVIOUS
  <2>8. PICK bundle : bundle = [b EXCEPT ![i].id = new]
    OBVIOUS
  <2>9. records' = [records EXCEPT ![k] = rows] /\ Goto(r, [bundle |-> bundle])
    BY <1>11, <2>2, <2>4, <2>5, <2>6, <2>7, <2>8 DEF Create
  <2>10. /\ {"at", "on", "todo", "bundle", "for"} \subseteq DOMAIN req[r] /\ req[r].at = "create"
         /\ Versions(b) /\ Len(b) = 3 /\ k \in KindSet
    BY <1>1, <2>1, <2>3, <2>4, <2>5, KindsAre DEF PassportRequest, RequestInv, At
  <2>11. /\ updates[k] \in Nat /\ records[k] \in Seq(Recorded(1 + updates[k]))
         /\ new \in Nat /\ [id |-> new, version |-> 1] \in Recorded(1 + updates[k])
    <3>1. updates[k] \in Nat /\ records[k] \in Seq(Recorded(1 + updates[k]))
      BY <1>1, <2>10 DEF PassportRows
    <3>2. new \in Nat
      BY <2>6, <3>1
    <3> QED
      BY <3>1, <3>2 DEF Recorded
  <2>12. rows \in Seq(Recorded(1 + updates[k]))
    BY <2>7, <2>11, PutIsRow
  <2>13. /\ Versions(bundle) /\ Len(bundle) = 3
         /\ bundle[i] = [id |-> new, version |-> b[i].version]
         /\ \A j \in 1..3 : j # i => bundle[j] = b[j]
    <3>1. /\ b \in Seq([id : Nat, version : Nat])
          /\ \A j \in 1..3 : b[j] \in Recorded(1 + updates[Kinds[j]])
      BY <2>10 DEF Versions
    <3>2. b[i] \in Recorded(1 + updates[k]) /\ b[i] \in [id : Nat, version : Nat]
      <4>1. b[i] \in Recorded(1 + updates[k])
        BY <2>3, <2>4, <3>1
      <4>2. b[i] \in [id : Nat, version : Nat]
        <5>1. PICK S : S = [id : Nat, version : Nat]
          OBVIOUS
        <5>2. b \in Seq(S) /\ i \in 1..Len(b)
          BY <2>3, <2>10, <3>1, <5>1
        <5>3. b[i] \in S
          BY <5>2
        <5> QED
          BY <5>1, <5>3
      <4> QED
        BY <4>1, <4>2
    <3>3. PICK x : x = [b[i] EXCEPT !.id = new]
      OBVIOUS
    <3>4. x = [id |-> new, version |-> b[i].version] /\ x \in Recorded(1 + updates[k])
          /\ x \in [id : Nat, version : Nat]
      BY <2>11, <3>2, <3>3 DEF Recorded
    <3>5. bundle = [b EXCEPT ![i] = x]
      BY <2>8, <3>3
    <3>6. /\ bundle \in Seq([id : Nat, version : Nat]) /\ Len(bundle) = 3
          /\ bundle[i] = x /\ \A j \in 1..3 : j # i => bundle[j] = b[j]
      <4>1. PICK S : S = [id : Nat, version : Nat]
        OBVIOUS
      <4>2. b \in Seq(S) /\ Len(b) = 3 /\ DOMAIN b = 1..3 /\ x \in S
        BY <2>10, <3>1, <3>4, <4>1
      <4>3. bundle \in Seq(S) /\ Len(bundle) = 3
        <5>1. i \in 1..Len(b)
          BY <2>3, <4>2
        <5> QED
          BY <3>5, <4>2, <5>1, ExceptSeq
      <4> QED
        BY <2>3, <3>5, <4>1, <4>2, <4>3
    <3>7. \A j \in 1..3 : bundle[j] \in Recorded(1 + updates[Kinds[j]])
      BY <2>4, <3>1, <3>4, <3>6
    <3> QED
      BY <3>4, <3>6, <3>7 DEF Versions
  <2>14. /\ req'[r] = With([bundle |-> bundle], req[r]) /\ contested' = contested
         /\ faulted' = faulted /\ \A q \in Request \ {r} : req'[q] = req[q]
         /\ "passport" \notin contested' => \A q \in Request \ {r} : req[q] = Idle
    BY <1>7, <2>1, <2>9
  <2>15. /\ DOMAIN req'[r] = DOMAIN req[r] /\ req'[r].on = req[r].on /\ req'[r].for = req[r].for
         /\ req'[r].bundle = bundle /\ req'[r].at = "create"
         /\ "first" \in DOMAIN req[r] => req'[r].first = req[r].first
    BY <2>10, <2>14 DEF With
  <2>16. RequestInv'
    BY <1>1, <2>1, <2>9, <2>10, <2>15, GotoKeeps
  <2>17. PassportRequest(r)'
    <3>1. Versions(bundle)'
      BY <2>1, <2>13 DEF Versions
    <3> QED
      BY <1>1, <2>1, <2>10, <2>13, <2>15, <3>1, KindsAre DEF PassportRequest, At
  <2>18. \A q \in Request : PassportRequest(q)'
    BY <1>1, <1>4, <2>1, <2>14, <2>17 DEF PassportRows
  <2>19. PassportRows'
    BY <1>1, <2>1, <2>9, <2>12 DEF PassportRows, Assessed
  <2>20. ASSUME "passport" \notin contested' PROVE PassportAlone'
    <3>1. PassportAlone
      BY <2>14, <2>20
    <3>2. CallAlone(r) /\ OneRecord(k)
      BY <2>10, <3>1 DEF PassportAlone
    <3>3. \A j \in 1..3 : b[j] = Copy(Kinds[j])
      BY <2>1, <2>5, <2>10, <3>2 DEF CallAlone
    <3>4. ~Found(k)
      <4>1. Copy(k).id = 0
        BY <2>3, <2>4, <2>5, <3>3
      <4>2. Found(k) => Copy(k) = [id |-> 1, version |-> 1 + updates[k]]
        BY <2>10, <2>11, <3>2, OneRecordIs
      <4> QED
        BY <4>1, <4>2
    <3>5. records[k] = <<>> /\ updates[k] = 0 /\ b[i].version = 1
      BY <2>3, <2>4, <2>10, <2>11, <3>2, <3>3, <3>4, OneRecordIs DEF OneRecord
    <3>6. new = 1 /\ rows = <<[id |-> 1, version |-> 1]>>
      BY <2>6, <2>7, <3>5, PutAlone
    <3>7. /\ records'[k] = <<[id |-> 1, version |-> 1]>>
          /\ \A m \in KindSet \ {k} : records'[m] = records[m]
      BY <1>1, <2>9, <2>10, <3>6 DEF PassportRows
    <3>8. Found(k)' /\ Copy(k)' = [id |-> 1, version |-> 1]
      BY <3>7 DEF Found, Copy
    <3>9. \A m \in KindSet \ {k} : Found(m)' = Found(m) /\ Copy(m)' = Copy(m)
      BY <3>7 DEF Found, Copy
    <3>10. \A j \in 1..3 : bundle[j] = Copy(Kinds[j])'
      <4> TAKE j \in 1..3
      <4>1. CASE j = i
        BY <2>4, <2>13, <3>5, <3>6, <3>8, <4>1
      <4>2. CASE j # i
        <5>1. Kinds[j] \in KindSet \ {k}
          BY <2>3, <2>4, <4>2, KindsAre
        <5> QED
          BY <2>13, <3>3, <3>9, <4>2, <5>1
      <4> QED
        BY <4>1, <4>2
    <3>11. CallAlone(r)'
      BY <2>1, <2>10, <2>13, <2>15, <3>2, <3>8, <3>9, <3>10, KindsAre DEF CallAlone, At
    <3>12. \A q \in Request : CallAlone(q)'
      BY <2>14, <2>20, <3>11 DEF CallAlone
    <3>13. \A m \in KindSet : OneRecord(m)'
      BY <2>1, <3>1, <3>5, <3>7 DEF PassportAlone, OneRecord
    <3>14. \A m : Copied(m) => Copied(m)'
      BY <2>1, <2>10, <2>14, <2>20 DEF Copied, At, Idle
    <3> QED
      BY <2>1, <2>14, <3>1, <3>12, <3>13, <3>14 DEF PassportAlone
  <2> QED
    BY <2>16, <2>18, <2>19, <2>20
<1>12. ASSUME NEW r \in Request, NEW i \in 1..3, Update(r, i) PROVE PassportInv'
  <2>1. PICK k : k = Kinds[i]
    OBVIOUS
  <2>2. PICK b : b = req[r].bundle
    OBVIOUS
  <2>3. PICK row : row = [b[i] EXCEPT !.version = @ + 1]
    OBVIOUS
  <2>4. PICK rows : rows = PostgresPut(records[k], row)
    OBVIOUS
  <2>5. /\ At(r, k) /\ UNCHANGED <<assessments, matches, legacy>>
        /\ records' = [records EXCEPT ![k] = rows]
        /\ updates' = [updates EXCEPT ![k] = @ + 1]
        /\ \/ i = 1 /\ Answer(r)
           \/ i # 1 /\ Goto(r, [at |-> "find_legacy", written |-> b[i].version + 1])
    BY <1>12, <2>1, <2>2, <2>3, <2>4 DEF Update
  <2>6. k \in KindSet /\ (i # 1 => k \in {"work", "study"}) /\ k # "idle" /\ (i = 1 => k = "shared")
    BY <2>1, KindsAre
  <2>7. req[r] # Idle
    BY <2>5, <2>6, AtIsBusy
  <2>8. /\ {"at", "on", "todo", "bundle", "for"} \subseteq DOMAIN req[r] /\ req[r].at = k
        /\ req[r].for = k /\ Versions(b) /\ Len(b) = 3 /\ "first" \notin DOMAIN req[r]
    BY <1>1, <2>2, <2>5, <2>6, <2>7, KindsAre DEF PassportRequest, RequestInv, At
  <2>9. PICK n : n = updates[k]
    OBVIOUS
  <2>10. /\ n \in Nat /\ records[k] \in Seq(Recorded(1 + n)) /\ b[i] \in Recorded(1 + n)
    BY <1>1, <2>1, <2>6, <2>8, <2>9 DEF PassportRows, Versions
  <2>11. /\ DOMAIN updates' = KindSet /\ updates'[k] = n + 1
         /\ \A m \in KindSet \ {k} : updates'[m] = updates[m]
         /\ \A m \in KindSet : updates'[m] \in Nat /\ updates[m] <= updates'[m]
    BY <1>1, <2>5, <2>6, <2>9, <2>10 DEF PassportRows
  <2>12. row \in Recorded(2 + n) /\ row = [id |-> b[i].id, version |-> b[i].version + 1]
    BY <2>3, <2>10 DEF Recorded
  <2>13. rows \in Seq(Recorded(2 + n))
    <3>1. Recorded(1 + n) \subseteq Recorded(2 + n)
      BY <2>10 DEF Recorded
    <3>2. records[k] \in Seq(Recorded(2 + n))
      BY <2>10, <3>1
    <3> QED
      BY <2>4, <2>12, <3>2, PutIsRow
  <2>14. PassportRows'
    <3>1. /\ DOMAIN records' = KindSet /\ records'[k] = rows
          /\ \A m \in KindSet \ {k} : records'[m] = records[m]
      BY <1>1, <2>5, <2>6 DEF PassportRows
    <3>2. \A m \in KindSet : records'[m] \in Seq(Recorded(1 + updates'[m]))
      <4> TAKE m \in KindSet
      <4>1. CASE m = k
        <5>1. 1 + updates'[m] = 2 + n
          BY <2>10, <2>11, <4>1
        <5> QED
          BY <2>13, <3>1, <4>1, <5>1
      <4>2. CASE m # k
        BY <1>1, <2>11, <3>1, <4>2 DEF PassportRows
      <4> QED
        BY <4>1, <4>2
    <3>3. ASSUME NEW a \in assessments PROVE Assessed(a)'
      <4>1. Assessed(a) /\ a.path \in KindSet /\ "shared" \in KindSet
        BY <1>1, KindsAre DEF PassportRows, Assessed
      <4>2. ASSUME NEW m \in KindSet, NEW v \in Nat, v <= 1 + updates[m] PROVE v <= 1 + updates'[m]
        <5>1. updates[m] \in Nat /\ updates'[m] \in Nat /\ updates[m] <= updates'[m]
          BY <1>1, <2>11 DEF PassportRows
        <5> QED
          BY <4>2, <5>1
      <4> QED
        BY <4>1, <4>2 DEF Assessed
    <3> QED
      BY <2>5, <2>11, <3>1, <3>2, <3>3 DEF PassportRows
  <2>15. PICK w : w = b[i].version + 1
    OBVIOUS
  <2>16. /\ contested' = contested /\ faulted' = faulted
         /\ \A q \in Request \ {r} : req'[q] = req[q]
         /\ "passport" \notin contested' => \A q \in Request \ {r} : req[q] = Idle
         /\ RequestInv'
         /\ \/ i = 1 /\ req'[r] = Idle
            \/ /\ i # 1 /\ DOMAIN req'[r] = DOMAIN req[r] \cup {"written"}
               /\ req'[r].at = "find_legacy" /\ req'[r].written = w /\ req'[r].bundle = b
               /\ req'[r].on = req[r].on /\ req'[r].for = k
    <3>1. CASE i = 1 /\ Answer(r)
      BY <1>8, <2>7, <3>1
    <3>2. CASE i # 1 /\ Goto(r, [at |-> "find_legacy", written |-> w])
      <4> DEFINE fields == [at |-> "find_legacy", written |-> w]
      <4>1. /\ req'[r] = With(fields, req[r]) /\ contested' = contested /\ faulted' = faulted
            /\ \A q \in Request \ {r} : req'[q] = req[q]
            /\ "passport" \notin contested' => \A q \in Request \ {r} : req[q] = Idle
        BY <1>7, <2>7, <3>2
      <4>2. /\ DOMAIN req'[r] = DOMAIN req[r] \cup {"written"}
            /\ req'[r].at = "find_legacy" /\ req'[r].written = w /\ req'[r].bundle = b
            /\ req'[r].on = req[r].on /\ req'[r].for = k
        BY <2>2, <2>8, <4>1 DEF With
      <4>3. RequestInv'
        BY <1>1, <2>7, <2>8, <3>2, <4>2, GotoKeeps
      <4> QED
        BY <3>2, <4>1, <4>2, <4>3
    <3> QED
      BY <2>5, <2>15, <3>1, <3>2
  <2>17. PassportRequest(r)'
    <3>1. Versions(b)'
      BY <1>3, <2>8, <2>11
    <3> QED
      BY <1>1, <2>6, <2>7, <2>8, <2>16, <3>1, KindsAre DEF PassportRequest, At, Purposes
  <2>18. \A q \in Request : PassportRequest(q)'
    BY <1>1, <1>4, <2>11, <2>16, <2>17
  <2>19. ASSUME "passport" \notin contested' PROVE PassportAlone'
    <3>1. PassportAlone
      BY <2>16, <2>19
    <3>2. CallAlone(r) /\ OneRecord(k)
      BY <2>6, <3>1 DEF PassportAlone
    <3>3. b[i] = Copy(k) /\ \A j \in 1..3 : Found(Kinds[j])
      BY <2>1, <2>2, <2>6, <2>7, <2>8, <3>2, KindsAre DEF CallAlone
    <3>4. b[i] = [id |-> 1, version |-> 1 + n] /\ records[k] = <<[id |-> 1, version |-> 1 + n]>>
      BY <2>1, <2>6, <2>9, <2>10, <3>2, <3>3, OneRecordIs
    <3>5. row = [id |-> 1, version |-> 1 + (n + 1)] /\ w = 1 + (n + 1)
      BY <2>10, <2>12, <2>15, <3>4
    <3>6. rows = <<row>>
      BY <2>4, <3>4, <3>5, PutAlone
    <3>7. /\ records'[k] = <<row>> /\ \A m \in KindSet \ {k} : records'[m] = records[m]
      BY <1>1, <2>5, <2>6, <3>6 DEF PassportRows
    <3>8. \A m \in KindSet : Found(m) => Found(m)'
      <4>1. Found(k)'
        <5>1. PICK s : s = records'[k]
          OBVIOUS
        <5>2. Len(s) = 1
          BY <3>7, <5>1
        <5> QED
          BY <5>1, <5>2 DEF Found
      <4>2. ASSUME NEW m \in KindSet \ {k}, Found(m) PROVE Found(m)'
        BY <3>7, <4>2 DEF Found
      <4> QED
        BY <4>1, <4>2
    <3>9. CallAlone(r)'
      <4>1. \A j \in 1..3 : Found(Kinds[j])'
        BY <3>3, <3>8, KindsAre
      <4> QED
        BY <2>7, <2>8, <2>11, <2>16, <3>5, <4>1 DEF CallAlone, At
    <3>10. \A q \in Request : CallAlone(q)'
      BY <2>16, <2>19, <3>9 DEF CallAlone
    <3>11. \A m \in KindSet : OneRecord(m)'
      BY <2>11, <3>1, <3>5, <3>7 DEF PassportAlone, OneRecord
    <3>12. ASSUME NEW m \in {"work", "study"}, m # k, Copied(m) PROVE Copied(m)'
      BY <2>5, <2>6, <2>8, <2>11, <2>16, <2>19, <3>12, KindsAre DEF Copied, At, Idle
    <3>13. k \in {"work", "study"} => Copied(k)'
      BY <2>6, <2>16 DEF Copied, At
    <3>14. "passport" \notin faulted' => \A m \in {"work", "study"} : updates'[m] > 0 => Copied(m)'
      BY <2>11, <2>16, <3>1, <3>12, <3>13, KindsAre DEF PassportAlone
    <3> QED
      BY <2>5, <3>1, <3>10, <3>11, <3>14 DEF PassportAlone
  <2> QED
    BY <2>14, <2>16, <2>18, <2>19
<1>13. ASSUME NEW r \in Request, FindLegacy(r) PROVE PassportInv'
  <2>1. /\ At(r, "find_legacy") /\ UNCHANGED passportVars /\ req[r] # Idle
    BY <1>13, AtIsBusy DEF FindLegacy
  <2>2. PICK copy : copy = legacy
    OBVIOUS
  <2>3. PICK b : b = req[r].bundle
    OBVIOUS
  <2>4. Goto(r, [at |-> "put_legacy", copy |-> copy])
    BY <1>13, <2>2 DEF FindLegacy
  <2>5. /\ {"at", "on", "todo", "bundle", "for", "written"} \subseteq DOMAIN req[r]
        /\ req[r].at = "find_legacy" /\ Versions(b) /\ Len(b) = 3
        /\ req[r].for \in {"work", "study"} /\ "first" \notin DOMAIN req[r]
    BY <1>1, <2>1, <2>3 DEF PassportRequest, RequestInv, At
  <2>6. /\ req'[r] = With([at |-> "put_legacy", copy |-> copy], req[r]) /\ contested' = contested
        /\ faulted' = faulted /\ \A q \in Request \ {r} : req'[q] = req[q]
        /\ "passport" \notin contested' => \A q \in Request \ {r} : req[q] = Idle
    BY <1>7, <2>1, <2>4
  <2>7. /\ DOMAIN req'[r] = DOMAIN req[r] \cup {"copy"} /\ req'[r].at = "put_legacy"
        /\ req'[r].on = req[r].on /\ req'[r].for = req[r].for /\ req'[r].bundle = b
        /\ req'[r].written = req[r].written /\ req'[r].copy = copy
    BY <2>3, <2>5, <2>6 DEF With
  <2>8. RequestInv'
    BY <1>1, <2>1, <2>4, <2>5, <2>7, GotoKeeps
  <2>9. updates' = updates /\ records' = records /\ legacy' = legacy
    BY <2>1 DEF passportVars
  <2>10. PassportRequest(r)'
    <3>1. Versions(b)'
      BY <2>5, <2>9 DEF Versions
    <3> QED
      BY <1>1, <2>1, <2>5, <2>7, <3>1, KindsAre DEF PassportRequest, At, Purposes
  <2>11. "passport" \notin contested => CallAlone(r)'
    <3> SUFFICES ASSUME "passport" \notin contested PROVE CallAlone(r)'
      OBVIOUS
    <3>1. CallAlone(r)
      BY DEF PassportAlone
    <3>2. \A k : Found(k)' = Found(k)
      BY <2>9 DEF Found
    <3> QED
      BY <2>1, <2>2, <2>5, <2>7, <2>9, <3>1, <3>2 DEF CallAlone, At
  <2> QED
    BY <1>5, <2>1, <2>6, <2>7, <2>8, <2>10, <2>11 DEF passportVars, At, PassportAlone
<1>14. ASSUME NEW r \in Request, PutLegacy(r) PROVE PassportInv'
  <2>1. /\ At(r, "put_legacy") /\ UNCHANGED <<records, assessments, matches, updates>>
        /\ req[r] # Idle /\ Answer(r)
        /\ legacy' = [req[r].copy EXCEPT ![req[r].for] = req[r].written]
    BY <1>14, AtIsBusy DEF PutLegacy
  <2>2. /\ req'[r] = Idle /\ contested' = contested /\ faulted' = faulted
        /\ \A q \in Request \ {r} : req'[q] = req[q]
        /\ "passport" \notin contested' => \A q \in Request \ {r} : req[q] = Idle
        /\ RequestInv' /\ PassportRequest(r)' /\ CallAlone(r)'
    BY <1>8, <2>1
  <2>3. \A q \in Request : PassportRequest(q)'
    BY <1>1, <1>4, <2>1, <2>2 DEF PassportRows
  <2>4. PassportRows'
    BY <1>1, <2>1 DEF PassportRows, Assessed
  <2>5. ASSUME "passport" \notin contested' PROVE PassportAlone'
    <3>1. PassportAlone /\ CallAlone(r)
      BY <2>2, <2>5 DEF PassportAlone
    <3>2. /\ req[r].copy = legacy /\ req[r].for \in {"work", "study"}
          /\ req[r].written = 1 + updates[req[r].for]
      BY <1>1, <2>1, <3>1 DEF CallAlone, PassportRequest
    <3>3. /\ DOMAIN legacy' = {"work", "study"} /\ legacy'[req[r].for] = 1 + updates[req[r].for]
          /\ \A k \in {"work", "study"} : k # req[r].for => legacy'[k] = legacy[k]
      BY <2>1, <3>1, <3>2 DEF PassportAlone
    <3>4. ASSUME NEW k \in {"work", "study"}, Copied(k) PROVE Copied(k)'
      <4>1. CASE k = req[r].for
        BY <2>1, <3>3, <4>1 DEF Copied
      <4>2. CASE k # req[r].for
        <5>1. legacy[k] = 1 + updates[k]
          BY <2>2, <2>5, <3>4, <4>2 DEF Copied, At, Idle
        <5> QED
          BY <2>1, <3>3, <4>2, <5>1 DEF Copied
      <4> QED
        BY <4>1, <4>2
    <3>5. \A q \in Request : CallAlone(q)'
      BY <2>2, <2>5 DEF CallAlone
    <3>6. \A k \in KindSet : OneRecord(k)'
      BY <2>1, <3>1 DEF PassportAlone, OneRecord
    <3> QED
      BY <2>1, <2>2, <3>1, <3>3, <3>4, <3>5, <3>6 DEF PassportAlone
  <2> QED
    BY <2>2, <2>3, <2>4, <2>5
<1>15. ASSUME NEW r \in Request, PutAssessments(r) PROVE PassportInv'
  <2>1. /\ At(r, "assess") /\ UNCHANGED <<records, matches, legacy, updates>> /\ req[r] # Idle
    BY <1>15, AtIsBusy DEF PutAssessments
  <2>2. PICK b : b = req[r].bundle
    OBVIOUS
  <2>3. /\ {"at", "on", "todo", "bundle", "for"} \subseteq DOMAIN req[r]
        /\ req[r].at = "assess" /\ Versions(b) /\ Len(b) = 3 /\ req[r].for = "assess"
    BY <1>1, <2>1, <2>2 DEF PassportRequest, RequestInv, At
  <2>4. \A a \in assessments' \ assessments : Assessed(a)
    <3> SUFFICES ASSUME NEW a \in assessments' \ assessments PROVE Assessed(a)
      OBVIOUS
    <3>1. PICK i \in 2..3 : a = [shared |-> b[1].version, path |-> Kinds[i], version |-> b[i].version]
      BY <1>15, <2>2 DEF PutAssessments
    <3>2. Kinds[i] \in {"work", "study"} /\ Kinds[i] \in KindSet /\ Kinds[1] = "shared" /\ "shared" \in KindSet
      BY KindsAre
    <3>3. b[1] \in Recorded(1 + updates["shared"]) /\ b[i] \in Recorded(1 + updates[Kinds[i]])
      BY <2>3, <3>2 DEF Versions
    <3>4. updates["shared"] \in Nat /\ updates[Kinds[i]] \in Nat
      BY <1>1, <3>2 DEF PassportRows
    <3>5. /\ b[1].version \in Nat /\ b[1].version <= 1 + updates["shared"]
          /\ b[i].version \in Nat /\ b[i].version <= 1 + updates[Kinds[i]]
      BY <3>3, <3>4 DEF Recorded
    <3> QED
      BY <3>1, <3>2, <3>5 DEF Assessed
  <2>5. CASE Answer(r)
    BY <1>5, <1>8, <2>1, <2>4, <2>5 DEF At, PassportAlone
  <2>6. CASE "first" \in DOMAIN req[r] /\ Goto(r, [at |-> "put_match"])
    <3>1. /\ req'[r] = With([at |-> "put_match"], req[r]) /\ contested' = contested
          /\ faulted' = faulted /\ \A q \in Request \ {r} : req'[q] = req[q]
          /\ "passport" \notin contested' => \A q \in Request \ {r} : req[q] = Idle
      BY <1>7, <2>1, <2>6
    <3>2. /\ DOMAIN req'[r] = DOMAIN req[r] /\ req'[r].at = "put_match"
          /\ req'[r].on = req[r].on /\ req'[r].for = req[r].for /\ req'[r].bundle = b
          /\ req'[r].first = req[r].first
      BY <2>2, <2>3, <2>6, <3>1 DEF With
    <3>3. RequestInv'
      BY <1>1, <2>1, <2>3, <2>6, <3>2, GotoKeeps
    <3>4. PassportRequest(r)'
      <4>1. Versions(b)'
        BY <2>1, <2>3 DEF Versions
      <4> QED
        BY <1>1, <2>1, <2>3, <2>6, <3>2, <4>1, KindsAre DEF PassportRequest, At, Purposes
    <3>5. "passport" \notin contested => CallAlone(r)'
      <4> SUFFICES ASSUME "passport" \notin contested PROVE CallAlone(r)'
        OBVIOUS
      <4>1. CallAlone(r)
        BY DEF PassportAlone
      <4>2. \A k : Found(k)' = Found(k) /\ Copy(k)' = Copy(k)
        BY <2>1 DEF Found, Copy
      <4> QED
        BY <2>1, <2>2, <2>3, <2>6, <3>2, <4>1, <4>2 DEF CallAlone, At
    <3> QED
      BY <1>5, <2>1, <2>3, <2>4, <3>1, <3>3, <3>4, <3>5 DEF At, PassportAlone
  <2> QED
    BY <1>15, <2>5, <2>6 DEF PutAssessments
<1>16. ASSUME NEW r \in Request, Reassess(r) PROVE PassportInv'
  <2>1. /\ At(r, "match") /\ UNCHANGED passportVars /\ req[r] # Idle
    BY <1>16, AtIsBusy DEF Reassess
  <2>2. PICK v : v = req[r].bundle[1].version
    OBVIOUS
  <2>3. PICK fields : fields = [at |-> "find", todo |-> 1, bundle |-> <<>>, for |-> "assess", first |-> v]
    OBVIOUS
  <2>4. Goto(r, fields)
    BY <1>16, <2>2, <2>3 DEF Reassess
  <2>5. /\ {"at", "on", "todo", "bundle", "for"} \subseteq DOMAIN req[r]
        /\ req[r].at = "match" /\ Len(req[r].bundle) = 3
    BY <1>1, <2>1 DEF PassportRequest, RequestInv, At
  <2>6. /\ req'[r] = With(fields, req[r]) /\ contested' = contested
        /\ faulted' = faulted /\ \A q \in Request \ {r} : req'[q] = req[q]
        /\ "passport" \notin contested' => \A q \in Request \ {r} : req[q] = Idle
    BY <1>7, <2>1, <2>4
  <2>7. /\ DOMAIN req'[r] = DOMAIN req[r] \cup {"first"} /\ req'[r].at = "find" /\ req'[r].todo = 1
        /\ req'[r].on = req[r].on /\ req'[r].for = "assess" /\ req'[r].bundle = <<>>
        /\ req'[r].first = v
    BY <2>3, <2>5, <2>6 DEF With
  <2>8. RequestInv'
    BY <1>1, <2>1, <2>4, <2>5, <2>7, GotoKeeps
  <2>9. Versions(<<>>)' /\ Len(<<>>) = 0
    BY DEF Versions
  <2>10. PassportRequest(r)'
    BY <1>1, <2>1, <2>5, <2>7, <2>9, KindsAre DEF PassportRequest, At, Purposes
  <2>11. "passport" \notin contested => CallAlone(r)'
    <3> SUFFICES ASSUME "passport" \notin contested PROVE CallAlone(r)'
      OBVIOUS
    <3>1. CallAlone(r) /\ OneRecord("shared") /\ updates["shared"] \in Nat /\ "shared" \in KindSet
      BY <1>1, KindsAre DEF PassportAlone, PassportRows
    <3>2. v = Copy("shared").version /\ Found("shared")
      BY <2>1, <2>2, <2>5, <3>1, KindsAre DEF CallAlone
    <3>3. v = 1 + updates["shared"]
      BY <3>1, <3>2, OneRecordIs
    <3>4. Found("shared")' /\ updates' = updates
      BY <2>1, <3>2 DEF Found, passportVars
    <3> QED
      BY <2>7, <2>9, <3>3, <3>4 DEF CallAlone, At
  <2> QED
    BY <1>5, <2>1, <2>5, <2>6, <2>8, <2>10, <2>11 DEF passportVars, At, PassportAlone
<1>17. ASSUME NEW r \in Request, PutMatch(r) PROVE PassportInv'
  <2>1. /\ At(r, "put_match") /\ UNCHANGED <<records, assessments, legacy, updates>> /\ req[r] # Idle
        /\ Answer(r)
        /\ matches' = matches \cup {[named |-> req[r].first, assessed |-> req[r].bundle[1].version]}
    BY <1>17, AtIsBusy DEF PutMatch
  <2>2. "passport" \notin contested => \A m \in matches' : m.named = m.assessed
    <3> SUFFICES ASSUME "passport" \notin contested PROVE \A m \in matches' : m.named = m.assessed
      OBVIOUS
    <3>1. /\ CallAlone(r) /\ OneRecord("shared") /\ updates["shared"] \in Nat /\ "shared" \in KindSet
          /\ \A m \in matches : m.named = m.assessed
      BY <1>1, KindsAre DEF PassportAlone, PassportRows
    <3>2. "first" \in DOMAIN req[r] /\ Len(req[r].bundle) = 3
      BY <1>1, <2>1 DEF PassportRequest, At
    <3>3. req[r].first = 1 + updates["shared"] /\ req[r].bundle[1] = Copy("shared")
      BY <2>1, <3>1, <3>2, KindsAre DEF CallAlone, At
    <3>4. Copy("shared").version = 1 + updates["shared"]
      BY <3>1, OneRecordIs
    <3> QED
      BY <2>1, <3>1, <3>3, <3>4
  <2> QED
    BY <1>5, <1>8, <2>1, <2>2 DEF At, PassportAlone
<1>18. \A r \in Request : Create(r) => PassportInv'
  BY <1>10, <1>11
<1> QED
  BY <1>6, <1>9, <1>12, <1>13, <1>14, <1>15, <1>16, <1>17, <1>18
  DEF PassportNext, PassportStep, PassportCall, Purposes

\* The invariant of the passport holds in every state.
LEMMA PassportInvStep == PassportInv /\ [ServicesNext]_vars => PassportInv'
<1> SUFFICES ASSUME PassportInv, [ServicesNext]_vars PROVE PassportInv'
  OBVIOUS
<1>1. /\ scenario' = scenario
      /\ \/ scenario = "passport" /\ PassportNext
         \/ (\E r \in Request : Dies(r)) /\ UNCHANGED passportVars
         \/ UNCHANGED requestVars /\ UNCHANGED passportVars
         \/ scenario # "passport" /\ UNCHANGED passportVars
  BY DEF ServicesNext, Move, Publish, Apply, Oversee, Account, Prepare, SignIn, Settle,
         TrackJourneys, Keep, Persist, Synchronize, Only, Die, vars
\* The passport is as it was.
<1>2. ASSUME UNCHANGED passportVars
      PROVE  /\ records' = records /\ updates' = updates /\ legacy' = legacy /\ matches' = matches
             /\ PassportRows' /\ \A b : Versions(b)' = Versions(b)
             /\ \A k : Copy(k)' = Copy(k) /\ Found(k)' = Found(k) /\ OneRecord(k)' = OneRecord(k)
  BY <1>2 DEF passportVars, PassportInv, PassportRows, Assessed, Versions, Copy, Found, OneRecord
<1>3. ASSUME scenario = "passport", NEW r \in Request, Dies(r), UNCHANGED passportVars
      PROVE  PassportInv'
  <2>1. /\ RequestInv' /\ req'[r] = Idle
        /\ \A q \in Request \ {r} : req'[q] = req[q]
    BY <1>3, RequestsEnd DEF PassportInv
  <2>2. contested' = contested /\ "passport" \in faulted'
    BY <1>3 DEF Dies, PassportInv, PassportRequest
  <2>3. \A q \in Request : PassportRequest(q)'
    BY <1>2, <1>3, <2>1 DEF PassportInv, PassportRequest, At
  <2>4. ASSUME "passport" \notin contested' PROVE PassportAlone'
    <3>1. PassportAlone
      BY <1>3, <2>2, <2>4 DEF PassportInv
    <3>2. \A q \in Request : CallAlone(q)'
      BY <1>2, <1>3, <2>1, <3>1 DEF PassportAlone, CallAlone, At
    <3> QED
      BY <1>2, <1>3, <2>2, <3>1, <3>2 DEF PassportAlone
  <2> QED
    BY <1>1, <1>2, <1>3, <2>1, <2>3, <2>4 DEF PassportInv
<1>4. CASE UNCHANGED requestVars /\ UNCHANGED passportVars
  <2>1. /\ req' = req /\ contested' = contested /\ faulted' = faulted
        /\ records' = records /\ updates' = updates /\ legacy' = legacy /\ matches' = matches
    BY <1>4 DEF requestVars, passportVars
  <2>2. /\ RequestInv' = RequestInv
        /\ \A q \in Request : PassportRequest(q)' = PassportRequest(q)
    BY <1>2, <1>4, <2>1 DEF RequestInv, PassportRequest, At
  <2>3. PassportAlone' = PassportAlone
    BY <1>2, <1>4, <2>1 DEF PassportAlone, CallAlone, Copied, At
  <2> QED
    BY <1>1, <1>2, <1>4, <2>1, <2>2, <2>3 DEF PassportInv
<1>5. CASE scenario # "passport" /\ UNCHANGED passportVars
  BY <1>1, <1>2, <1>5 DEF PassportInv
<1> QED
  BY <1>1, <1>3, <1>4, <1>5, PassportMoves

\* The passport keeps what is written to it (PassportKeepsUpdates), for any number of
\* overlapping and failing calls.
THEOREM PassportIsFaithful == ServicesSpec => []PassportKeepsUpdates
BY PassportStart, PassportInvStep, PassportIsKept, PTL DEF ServicesSpec

-------------------------------------------------------------------------------
(* The types of the services.  Most follow from the invariants above; what the  *)
(* rest needs is that the requests hold, of its type, what they will write.     *)

\* A call on an application has its case on record, or is about an entry of the shortlist.
ApplicationCall(r) ==
    req[r] # Idle =>
        IF At(r, "put_slot") THEN {"new", "slot"} \subseteq DOMAIN req[r] /\ req[r].slot \in Slots
        ELSE req[r].on \in hasCase

GrantsHaveCases == \A g \in Grants : grant[g] # NoGrant => grant[g].app \in hasCase

ApplicationTypes ==
    /\ ApplicationsTypeOK /\ GrantsHaveCases
    /\ scenario = "applications" => \A r \in Request : ApplicationCall(r)

\* The initial applications have their types.
LEMMA ApplicationTypesStart == ServicesInit => ApplicationTypes
<1> SUFFICES ASSUME ServicesInit PROVE ApplicationTypes
  OBVIOUS
<1>1. ApplicationsInit /\ RequestsInit
  BY DEF ServicesInit
<1>2. \A r \in Request : req[r] = Idle
  BY <1>1, RequestsStart
<1>3. /\ application \in [Apps -> {"none", "submitted", "offer_received"}]
      /\ hasCase = {a \in Apps : application[a] # "none"} /\ shortlist = {}
      /\ consent = [g \in Grants |-> IF grant[g] = NoGrant THEN "none" ELSE "granted"]
  BY <1>1 DEF ApplicationsInit
<1>4. application \in [Apps -> Statuses \cup {"none"}]
  BY <1>3, Zenon DEF Statuses, WorkStatus
<1>5. ApplicationsTypeOK
  BY <1>3, <1>4 DEF ApplicationsTypeOK
<1>6. PICK a \in Apps, o \in Orgs, g \in Grants :
          /\ grant \in {[h \in Grants |-> NoGrant],
                        [h \in Grants |-> IF h = g THEN Grant(a, o) ELSE NoGrant]}
          /\ grant[g] # NoGrant => application[a] # "none"
  BY <1>1 DEF ApplicationsInit
<1>7. \A h \in Grants : grant[h] # NoGrant => h = g /\ grant[h] = Grant(a, o)
  <2>1. CASE grant = [h \in Grants |-> NoGrant]
    BY <2>1
  <2>2. CASE grant = [h \in Grants |-> IF h = g THEN Grant(a, o) ELSE NoGrant]
    BY <2>2
  <2> QED
    BY <1>6, <2>1, <2>2
<1>8. Grant(a, o).app = a
  BY DEF Grant
<1>9. GrantsHaveCases
  BY <1>3, <1>6, <1>7, <1>8 DEF GrantsHaveCases
<1> QED
  BY <1>2, <1>5, <1>9 DEF ApplicationTypes, ApplicationCall

\* The statuses of the pipeline.
LEMMA PipelineStatusIs ==
    ASSUME NEW a, NEW action \in DOMAIN StatusAfter(a)
    PROVE  StatusAfter(a)[action] \in Statuses
BY DEF StatusAfter, Statuses

\* One step of a request on the applications.
LEMMA ApplicationTypesMove ==
    ASSUME ApplicationsInv, ApplicationTypes, scenario = "applications", scenario' = scenario,
           NEW r \in Request, ApplicationsStep(r) \/ ApplicationsCall(r)
    PROVE  ApplicationTypes'
<1>1. /\ RequestInv /\ \A q \in Request : OfferRequest(q) /\ AccessRequest(q)
      /\ \A g \in Grants : grant[g] \in GrantRecord \cup {NoGrant}
      /\ DOMAIN grant = Grants
  BY DEF ApplicationsInv, OfferInv, AccessInv
<1>2. ApplicationsTypeOK /\ GrantsHaveCases /\ \A q \in Request : ApplicationCall(q)
  BY DEF ApplicationTypes
\* It is enough to look at the request and at what it wrote.
<1>3. ASSUME \A q \in Request \ {r} : req'[q] = req[q], hasCase \subseteq hasCase',
             ApplicationCall(r)', ApplicationsTypeOK', GrantsHaveCases'
      PROVE  ApplicationTypes'
  <2>1. \A q \in Request \ {r} : ApplicationCall(q)'
    BY <1>2, <1>3 DEF ApplicationCall, At
  <2> QED
    BY <1>3, <2>1 DEF ApplicationTypes
\* A call begins on an application with its case.
<1>4. ASSUME NEW a, NEW fields, Begin(r, a, fields), a \in hasCase', hasCase \subseteq hasCase',
             "at" \in DOMAIN fields, fields.at \notin {"idle", "put_slot"}, "on" \notin DOMAIN fields,
             UNCHANGED <<application, grant, consent, shortlist>>
      PROVE  ApplicationTypes'
  <2>1. /\ req'[r].on = a /\ req'[r].at = fields.at
        /\ \A q \in Request \ {r} : req'[q] = req[q]
    BY <1>1, <1>4, RequestsBegin
  <2>2. ApplicationCall(r)'
    BY <1>4, <2>1 DEF ApplicationCall, At
  <2>3. ApplicationsTypeOK' /\ GrantsHaveCases'
    BY <1>2, <1>4 DEF ApplicationsTypeOK, GrantsHaveCases
  <2> QED
    BY <1>3, <1>4, <2>1, <2>2, <2>3
\* A call goes on or answers, and writes what has its type.
<1>5. ASSUME NEW fields, Goto(r, fields) \/ Answer(r), req[r] # Idle, req[r].at # "put_slot",
             "at" \in DOMAIN fields, fields.at \notin {"idle", "put_slot"}, "on" \notin DOMAIN fields,
             hasCase' = hasCase, ApplicationsTypeOK', GrantsHaveCases'
      PROVE  ApplicationTypes'
  <2>1. /\ req'[r] = Idle \/ (req'[r].on = req[r].on /\ req'[r].at = fields.at)
        /\ \A q \in Request \ {r} : req'[q] = req[q]
    BY <1>1, <1>5, RequestsGoto, RequestsEnd
  <2>2. ApplicationCall(r)'
    BY <1>2, <1>5, <2>1 DEF ApplicationCall, At
  <2> QED
    BY <1>3, <1>5, <2>1, <2>2
\* A call that writes one row.
<1>6. ASSUME NEW x, Single(r, x), hasCase' = hasCase, ApplicationsTypeOK', grant' = grant
      PROVE  ApplicationTypes'
  <2>1. req' = req
    BY <1>1, <1>6, RequestsSingle
  <2> QED
    BY <1>2, <1>3, <1>6, <2>1 DEF ApplicationCall, At, GrantsHaveCases
\* The calls.
<1>7. ASSUME NEW a \in Apps, CreateApplication(r, a) PROVE ApplicationTypes'
  <2>1. /\ Begin(r, a, [at |-> "put_application"]) /\ hasCase' = hasCase \cup {a}
        /\ UNCHANGED <<application, grant, consent, shortlist>>
    BY <1>7 DEF CreateApplication
  <2> QED
    BY <1>4, <2>1
<1>8. ASSUME NEW x \in Risks, Scan(r, x) PROVE ApplicationTypes'
  BY <1>2, <1>6, <1>8 DEF Scan, ApplicationsTypeOK
<1>9. ASSUME NEW a \in WorkApps, NEW d, NEW K, DecideOffer(r, a, d, K) PROVE ApplicationTypes'
  <2>1. /\ Begin(r, a, [at |-> "list_scans", decision |-> d, acknowledged |-> K, known |-> scans])
        /\ application[a] = "offer_received" /\ UNCHANGED applicationVars
    BY <1>9 DEF DecideOffer
  <2>2. a \in hasCase
    BY <1>2, <2>1 DEF ApplicationsTypeOK, Apps
  <2> QED
    BY <1>4, <2>1, <2>2 DEF applicationVars
<1>10. ASSUME NEW a \in Apps, NEW o \in Orgs, GrantAccess(r, a, o) PROVE ApplicationTypes'
  <2>1. /\ Begin(r, a, [at |-> "put_consent", org |-> o])
        /\ application[a] # "none" /\ UNCHANGED applicationVars
    BY <1>10 DEF GrantAccess
  <2>2. a \in hasCase
    BY <1>2, <2>1 DEF ApplicationsTypeOK
  <2> QED
    BY <1>4, <2>1, <2>2 DEF applicationVars
<1>11. ASSUME NEW g \in Grants, Active(g)
       PROVE  grant[g].app \in hasCase
  BY <1>2, <1>11 DEF GrantsHaveCases, Active, NoGrant
<1>12. ASSUME NEW g \in Grants, RevokeAccess(r, g) PROVE ApplicationTypes'
  <2>1. /\ Begin(r, grant[g].app, [at |-> "put_revoked", grant |-> g, copy |-> grant[g]])
        /\ Active(g) /\ UNCHANGED applicationVars
    BY <1>12 DEF RevokeAccess
  <2> QED
    BY <1>4, <1>11, <2>1 DEF applicationVars
<1>13. ASSUME NEW g \in Grants, NEW action, UpdatePipeline(r, g, action) PROVE ApplicationTypes'
  <2>1. /\ Begin(r, grant[g].app,
                 [at |-> "put_status", grant |-> g, action |-> action, dead |-> Revoked])
        /\ Active(g) /\ UNCHANGED applicationVars
    BY <1>13 DEF UpdatePipeline
  <2> QED
    BY <1>4, <1>11, <2>1 DEF applicationVars
<1>14. ASSUME AddShortlist(r) PROVE ApplicationTypes'
  <2> DEFINE some == IF shortlist = {} THEN Slots ELSE shortlist
             i    == CHOOSE j \in some : TRUE
             new  == shortlist = {}
  <2>1. some # {} /\ some \subseteq Slots
    BY <1>2, <1>14 DEF ApplicationsTypeOK, AddShortlist
  <2>2. i \in Slots
    BY <2>1
  <2>3. Begin(r, "shortlist", [at |-> "put_slot", slot |-> i, new |-> new])
        /\ UNCHANGED applicationVars
    BY <1>14 DEF AddShortlist
  <2> HIDE DEF i, new
  <2>4. /\ req'[r] = With([at |-> "put_slot", slot |-> i, new |-> new], [on |-> "shortlist"])
        /\ \A q \in Request \ {r} : req'[q] = req[q]
    BY <1>1, <2>3, BeginWrites
  <2>5. {"new", "slot"} \subseteq DOMAIN req'[r] /\ req'[r].slot = i /\ req'[r].at = "put_slot"
    BY <2>4 DEF With
  <2>6. ApplicationCall(r)'
    BY <2>2, <2>5 DEF ApplicationCall, At
  <2> QED
    BY <1>2, <1>3, <2>3, <2>4, <2>6 DEF applicationVars, ApplicationsTypeOK, GrantsHaveCases
<1>15. ASSUME NEW i \in Slots, RemoveShortlist(r, i) PROVE ApplicationTypes'
  BY <1>2, <1>6, <1>15 DEF RemoveShortlist, ApplicationsTypeOK
\* The steps.
<1>16. ASSUME NEW status \in Statuses, application' = [application EXCEPT ![req[r].on] = status],
              req[r].on \in hasCase, UNCHANGED <<hasCase, grant, consent, shortlist>>
       PROVE  ApplicationsTypeOK' /\ GrantsHaveCases'
  BY <1>2, <1>16 DEF ApplicationsTypeOK, GrantsHaveCases
<1>17. ASSUME PutApplication(r) \/ PutDecided(r) \/ PutStatus(r) PROVE ApplicationTypes'
  <2>1. /\ req[r] # Idle /\ req[r].at # "put_slot"
        /\ UNCHANGED <<hasCase, grant, consent, shortlist>>
        /\ Goto(r, [at |-> "put_event"]) \/ Answer(r)
    BY <1>17, AtIsBusy DEF PutApplication, PutDecided, PutStatus, At
  <2>2. req[r].on \in hasCase
    BY <1>2, <2>1 DEF ApplicationCall, At
  <2>3. {"submitted", "accepted", "withdrawn"} \subseteq Statuses
    BY DEF Statuses
  <2>4. PICK status \in Statuses : application' = [application EXCEPT ![req[r].on] = status]
    <3>1. CASE PutApplication(r)
      BY <2>3, <3>1 DEF PutApplication
    <3>2. CASE PutDecided(r)
      BY <2>3, <3>2 DEF PutDecided
    <3>3. CASE PutStatus(r)
      BY <1>1, <2>1, <3>3, PipelineStatusIs DEF PutStatus, OfferRequest
    <3> QED
      BY <1>17, <3>1, <3>2, <3>3
  <2>5. ApplicationsTypeOK' /\ GrantsHaveCases'
    BY <1>16, <2>1, <2>2, <2>4
  <2> QED
    BY <1>5, <2>1, <2>5
<1>18. ASSUME ListScans(r) \/ PutOfferDecision(r) \/ PutEvent(r) PROVE ApplicationTypes'
  <2>1. /\ req[r] # Idle /\ req[r].at # "put_slot"
        /\ UNCHANGED <<application, hasCase, grant, consent, shortlist>>
        /\ \/ Goto(r, [at |-> "put_decision", unresolved |-> scans])
           \/ Goto(r, [at |-> "put_decided"])
           \/ Answer(r)
    BY <1>18, AtIsBusy DEF ListScans, PutOfferDecision, PutEvent, At, applicationVars
  <2>2. ApplicationsTypeOK' /\ GrantsHaveCases'
    BY <1>2, <2>1 DEF ApplicationsTypeOK, GrantsHaveCases
  <2> QED
    BY <1>5, <2>1, <2>2
<1>19. ASSUME PutConsent(r) PROVE ApplicationTypes'
  <2>1. PICK g : /\ consent' = [consent EXCEPT ![g] = "granted"]
                 /\ Goto(r, [at |-> "put_grant", grant |-> g])
                 /\ UNCHANGED <<application, hasCase, grant, shortlist>>
    BY <1>19 DEF PutConsent
  <2>2. req[r] # Idle /\ req[r].at # "put_slot"
    BY <1>19, AtIsBusy DEF PutConsent, At
  <2>3. ApplicationsTypeOK' /\ GrantsHaveCases'
    BY <1>2, <2>1 DEF ApplicationsTypeOK, GrantsHaveCases
  <2> QED
    BY <1>5, <2>1, <2>2, <2>3
<1>20. ASSUME PutGrant(r) \/ PutRevoked(r) PROVE ApplicationTypes'
  <2>1. /\ req[r] # Idle /\ req[r].at # "put_slot"
        /\ UNCHANGED <<application, hasCase, consent, shortlist>>
        /\ Goto(r, [at |-> "put_withdrawn"]) \/ Answer(r)
    BY <1>20, AtIsBusy DEF PutGrant, PutRevoked, At
  <2>2. req[r].on \in hasCase
    BY <1>2, <2>1 DEF ApplicationCall, At
  <2>3. PICK x : grant' = [grant EXCEPT ![req[r].grant] = x] /\ x.app = req[r].on
    <3>1. CASE PutGrant(r)
      <4>1. grant' = [grant EXCEPT ![req[r].grant] = Grant(req[r].on, req[r].org)]
        BY <3>1 DEF PutGrant
      <4>2. Grant(req[r].on, req[r].org).app = req[r].on
        BY DEF Grant
      <4> QED
        BY <4>1, <4>2
    <3>2. CASE PutRevoked(r)
      <4>1. req[r].copy \in GrantRecord /\ req[r].copy.app = req[r].on
        BY <1>1, <2>1, <3>2 DEF AccessRequest, PutRevoked
      <4>2. [req[r].copy EXCEPT !.status = "revoked"].app = req[r].copy.app
        BY <4>1 DEF GrantRecord
      <4>3. grant' = [grant EXCEPT ![req[r].grant] = [req[r].copy EXCEPT !.status = "revoked"]]
        BY <3>2 DEF PutRevoked
      <4> QED
        BY <4>1, <4>2, <4>3
    <3> QED
      BY <1>20, <3>1, <3>2
  <2>4. GrantsHaveCases'
    BY <1>1, <1>2, <2>1, <2>2, <2>3 DEF GrantsHaveCases
  <2>5. ApplicationsTypeOK'
    BY <1>2, <2>1 DEF ApplicationsTypeOK
  <2> QED
    BY <1>5, <2>1, <2>4, <2>5
<1>21. ASSUME PutWithdrawn(r) PROVE ApplicationTypes'
  <2>1. /\ req[r] # Idle /\ req[r].at # "put_slot"
        /\ Goto(r, [at |-> "put_withdrawn"]) \/ Answer(r)
        /\ consent' = [consent EXCEPT ![req[r].grant] = "withdrawn"]
        /\ UNCHANGED <<application, hasCase, grant, shortlist>>
    BY <1>21, AtIsBusy DEF PutWithdrawn, At
  <2>2. ApplicationsTypeOK' /\ GrantsHaveCases'
    BY <1>2, <2>1 DEF ApplicationsTypeOK, GrantsHaveCases
  <2> QED
    BY <1>5, <2>1, <2>2
<1>22. ASSUME PutSlot(r) PROVE ApplicationTypes'
  <2> DEFINE free == Slots \ shortlist
             slot == IF req[r].new /\ free # {} THEN CHOOSE i \in free : TRUE ELSE req[r].slot
  <2>1. /\ At(r, "put_slot") /\ shortlist' = shortlist \cup {slot} /\ Answer(r)
        /\ UNCHANGED <<application, hasCase, grant, consent>>
    BY <1>22 DEF PutSlot
  <2>2. req[r].slot \in Slots
    BY <1>2, <2>1, AtIsBusy DEF ApplicationCall
  <2>3. slot \in Slots
    <3>1. CASE req[r].new /\ free # {}
      <4>1. slot = CHOOSE i \in free : TRUE
        BY <3>1, Zenon
      <4>2. (CHOOSE i \in free : TRUE) \in free
        BY <3>1, Zenon
      <4> QED
        BY <4>1, <4>2
    <3>2. CASE ~(req[r].new /\ free # {})
      BY <2>2, <3>2
    <3> QED
      BY <3>1, <3>2
  <2> HIDE DEF slot
  <2>4. req'[r] = Idle /\ \A q \in Request \ {r} : req'[q] = req[q]
    BY <1>1, <2>1, RequestsEnd
  <2>5. ApplicationCall(r)'
    BY <2>4 DEF ApplicationCall
  <2> QED
    BY <1>2, <1>3, <2>1, <2>3, <2>4, <2>5 DEF ApplicationsTypeOK, GrantsHaveCases
<1> QED
  BY <1>7, <1>8, <1>9, <1>10, <1>12, <1>13, <1>14, <1>15, <1>17, <1>18, <1>19, <1>20, <1>21, <1>22
  DEF ApplicationsStep, ApplicationsCall

\* The types of the applications are kept.
LEMMA ApplicationTypesStep ==
    ASSUME ApplicationsInv, ApplicationTypes, [ServicesNext]_vars
    PROVE  ApplicationTypes'
<1>1. /\ scenario' = scenario
      /\ \/ scenario = "applications" /\ ApplicationsNext
         \/ (\E r \in Request : Dies(r)) /\ UNCHANGED applicationVars
         \/ UNCHANGED requestVars /\ UNCHANGED applicationVars
         \/ scenario # "applications" /\ UNCHANGED applicationVars
  BY DEF ServicesNext, Move, Publish, Apply, Oversee, Account, Prepare, SignIn, Settle,
         TrackJourneys, Keep, Persist, Synchronize, Only, Die, vars
<1>2. CASE scenario = "applications" /\ ApplicationsNext
  BY <1>1, <1>2, ApplicationTypesMove DEF ApplicationsNext
<1>3. ASSUME UNCHANGED applicationVars,
             scenario = "applications" => \A q \in Request : req'[q] = Idle \/ req'[q] = req[q]
      PROVE  ApplicationTypes'
  BY <1>1, <1>3 DEF ApplicationTypes, ApplicationsTypeOK, GrantsHaveCases, ApplicationCall, At,
                    applicationVars
<1>4. ASSUME NEW r \in Request, Dies(r), UNCHANGED applicationVars PROVE ApplicationTypes'
  BY <1>3, <1>4, RequestsEnd DEF ApplicationsInv, OfferInv
<1> QED
  BY <1>1, <1>2, <1>3, <1>4 DEF requestVars

\* A complaint is written back of its type.
ComplaintRecord ==
    [status : {"submitted"} \cup {StatusOf(x) : x \in DOMAIN Mapping},
     safety : {"reported", "reviewing"} \cup Safeties, assigned : Staff \cup {"nobody"}]

ComplaintCall(r) ==
    req[r] # Idle /\ At(r, "put_complaint") =>
        req[r].copy \in ComplaintRecord /\ req[r].safety \in Safeties \cup {"unsaid"}

OversightTypes ==
    /\ OversightTypeOK
    /\ scenario = "oversight" => \A r \in Request : ComplaintCall(r)

\* One step of a request of the oversight.
LEMMA OversightTypesMove ==
    ASSUME OversightInv, OversightTypes, scenario = "oversight", scenario' = scenario,
           NEW r \in Request, OversightStep(r) \/ OversightCall(r)
    PROVE  OversightTypes'
<1> DEFINE RestKept == \A q \in Request \ {r} : req'[q] = req[q]
<1>1. /\ RequestInv /\ \A q \in Request : OversightRequest(q)
      /\ DOMAIN complaint = Complaints
  BY DEF OversightInv, OversightRecords
<1>2. /\ \A c \in Complaints : complaint[c] = NoComplaint \/ complaint[c] \in ComplaintRecord
      /\ humanReview \in [Reviews -> {"none", "queued", "decided"}]
      /\ \A q \in Request : ComplaintCall(q)
  BY DEF OversightTypes, OversightTypeOK, ComplaintRecord
\* It is enough to look at the request and at what it wrote.
<1>3. ASSUME RestKept, ComplaintCall(r)',
             \A c \in Complaints : \/ complaint'[c] = complaint[c]
                                   \/ complaint'[c] \in ComplaintRecord,
             humanReview' \in [Reviews -> {"none", "queued", "decided"}]
      PROVE  OversightTypes'
  <2>1. \A q \in Request \ {r} : ComplaintCall(q)'
    BY <1>2, <1>3 DEF ComplaintCall, At
  <2>2. OversightTypeOK'
    BY <1>2, <1>3 DEF OversightTypeOK, ComplaintRecord, NoComplaint
  <2> QED
    BY <1>3, <2>1, <2>2 DEF OversightTypes
<1>4. ASSUME NEW x, Single(r, x), complaint' = complaint,
             humanReview' \in [Reviews -> {"none", "queued", "decided"}]
      PROVE  OversightTypes'
  BY <1>1, <1>2, <1>3, <1>4, RequestsSingle DEF ComplaintCall, At
\* A call that begins anywhere but at writing a complaint back.
<1>5. ASSUME NEW x, NEW fields, Begin(r, x, fields), "at" \in DOMAIN fields, "on" \notin DOMAIN fields,
             fields.at \notin {"idle", "put_complaint"},
             \A c \in Complaints : \/ complaint'[c] = complaint[c]
                                   \/ complaint'[c] \in ComplaintRecord,
             humanReview' = humanReview
      PROVE  OversightTypes'
  <2>1. RestKept /\ req'[r].at = fields.at
    BY <1>1, <1>5, RequestsBegin
  <2>2. ComplaintCall(r)'
    BY <1>5, <2>1 DEF ComplaintCall, At
  <2> QED
    BY <1>2, <1>3, <1>5, <2>1, <2>2
\* A call that goes on or answers.
<1>6. ASSUME NEW fields, Goto(r, fields) \/ Answer(r), req[r] # Idle,
             "at" \in DOMAIN fields, "on" \notin DOMAIN fields,
             fields.at \notin {"idle", "put_complaint"},
             \A c \in Complaints : \/ complaint'[c] = complaint[c]
                                   \/ complaint'[c] \in ComplaintRecord,
             humanReview' \in [Reviews -> {"none", "queued", "decided"}]
      PROVE  OversightTypes'
  <2>1. RestKept /\ (req'[r] = Idle \/ req'[r].at = fields.at)
    BY <1>1, <1>6, RequestsGoto, RequestsEnd
  <2>2. ComplaintCall(r)'
    BY <1>6, <2>1 DEF ComplaintCall, At
  <2> QED
    BY <1>2, <1>3, <1>6, <2>1, <2>2
\* The calls.
<1>7. ASSUME NEW c \in Complaints, NEW evidence \in BOOLEAN, CreateComplaint(r, c, evidence)
      PROVE  OversightTypes'
  <2> DEFINE x == [status |-> IF evidence THEN "evidence" ELSE "submitted",
                   safety |-> "reported", assigned |-> "nobody"]
  <2>1. /\ Begin(r, c, [at |-> "put_event", event |-> "submitted"])
        /\ complaint' = [complaint EXCEPT ![c] = x] /\ humanReview' = humanReview
    BY <1>7 DEF CreateComplaint
  <2>2. "add_evidence" \in DOMAIN Mapping /\ StatusOf("add_evidence") = "evidence"
    BY DEF Mapping, StatusOf
  <2>3. {"submitted", "evidence"} \subseteq {"submitted"} \cup {StatusOf(y) : y \in DOMAIN Mapping}
    BY <2>2
  <2>4. x \in ComplaintRecord
    BY <2>3 DEF ComplaintRecord
  <2> HIDE DEF x
  <2>5. \A d \in Complaints : complaint'[d] = complaint[d] \/ complaint'[d] \in ComplaintRecord
    BY <1>1, <2>1, <2>4
  <2> QED
    BY <1>5, <2>1, <2>5
<1>8. ASSUME NEW u, NEW c \in Complaints, NEW action, NEW safety \in Safeties \cup {"unsaid"},
             UpdateComplaint(r, u, c, action, safety)
      PROVE  OversightTypes'
  <2> DEFINE fields == [at |-> "put_complaint", user |-> u, action |-> action, safety |-> safety,
                        copy |-> complaint[c]]
  <2>1. Begin(r, c, fields) /\ complaint[c] # NoComplaint /\ UNCHANGED oversightVars
    BY <1>8, Zenon DEF UpdateComplaint
  <2>2. /\ "at" \in DOMAIN fields /\ fields.at # "idle" /\ "on" \notin DOMAIN fields
        /\ "copy" \in DOMAIN fields /\ fields.copy = complaint[c]
        /\ "safety" \in DOMAIN fields /\ fields.safety = safety
    OBVIOUS
  <2> HIDE DEF fields
  <2>3. /\ RestKept /\ req'[r].copy = complaint[c] /\ req'[r].safety = safety
    <3>1. RestKept /\ req'[r] = With(fields, [on |-> c])
      BY <1>1, <2>1, BeginWrites
    <3> QED
      BY <2>2, <3>1 DEF With
  <2>4. ComplaintCall(r)'
    BY <1>2, <2>1, <2>3 DEF ComplaintCall
  <2> QED
    BY <1>2, <1>3, <2>1, <2>3, <2>4 DEF oversightVars
<1>9. ASSUME NEW v \in Reviews, CreateReview(r, v) PROVE OversightTypes'
  <2>1. /\ Single(r, v) /\ humanReview' = [humanReview EXCEPT ![v] = "queued"]
        /\ complaint' = complaint
    BY <1>9 DEF CreateReview
  <2> QED
    BY <1>2, <1>4, <2>1
<1>10. ASSUME NEW u, NEW v, DecideReview(r, u, v) PROVE OversightTypes'
  <2>1. Begin(r, v, [at |-> "put_review_decision", user |-> u]) /\ UNCHANGED oversightVars
    BY <1>10 DEF DecideReview
  <2> QED
    BY <1>5, <2>1 DEF oversightVars
<1>11. ASSUME NEW o, RecordOutcome(r, o) PROVE OversightTypes'
  <2>1. Single(r, o) /\ UNCHANGED <<complaint, humanReview>>
    BY <1>11 DEF RecordOutcome
  <2> QED
    BY <1>2, <1>4, <2>1
<1>12. ASSUME NEW u, NEW o, ReviewOutcome(r, u, o) PROVE OversightTypes'
  <2>1. Begin(r, o, [at |-> "put_outcome_review", user |-> u]) /\ UNCHANGED oversightVars
    BY <1>12 DEF ReviewOutcome
  <2> QED
    BY <1>5, <2>1 DEF oversightVars
\* The steps.
<1>13. ASSUME PutComplaint(r) PROVE OversightTypes'
  <2> DEFINE safety == IF req[r].safety # "unsaid"      THEN req[r].safety
                       ELSE IF req[r].action = "triage" THEN "reviewing"
                       ELSE req[r].copy.safety
             assigned == IF req[r].user \in Staff THEN req[r].user ELSE req[r].copy.assigned
             x == [req[r].copy EXCEPT !.status = StatusOf(req[r].action), !.safety = safety,
                                      !.assigned = assigned]
  <2>1. req[r] # Idle /\ At(r, "put_complaint")
    BY <1>13, AtIsBusy DEF PutComplaint
  <2>2. /\ req[r].copy \in ComplaintRecord /\ req[r].safety \in Safeties \cup {"unsaid"}
        /\ req[r].action \in DOMAIN Mapping
    BY <1>1, <1>2, <2>1 DEF ComplaintCall, OversightRequest
  <2>3. StatusOf(req[r].action) \in {StatusOf(y) : y \in DOMAIN Mapping}
    BY <2>2
  <2>4. safety \in {"reported", "reviewing"} \cup Safeties /\ assigned \in Staff \cup {"nobody"}
    BY <2>2 DEF ComplaintRecord
  <2>5. complaint' = [complaint EXCEPT ![req[r].on] = x] /\ humanReview' = humanReview
    BY <1>13, <2>2 DEF PutComplaint, ComplaintRecord
  <2>6. Goto(r, [at |-> "put_event", event |-> EventOf(req[r].action)])
    BY <1>13 DEF PutComplaint
  <2> HIDE DEF safety, assigned
  <2>7. x \in ComplaintRecord
    BY <2>2, <2>3, <2>4 DEF ComplaintRecord
  <2> HIDE DEF x
  <2>8. \A d \in Complaints : complaint'[d] = complaint[d] \/ complaint'[d] \in ComplaintRecord
    BY <1>1, <2>5, <2>7
  <2> QED
    BY <1>2, <1>6, <2>1, <2>5, <2>6, <2>8
<1>14. ASSUME PutComplaintEvent(r) \/ PutReviewDecision(r) \/ PutOutcomeReview(r)
       PROVE  OversightTypes'
  <2>1. /\ req[r] # Idle /\ UNCHANGED <<complaint, humanReview>>
        /\ Goto(r, [at |-> "put_review"]) \/ Answer(r)
    BY <1>14, AtIsBusy DEF PutComplaintEvent, PutReviewDecision, PutOutcomeReview
  <2> QED
    BY <1>2, <1>6, <2>1
<1>15. ASSUME PutReview(r) PROVE OversightTypes'
  <2>1. /\ req[r] # Idle /\ complaint' = complaint
        /\ humanReview' = [humanReview EXCEPT ![req[r].on] = "decided"]
        /\ Goto(r, [at |-> "put_review"]) \/ Answer(r)
    BY <1>15, AtIsBusy DEF PutReview
  <2>2. humanReview' \in [Reviews -> {"none", "queued", "decided"}]
    BY <1>2, <2>1
  <2> QED
    BY <1>6, <2>1, <2>2
<1> QED
  BY <1>7, <1>8, <1>9, <1>10, <1>11, <1>12, <1>13, <1>14, <1>15 DEF OversightStep, OversightCall

\* The types of the oversight are kept.
LEMMA OversightTypesStep ==
    ASSUME OversightInv, OversightTypes, [ServicesNext]_vars
    PROVE  OversightTypes'
<1>1. /\ scenario' = scenario
      /\ \/ scenario = "oversight" /\ OversightNext
         \/ (\E r \in Request : Dies(r)) /\ UNCHANGED oversightVars
         \/ UNCHANGED requestVars /\ UNCHANGED oversightVars
         \/ scenario # "oversight" /\ UNCHANGED oversightVars
  BY DEF ServicesNext, Move, Publish, Apply, Oversee, Account, Prepare, SignIn, Settle,
         TrackJourneys, Keep, Persist, Synchronize, Only, Die, vars
<1>2. CASE scenario = "oversight" /\ OversightNext
  BY <1>1, <1>2, OversightTypesMove DEF OversightNext
<1>3. ASSUME UNCHANGED oversightVars,
             scenario = "oversight" => \A q \in Request : req'[q] = Idle \/ req'[q] = req[q]
      PROVE  OversightTypes'
  BY <1>1, <1>3 DEF OversightTypes, OversightTypeOK, NoComplaint, ComplaintCall, At, oversightVars
<1>4. ASSUME NEW r \in Request, Dies(r), UNCHANGED oversightVars PROVE OversightTypes'
  BY <1>3, <1>4, RequestsEnd DEF OversightInv
<1> QED
  BY <1>1, <1>2, <1>3, <1>4 DEF requestVars

\* A guess holds a copy of the challenge from before it used up the last attempt.
AccountCall(r) ==
    req[r] # Idle /\ req[r].at \in Guess => req[r].copy.attempts < MaxAttempts

AccountTypes ==
    /\ \A h \in Challenges : challenge[h] # NoChallenge => challenge[h].attempts <= MaxAttempts
    /\ consented \subseteq Users
    /\ scenario = "accounts" => \A r \in Request : AccountCall(r)

\* One step of a request on the accounts.
LEMMA AccountTypesMove ==
    ASSUME AccountsInv, AccountTypes, scenario = "accounts", scenario' = scenario,
           NEW r \in Request, AccountsStep(r) \/ AccountsCall(r)
    PROVE  AccountTypes'
<1> DEFINE RestKept == \A q \in Request \ {r} : req'[q] = req[q]
           Counted  == \A h \in Challenges : \/ challenge'[h] = challenge[h]
                                             \/ challenge'[h].attempts <= MaxAttempts
<1>1. /\ RequestInv /\ \A q \in Request : AccountRequest(q)
      /\ challenge \in [Challenges -> ChallengeRecord \cup {NoChallenge}]
  BY DEF AccountsInv, AccountsHold, AccountRecords
<1>2. /\ \A h \in Challenges : challenge[h] # NoChallenge => challenge[h].attempts <= MaxAttempts
      /\ consented \subseteq Users /\ \A q \in Request : AccountCall(q)
  BY DEF AccountTypes
<1>3. ASSUME RestKept, AccountCall(r)', Counted, consented' \subseteq Users
      PROVE  AccountTypes'
  <2>1. \A q \in Request \ {r} : AccountCall(q)'
    BY <1>2, <1>3 DEF AccountCall
  <2> QED
    BY <1>2, <1>3, <2>1 DEF AccountTypes, NoChallenge
\* A call begins, and does not guess.
<1>4. ASSUME NEW x, NEW fields, Begin(r, x, fields), "at" \in DOMAIN fields, "on" \notin DOMAIN fields,
             fields.at \notin Guess \cup {"idle"}, UNCHANGED <<challenge, consented>>
      PROVE  AccountTypes'
  <2>1. RestKept /\ req'[r].at = fields.at
    BY <1>1, <1>4, RequestsBegin
  <2> QED
    BY <1>2, <1>3, <1>4, <2>1 DEF AccountCall
\* A call goes on or answers.
<1>5. ASSUME NEW fields, Goto(r, fields) \/ Answer(r), req[r] # Idle,
             "at" \in DOMAIN fields, "on" \notin DOMAIN fields,
             fields.at \notin Guess \cup {"idle"}, Counted, consented' \subseteq Users
      PROVE  AccountTypes'
  <2>1. RestKept /\ (req'[r] = Idle \/ req'[r].at = fields.at)
    BY <1>1, <1>5, RequestsGoto, RequestsEnd
  <2> QED
    BY <1>3, <1>5, <2>1 DEF AccountCall
<1> USE DEF Guess
\* The calls.
<1>6. ASSUME NEW p, RequestOtp(r, p) PROVE AccountTypes'
  <2>1. Begin(r, p, [at |-> "put_challenge"]) /\ UNCHANGED accountVars
    BY <1>6 DEF RequestOtp
  <2> QED
    BY <1>4, <2>1 DEF accountVars
<1>7. ASSUME NEW h \in Challenges, NEW right \in BOOLEAN, VerifyOtp(r, h, right) PROVE AccountTypes'
  <2> DEFINE fields == [at |-> IF right THEN "put_consumed" ELSE "put_attempt",
                        challenge |-> h, copy |-> challenge[h]]
  <2>1. PICK p : Begin(r, p, fields)
    BY <1>7, Zenon DEF VerifyOtp
  <2>0. challenge[h].attempts < MaxAttempts /\ UNCHANGED <<challenge, consented>>
    BY <1>7 DEF VerifyOtp, Accepts
  <2>2. /\ "at" \in DOMAIN fields /\ fields.at # "idle" /\ "on" \notin DOMAIN fields
        /\ "copy" \in DOMAIN fields /\ fields.copy = challenge[h]
    OBVIOUS
  <2> HIDE DEF fields
  <2>3. RestKept /\ req'[r] = With(fields, [on |-> p])
    BY <1>1, <2>1, BeginWrites
  <2>4. req'[r].copy = challenge[h]
    BY <2>2, <2>3 DEF With
  <2> QED
    BY <1>2, <1>3, <2>0, <2>3, <2>4 DEF AccountCall
<1>8. ASSUME NEW u, GetProfile(r, u) PROVE AccountTypes'
  <2>1. Begin(r, user[u], [at |-> "put_missing_profile", user |-> u]) /\ UNCHANGED accountVars
    BY <1>8 DEF GetProfile
  <2> QED
    BY <1>4, <2>1 DEF accountVars
<1>9. ASSUME NEW u, NEW p, Invite(r, u, p) PROVE AccountTypes'
  <2>1. Begin(r, u, [at |-> "put_delegation_consent", phone |-> p]) /\ UNCHANGED accountVars
    BY <1>9 DEF Invite
  <2> QED
    BY <1>4, <2>1 DEF accountVars
<1>10. ASSUME NEW d, Revoke(r, d) PROVE AccountTypes'
  <2>1. Single(r, delegation[d].principal) /\ UNCHANGED <<challenge, consented>>
    BY <1>10 DEF Revoke
  <2>2. req' = req
    BY <1>1, <2>1, RequestsSingle
  <2> QED
    BY <1>2, <1>3, <2>1, <2>2 DEF AccountCall
\* The steps.
<1>11. ASSUME PutChallenge(r) PROVE AccountTypes'
  <2>1. PICK h, p : /\ challenge' = [challenge EXCEPT ![h] =
                           [phone |-> p, age |-> "live", attempts |-> 0, consumed |-> FALSE]]
    BY <1>11 DEF PutChallenge
  <2>2. Counted
    BY <1>1, <2>1, AccountsAssumption
  <2>3. /\ Goto(r, [at |-> "put_session"]) \/ Answer(r)
        /\ req[r] # Idle /\ consented' \subseteq Users
    BY <1>2, <1>11, AtIsBusy DEF PutChallenge
  <2> QED
    BY <1>5, <2>2, <2>3
<1>12. ASSUME PutAttempt(r) \/ PutConsumed(r) PROVE AccountTypes'
  <2> DEFINE h == req[r].challenge
  <2>1. /\ req[r] # Idle /\ req[r].at \in Guess
        /\ Goto(r, [at |-> "find_user"]) \/ Answer(r)
        /\ consented' = consented
    BY <1>12, AtIsBusy DEF PutAttempt, PutConsumed, At
  <2>2. /\ h \in Challenges /\ challenge[h] \in ChallengeRecord
        /\ req[r].copy.attempts \in Nat /\ req[r].copy.attempts < MaxAttempts
    BY <1>1, <1>2, <2>1 DEF AccountRequest, AccountCall, ChallengeRecord
  <2>3. PICK n, used : /\ n \in Nat /\ n <= MaxAttempts
                       /\ challenge' = [challenge EXCEPT ![h].attempts = n, ![h].consumed = used]
    <3>1. CASE PutAttempt(r)
      <4>1. challenge' = [challenge EXCEPT ![h].attempts = req[r].copy.attempts + 1,
                                           ![h].consumed = req[r].copy.consumed]
        BY <3>1 DEF PutAttempt
      <4>2. req[r].copy.attempts + 1 \in Nat /\ req[r].copy.attempts + 1 <= MaxAttempts
        BY <2>2, AccountsAssumption
      <4> QED
        BY <4>1, <4>2
    <3>2. CASE PutConsumed(r)
      <4>1. challenge' = [challenge EXCEPT ![h].attempts = req[r].copy.attempts, ![h].consumed = TRUE]
        BY <3>2 DEF PutConsumed
      <4>2. req[r].copy.attempts <= MaxAttempts
        BY <2>2, AccountsAssumption
      <4> QED
        BY <2>2, <4>1, <4>2
    <3> QED
      BY <1>12, <3>1, <3>2
  <2>4. challenge'[h].attempts = n /\ \A g \in Challenges \ {h} : challenge'[g] = challenge[g]
    BY <1>1, <2>2, <2>3 DEF ChallengeRecord
  <2>5. Counted
    BY <2>3, <2>4
  <2> QED
    BY <1>2, <1>5, <2>1, <2>5
<1>13. ASSUME PutAccountConsent(r) PROVE AccountTypes'
  <2>1. /\ req[r] # Idle /\ Goto(r, [at |-> "put_session"]) /\ challenge' = challenge
        /\ consented' = consented \cup {req[r].user} /\ req[r].at = "put_account_consent"
    BY <1>13, AtIsBusy DEF PutAccountConsent, At
  <2>2. req[r].user \in Users
    BY <1>1, <2>1 DEF AccountRequest, ForUser
  <2>3. consented' \subseteq Users
    BY <1>2, <2>1, <2>2
  <2> QED
    BY <1>5, <2>1, <2>3
<1>14. ASSUME \/ FindUser(r) \/ PutUser(r) \/ PutProfile(r) \/ PutSession(r) \/ PutMissingProfile(r)
              \/ PutDelegationConsent(r) \/ FindDelegate(r) \/ PutDelegation(r)
       PROVE  AccountTypes'
  <2>1. req[r] # Idle /\ UNCHANGED <<challenge, consented>>
    BY <1>14, AtIsBusy DEF FindUser, PutUser, PutProfile, PutSession, PutMissingProfile,
          PutDelegationConsent, FindDelegate, PutDelegation, accountVars
  <2>2. CASE PutSession(r) \/ PutMissingProfile(r) \/ PutDelegation(r)
    <3>1. Goto(r, [at |-> "put_session"]) \/ Answer(r)
      BY <2>2 DEF PutSession, PutMissingProfile, PutDelegation
    <3> QED
      BY <1>2, <1>5, <2>1, <3>1
  <2>3. CASE FindUser(r)
    <3>1. ASSUME NEW u, Goto(r, [at |-> "put_account_consent", user |-> u]) PROVE AccountTypes'
      BY <1>2, <1>5, <2>1, <3>1
    <3>2. ASSUME Goto(r, [at |-> "put_user"]) PROVE AccountTypes'
      BY <1>2, <1>5, <2>1, <3>2
    <3> QED
      BY <2>3, <3>1, <3>2 DEF FindUser
  <2>4. CASE PutUser(r)
    <3>1. \E u : Goto(r, [at |-> "put_profile", user |-> u])
      BY <2>4 DEF PutUser
    <3> QED
      BY <1>2, <1>5, <2>1, <3>1
  <2>5. CASE PutProfile(r)
    <3>1. Goto(r, [at |-> "put_account_consent"])
      BY <2>5 DEF PutProfile
    <3> QED
      BY <1>2, <1>5, <2>1, <3>1
  <2>6. CASE PutDelegationConsent(r)
    <3>1. \E d : Goto(r, [at |-> "find_delegate", delegation |-> d])
      BY <2>6 DEF PutDelegationConsent
    <3> QED
      BY <1>2, <1>5, <2>1, <3>1
  <2>7. CASE FindDelegate(r)
    <3>1. \E v : Goto(r, [at |-> "put_delegation", delegate |-> v])
      BY <2>7 DEF FindDelegate
    <3> QED
      BY <1>2, <1>5, <2>1, <3>1
  <2> QED
    BY <1>14, <2>2, <2>3, <2>4, <2>5, <2>6, <2>7
<1> QED
  BY <1>6, <1>7, <1>8, <1>9, <1>10, <1>11, <1>12, <1>13, <1>14 DEF AccountsStep, AccountsCall

\* The types of the accounts are kept.
LEMMA AccountTypesStep ==
    ASSUME AccountsInv, AccountTypes, [ServicesNext]_vars
    PROVE  AccountTypes'
<1>1. /\ scenario' = scenario
      /\ \/ scenario = "accounts" /\ AccountsNext
         \/ (\E r \in Request : Dies(r)) /\ UNCHANGED accountVars
         \/ UNCHANGED requestVars /\ UNCHANGED accountVars
         \/ scenario # "accounts" /\ UNCHANGED accountVars
  BY DEF ServicesNext, Move, Publish, Apply, Oversee, Account, Prepare, SignIn, Settle,
         TrackJourneys, Keep, Persist, Synchronize, Only, Die, vars
<1>2. ASSUME \A h \in Challenges : challenge'[h] # NoChallenge =>
                 challenge[h] # NoChallenge /\ challenge'[h].attempts = challenge[h].attempts,
             consented' = consented,
             scenario = "accounts" => \A q \in Request : req'[q] = Idle \/ req'[q] = req[q]
      PROVE  AccountTypes'
  BY <1>1, <1>2 DEF AccountTypes, NoChallenge, AccountCall
<1>3. ASSUME scenario = "accounts", NEW h \in Challenges, Age(h) PROVE AccountTypes'
  <2>1. challenge \in [Challenges -> ChallengeRecord \cup {NoChallenge}]
    BY <1>3 DEF AccountsInv, AccountsHold, AccountRecords
  <2>2. PICK age : challenge' = [challenge EXCEPT ![h].age = age]
    BY <1>3 DEF Age
  <2>3. /\ challenge[h] # NoChallenge /\ consented' = consented /\ req' = req
    BY <1>3 DEF Age, requestVars
  <2>4. \A g \in Challenges : challenge'[g] # NoChallenge =>
            challenge[g] # NoChallenge /\ challenge'[g].attempts = challenge[g].attempts
    BY <2>1, <2>2, <2>3 DEF ChallengeRecord
  <2> QED
    BY <1>2, <2>3, <2>4
<1>4. CASE scenario = "accounts" /\ AccountsNext
  BY <1>1, <1>3, <1>4, AccountTypesMove DEF AccountsNext
<1>5. ASSUME NEW r \in Request, Dies(r), UNCHANGED accountVars PROVE AccountTypes'
  BY <1>2, <1>5, RequestsEnd DEF AccountsInv, AccountsHold, accountVars
<1> QED
  BY <1>1, <1>2, <1>4, <1>5 DEF requestVars, accountVars

\* Some direction is enabled, and no passport is ahead of the saves.
RoleSets == (SUBSET {"worker", "student"}) \ {{}}
ProfileCall(r) ==
    req[r] # Idle =>
        /\ At(r, "write_direction") => req[r].copy.version <= saves
        /\ At(r, "set_roles") => "roles" \in DOMAIN req[r] /\ req[r].roles \in RoleSets

ProfileTypes ==
    /\ Known => profile.enabled # {} /\ profile.passport.version <= saves
    /\ roles \in RoleSets
    /\ scenario = "profile" => \A r \in Request : ProfileCall(r)

\* Every step on the profile keeps its types.
LEMMA ProfileTypesMove ==
    ASSUME ProfileInv, ProfileInv', ProfileTypes, scenario = "profile", scenario' = scenario, ProfileNext
    PROVE  ProfileTypes'
<1>1. /\ RequestInv /\ \A q \in Request : ProfileRequest(q)
      /\ saves \in Nat /\ saves' \in Nat
      /\ Known => profile \in ProfileRecord
      /\ ~Known => saves = 0
  BY DEF ProfileInv
<1>2. /\ Known => profile.enabled # {} /\ profile.passport.version <= saves
      /\ roles \in RoleSets /\ \A q \in Request : ProfileCall(q)
  BY DEF ProfileTypes
<1>3. \A d \in Directions : d.enabled # {} /\ d.enabled \subseteq Paths
  BY DEF Directions
<1>4. Known => profile.passport.version \in Nat
  BY <1>1 DEF ProfileRecord, WebPassport
\* It is enough to look at the request and at what it wrote.
<1>5. ASSUME NEW r \in Request, \A q \in Request \ {r} : req'[q] = req[q], ProfileCall(r)',
             saves <= saves', profile'.enabled # {}, profile'.passport.version <= saves',
             roles' \in RoleSets
      PROVE  ProfileTypes'
  <2>1. ASSUME NEW q \in Request \ {r} PROVE ProfileCall(q)'
    <3>1. ProfileCall(q) /\ req'[q] = req[q]
      BY <1>2, <1>5
    <3>2. req[q] # Idle /\ At(q, "write_direction") => req[q].copy.version \in Nat
      BY <1>1 DEF ProfileRequest, WebPassport
    <3> QED
      BY <1>1, <1>5, <3>1, <3>2 DEF ProfileCall, At
  <2> QED
    BY <1>5, <2>1 DEF ProfileTypes
<1>6. ASSUME NEW r \in Request, NEW i \in Intents, SavePassport(r, i) PROVE ProfileTypes'
  <2>1. Single(r, "profile") /\ saves' = saves + 1 /\ roles' = roles
    BY <1>6 DEF SavePassport
  <2>2. req' = req /\ req[r] = Idle
    BY <1>1, <2>1, RequestsSingle DEF Single
  <2>3. profile'.enabled # {} /\ profile'.passport.version <= saves'
    <3>1. CASE Known /\ profile.onboarded
      <4>1. profile' = [profile EXCEPT !.passport = [intent |-> i, version |-> saves']]
        BY <1>6, <3>1 DEF SavePassport
      <4> QED
        BY <1>1, <1>2, <3>1, <4>1 DEF ProfileRecord
    <3>2. CASE ~(Known /\ profile.onboarded)
      <4>1. profile' = [active |-> i, enabled |-> EnabledBy(i), onboarded |-> FALSE,
                        passport |-> [intent |-> i, version |-> saves']]
        BY <1>6, <3>2 DEF SavePassport
      <4>2. EnabledBy(i) # {}
        BY DEF EnabledBy, Paths
      <4> QED
        BY <1>1, <4>1, <4>2
    <3> QED
      BY <3>1, <3>2
  <2>4. ProfileCall(r)'
    BY <2>2 DEF ProfileCall
  <2>5. saves <= saves' /\ roles' \in RoleSets
    BY <1>1, <1>2, <2>1
  <2> QED
    BY <1>5, <2>2, <2>3, <2>4, <2>5
<1>7. ASSUME NEW r \in Request, NEW d \in Directions, CompleteOnboarding(r, d) PROVE ProfileTypes'
  <2> DEFINE set == {IF p = "work" THEN "worker" ELSE "student" : p \in d.enabled}
  <2>1. /\ Begin(r, "profile", [at |-> "set_roles", roles |-> set]) /\ UNCHANGED <<saves, roles>>
        /\ profile' = [active |-> d.path, enabled |-> d.enabled, onboarded |-> TRUE,
                       passport |-> IF Known THEN profile.passport
                                    ELSE [intent |-> IntentOf(d), version |-> 0]]
    BY <1>7 DEF CompleteOnboarding
  <2>2. set \in RoleSets
    <3>1. set \subseteq {"worker", "student"}
      OBVIOUS
    <3>2. PICK p : p \in d.enabled
      BY <1>3
    <3>3. (IF p = "work" THEN "worker" ELSE "student") \in set
      BY <3>2
    <3> QED
      BY <3>1, <3>3 DEF RoleSets
  <2> HIDE DEF set
  <2>3. /\ req'[r] = With([at |-> "set_roles", roles |-> set], [on |-> "profile"])
        /\ \A q \in Request \ {r} : req'[q] = req[q]
    BY <1>1, <2>1, BeginWrites
  <2>4. /\ "roles" \in DOMAIN req'[r] /\ req'[r].at = "set_roles" /\ req'[r].roles = set
    BY <2>3 DEF With
  <2>5. ProfileCall(r)'
    BY <2>2, <2>4 DEF ProfileCall, At
  <2>6. profile'.enabled # {} /\ profile'.passport.version <= saves'
    BY <1>1, <1>2, <1>3, <2>1
  <2>7. saves <= saves' /\ roles' \in RoleSets
    BY <1>1, <1>2, <2>1
  <2> QED
    BY <1>5, <2>3, <2>5, <2>6, <2>7
\* A call that begins and writes nothing yet.
<1>8. ASSUME NEW r \in Request, \A q \in Request \ {r} : req'[q] = req[q], ProfileCall(r)',
             Known, UNCHANGED workspaceVars
      PROVE  ProfileTypes'
  <2>1. profile'.enabled # {} /\ profile'.passport.version <= saves'
    BY <1>2, <1>8 DEF workspaceVars
  <2>2. saves <= saves' /\ roles' \in RoleSets
    BY <1>1, <1>2, <1>8 DEF workspaceVars
  <2> QED
    BY <1>5, <1>8, <2>1, <2>2
<1>9. ASSUME NEW r \in Request, NEW d \in Directions, UpdateDirection(r, d) PROVE ProfileTypes'
  <2>1. /\ Begin(r, "profile", [at |-> "write_direction", direction |-> d, copy |-> profile.passport])
        /\ Known /\ UNCHANGED workspaceVars
    BY <1>9 DEF UpdateDirection
  <2>2. /\ req'[r] = With([at |-> "write_direction", direction |-> d, copy |-> profile.passport],
                          [on |-> "profile"])
        /\ \A q \in Request \ {r} : req'[q] = req[q]
    BY <1>1, <2>1, BeginWrites
  <2>3. req'[r].at = "write_direction" /\ req'[r].copy = profile.passport
    BY <2>2 DEF With
  <2>4. ProfileCall(r)'
    BY <1>2, <2>1, <2>3 DEF ProfileCall, At, workspaceVars
  <2> QED
    BY <1>8, <2>1, <2>2, <2>4
<1>10. ASSUME NEW r \in Request, NEW p \in Paths, SetActiveWorkspace(r, p) PROVE ProfileTypes'
  <2>1. /\ Begin(r, "profile", [at |-> "write_active", path |-> p])
        /\ Known /\ UNCHANGED workspaceVars
    BY <1>10 DEF SetActiveWorkspace
  <2>2. /\ req'[r] = With([at |-> "write_active", path |-> p], [on |-> "profile"])
        /\ \A q \in Request \ {r} : req'[q] = req[q]
    BY <1>1, <2>1, BeginWrites
  <2>3. req'[r].at = "write_active"
    BY <2>2 DEF With
  <2>4. ProfileCall(r)'
    BY <2>3 DEF ProfileCall, At
  <2> QED
    BY <1>8, <2>1, <2>2, <2>4
<1>11. ASSUME NEW r \in Request, SetRoles(r) PROVE ProfileTypes'
  <2>1. /\ req[r] # Idle /\ At(r, "set_roles") /\ roles' = req[r].roles /\ Answer(r)
        /\ UNCHANGED <<profile, saves>>
    BY <1>11, AtIsBusy DEF SetRoles
  <2>2. req'[r] = Idle /\ \A q \in Request \ {r} : req'[q] = req[q]
    BY <1>1, <2>1, RequestsEnd
  <2>3. roles' \in RoleSets
    BY <1>2, <2>1 DEF ProfileCall
  <2> QED
    BY <1>2, <2>1, <2>2, <2>3 DEF ProfileTypes, ProfileCall, At, Idle, Known
<1>12. ASSUME NEW r \in Request, WriteDirection(r) PROVE ProfileTypes'
  <2> PICK d, copy : d = req[r].direction /\ copy = req[r].copy
    OBVIOUS
  <2>1. /\ At(r, "write_direction") /\ Answer(r) /\ UNCHANGED <<saves, roles>>
        /\ profile' = [profile EXCEPT !.active = d.path, !.enabled = d.enabled,
                                      !.passport = [copy EXCEPT !.intent = IntentOf(d)]]
    BY <1>12 DEF WriteDirection
  <2>2. /\ req[r] # Idle /\ Known /\ d \in Directions /\ copy \in WebPassport
        /\ copy.version <= saves
    BY <1>1, <1>2, <2>1, AtIsBusy DEF ProfileRequest, ProfileCall
  <2>3. profile'.enabled = d.enabled /\ profile'.passport.version = copy.version
    BY <1>1, <2>1, <2>2 DEF ProfileRecord, WebPassport
  <2>4. req'[r] = Idle /\ \A q \in Request \ {r} : req'[q] = req[q]
    BY <1>1, <2>1, RequestsEnd
  <2>5. ProfileCall(r)' /\ saves <= saves'
    BY <1>1, <2>1, <2>4 DEF ProfileCall
  <2>6. profile'.enabled # {} /\ profile'.passport.version <= saves' /\ roles' \in RoleSets
    BY <1>2, <1>3, <2>1, <2>2, <2>3
  <2> QED
    BY <1>5, <2>4, <2>5, <2>6
<1>13. ASSUME NEW r \in Request, WriteActive(r) PROVE ProfileTypes'
  <2>1. /\ At(r, "write_active") /\ Answer(r) /\ UNCHANGED <<saves, roles>>
        /\ profile' = [profile EXCEPT !.active = req[r].path]
    BY <1>13 DEF WriteActive
  <2>2. Known
    BY <1>1, <2>1, AtIsBusy DEF ProfileRequest
  <2>3. profile'.enabled = profile.enabled /\ profile'.passport = profile.passport
    BY <1>1, <2>1, <2>2 DEF ProfileRecord
  <2>4. req'[r] = Idle /\ \A q \in Request \ {r} : req'[q] = req[q]
    BY <1>1, <2>1, RequestsEnd
  <2>5. ProfileCall(r)' /\ saves <= saves'
    BY <1>1, <2>1, <2>4 DEF ProfileCall
  <2>6. profile'.enabled # {} /\ profile'.passport.version <= saves' /\ roles' \in RoleSets
    BY <1>2, <2>1, <2>2, <2>3
  <2> QED
    BY <1>5, <2>4, <2>5, <2>6
<1> QED
  BY <1>6, <1>7, <1>9, <1>10, <1>11, <1>12, <1>13 DEF ProfileNext

\* The types of the profile are kept.
LEMMA ProfileTypesStep ==
    ASSUME ProfileInv, ProfileInv', ProfileTypes, [ServicesNext]_vars
    PROVE  ProfileTypes'
<1>1. /\ scenario' = scenario
      /\ \/ scenario = "profile" /\ ProfileNext
         \/ (\E r \in Request : Dies(r)) /\ UNCHANGED workspaceVars
         \/ UNCHANGED requestVars /\ UNCHANGED workspaceVars
         \/ scenario = "journeys" /\ JourneysNext
         \/ scenario # "profile" /\ UNCHANGED workspaceVars
  BY DEF ServicesNext, Move, Publish, Apply, Oversee, Account, Prepare, SignIn, Settle,
         TrackJourneys, Keep, Persist, Synchronize, Only, Die, vars
<1>2. JourneysNext => UNCHANGED <<profile, saves, roles>>
  BY DEF JourneysNext, InsertJourney, InsertAlert, CreateJourney, CompleteJourneyTask,
              MarkAlertRead, AddJourneyRecord, SetJourneyRecordStatus, CreateOutcomeReport,
              AddLedgerEntry, CreateVerificationRequest, CreateSupportTicket,
              CreatePartnerSubmission, File, AddDelegation, RevokeDelegation, workspaceVars
<1>3. ASSUME UNCHANGED <<profile, saves, roles>>,
             scenario = "profile" => \A q \in Request : req'[q] = Idle \/ req'[q] = req[q]
      PROVE  ProfileTypes'
  BY <1>1, <1>3 DEF ProfileTypes, ProfileCall, At, Known
<1>4. ASSUME NEW r \in Request, Dies(r), UNCHANGED workspaceVars PROVE ProfileTypes'
  BY <1>3, <1>4, RequestsEnd DEF ProfileInv, workspaceVars
<1>5. CASE UNCHANGED requestVars /\ UNCHANGED workspaceVars
  BY <1>3, <1>5 DEF requestVars, workspaceVars
<1>6. CASE scenario # "profile" /\ UNCHANGED <<profile, saves, roles>>
  BY <1>3, <1>6
<1> QED
  BY <1>1, <1>2, <1>4, <1>5, <1>6, ProfileTypesMove DEF workspaceVars

\* What no request has to remember.
OtherTypes ==
    /\ scenario \in Scenarios
    /\ fees \subseteq Submissions \cup {"none"}
    /\ disabled \subseteq ProviderSubjects
    /\ next <= Len(Mutations)
    /\ bytes \subseteq Files /\ shares \in [Shares -> {"none", "granted", "revoked"}]
    /\ serving \in BOOLEAN

\* Every step keeps it.
LEMMA OtherTypesStep ==
    ASSUME OtherTypes, QueueInv, [ServicesNext]_vars
    PROVE  OtherTypes'
<1> USE DEF OtherTypes
<1>1. scenario' \in Scenarios
  BY DEF ServicesNext, Move, Publish, Apply, Oversee, Account, Prepare, SignIn, Settle,
         TrackJourneys, Keep, Persist, Synchronize, Only, Die, vars
<1>2. fees' \subseteq Submissions \cup {"none"}
  <2>1. PublicationNext \/ UNCHANGED publicationVars
    BY DEF ServicesNext, Move, Publish, Apply, Oversee, Account, Prepare, SignIn, Settle,
           TrackJourneys, Keep, Persist, Synchronize, Only, Die, vars
  <2>2. fees' = fees \/ \E s \in Submissions \cup {"none"} : fees' = fees \cup {s}
    BY <2>1 DEF PublicationNext, PublicationStep, PublicationCall, CreateSubmission, DeclareFee,
       SubmitForReview, PutChange, PutSubmission, CreatePublicationChange, SubmitPublicationChange,
       PutInReview, ReviewPublicationChange, PutDecision, FindSubmission, PutReviewed, publicationVars
  <2> QED
    BY <2>2
<1>3. disabled' \subseteq ProviderSubjects
  <2>1. IdentityNext \/ UNCHANGED identityVars
    BY DEF ServicesNext, Move, Publish, Apply, Oversee, Account, Prepare, SignIn, Settle,
           TrackJourneys, Keep, Persist, Synchronize, Only, Die, vars
  <2>2. disabled' = disabled \/ \E s \in ProviderSubjects : disabled' = disabled \cup {s}
    BY <2>1 DEF IdentityNext, InsertLink, RereadLink, CommitIdentity, ResolveKnown, ResolveUnknown,
       UserDeleted, identityVars
  <2> QED
    BY <2>2
<1>4. next' <= Len(Mutations)
  <2>1. QueueNext \/ UNCHANGED queueVars
    BY DEF ServicesNext, Move, Publish, Apply, Oversee, Account, Prepare, SignIn, Settle,
           TrackJourneys, Keep, Persist, Synchronize, Only, Die, vars
  <2>2. next' = next \/ (next < Len(Mutations) /\ next' = next + 1)
    BY <2>1 DEF QueueNext, Enqueue, Flush, QueueStep, Send, SendRefused, DeleteRow, Breaks, queueVars
  <2>3. Len(Mutations) \in Nat /\ next \in Nat
    BY QueueAssumption DEF QueueInv
  <2> QED
    BY <2>2, <2>3
<1>5. bytes' \subseteq Files /\ shares' \in [Shares -> {"none", "granted", "revoked"}]
  <2>1. WalletNext \/ UNCHANGED walletVars
    BY DEF ServicesNext, Move, Publish, Apply, Oversee, Account, Prepare, SignIn, Settle,
           TrackJourneys, Keep, Persist, Synchronize, Only, Die, vars
  <2>2. /\ bytes' = bytes \/ \E d \in Files : bytes' = bytes \cup {d}
        /\ \/ shares' = shares
           \/ \E s : shares' = [shares EXCEPT ![s] = "granted"]
           \/ \E s : shares' = [shares EXCEPT ![s] = "revoked"]
    BY <2>1 DEF WalletNext, Upload, Share, RevokeShare, PutDocument, PutShare, PutShareRevoked, walletVars
  <2> QED
    BY <2>2
<1>6. serving' \in BOOLEAN
  <2>1. StoreNext \/ UNCHANGED storeVars
    BY DEF ServicesNext, Move, Publish, Apply, Oversee, Account, Prepare, SignIn, Settle,
           TrackJourneys, Keep, Persist, Synchronize, Only, Die, vars
  <2>2. serving' = serving \/ serving' = TRUE
    BY <2>1, Zenon DEF StoreNext, StoreStep, StoreCall, StartInMemory, Connect, CountSeed, PutSeed, PutRecord,
       RemoveRecord, Reset, storeVars
  <2> QED
    BY <2>2
<1> QED
  BY <1>1, <1>2, <1>3, <1>4, <1>5, <1>6

\* All types, with the invariants that they rest on.
RecordTypes == ApplicationTypes /\ OversightTypes /\ AccountTypes /\ ProfileTypes /\ OtherTypes

\* The initial records have their types.
LEMMA RecordTypesStart == ServicesInit => RecordTypes
<1> SUFFICES ASSUME ServicesInit PROVE RecordTypes
  OBVIOUS
<1>1. \A r \in Request : req[r] = Idle
  BY RequestsStart DEF ServicesInit
<1>2. OversightTypes
  BY <1>1 DEF ServicesInit, OversightInit, OversightTypes, OversightTypeOK, ComplaintCall
<1>3. AccountTypes
  BY <1>1 DEF ServicesInit, AccountsInit, AccountTypes, AccountCall
<1>4. ProfileTypes
  <2>1. ~Known /\ roles = {"worker"}
    BY DEF ServicesInit, WorkspaceInit, Known
  <2>2. roles \in RoleSets
    BY <2>1 DEF RoleSets
  <2> QED
    BY <1>1, <2>1, <2>2 DEF ProfileTypes, ProfileCall
<1>5. OtherTypes
  <2>1. scenario \in Scenarios /\ fees = {} /\ disabled = {} /\ next = 0 /\ bytes = {}
        /\ shares = [s \in Shares |-> "none"] /\ serving = FALSE
    BY DEF ServicesInit, PublicationInit, IdentityInit, QueueInit, WalletInit, StoreInit
  <2>2. next <= Len(Mutations)
    BY <2>1, QueueAssumption
  <2>3. shares \in [Shares -> {"none", "granted", "revoked"}]
    BY <2>1
  <2>4. fees \subseteq Submissions \cup {"none"} /\ disabled \subseteq ProviderSubjects
        /\ bytes \subseteq Files /\ serving \in BOOLEAN
    BY <2>1
  <2> QED
    BY <2>1, <2>2, <2>3, <2>4 DEF OtherTypes
<1> QED
  BY <1>2, <1>3, <1>4, <1>5, ApplicationTypesStart DEF RecordTypes

\* The records of the services with the invariants that they rest on.
ServicesInv ==
    /\ CaseInv /\ PublicationInv /\ ApplicationsInv /\ OversightInv /\ AccountsInv /\ PassportInv
    /\ QueueInv /\ IdentityInv /\ ProfileInv /\ JourneysInv /\ WalletInv /\ StoreInv

\* They are records of their types.
LEMMA RecordsHaveTypes == ServicesInv /\ RecordTypes => ServicesTypeOK
<1> SUFFICES ASSUME ServicesInv, RecordTypes PROVE ServicesTypeOK
  OBVIOUS
<1>1. CaseTypeOK
  BY DEF ServicesInv, CaseInv, CaseTypeOK, CaseRecord, Milestone
<1>2. PublicationTypeOK
  BY DEF ServicesInv, PublicationInv, RecordsInv, Stored, SubmissionRecord, ChangeRecord,
         PublicationTypeOK, RecordTypes, OtherTypes
<1>3. ApplicationsTypeOK /\ OversightTypeOK
  BY DEF RecordTypes, ApplicationTypes, OversightTypes
<1>4. AccountsTypeOK
  <2>1. /\ \A h \in Challenges : challenge[h] # NoChallenge => challenge[h].attempts <= MaxAttempts
        /\ consented \subseteq Users
    BY DEF RecordTypes, AccountTypes
  <2>2. /\ \A h \in Challenges : challenge[h] \in ChallengeRecord \cup {NoChallenge}
        /\ user \in [Users -> Phones \cup {"none"}]
    BY DEF ServicesInv, AccountsInv, AccountsHold, AccountRecords, Untouched
  <2>3. ASSUME NEW h \in Challenges, challenge[h] # NoChallenge
        PROVE  challenge[h] \in [phone : Phones, age : {"live", "expired", "aged"},
                                 attempts : 0..MaxAttempts, consumed : BOOLEAN]
    BY <2>1, <2>2, <2>3, AccountsAssumption DEF ChallengeRecord
  <2> QED
    BY <2>1, <2>2, <2>3 DEF AccountsTypeOK
<1>5. PassportTypeOK
  <2>1. PassportRows
    BY DEF ServicesInv, PassportInv
  <2>2. ASSUME NEW k \in KindSet, NEW i \in DOMAIN records[k]
        PROVE  records[k][i].version \in Nat \ {0}
    <3>1. updates[k] \in Nat /\ records[k] \in Seq(Recorded(1 + updates[k]))
      BY <2>1 DEF PassportRows
    <3>2. records[k][i] \in Recorded(1 + updates[k])
      BY <3>1, <2>2, ElementOfSeq
    <3> QED
      BY <3>1, <3>2 DEF Recorded
  <2> QED
    BY <2>1, <2>2 DEF PassportTypeOK, PassportRows, Assessed
<1>6. QueueTypeOK
  <2>1. /\ next \in Nat /\ next <= Len(Mutations) /\ queue \subseteq 1..next
        /\ \A f \in Flushers : FlushInv(f)
    BY DEF ServicesInv, QueueInv, RecordTypes, OtherTypes
  <2>2. ASSUME NEW f \in Flushers PROVE (flusher[f] = Resting) <=> (flusher[f].rows = {})
    <3>1. flusher[f] = [at |-> flusher[f].at, rows |-> flusher[f].rows]
      BY <2>1 DEF FlushInv
    <3>2. flusher[f].rows = {} => flusher[f].at = "idle"
      BY <2>1 DEF FlushInv
    <3>3. Resting.rows = {}
      BY DEF Resting
    <3> QED
      BY <3>1, <3>2, <3>3 DEF Resting
  <2>3. Len(Mutations) \in Nat
    BY QueueAssumption
  <2> QED
    BY <2>1, <2>2, <2>3 DEF QueueTypeOK
<1>7. IdentityTypeOK
  BY DEF ServicesInv, IdentityInv, RecordTypes, OtherTypes, IdentityTypeOK
<1>8. WorkspaceTypeOK
  <2>1. Known => /\ profile.active \in Intents /\ profile.enabled \in (SUBSET Paths) \ {{}}
                 /\ profile.passport \in [intent : Intents, version : 0..saves]
    <3> SUFFICES ASSUME Known
                 PROVE  /\ profile.active \in Intents /\ profile.enabled \in (SUBSET Paths) \ {{}}
                        /\ profile.passport \in [intent : Intents, version : 0..saves]
      OBVIOUS
    <3>1. saves \in Nat /\ profile \in ProfileRecord
      BY DEF ServicesInv, ProfileInv
    <3>2. profile.enabled # {} /\ profile.passport.version <= saves
      BY DEF RecordTypes, ProfileTypes
    <3>3. /\ profile.active \in Intents /\ profile.enabled \in SUBSET Paths
          /\ profile.passport \in WebPassport
      BY <3>1 DEF ProfileRecord
    <3>4. profile.passport \in [intent : Intents, version : 0..saves]
      BY <3>1, <3>2, <3>3 DEF WebPassport
    <3> QED
      BY <3>2, <3>3, <3>4
  <2>2. \A j \in Begun : journey[j].target \in Targets \cup {Blank} /\ journey[j].path \in Paths
    BY DEF ServicesInv, JourneysInv, JourneyRecord
  <2>3. roles \in (SUBSET {"worker", "student"}) \ {{}}
    BY DEF RecordTypes, ProfileTypes, RoleSets
  <2> QED
    BY <2>1, <2>2, <2>3 DEF WorkspaceTypeOK
<1>9. WalletTypeOK
  BY DEF ServicesInv, WalletInv, WalletHolds, RecordTypes, OtherTypes, WalletTypeOK
<1>10. StoreTypeOK
  BY FilledIds DEF ServicesInv, StoreInv, RecordTypes, OtherTypes, StoreTypeOK
<1> QED
  BY <1>1, <1>2, <1>3, <1>4, <1>5, <1>6, <1>7, <1>8, <1>9, <1>10
  DEF ServicesTypeOK, RecordTypes, OtherTypes

\* Whatever calls overlap and wherever they fail, each service, the store of the web app
\* and the queue of the mobile app keep their records of their types.
THEOREM TypesAreKept == ServicesSpec => []ServicesTypeOK
<1> DEFINE Inv == ServicesInv /\ RecordTypes
<1>1. ServicesInit => Inv
  BY CaseStart, PublicationStart, ApplicationsStart, OversightStart, AccountsStart, PassportStart,
     QueueStart, IdentityStart, ProfileStart, JourneysStart, WalletStart, StoreStart,
     RecordTypesStart DEF ServicesInv
<1>2. Inv /\ [ServicesNext]_vars => Inv'
  <2> SUFFICES ASSUME Inv, [ServicesNext]_vars PROVE Inv'
    OBVIOUS
  <2>1. ServicesInv'
    BY CaseInvStep, PublicationInvStep, ApplicationsInvStep, OversightInvStep, AccountsInvStep,
       PassportInvStep, QueueInvStep, IdentityInvStep, ProfileInvStep, JourneysInvStep,
       WalletInvStep, StoreInvStep, StoreAssumption DEF ServicesInv
  <2>2. RecordTypes'
    BY <2>1, ApplicationTypesStep, OversightTypesStep, AccountTypesStep, ProfileTypesStep,
       OtherTypesStep DEF ServicesInv, RecordTypes
  <2> QED
    BY <2>1, <2>2
<1>3. Inv => ServicesTypeOK
  BY RecordsHaveTypes
<1> QED
  BY <1>1, <1>2, <1>3, PTL DEF ServicesSpec
===============================================================================

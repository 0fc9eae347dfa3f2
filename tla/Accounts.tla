------------------------------- MODULE Accounts -------------------------------
(***************************************************************************)
(* Sign-in by one-time code and the profile (IdentityService), delegations *)
(* to relatives (DelegationsService) and what the session guard makes of   *)
(* them.  The clock is the age of a challenge, which may advance any time. *)
(***************************************************************************)
EXTENDS Requests

CONSTANTS
    Phones, Challenges, Users, Delegations,
    MaxAttempts,   \* MAX_OTP_ATTEMPTS
    MaxChallenges  \* MAX_CHALLENGES_PER_WINDOW

ASSUME AccountsAssumption ==
    MaxAttempts \in Nat /\ MaxChallenges \in Nat /\ "none" \notin Phones

VARIABLES
    challenge,  \* storage.otpChallenges
    user,       \* the phone of each of storage.users
    profiles,   \* how many of storage.profiles each user has
    consented,  \* users with a consent for account_creation on record
    sessions,   \* storage.sessions: the user and the challenge of each
    delegation, \* storage.delegations, with its consent
    guesses     \* history: codes compared with each challenge

accountVars == <<challenge, user, profiles, consented, sessions, delegation, guesses>>

NoChallenge  == [age |-> "none"]
NoDelegation == [status |-> "none"]

\* Initially each phone may have its user, with a profile, a consent and no session.
AccountsInit ==
    /\ challenge = [h \in Challenges |-> NoChallenge]
    /\ user \in [Users -> Phones \cup {"none"}]
    /\ \A u, v \in Users : user[u] # "none" /\ user[u] = user[v] => u = v
    /\ profiles = [u \in Users |-> IF user[u] = "none" THEN 0 ELSE 1]
    /\ consented = {u \in Users : user[u] # "none"}
    /\ sessions = {} /\ guesses = [h \in Challenges |-> 0]
    /\ delegation = [d \in Delegations |-> NoDelegation]

Owners(p)   == {u \in Users : user[u] = p}
FreshUsers  == Owners("none")
Issued(p)   == {h \in Challenges : challenge[h] # NoChallenge /\ challenge[h].phone = p}
InWindow(p) == {h \in Issued(p) : challenge[h].age # "aged"}

\* A challenge lives five minutes and counts against new ones for ten more.
Age(h) ==
    /\ challenge[h] # NoChallenge /\ challenge[h].age # "aged"
    /\ challenge' = [challenge EXCEPT ![h].age = IF @ = "live" THEN "expired" ELSE "aged"]
    /\ UNCHANGED <<user, profiles, consented, sessions, delegation, guesses>>
    /\ UNCHANGED requestVars

-------------------------------------------------------------------------------
(* requestOtp and verifyOtp.                                               *)

RequestOtp(r, p) ==
    /\ Cardinality(InWindow(p)) < MaxChallenges
    /\ \E h \in Challenges : challenge[h] = NoChallenge
    /\ Begin(r, p, [at |-> "put_challenge"])
    /\ UNCHANGED accountVars

PutChallenge(r) ==
    /\ At(r, "put_challenge")
    /\ \E h \in Challenges : challenge[h] = NoChallenge
    /\ LET h == CHOOSE h \in Challenges : challenge[h] = NoChallenge
       IN  challenge' = [challenge EXCEPT ![h] =
               [phone |-> req[r].on, age |-> "live", attempts |-> 0, consumed |-> FALSE]]
    /\ Answer(r)
    /\ UNCHANGED <<user, profiles, consented, sessions, delegation, guesses>>

\* The guards of verifyOtp: neither used, nor expired, nor out of attempts.
Accepts(h) == challenge[h].age = "live" /\ ~challenge[h].consumed /\ challenge[h].attempts < MaxAttempts

VerifyOtp(r, h, right) ==
    /\ challenge[h] # NoChallenge /\ Accepts(h)
    /\ guesses' = [guesses EXCEPT ![h] = @ + 1]
    /\ Begin(r, challenge[h].phone,
             [at |-> IF right THEN "put_consumed" ELSE "put_attempt",
              challenge |-> h, copy |-> challenge[h]])
    /\ UNCHANGED <<challenge, user, profiles, consented, sessions, delegation>>

\* Mutant of PutAttempt: a wrong code is not counted.
PutAttemptUncounted(r) ==
    /\ At(r, "put_attempt")
    /\ Answer(r)
    /\ UNCHANGED accountVars

PutAttempt(r) ==
    /\ At(r, "put_attempt")
    /\ challenge' = [challenge EXCEPT ![req[r].challenge].attempts = req[r].copy.attempts + 1,
                                      ![req[r].challenge].consumed = req[r].copy.consumed]
    /\ Answer(r)
    /\ UNCHANGED <<user, profiles, consented, sessions, delegation, guesses>>

PutConsumed(r) ==
    /\ At(r, "put_consumed")
    /\ challenge' = [challenge EXCEPT ![req[r].challenge].attempts = req[r].copy.attempts,
                                      ![req[r].challenge].consumed = TRUE]
    /\ Goto(r, [at |-> "find_user"])
    /\ UNCHANGED <<user, profiles, consented, sessions, delegation, guesses>>

FindUser(r) ==
    /\ At(r, "find_user")
    /\ \/ \E u \in Owners(req[r].on) : Goto(r, [at |-> "put_account_consent", user |-> u])
       \/ Owners(req[r].on) = {} /\ Goto(r, [at |-> "put_user"])
    /\ UNCHANGED accountVars

PutUser(r) ==
    /\ At(r, "put_user") /\ FreshUsers # {}
    /\ LET u == CHOOSE u \in FreshUsers : TRUE
       IN  /\ user' = [user EXCEPT ![u] = req[r].on]
           /\ Goto(r, [at |-> "put_profile", user |-> u])
    /\ UNCHANGED <<challenge, profiles, consented, sessions, delegation, guesses>>

PutProfile(r) ==
    /\ At(r, "put_profile")
    /\ profiles' = [profiles EXCEPT ![req[r].user] = @ + 1]
    /\ Goto(r, [at |-> "put_account_consent"])
    /\ UNCHANGED <<challenge, user, consented, sessions, delegation, guesses>>

PutAccountConsent(r) ==
    /\ At(r, "put_account_consent")
    /\ consented' = consented \cup {req[r].user}
    /\ Goto(r, [at |-> "put_session"])
    /\ UNCHANGED <<challenge, user, profiles, sessions, delegation, guesses>>

PutSession(r) ==
    /\ At(r, "put_session")
    /\ sessions' = sessions \cup
           {[user |-> req[r].user, challenge |-> req[r].challenge, id |-> Cardinality(sessions)]}
    /\ Answer(r)
    /\ UNCHANGED <<challenge, user, profiles, consented, delegation, guesses>>

\* getProfile: finds the profile or creates one.  updateProfile rewrites it.
GetProfile(r, u) ==
    /\ \E s \in sessions : s.user = u
    /\ profiles[u] = 0
    /\ Begin(r, user[u], [at |-> "put_missing_profile", user |-> u])
    /\ UNCHANGED accountVars

PutMissingProfile(r) ==
    /\ At(r, "put_missing_profile")
    /\ profiles' = [profiles EXCEPT ![req[r].user] = @ + 1]
    /\ Answer(r)
    /\ UNCHANGED <<challenge, user, consented, sessions, delegation, guesses>>

(* Delegations.                                                            *)

OpenTo(u, p) ==
    {d \in Delegations : /\ delegation[d].status \in {"invited", "active"}
                         /\ delegation[d].principal = u /\ delegation[d].phone = p}

Invite(r, u, p) ==
    /\ user[u] \notin {"none", p}
    /\ OpenTo(u, p) = {}
    /\ Begin(r, u, [at |-> "put_delegation_consent", phone |-> p])
    /\ UNCHANGED accountVars

PutDelegationConsent(r) ==
    /\ At(r, "put_delegation_consent")
    /\ \E d \in Delegations : delegation[d] = NoDelegation
    /\ LET d == CHOOSE d \in Delegations : delegation[d] = NoDelegation
       IN  /\ delegation' = [delegation EXCEPT ![d] = [status |-> "consented", principal |-> req[r].on]]
           /\ Goto(r, [at |-> "find_delegate", delegation |-> d])
    /\ UNCHANGED <<challenge, user, profiles, consented, sessions, guesses>>

FindDelegate(r) ==
    /\ At(r, "find_delegate")
    /\ \/ \E v \in Owners(req[r].phone) : Goto(r, [at |-> "put_delegation", delegate |-> v])
       \/ Owners(req[r].phone) = {} /\ Goto(r, [at |-> "put_delegation", delegate |-> "none"])
    /\ UNCHANGED accountVars

\* Active at once when the relative has an account; nothing activates it later.
PutDelegation(r) ==
    /\ At(r, "put_delegation")
    /\ delegation' = [delegation EXCEPT ![req[r].delegation] =
           [status    |-> IF req[r].delegate = "none" THEN "invited" ELSE "active",
            principal |-> req[r].on, phone |-> req[r].phone, delegate |-> req[r].delegate]]
    /\ Answer(r)
    /\ UNCHANGED <<challenge, user, profiles, consented, sessions, guesses>>

\* The status is the only field that is ever rewritten.
Revoke(r, d) ==
    /\ delegation[d].status \in {"invited", "active", "revoked"}
    /\ Single(r, delegation[d].principal)
    /\ delegation' = [delegation EXCEPT ![d].status = "revoked"]
    /\ UNCHANGED <<challenge, user, profiles, consented, sessions, guesses>>

\* SessionGuard: those in whose name a signed-in user may read.
ActsFor(u) ==
    {delegation[d].principal :
        d \in {e \in Delegations : delegation[e].status = "active" /\ delegation[e].delegate = u}}

AccountsCall(r) ==
    \/ \E p \in Phones : RequestOtp(r, p)
    \/ \E h \in Challenges, right \in BOOLEAN : VerifyOtp(r, h, right)
    \/ \E u \in Users : GetProfile(r, u)
    \/ \E u \in Users, p \in Phones : Invite(r, u, p)
    \/ \E d \in Delegations : Revoke(r, d)

AccountsStep(r) ==
    \/ PutChallenge(r)
    \/ PutAttempt(r) \/ PutConsumed(r) \/ FindUser(r) \/ PutUser(r) \/ PutProfile(r)
    \/ PutAccountConsent(r) \/ PutSession(r) \/ PutMissingProfile(r)
    \/ PutDelegationConsent(r) \/ FindDelegate(r) \/ PutDelegation(r)

AccountsNext ==
    \/ \E r \in Request : AccountsStep(r) \/ AccountsCall(r)
    \/ \E h \in Challenges : Age(h)

-------------------------------------------------------------------------------
(* Properties.                                                             *)

AccountsTypeOK ==
    /\ \A h \in Challenges : challenge[h] = NoChallenge \/
           challenge[h] \in [phone : Phones, age : {"live", "expired", "aged"},
                             attempts : 0..MaxAttempts, consumed : BOOLEAN]
    /\ user \in [Users -> Phones \cup {"none"}]
    /\ consented \subseteq Users

\* Signing in (verifyOtp).  Whatever overlaps, a session belongs to a user of the
\* phone the code was sent to, whose consent is on record, and a relative acts for
\* somebody else only as the owner of an invited phone.  For a phone whose requests
\* never overlapped, even if one died half-way: a code signs in once, no window
\* holds more than MaxChallenges codes, and there is one user with one profile; if
\* none died, a code is compared with at most MaxAttempts guesses.
SignInOnce ==
    /\ \A s \in sessions : user[s.user] = challenge[s.challenge].phone /\ s.user \in consented
    /\ \A u \in Users : \A w \in ActsFor(u) :
           user[w] # "none" /\ \E d \in OpenTo(w, user[u]) : delegation[d].delegate = u
    /\ \A p \in Phones \ contested :
           /\ \A h \in Issued(p) : /\ Cardinality({s \in sessions : s.challenge = h}) <= 1
                                   /\ p \notin faulted => guesses[h] <= MaxAttempts
           /\ Cardinality(InWindow(p)) <= MaxChallenges
           /\ Cardinality(Owners(p)) <= 1
           /\ \A u \in Owners(p) : profiles[u] <= 1
    /\ \A u \in Users \ contested : \A p \in Phones : Cardinality(OpenTo(u, p)) <= 1
===============================================================================

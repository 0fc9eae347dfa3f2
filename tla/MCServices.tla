------------------------------ MODULE MCServices ------------------------------
(***************************************************************************)
(* Small instances of Services: two requests in each other's way, one of   *)
(* which may die, on one or two records of each kind.                      *)
(***************************************************************************)
EXTENDS Services, TLC

CONSTANTS r1, r2, case1, m1, s1, c1, c2, partner, author, reviewer,
          job1, programme1, org1, g1, g2, risk1, slot1, slot2,
          complaint1, review1, outcome1, owner, staff, decider,
          phone1, phone2, otp1, otp2, user1, user2, d1, f1, f2,
          sub1, sub2, acc1, acc2, acc3, email1, journey1, journey2, offer1, blank,
          file1, file2, share1, share2, row1, row2

AllScenarios ==
    {"cases", "publication", "applications", "oversight", "accounts", "passport", "queue",
     "sign_in", "profile", "journeys", "wallet", "store"}
\* Enough for a hand-in, its review and a second hand-in, for a code used up, and
\* for an offer decided while the partner acts.
MCMaxCalls ==
    [cases |-> 3, publication |-> 5, applications |-> 3, oversight |-> 3, accounts |-> 4,
     passport |-> 2, queue |-> 0, sign_in |-> 3, profile |-> 4, journeys |-> 4, wallet |-> 5, store |-> 4]

MCOffers ==
    [published : BOOLEAN, status : {"accepting_applications", "closed"},
     country : {"unlisted", "open", "suspended"}, job : {"none", "valid", "expired"}]

\* At the start, before a route is chosen, and at both sides of the end of the path.
MCProgress == {0, 1, 16, 17}

ThreeRows == <<1, 2, 3>>

\* The first collection, which is counted, one between and the last.
MCReference == <<"country", "job", "course">>

\* Two subjects with one address.
MCEmailOf == [s \in ProviderSubjects |-> email1]

Symmetry == Permutations({r1, r2})
===============================================================================

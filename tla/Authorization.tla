----------------------------- MODULE Authorization -----------------------------
(***************************************************************************)
(* authorize of packages/auth: whether a subject may do an action to a     *)
(* resource.  The first clause that applies decides, and most end in a     *)
(* denial of whatever they do not allow.                                   *)
(*                                                                         *)
(* What a subject is to a resource is in the subject: its owner or not,    *)
(* the permissions of a delegation by the owner, and how the case, the     *)
(* organization and the country relate.                                    *)
(***************************************************************************)
EXTENDS Integers, Sequences

Actions == {"read", "read_sensitive", "write", "verify", "publish", "settle", "export", "delete"}
Types   == {"case", "document", "cost_plan", "payment", "complaint", "job"}

Resources == [action : Actions, type : Types, sensitive : BOOLEAN]

Organization == {"recruiter_staff", "institution_staff", "provider_staff"}
Roles == Organization \cup
    {"worker", "family_delegate", "assistant", "employer_staff", "gov_officer", "support_agent",
     "platform_admin"}

\* The permissions of the owner's delegation to the subject, or that there is none.
NoGrant == {"none"}

Subjects(RoleSets, Permissions) ==
    [roles : RoleSets, owner : BOOLEAN, delegation : {NoGrant} \cup Permissions,
     session : {"self", "break_glass", "break_glass_reasoned"},
     relation : {"none", "case", "case_consented", "organization", "organization_consented"},
     standing : {"no_mfa", "mfa", "mfa_elsewhere"}]

Deny             == [allowed |-> FALSE, audited |-> FALSE, reasoned |-> FALSE]
Allow(aud, reas) == [allowed |-> TRUE, audited |-> aud, reasoned |-> reas]

SensitiveActions == {"read_sensitive", "export"}

-------------------------------------------------------------------------------
HardDenial(s, a) ==
    \/ s.session = "break_glass"
    \/ "platform_admin" \in s.roles /\ a.sensitive /\ s.session # "break_glass_reasoned"
    \/ /\ "assistant" \in s.roles /\ "platform_admin" \notin s.roles
       /\ \/ a.action = "settle"
          \/ a.action = "write" /\ a.type = "payment"

AsOwner(a) ==
    IF a.action \in {"publish", "verify"} THEN Deny
    ELSE Allow(a.action \in SensitiveActions, FALSE)

AsDelegate(s, a) ==
    LET needed == IF a.type \in {"cost_plan", "payment"} THEN "view_cost" ELSE "view_progress"
    IN  IF /\ s.delegation # NoGrant /\ ~a.sensitive /\ a.action = "read"
           /\ a.type \in {"cost_plan", "payment", "case"} /\ needed \in s.delegation
        THEN Allow(TRUE, FALSE) ELSE Deny

AsAssistant(s, a) ==
    IF s.relation # "case_consented"                   THEN Deny
    ELSE IF a.sensitive /\ a.action = "read_sensitive" THEN Allow(TRUE, TRUE)
    ELSE IF a.action \in {"read", "write"}             THEN Allow(TRUE, FALSE)
    ELSE Deny

AsEmployer(s, a) ==
    IF s.relation = "organization"                THEN Allow(a.action \in SensitiveActions, FALSE)
    ELSE IF s.relation # "organization_consented" THEN Deny
    ELSE IF a.sensitive                           THEN (IF a.action = "read_sensitive"
                                                        THEN Allow(TRUE, TRUE) ELSE Deny)
    ELSE IF a.action = "read"                     THEN Allow(TRUE, FALSE)
    ELSE Deny

AsOrganization(s, a) ==
    IF \/ s.relation \notin {"organization", "organization_consented"}
       \/ "provider_staff" \in s.roles /\ a.type \notin {"case", "document"}
       \/ a.sensitive /\ a.action # "read_sensitive"
    THEN Deny
    ELSE Allow(a.sensitive \/ a.action \in SensitiveActions, a.sensitive)

AsGovernment(s, a) ==
    IF s.standing # "mfa" \/ a.action = "delete" THEN Deny ELSE Allow(TRUE, TRUE)

AsSupport(s, a) ==
    IF /\ s.relation \in {"case", "case_consented"}
       /\ \/ a.action = "read"
          \/ a.action = "write" /\ a.type = "complaint"
    THEN Allow(TRUE, FALSE) ELSE Deny

AsAdmin(s, a) ==
    IF s.standing = "no_mfa" \/ (a.action = "delete" /\ a.type = "complaint")
    THEN Deny ELSE Allow(TRUE, TRUE)

\* The clauses for people other than the owner, after those for relatives.
AsRole(s, a) ==
    IF "assistant" \in s.roles             THEN AsAssistant(s, a)
    ELSE IF "employer_staff" \in s.roles   THEN AsEmployer(s, a)
    ELSE IF s.roles \cap Organization # {} THEN AsOrganization(s, a)
    ELSE IF "gov_officer" \in s.roles      THEN AsGovernment(s, a)
    ELSE IF "support_agent" \in s.roles    THEN AsSupport(s, a)
    ELSE IF "platform_admin" \in s.roles   THEN AsAdmin(s, a)
    ELSE Deny

\* Mutant of Authorize: a delegation counts for those with the role of a relative.
AuthorizeByRole(s, a) ==
    IF HardDenial(s, a)                   THEN Deny
    ELSE IF s.owner                       THEN AsOwner(a)
    ELSE IF "family_delegate" \in s.roles THEN AsDelegate(s, a)
    ELSE AsRole(s, a)

Authorize(s, a) ==
    IF HardDenial(s, a)                                             THEN Deny
    ELSE IF s.owner                                                 THEN AsOwner(a)
    ELSE IF s.delegation # NoGrant \/ "family_delegate" \in s.roles THEN AsDelegate(s, a)
    ELSE AsRole(s, a)
===============================================================================

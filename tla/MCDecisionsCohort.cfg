SPECIFICATION Spec
CONSTANTS
    Half = 256
    Scale = 131072
    Ulps <- MCUlps
    Height <- MCHeight
    RuleBooks <- Nothing
    FactBags <- MCFactBags
    RoleSets <- Nothing
    Permissions <- MCPermissions
    FeeBooks <- Nothing
    RefundRules <- MCRefundRules
    Variants <- MCVariants
    Offers <- Nothing
    Papers <- Nothing
    MatchSets <- NoMatches
    Cohorts <- MCCohorts
    Queries <- MCQueries
    Visits <- Nothing
    Changes <- Nothing
    Deployments <- Nothing
    Bundles <- Nothing
    OlderProfiles <- Nothing
    Openings <- Nothing
    TypedAmounts <- MCTypedAmounts
    Crafted <- Nothing
    Reported <- Nothing
CHECK_DEADLOCK FALSE
INVARIANTS
    NoIndividualShown

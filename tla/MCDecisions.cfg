SPECIFICATION Spec
CONSTANTS
    Half = 256
    Scale = 131072
    Ulps <- MCUlps
    Height <- MCHeight
    RuleBooks <- MCRuleBooks
    FactBags <- MCFactBags
    RoleSets <- MCRoleSets
    Permissions <- MCPermissions
    FeeBooks <- MCFeeBooks
    RefundRules <- MCRefundRules
    Variants <- MCVariants
    Offers <- MCOffers
    Papers <- MCPapers
    MatchSets <- MCMatchSets
    Cohorts <- MCCohorts
    Queries <- MCQueries
    Visits <- MCVisits
    Changes <- MCChanges
    Deployments <- MCDeployments
    Bundles <- MCBundles
    OlderProfiles <- MCOlderProfiles
    Openings <- MCOpenings
    TypedAmounts <- MCTypedAmounts
    Crafted <- MCCrafted
    Reported <- MCReported
CHECK_DEADLOCK FALSE
INVARIANTS
    VerdictStands
    ProtectionsHold
    AlarmsStand
    MoneyAddsUp
    AnswersOnlyAdd
    ShownIsTrue

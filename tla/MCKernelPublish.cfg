\* Every failure, reload and pod move against every step of a republish.
SPECIFICATION FairSpec
CONSTANTS
    d1 = d1
    d2 = d2
    d3 = d3
    web = web
    db = db
    Digests = {d1, d2, d3}
    NoDigest = NoDigest
    Cgroups = {c1, c2}
    Idents = {web, db}
    NoPod = NoPod
    HasSelector <- MCHasSelector
    Selects <- MCSelects
    RuleCount <- MCRuleCount
    MAX_KERNEL_RULES = 2
    CGROUPS_MAX_ENTRIES = 1
INVARIANTS
    KernelIsSafe
PROPERTIES
    EventuallyConverges

\* Edits, failing calls, lost answers, restarts and relists against every await.
SPECIFICATION FairSpec
CONSTANTS
    here = here
    elsewhere = elsewhere
    Policies = {p1}
    Kind <- MCKind
    Good = {s1, s2}
    Bad = {bad}
    Waivers = {here, elsewhere}
    Targets <- MCTargets
    Preexisting = {here}
    None = None
    MaxGeneration = 2
    MaxWaiverEdits = 1
    MaxFaults = 1
    MaxRestarts = 1
INVARIANTS
    PublishedIsTrue
PROPERTIES
    OthersUntouched
    PolicyIsPublished
    RevokedIsWithdrawn
CHECK_DEADLOCK FALSE

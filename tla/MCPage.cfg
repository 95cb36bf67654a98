SPECIFICATION FairSpec
CONSTANTS
    Teams = {"aurora"}
    SetTypes = {"all"}
    Filters = {"none", "closed"}
    NoFilter = "none"
    MaxClicks = 2
    UserLoads = 2
    MaxRuns = 2
INVARIANTS
    TypeOK
    OneRefreshFollowed
    ReloadIsAfterRefresh
    ShownIsAsked
PROPERTIES
    PageComesBack

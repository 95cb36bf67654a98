SPECIFICATION Spec
CONSTANTS
    Order <- FourIssues
    Starts <- TheStarts
    BoardSprints <- LongBoard
    SprintPage = 2
    Periods = 3
    MaxResults = 2
    Delay = 1
    MinBackoff = 3
    Timeout = 6
    MaxChanges = 2
INVARIANTS
    SprintsAreFound

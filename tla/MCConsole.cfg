\* When nobody presses a button, nothing happens.
SPECIFICATION FairSpec
CHECK_DEADLOCK FALSE
CONSTANTS
    None = None
    p1 = p1
    Other = Other
    Pages <- MCPages
    Decisions <- MCDecisions
    MaxChanges = 4
    MaxInFlight = 2
    MaxPageActions = 1
INVARIANTS
    TypeOK
    DecisionsAsShown
PROPERTIES
    RefreshesAdvance
    ChangesShown

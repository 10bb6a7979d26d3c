\* The tables fill up, and then only calls that change nothing are left.
SPECIFICATION Spec
CHECK_DEADLOCK FALSE
CONSTANTS
    None = None
    i1 = i1
    i2 = i2
    e1 = e1
    e2 = e2
    e3 = e3
    e4 = e4
    Incidents <- MCIncidents
    Evidence <- MCEvidence
    Records <- MCRecords
    IssuedTasks <- MCIssuedTasks
    Plans <- MCPlans
    Answers <- MCAnswers
    Tools <- MCTools
    Candidates <- MCCandidates
    Contexts <- MCContexts
    MaxIssued = 1
    MaxTasks = 3
    MaxResults = 2
    MaxFacts = 2
INVARIANTS
    TypeOK
    CorrectionsKeepOrigin
    FindingsCleared
    ToolsSanctioned
    FailuresConcludeNothing
    FactsGrounded
PROPERTIES
    NeedsToKnow

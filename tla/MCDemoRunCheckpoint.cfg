CONSTANTS
    k1 = k1
    k2 = k2
    q1 = q1
    q2 = q2
    None = None
    Captures <- MCCaptures
    ReqIds <- MCReqIds
    Faults <- FaultsOfCheckpoint
    AutonomousEnabled = TRUE
    MaxApprovals = 3
SPECIFICATION Spec
INVARIANTS
    CommittedEffects
    ClosedJustified

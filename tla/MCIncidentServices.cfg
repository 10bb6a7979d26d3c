CONSTANTS
    r1 = r1
    r2 = r2
    plan = plan
    variant = variant
    stale = stale
    astray = astray
    None = None
    Requests <- MCRequests
    Contents <- MCContents
    Compliant <- MCCompliant
    OnTarget <- MCOnTarget
    AutonomousEnabled = TRUE
    MaxApprovals = 2
SPECIFICATION Spec
INVARIANTS
    TypeOK
    ExecutedAsAuthorised
    SingleRotation
    ContainmentAccountable
PROPERTIES
    RejectionHolds
    ClosureEvidence
    FollowsLifecycle

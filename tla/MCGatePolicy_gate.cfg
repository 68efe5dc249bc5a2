\* The default policy: one critical and two other checks.
SPECIFICATION Spec
CONSTANTS
    consent = consent  planName = planName  deadAir = deadAir
    Check = {consent, planName, deadAir}
    Critical = {consent}
    Weight <- MCWeight
    Finding <- MCFinding
    Reply <- MCReply
    None = None
    PassingScore = 8500
    ConfidenceThreshold = 80
    MinConfidence = 85
    ResolvedConfidence = 90
    AllowCriticalPass = FALSE
INVARIANTS
    TypeOK
    GateFollowsClean
    AdjudicatorBounded
    ScoreWithinFindings
    
CHECK_DEADLOCK FALSE

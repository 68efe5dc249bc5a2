\* Two reviewers of one decision.
SPECIFICATION Spec
CONSTANTS
    g1 = g1  g2 = g2  r1 = r1  r2 = r2  r3 = r3
    Gate = {g1}
    Reviewer = {r1, r2}
    None = None
    MaxRequests = 2
PROPERTIES
    GateTransitionsRespected
CHECK_DEADLOCK FALSE

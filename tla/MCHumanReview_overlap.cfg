\* Three reviewers of one decision, four requests.
SPECIFICATION Spec
CONSTANTS
    g1 = g1  g2 = g2  r1 = r1  r2 = r2  r3 = r3
    Gate = {g1}
    Reviewer = {r1, r2, r3}
    None = None
    MaxRequests = 4
SYMMETRY Symmetry
INVARIANTS
    ReviewInv
    EventOrderTellsStatus
    SequentialReviewsFollowTheTable
CHECK_DEADLOCK FALSE

\* Two recordings of the same audio share a transcription key, with reruns; or
\* the unfenced smoke job, faults that let two recoveries overlap
\* and lose a retry, and a clock that lets them use every retry.
SPECIFICATION Spec
CONSTANTS
    w1 = w1  w2 = w2  r1 = r1  r2 = r2  k1 = k1
    t1 = t1  t2 = t2  e1 = e1  e2 = e2  q1 = q1  q2 = q2  s1 = s1
    Worker = {w1, w2}
    WorkerId <- SameId
    Recording = {r1, r2}
    TKey = {k1}
    TKeyOf <- TwoRecTKey
    TJob = {t1, t2}
    RecOf <- TwoRecJobs
    EJob = {e1, e2}
    EJobOf <- TwoRecEval
    RJob = {q1, q2}
    RJobOf <- TwoRecRerun
    SJob = {s1}
    Called = {t1, e1, e2, q1, s1}
    Phantom = Phantom
    None = None
    LeaseDuration = 1
    MaxRetries = 2
    MaxTime = 7
    MaxFaults = 3
    MaxReruns = 1
SYMMETRY Symmetry
CONSTRAINT OneKind
INVARIANTS
    HandOffIsAtomic
    DecisionsHaveTranscripts
    RetryBudget
PROPERTIES
    ImplementsStages
CHECK_DEADLOCK FALSE

\* One fault, a lease that outlasts the work.
SPECIFICATION FairSpec
CONSTANTS
    w1 = w1  w2 = w2  r1 = r1  r2 = r2  k1 = k1
    t1 = t1  t2 = t2  e1 = e1  e2 = e2  q1 = q1  q2 = q2  s1 = s1
    Worker = {w1, w2}
    WorkerId <- SameId
    Recording = {r1}
    TKey = {k1}
    TKeyOf <- OneRecTKey
    TJob = {t1}
    RecOf <- OneJob
    EJob = {e1}
    EJobOf <- OneRecEval
    RJob = {q1}
    RJobOf <- OneRecRerun
    SJob = {}
    Called = {}
    Phantom = Phantom
    None = None
    LeaseDuration = 4
    MaxRetries = 3
    MaxTime = 1
    MaxFaults = 1
    MaxReruns = 0
PROPERTIES
    FailedJobIsRetried
CHECK_DEADLOCK FALSE

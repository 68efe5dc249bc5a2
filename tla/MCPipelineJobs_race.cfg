\* Two workers race for the rows and keys of one recording: redelivery, direct
\* calls, a fault, leases that run out or not.
SPECIFICATION FairSpec
CONSTANTS
    w1 = w1  w2 = w2  r1 = r1  r2 = r2  k1 = k1
    t1 = t1  t2 = t2  e1 = e1  e2 = e2  q1 = q1  q2 = q2  s1 = s1
    Worker = {w1, w2}
    WorkerId <- SameId
    Recording = {r1}
    TKey = {k1}
    TKeyOf <- OneRecTKey
    TJob = {t1, t2}
    RecOf <- OneRecJobs
    EJob = {e1}
    EJobOf <- OneRecEval
    RJob = {q1}
    RJobOf <- OneRecRerun
    SJob = {}
    Called = {t1, e1}
    Phantom = Phantom
    None = None
    LeaseDuration = 2
    MaxRetries = 3
    MaxTime = 3
    MaxFaults = 1
    MaxReruns = 0
INVARIANTS
    TypeOK
    EvaluationCommittedOnce
    LeaseNeverVisible
    MessagesNameRows
PROPERTIES
    ResultsAreFinal
    
    TranscriptionFinishes
CHECK_DEADLOCK FALSE

\* Three uploads: two of one call, two of the same audio; two faults.
SPECIFICATION FairSpec
CONSTANTS
    r1 = r1  r2 = r2  r3 = r3  d1 = d1  d2 = d2  h1 = h1  h2 = h2
    Request = {r1, r2, r3}
    Dialler = {d1, d2}
    Hash = {h1, h2}
    DiallerOf <- MCDiallerOf
    HashOf <- MCHashOf
    None = None
    MaxFaults = 2
INVARIANTS
    IngestionInv
    AnswersAgree
PROPERTIES
    
    UploadsReturn
    ImplementsCatalogue
CHECK_DEADLOCK FALSE

\* Every library of up to three versions, the two catalogues, and calls for the
\* checks that are followed.
SPECIFICATION Spec
CONSTANTS
    None = None
    Forever = 4
    Date = {0, 1, 2, 3}
    Sale <- MCSale
    FollowedSale <- MCFollowedSale
    MaxVersions = 3
    CallsOf <- MCCallsOf
    RecordsOf <- MCRecordsOf
    Amounts <- MCAmounts
    Numeral <- MCNumeral
    Lexicon <- MCLexicon
    Likeness <- MCLikeness
    DeadAirThreshold = 1000
    InterruptionMin = 1
    CoverageTolerance = 5000
INVARIANTS
    OneVersionInForce
    ChecksFitTheSale
    SpokenFormsUnderstood
    NoContradictionShips
    TakenBackIsNotConfirmed
    EvidenceTellsTheReason
    SpeechJudgedAsItHappened
CHECK_DEADLOCK FALSE

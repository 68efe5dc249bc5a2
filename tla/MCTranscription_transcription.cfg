\* Up to three utterances in a recording of four windows.
SPECIFICATION Spec
CONSTANTS
    DeadAirThreshold = 1
    InterruptionMin = 1
    CoverageTolerance = 1
    Duration = 4
    Tolerance = 1
    EmptyLimit = 3
    MaxOverlap = 1
    Interval <- MCInterval
    MaxUtterances = 3
    Turn <- MCTurn
    MaxTurns = 2
INVARIANTS
    MetricsMeasureSpeech
    
CHECK_DEADLOCK FALSE

SPECIFICATION FairSpec
CONSTANTS
    Email = {e1}
    Manual = {}
    Worker = {w1, w2}
    Operator = {}
    MaxAttempts = 2
    BatchSize = 1
    MaxCrashes = 2
    None = None
PROPERTIES EveryMessageSettles

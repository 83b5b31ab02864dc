SPECIFICATION Spec
CONSTANTS
    Email = {e1, e2}
    Manual = {}
    Worker = {w1, w2}
    Operator = {}
    MaxAttempts = 2
    BatchSize = 2
    MaxCrashes = 1
    None = None
SYMMETRY Symmetry
INVARIANTS QueuedCanBeClaimed

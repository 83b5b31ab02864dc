SPECIFICATION Spec
CONSTANTS
    Email = {e1}
    Manual = {}
    Worker = {w1, w2}
    Operator = {o1}
    MaxAttempts = 2
    BatchSize = 1
    MaxCrashes = 1
    None = None
SYMMETRY Symmetry
INVARIANTS TypeOK DeliveryMirrorsMessage

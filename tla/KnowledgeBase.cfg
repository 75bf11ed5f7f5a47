SPECIFICATION Spec
CONSTANTS
    Uploads = {u1, u2}
    Retries = {r1}
    Contents = {c1, c2}
    c1 = c1
    c2 = c2
    Children <- MCChildren
    Legacy = {u1}
    Parsable = {c1, c2}
    k1 = k1
    k2 = k2
    Configs = {k1, k2}
    Builds = {b1, b2}
    IndexRetries = {x1}
    BatchSize = 1
    Faults = {"storage", "vectors", "stop"}
    None = None
    MaxOpen = 2
    MaxRetries = 1
    MaxStops = 1
SYMMETRY Symmetry
INVARIANTS
    TypeOK
    
    OneActiveIndex
    ActiveIsComplete
    ProcessingHasWorker

    
CHECK_DEADLOCK FALSE

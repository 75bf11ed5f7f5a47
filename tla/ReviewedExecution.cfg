SPECIFICATION Spec
CONSTANTS
    e1 = e1
    t1 = t1
    t2 = t2
    r1 = r1
    r2 = r2
    None = None
    Executions = {e1}
    Turns = {t1, t2}
    Resumes = {r1, r2}
    ExecutionOf <- MCExecutionOf
    Faults = {"invoke", "view", "mysql", "cancel", "crash", "expiry", "question"}
SYMMETRY Symmetry
INVARIANTS
    TypeOK
    ClaimIsExclusive
    OneOutcome
    VerdictWasGiven
    ReportedPauseHasReview
PROPERTIES
    VerdictIsFinal
    ImplementsDecision
CHECK_DEADLOCK FALSE

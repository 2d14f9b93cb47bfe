\* A retry of one connector's sync is due when another connector is synced.
SPECIFICATION Spec
CONSTANTS
    None = None
    Connector = {c1, c2}
    Request = {q1}
    MaxAttempts = 2
    MaxTasks = 3
SYMMETRY Symmetric
INVARIANT AdvanceIsEarned
CHECK_DEADLOCK FALSE

\* One dispatcher at a time, two users, crashes and lock timeouts.
SPECIFICATION DispatcherSpec
CONSTANTS
    Task = {t1}
    Worker = {w1}
    User = {u1, u2}
    Limit = {1, 2}
    MaxVersion = 4
    t1 = t1
    w1 = w1
    u1 = u1
    u2 = u2
CHECK_DEADLOCK FALSE
INVARIANT AttemptInProgressIsOpen
PROPERTY ProcessingEnds

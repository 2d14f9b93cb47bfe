\* A cancel request that read the row before it was claimed and completed.
SPECIFICATION Spec
CONSTANTS
    Task = {t1}
    Worker = {w1}
    User = {u1}
    Limit = {1}
    MaxVersion = 3
    t1 = t1
    w1 = w1
    u1 = u1
PROPERTY CancelSparesCompleted

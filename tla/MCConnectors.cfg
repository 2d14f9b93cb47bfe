\* Three syncs, two at a time or one after the other, of a file that comes, changes and goes;
\* two requests race for the tasks of one connector, failures and retries included.
SPECIFICATION ConnectorsSpec
CONSTANTS
    None = None
    Connector = {c1}
    Request = {x1, x2}
    MaxAttempts = 2
    MaxTasks = 3
    File = {f1}
    Content = {x1, x2}
    Run = {r1, r2, r3}
SYMMETRY ConnectorsSymmetry
INVARIANTS
    TableIsExact
    DispatchHolds
PROPERTIES
    NoPresentFileIsDeleted
    FinishedRunIsFinal
CHECK_DEADLOCK FALSE

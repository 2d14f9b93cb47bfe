\* Two workers and two users around one task, crashes and lock timeouts included; two
\* callers of one plugin with two versions, concurrently or one at a time.
SPECIFICATION BackgroundSpec
CONSTANTS
    Task = {t1}
    Worker = {w1, w2}
    User = {u1, u2}
    Limit = {1, 2}
    MaxVersion = 3
    Caller = {w1, w2}
    Version = {1, 2}
    Manifest = {good, bad, foreign}
    Clean = {good, foreign}
    Installable = {good, bad}
    Build <- Builds
    good = good
    bad = bad
    foreign = foreign
    PluginRequest = {q1}
    PluginInput = {i1}
    MaxPlans = 1
    Absent = Absent
SYMMETRY BackgroundSymmetry
INVARIANTS
    OutcomesHold
    PluginRunsVerified
    OneAnswer
    AloneUpdatesAreVerified
PROPERTIES
    CancelledIsLeftAlone

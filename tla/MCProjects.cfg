\* Two threads ask for two rescans of a tree that is edited, and repeat them; two projects with their evidence; one task;
\* one context manifest asked for under two keys.
SPECIFICATION Spec
CONSTANTS
    Scanner = {s1, s2}
    Path <- Paths
    Secret = {9}
    Scope = {1, 2}
    Allowed <- TwoAllowed
    Denied <- TwoDenied
    Node = {0, 1, 2, 3, 4, 5}
    Outside = 0
    MaxEdits = 2
    Command = {r1, r2}
    MaxTime = 3
    Project = {p1, p2}
    Evidence = {e1, e2}
    State = {st1}
    Task = {t1}
    Gap = {g1}
    Capability = {c1, c2}
    GapCapability <- OneCapability
    User = {user}
    Agent = {agent}
    MaxRevision = 2
    Manifest = {m1}
    Key = {k1, k2}
    Candidate <- SomeCandidates
    Request <- SomeRequests
    MaxRecords = 4
    None = None
SYMMETRY Symmetry
INVARIANTS
    ScansAreFaithful
    LevelsAreEarned
    ContextsAreRecorded
CHECK_DEADLOCK FALSE

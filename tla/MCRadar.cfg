\* Two opportunities compete for one job; two collects and the user share a source;
\* two collects stage postings that two users admit; a backup is taken and restored.
SPECIFICATION RadarSpec
CONSTANTS
    None = None
    Opportunity = {o1, o2}
    Job = {j1}
    Proposal = {p1}
    Level = {l1, l2}
    Key = {k1, k2, k3}
    Client = {c1, c2}
    Ahead = 0
    Collector = {c1, c2}
    User = {u1}
    Threshold = {2, 3}
    Retries = 1
    MaxFailures = 6
    Admitter = {e1, e2}
    Inputs = {i1}
    Run = {r1, r2}
    MaxTime = 1
    MaxBatch = 2
    here = here
    there = there
    one = one
    other = other
    Artifact = {a1, a2}
    Writer = {c1, c2}
SYMMETRY RadarSymmetry
INVARIANTS
    HistoryReadsTrue
    AdmissionIsReplayed
    StagingIsSound
    AdmissionIsWhole
    CopiesAreWhole
PROPERTIES
    BreakerIsExact
CHECK_DEADLOCK FALSE

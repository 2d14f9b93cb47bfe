\* Two reviewers of one page and two memories, concurrently or one at a time.
SPECIFICATION Spec
CONSTANTS
    Reviewer = {r1, r2}
    Document = {d1}
    Proposal = {p1, p2}
    Operation = {o1}
    MaxRevision = 3
    MemoryUser = {u1, u2}
    Memory = {m1, m2}
    Draft = {e1, e2}
    MaxMemoryRevision = 3
    None = None
SYMMETRY Symmetry
INVARIANTS
    PagesKeepApprovals
    MemoriesHold
    AloneDecidedOnce
CHECK_DEADLOCK FALSE

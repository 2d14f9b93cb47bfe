\* Two wiki pages, one reviewer.
SPECIFICATION Spec
CONSTANTS
    Reviewer = {r1}
    Document = {d1, d2}
    Proposal = {p1}
    Operation = {o1, o2}
    MaxRevision = 3
    MemoryUser = {u1, u2}
    Memory = {m1, m2}
    Draft = {e1, e2}
    MaxMemoryRevision = 3
    None = None
SYMMETRY Symmetry
INVARIANTS NoPageUnderItself
CHECK_DEADLOCK FALSE

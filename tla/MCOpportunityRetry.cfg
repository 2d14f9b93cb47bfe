\* One client repeats a priority request whose answer it lost.
SPECIFICATION Spec
CONSTANTS
    None = None
    Opportunity = {o1}
    Job = {j1}
    Proposal = {}
    Level = {l1, l2}
    Key = {k1, k2, k3}
    Client = {c1}
    Ahead = 0
INVARIANT RequestIsReplayed

SPECIFICATION Spec
CONSTANTS
    Grants = {g1, g2}
    Users = {v1, v2}
    Polls = {p1, p2}
    Approvals = {a1, a2}
    None = None
SYMMETRY Symmetry
INVARIANTS SingleToken TokenOfApprover
CHECK_DEADLOCK FALSE

SPECIFICATION Spec
CONSTANTS
    Users = {"u1", "u2"}
    Handlers = {h1, h2}
    None = None
    Asked <- MCAsked
SYMMETRY Symmetry
INVARIANTS MembershipIsPermission CallerWasManager

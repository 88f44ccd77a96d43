SPECIFICATION Spec
CONSTANTS
    Users = {"u1", "u2", "u3"}
    Handlers = {h1}
    None = None
    Asked <- MCAsked
SYMMETRY Symmetry
PROPERTY LastAdminStays

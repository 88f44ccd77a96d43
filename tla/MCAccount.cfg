SPECIFICATION Spec
CONSTANTS
    Passwords = {p1, p2}
    Sessions = {s1, s2}
    Resets = {r1, r2}
    Links = {l1}
    Handlers = {h1, h2}
    MaxAttempts = 3
    MaxFaults = 1
    None = None
SYMMETRY Symmetry
INVARIANTS OldSessionsEnd GuessesBounded

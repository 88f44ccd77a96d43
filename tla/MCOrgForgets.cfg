SPECIFICATION FairSpec
CONSTANTS
    Users = {"u1"}
    Handlers = {h1, h2}
    None = None
    Asked <- MCAsked
PROPERTY RemovalTakesEffect

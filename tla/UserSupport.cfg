SPECIFICATION Spec
CONSTANTS
    Handlers = {h1, h2}
    Users = {u1, u2}
    Closing = {"RESOLVED"}
    PoolSize = 2
    MaxTickets = 1
    MaxMessages = 2
    None = None
INVARIANTS TypeOK ImagesWhole
PROPERTIES ShutIsShut Answered

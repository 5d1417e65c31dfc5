SPECIFICATION Spec
CONSTANTS
    Handlers = {h1, h2}
    Emails = {demo}
    Demo = demo
    MaxUsers = 2
    MaxSessions = 2
    MaxPictures = 2
    Apart <- Unrelated
    Failures = TRUE
    None = None
    Gone = Gone
SYMMETRY SymmetrySet
CHECK_DEADLOCK FALSE
INVARIANT TypeOK RefusedGetNothing PicturesInStep
PROPERTY GoneIsGone LostOnlyIfHeld

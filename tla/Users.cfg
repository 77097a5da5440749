CONSTANTS
    Users = {"root", "dba"}
    Roles = {"viewer", "admin"}
    Passwords = {"p1", "p2"}
    Handlers = {h1, h2}
    TokenLife = 1
    CaptchaLife = 1
    FirstAdmin = "root"
    FirstPassword = "p1"
    MaxClock = 1
    MaxIssued = 2

SYMMETRY HandlersSymmetry
SPECIFICATION Spec
INVARIANTS
    TypeOK
    AccessFollowsLogin
PROPERTIES
    AdminLostOnlyIf
    DisableSurvives
CHECK_DEADLOCK FALSE

SPECIFICATION Spec
CONSTANTS
    None = None
    Worker = {w1, w2}
    Admin = {root, other}
    Seeded = root
    Password = {p1, p2}
SYMMETRY Symmetry
INVARIANTS
    LateAdminRefused
    PasswordFirst
PROPERTIES
    LockoutIsFinal

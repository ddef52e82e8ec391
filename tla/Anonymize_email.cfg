CONSTANTS
    Logins = {l1, l2}
    Aliases = {p, q}
    Names = {ann, bob}
    Emails = {mail}
    MaxUsers = 3
    None = None
SYMMETRY Symmetry
SPECIFICATION Spec
INVARIANTS
    DuplicatesAreReported
CHECK_DEADLOCK FALSE

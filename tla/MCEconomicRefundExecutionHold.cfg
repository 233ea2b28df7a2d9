SPECIFICATION Spec
CONSTANTS
    admin1 = admin1
    admin2 = admin2
    hook = hook
    re1 = re1
    other = other
    none = none
    None = none
    Hooks = {hook}
    Foreign = {other}
    Admins = {admin1}
    Own = {re1}
    MaxAbandons = 0
INVARIANTS
    OnlyUnplannedHeld

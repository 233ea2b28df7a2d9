SPECIFICATION FairSpec
CONSTANTS
    admin1 = admin1
    admin2 = admin2
    hook = hook
    re1 = re1
    other = other
    none = none
    None = none
    Hooks = {hook}
    Foreign = {other}
    Admins = {admin1, admin2}
    Own = {re1}
    MaxAbandons = 1
INVARIANTS
    TypeOK
    PostedOnce
    BookedIsMoved
    HintsNeverBind
PROPERTIES
    NoReturn
    RequestPromise
    EventuallyBooked
    EventuallyHeld

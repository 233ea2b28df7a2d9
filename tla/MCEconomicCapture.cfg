SPECIFICATION FairSpec
CONSTANTS
    tab1 = tab1
    tab2 = tab2
    hook1 = hook1
    hook2 = hook2
    pay1 = pay1
    pay2 = pay2
    none = none
    None = none
    Requests = {tab1, tab2}
    Hooks = {hook1, hook2}
    PaymentIds = {pay1, pay2}
INVARIANTS
    ChargeIsBookable
PROPERTIES
    EventuallyBooked
    RequestPromise

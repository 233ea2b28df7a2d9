SPECIFICATION FairSpec
CONSTANTS
    api1 = api1
    api2 = api2
    worker1 = worker1
    worker2 = worker2
    shop1 = shop1
    shop2 = shop2
    pod1 = pod1
    pod2 = pod2
    none = none
    None = none
    Processes = {api1}
    Workers = {worker1, worker2}
    Shops = {shop1}
    Digital = FALSE
    Connections = {pod1}
    Edits = {"CONFIRMED", "DISPUTED"}
    MaxAttempts = 2
    MaxPushes = 1
    MaxChanges = 1
INVARIANTS
    CreditedOnce
PROPERTIES
    PaidIsCredited
CHECK_DEADLOCK FALSE

SPECIFICATION Spec
CONSTANTS
    o1 = o1
    o2 = o2
    plate = plate
    admin1 = admin1
    admin2 = admin2
    pod1 = pod1
    pod2 = pod2
    none = none
    missing = missing
    None = none
    Missing = missing
    Orders = {o1, o2}
    Pools = {plate}
    Variants = {plate}
    Demand <- Wanted
    FirstStock <- Supply
    MaxQuantity = 1
    MaxEdits = 1
    Automatic = {o1}
    Callers = {admin1, admin2}
    Own = {pod1, pod2}
    Foreign = {}
SYMMETRY Alike
CHECK_DEADLOCK FALSE
INVARIANTS
    StockConserved
    PrintsOnlyOwned
    RefundedOrPrinted
PROPERTIES
    RequestPromise

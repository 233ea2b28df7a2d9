SPECIFICATION Spec
CONSTANTS
    Checkouts <- SomeCheckouts
CHECK_DEADLOCK FALSE
INVARIANTS
    RefundsTelescope
    BooksMatchLots
    SelectableIsAccepted

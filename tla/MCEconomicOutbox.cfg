SPECIFICATION Spec
CONSTANTS
    w1 = w1
    w2 = w2
    capture = capture
    refund1 = refund1
    CaptureEvent = capture
    CapturedAmount = 2
    Workers = {w1, w2}
    RefundEvents = {refund1}
    RefundAmount <- OneRefund
    MaxAttempts = 2
    MaxAbandons = 2
SYMMETRY WorkersAlike
INVARIANTS
    TypeOK
    EffectOnce
    RecoveryTruthful
    LeaseExclusive
    NoStrandedRow
    RefundClosesOrder
PROPERTIES
    NeverReopened
    LifecyclePromise

SPECIFICATION FairSpec
CONSTANTS
    w1 = w1
    w2 = w2
    capture = capture
    refund1 = refund1
    CaptureEvent = capture
    CapturedAmount = 2
    Workers = {w1, w2}
    RefundEvents = {}
    RefundAmount <- NoRefunds
    MaxAttempts = 2
    MaxAbandons = 1
PROPERTIES
    EventuallyDecided
    EventuallyNotified

SPECIFICATION Spec
CONSTANTS
    seller = seller
    affiliate = affiliate
    cap1 = cap1
    cap2 = cap2
    pay1 = pay1
    pay2 = pay2
    pay3 = pay3
    tr1 = tr1
    tr2 = tr2
    Accounts = {seller, affiliate}
    AffiliateAccounts = {affiliate}
    Captures = {cap1}
    Lots = {1, 2}
    LotAccount <- SharedLotAccount
    LotCapture <- SharedLotCapture
    LotAmount <- SharedLotAmount
    MinimumPayout <- SharedMinimum
    Payouts = {pay1, pay2, pay3}
    PayoutOwner <- SharedPayoutOwner
    References = {tr1, tr2}
    TransferFor <- MCTransferFor
    NoReference = NoReference
    Amounts = {1, 2}
INVARIANTS
    PayoutAllocated
    RefundSettleable
    IInv
CHECK_DEADLOCK FALSE

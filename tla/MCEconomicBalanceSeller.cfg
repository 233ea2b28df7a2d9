SPECIFICATION Spec
CONSTANTS
    seller = seller
    affiliate = affiliate
    cap1 = cap1
    cap2 = cap2
    pay1 = pay1
    pay2 = pay2
    pay3 = pay3
    tr1 = tr1
    tr2 = tr2
    Accounts = {seller}
    AffiliateAccounts = {}
    Captures = {cap1, cap2}
    Lots = {1, 2}
    LotAccount <- SellerLotAccount
    LotCapture <- SellerLotCapture
    LotAmount <- SellerLotAmount
    MinimumPayout <- SellerMinimum
    Payouts = {pay1, pay2}
    PayoutOwner <- SellerPayoutOwner
    References = {tr1, tr2}
    TransferFor <- MCTransferFor
    NoReference = NoReference
    Amounts = {1, 2}
INVARIANTS
    TypeOK
    LotBounds
    ReservationsBacked
    DebtConserved
PROPERTIES
    DebtBeforePayout
    ReferenceFinal
    AccountPromise
CHECK_DEADLOCK FALSE

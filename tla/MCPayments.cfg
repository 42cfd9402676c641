CONSTANTS
    alice = alice
    ledger = ledger
    dear = dear
    twice = twice
    free2 = free2
    NoVoucher = NoVoucher
    NoPayment = NoPayment
    Account = {alice}
    Ledger = {ledger}
    Payer <- MCPayer
    Request = {dear, twice, free2}
    Through <- MCThrough
    Client <- MCClient
    Selections <- MCSelections
    PaymentAmount = 2
    FreeLimit = 1
    ActiveLimit = 2
    Losses = {"voucher", "account", "channel", "restart"}
    MaxLosses = 1
SPECIFICATION FairSpec
INVARIANTS PaidInFull SpentOnce NoLostWakeup
PROPERTY VouchersAreCredited
CHECK_DEADLOCK FALSE

SPECIFICATION Spec
CONSTANTS
    r1 = r1
    r2 = r2
    u1 = u1
    u2 = u2
    AccountInvoice = 0
    Registrars <- MCOneRegistrar
    Uuids <- MCUuids
    PaymentPrices = {7}
    Vat = 21
    PriceList <- MCPrices
    TaxDateLimit = 1
    YearLength = 2
    MaxDay = 2
    MaxOperations = 2
    MaxCustomRuns = 1
    MaxPrice = 3
    MaxBalance = 3
    MaxInputOps = 3
    MaxInputAdvances = 3
INVARIANTS
    BooksAddUp
    PaymentCreditedOnce
    FeeOncePerPeriod
    PrepaidWorkLeavesNoDebt
    LoopsComputeWaterfall
SYMMETRY UuidSymmetry
CHECK_DEADLOCK FALSE

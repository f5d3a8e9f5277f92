SPECIFICATION ImportSpec
CONSTANTS
    t1 = t1
    t2 = t2
    t3 = t3
    u1 = u1
    u2 = u2
    Importers <- MCTwoImporters
    BankPayments <- MCUuids
    NoUuid = NoUuid
    PriceOf <- MCPrice
    Debts <- MCDebts
    MaxCharges = 1
INVARIANT
    ProcessedOnce
CHECK_DEADLOCK FALSE

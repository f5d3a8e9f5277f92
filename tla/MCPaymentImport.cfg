SPECIFICATION FairSpec
CONSTANTS
    t1 = t1
    t2 = t2
    t3 = t3
    u1 = u1
    u2 = u2
    Importers <- MCThreeImporters
    BankPayments <- MCUuids
    NoUuid = NoUuid
    PriceOf <- MCPrice
    Debts <- MCDebts
    MaxCharges = 1
INVARIANTS
    CommittedBooksSound
    CreditedAtMostPrice
PROPERTIES
    EveryImportEnds

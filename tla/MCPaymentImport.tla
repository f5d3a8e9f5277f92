--------------------------- MODULE MCPaymentImport ---------------------------
EXTENDS PaymentImport, TLC

CONSTANTS t1, t2, t3, u1, u2

MCTwoImporters == {t1, t2}
MCThreeImporters == {t1, t2, t3}
MCUuids == {u1, u2}
MCPrice == u1 :> 2 @@ u2 :> 3
MCDebts == <<2, 1>>
=============================================================================

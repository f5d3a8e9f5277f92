----------------------------- MODULE MCAccounting -----------------------------
EXTENDS Accounting, TLC

CONSTANTS r1, r2, u1, u2

MCOneRegistrar == {r1}
MCUuids == {u1, u2}

(* A free and a prepaid operation, two postpaid fees.                      *)
MCPrices ==
    [CreateDomain |-> [price |-> 0, postpaid |-> FALSE],
     RenewDomain |-> [price |-> 2, postpaid |-> FALSE],
     MonthlyFee |-> [price |-> 3, postpaid |-> TRUE],
     GeneralEppOperation |-> [price |-> 1, postpaid |-> TRUE]]

UuidSymmetry == Permutations(MCUuids)
=============================================================================

---------------------------- MODULE AdvanceInvoices ----------------------------
(***************************************************************************)
(* How an account invoice is paid from advance (deposit) invoices: the two *)
(* nested loops of create_account_invoice in                               *)
(* src/src/deprecated/libfred/invoicing/invoice.cc.                        *)
(*                                                                         *)
(* For every operation, oldest first, its price is pulled off the advance  *)
(* invoices, oldest first; what no advance covers is left for the account  *)
(* invoice itself.  Every amount pulled is one row of the table            *)
(* invoice_operation_charge_map.  Money is a number of cents.              *)
(***************************************************************************)
EXTENDS Naturals, Sequences, SequencesExt, FiniteSetsExt

CONSTANT AccountInvoice   \* stands for the new account invoice in a row

(* Advances are numbered from 1; the account invoice is none of them.      *)
ASSUME AdvanceAssumption == AccountInvoice \notin Nat \ {0}

Smaller(a, b) == IF a <= b THEN a ELSE b

(* What the loops keep: adi_list (balance and credit_change of every       *)
(* advance), the rows written so far, price_left, and for the operation at *)
(* hand price_to_pull_off and whether the inner loop has hit its break.    *)
Start(balances) ==
    [balance |-> balances,
     credit_change |-> [i \in DOMAIN balances |-> 0],
     rows |-> << >>,
     price_left |-> 0,
     price_to_pull_off |-> 0,
     broke |-> FALSE]

Row(op, inv, amount) == [operation |-> op, invoice |-> inv, price |-> amount]

(* One turn of the inner loop.  An exhausted advance is passed over; the   *)
(* loop breaks once the price is pulled off, also when it was 0.           *)
PullFrom(op, s, i) ==
    LET partial_charge == Smaller(s.price_to_pull_off, s.balance[i])
    IN  IF s.broke \/ s.balance[i] = 0 THEN s
        ELSE [s EXCEPT !.balance[i] = @ - partial_charge,
                       !.credit_change[i] = @ + partial_charge,
                       !.price_to_pull_off = @ - partial_charge,
                       !.rows = Append(@, Row(op, i, partial_charge)),
                       !.broke = partial_charge = s.price_to_pull_off]

(* The outer loop's body: operation op of the given price.                 *)
MutChargeOperation(prices, s, op) ==
    LET t == FoldLeft(LAMBDA u, i : PullFrom(op, u, i),
                      [s EXCEPT !.price_to_pull_off = prices[op], !.broke = FALSE],
                      [i \in DOMAIN s.balance |-> i])
    IN  [t EXCEPT !.price_left = t.price_to_pull_off,
                  !.rows = IF t.price_to_pull_off > 0
                           THEN Append(@, Row(op, AccountInvoice, t.price_to_pull_off))
                           ELSE @]

ChargeOperation(prices, s, op) ==
    LET t == FoldLeft(LAMBDA u, i : PullFrom(op, u, i),
                      [s EXCEPT !.price_to_pull_off = prices[op], !.broke = FALSE],
                      [i \in DOMAIN s.balance |-> i])
    IN  [t EXCEPT !.price_left = @ + t.price_to_pull_off,
                  !.rows = IF t.price_to_pull_off > 0
                           THEN Append(@, Row(op, AccountInvoice, t.price_to_pull_off))
                           ELSE @]

(* Both loops: the operations' prices and the advances' balances, each in  *)
(* the order of the queries that read them.                                *)
PullOff(prices, balances) ==
    FoldLeft(LAMBDA s, op : ChargeOperation(prices, s, op),
             Start(balances), [op \in DOMAIN prices |-> op])

-----------------------------------------------------------------------------
SumSeq(s) == FoldLeft(LAMBDA a, b : a + b, 0, s)
SumOn(s, S) == SumSeq([i \in DOMAIN s |-> IF i \in S THEN s[i] ELSE 0])
SumUpTo(s, n) == SumSeq(SubSeq(s, 1, n))

Monus(a, b) == IF a > b THEN a - b ELSE 0

(* The specification of the loops, without loops: the sum of the prices    *)
(* runs down the advances like water down a staircase.                     *)
IsWaterfall(prices, balances, s) ==
    LET total == SumSeq(prices)
    IN  /\ \A i \in DOMAIN balances :
               /\ s.credit_change[i] = Smaller(balances[i], Monus(total, SumUpTo(balances, i - 1)))
               /\ s.balance[i] = balances[i] - s.credit_change[i]
        /\ s.price_left = Monus(total, SumSeq(balances))

RowPrices(s) == [k \in DOMAIN s.rows |-> s.rows[k].price]

(* invoice_operation_charge_map adds up in both directions: every          *)
(* operation is covered to its price, every advance and the account        *)
(* invoice are charged what their balances say.                            *)
RowsAddUp(prices, balances, s) ==
    LET ofOperation(op) == {k \in DOMAIN s.rows : s.rows[k].operation = op}
        ofInvoice(inv) == {k \in DOMAIN s.rows : s.rows[k].invoice = inv}
    IN  /\ \A op \in DOMAIN prices : SumOn(RowPrices(s), ofOperation(op)) = prices[op]
        /\ \A i \in DOMAIN balances : SumOn(RowPrices(s), ofInvoice(i)) = s.credit_change[i]
        /\ SumOn(RowPrices(s), ofInvoice(AccountInvoice)) = s.price_left

(* The loops compute the waterfall: which advances pay, how much each      *)
(* pays, what the account invoice is left with; and the rows account for   *)
(* every cent of every operation and of every advance.                     *)
PaidByWaterfall(prices, balances) ==
    LET result == PullOff(prices, balances)
    IN  IsWaterfall(prices, balances, result) /\ RowsAddUp(prices, balances, result)
=============================================================================

----------------------------- MODULE PaymentImport -----------------------------
(***************************************************************************)
(* Concurrent imports of bank payments of one registrar and zone:          *)
(* importPayment, processPayment and pay_invoice of                        *)
(* src/src/deprecated/libfred/banking/bank_manager.cc, statement by        *)
(* statement, as fred-accifd's CORBA threads run them.                     *)
(*                                                                         *)
(* The database is PostgreSQL at READ COMMITTED: a plain SELECT sees what  *)
(* is committed and locks nothing; UPDATE and SELECT FOR UPDATE wait for   *)
(* the row and keep it until the transaction ends.  Rows at stake: the     *)
(* account invoices, the registrar_credit row (updated by the trigger of   *)
(* registrar_credit_transaction) and the invoice_prefix row of deposits.   *)
(*                                                                         *)
(* VAT and rounding are left to module Accounting: amounts are without VAT.*)
(***************************************************************************)
EXTENDS Integers, Sequences, SequencesExt

CONSTANTS
    Importers,     \* threads that call importPayment
    BankPayments,  \* bank payments, by uuid
    NoUuid,        \* the payment of an importer that is idle
    PriceOf,       \* uuid -> price of the payment
    Debts,         \* the balances of the account invoices at the start
    MaxCharges     \* bound on the EPP charges in between

ASSUME ImportAssumption ==
    /\ NoUuid \notin BankPayments
    /\ PriceOf \in [BankPayments -> Nat \ {0}]
    /\ Debts \in Seq(Nat)
    /\ MaxCharges \in Nat

VARIABLES
    balance,   \* account invoice -> balance, committed
    credit,    \* registrar_credit, committed
    number,    \* invoice_prefix: the next deposit invoice number, committed
    deposits,  \* the committed deposit invoices
    payments,  \* committed imports: [uuid, credited], one per transaction
    charged,   \* the sum of the prices of charged, unaccounted operations
    tx         \* the transaction of each importer

vars == <<balance, credit, number, deposits, payments, charged, tx>>

AccountInvoices == DOMAIN Debts

Sum(s) == FoldLeft(LAMBDA a, b : a + b, 0, s)

(* todo are the debts that were read and not looked at yet; change is the  *)
(* amount pay_invoice is about to add to the credit; paid the balance      *)
(* changes of account invoices; deposit the deposit invoice.               *)
IdleTx == [pc |-> "idle", uuid |-> NoUuid, todo |-> {}, rest |-> 0, change |-> 0,
           paid |-> << >>, credited |-> 0, locksCredit |-> FALSE, deposit |-> << >>]

ImportInit ==
    /\ balance = Debts
    /\ credit = -Sum(Debts)
    /\ number = 1
    /\ deposits = << >>
    /\ payments = << >>
    /\ charged = 0
    /\ tx = [t \in Importers |-> IdleTx]

-----------------------------------------------------------------------------
(* The rows a transaction has written and keeps locked.                    *)
LocksInvoice(t, i) == \E k \in DOMAIN tx[t].paid : tx[t].paid[k].invoice = i
LocksCredit(t) == tx[t].locksCredit
LocksNumber(t) == tx[t].deposit # << >>

(* The debts are paid in the order of their ids.                           *)
NextDebt(t) ==
    CHOOSE uai \in tx[t].todo : \A other \in tx[t].todo : uai.invoice <= other.invoice

(* The statement t is at waits for a row another transaction holds.        *)
WaitsFor(t, u) ==
    /\ t # u
    /\ \/ tx[t].pc = "paying" /\ tx[t].todo # {} /\ tx[t].rest > 0
            /\ LocksInvoice(u, NextDebt(t).invoice)
       \/ tx[t].pc = "crediting" /\ LocksCredit(u)
       \/ tx[t].pc = "deposit" /\ LocksNumber(u)

Waits(t) == \E u \in Importers : WaitsFor(t, u)

Tables == <<balance, credit, number, deposits, payments, charged>>

-----------------------------------------------------------------------------
Processed(uuid) == \E k \in DOMAIN payments : payments[k].uuid = uuid

(* The check for PaymentAlreadyProcessed.                                  *)
StartImport(t, uuid) ==
    /\ tx[t].pc = "idle"
    /\ ~Processed(uuid)
    /\ tx' = [tx EXCEPT ![t].pc = "checked", ![t].uuid = uuid, ![t].rest = PriceOf[uuid]]
    /\ UNCHANGED Tables

(* The payment was processed before: nothing happens.                      *)
AlreadyProcessed(t, uuid) ==
    /\ tx[t].pc = "idle"
    /\ Processed(uuid)
    /\ UNCHANGED vars

(* find_unpaid_account_invoices: a plain SELECT.                           *)
find_unpaid_account_invoices(t) ==
    /\ tx[t].pc = "checked"
    /\ tx' = [tx EXCEPT ![t].pc = "paying",
                        ![t].todo = {[invoice |-> i, balance |-> balance[i]] :
                                        i \in {j \in AccountInvoices : balance[j] > 0}}]
    /\ UNCHANGED Tables

(* One turn of the loop over the debts, up to add_credit.  The decision    *)
(* and the rest use the balance read before; what is written uses the      *)
(* balance of the locked row: balance - price, or 0 (and then the row's    *)
(* balance is what is credited).                                           *)
MutPayNextDebt(t) ==
    LET uai == NextDebt(t)
        partial == tx[t].rest <= uai.balance
        change == IF partial THEN tx[t].rest ELSE uai.balance
    IN  /\ tx[t].pc = "paying" /\ tx[t].todo # {} /\ tx[t].rest > 0
        /\ ~Waits(t)
        /\ tx' = [tx EXCEPT
                ![t].pc = "crediting",
                ![t].todo = tx[t].todo \ {uai},
                ![t].rest = IF partial THEN 0 ELSE tx[t].rest - uai.balance,
                ![t].change = change,
                ![t].paid = Append(tx[t].paid,
                    [invoice |-> uai.invoice,
                     change |-> IF partial THEN change ELSE balance[uai.invoice]])]
        /\ UNCHANGED Tables

MutPayNextDebtKeepsRest(t) ==
    LET uai == NextDebt(t)
        partial == tx[t].rest <= uai.balance
        change == IF partial THEN tx[t].rest ELSE balance[uai.invoice]
    IN  /\ tx[t].pc = "paying" /\ tx[t].todo # {} /\ tx[t].rest > 0
        /\ ~Waits(t)
        /\ tx' = [tx EXCEPT
                ![t].pc = "crediting",
                ![t].todo = tx[t].todo \ {uai},
                ![t].change = change,
                ![t].paid = Append(tx[t].paid, [invoice |-> uai.invoice, change |-> change])]
        /\ UNCHANGED Tables

PayNextDebt(t) ==
    LET uai == NextDebt(t)
        partial == tx[t].rest <= uai.balance
        change == IF partial THEN tx[t].rest ELSE balance[uai.invoice]
    IN  /\ tx[t].pc = "paying" /\ tx[t].todo # {} /\ tx[t].rest > 0
        /\ ~Waits(t)
        /\ tx' = [tx EXCEPT
                ![t].pc = "crediting",
                ![t].todo = tx[t].todo \ {uai},
                ![t].rest = IF partial THEN 0 ELSE tx[t].rest - uai.balance,
                ![t].change = change,
                ![t].paid = Append(tx[t].paid, [invoice |-> uai.invoice, change |-> change])]
        /\ UNCHANGED Tables

(* pay_invoice: add_credit_to_invoice and the row that maps the payment.   *)
pay_invoice(t) ==
    /\ tx[t].pc = "crediting"
    /\ ~Waits(t)
    /\ tx' = [tx EXCEPT ![t].pc = IF LocksNumber(t) THEN "done" ELSE "paying",
                        ![t].credited = tx[t].credited + tx[t].change,
                        ![t].change = 0,
                        ![t].locksCredit = TRUE]
    /\ UNCHANGED Tables

(* No debt is left, or no money.                                           *)
MutDebtsDone(t) ==
    /\ tx[t].pc = "paying" /\ (tx[t].todo = {} \/ tx[t].rest = 0)
    /\ tx' = [tx EXCEPT ![t].pc = IF tx[t].rest > 0 THEN "checked" ELSE "done",
                        ![t].todo = {}]
    /\ UNCHANGED Tables

DebtsDone(t) ==
    /\ tx[t].pc = "paying" /\ (tx[t].todo = {} \/ tx[t].rest = 0)
    /\ tx' = [tx EXCEPT ![t].pc = IF tx[t].rest > 0 THEN "deposit" ELSE "done",
                        ![t].todo = {}]
    /\ UNCHANGED Tables

(* createDepositInvoice: the number is read FOR UPDATE.                    *)
createDepositInvoice(t) ==
    /\ tx[t].pc = "deposit"
    /\ ~Waits(t)
    /\ tx' = [tx EXCEPT ![t].pc = "crediting", ![t].change = tx[t].rest, ![t].rest = 0,
                        ![t].deposit = <<[number |-> number, amount |-> tx[t].rest]>>]
    /\ UNCHANGED Tables

Commit(t) ==
    /\ tx[t].pc = "done"
    /\ balance' = [i \in AccountInvoices |->
           balance[i] - Sum([k \in DOMAIN tx[t].paid |->
               IF tx[t].paid[k].invoice = i THEN tx[t].paid[k].change ELSE 0])]
    /\ credit' = credit + tx[t].credited
    /\ number' = number + Len(tx[t].deposit)
    /\ deposits' = deposits \o tx[t].deposit
    /\ payments' = Append(payments, [uuid |-> tx[t].uuid, credited |-> tx[t].credited])
    /\ tx' = [tx EXCEPT ![t] = IdleTx]
    /\ UNCHANGED charged

(* A statement fails or the connection breaks.                             *)
Abort(t) ==
    /\ tx[t].pc # "idle"
    /\ tx' = [tx EXCEPT ![t] = IdleTx]
    /\ UNCHANGED Tables

(* The deadlock detector of PostgreSQL aborts a member of a waiting cycle. *)
DeadlockDetected(t) ==
    /\ \E S \in SUBSET Importers :
           t \in S /\ \A u \in S : \E v, w \in S : WaitsFor(u, v) /\ WaitsFor(w, u)
    /\ tx' = [tx EXCEPT ![t] = IdleTx]
    /\ UNCHANGED Tables

(* An EPP operation is charged: it locks the credit row too.               *)
ChargeMeanwhile ==
    /\ charged < MaxCharges
    /\ \A t \in Importers : ~LocksCredit(t)
    /\ credit' = credit - 1
    /\ charged' = charged + 1
    /\ UNCHANGED <<balance, number, deposits, payments, tx>>

Step(t) ==
    \/ find_unpaid_account_invoices(t)
    \/ PayNextDebt(t)
    \/ pay_invoice(t)
    \/ DebtsDone(t)
    \/ createDepositInvoice(t)
    \/ Commit(t)

ImportNext ==
    \/ \E t \in Importers, uuid \in BankPayments : StartImport(t, uuid) \/ AlreadyProcessed(t, uuid)
    \/ \E t \in Importers : Step(t) \/ Abort(t) \/ DeadlockDetected(t)
    \/ ChargeMeanwhile

ImportSpec == ImportInit /\ [][ImportNext]_vars

(* A statement that waits for a row is served when the row comes free:     *)
(* PostgreSQL queues the waiters, so a strong fairness of the steps is     *)
(* what the database provides; the deadlock detector runs on a timer.      *)
FairSpec ==
    /\ ImportSpec
    /\ \A t \in Importers : SF_vars(Step(t))
    /\ WF_vars(\E t \in Importers : DeadlockDetected(t))

-----------------------------------------------------------------------------
(* Every variable has its type, and no row is locked by two transactions.  *)
ImportTypeOK ==
    /\ balance \in [AccountInvoices -> Int]
    /\ credit \in Int /\ number \in Nat /\ charged \in 0..MaxCharges
    /\ deposits \in Seq([number : Nat, amount : Nat])
    /\ payments \in Seq([uuid : BankPayments, credited : Int])
    /\ \A t \in Importers :
           /\ tx[t].pc \in {"idle", "checked", "paying", "crediting", "deposit", "done"}
           /\ tx[t].uuid \in BankPayments \cup {NoUuid}
           /\ tx[t].rest \in Nat /\ tx[t].credited \in Int /\ tx[t].change \in Int
    /\ \A t, u \in Importers : t # u =>
           /\ ~(LocksCredit(t) /\ LocksCredit(u))
           /\ ~(LocksNumber(t) /\ LocksNumber(u))
           /\ \A i \in AccountInvoices : ~(LocksInvoice(t, i) /\ LocksInvoice(u, i))

(* However imports and charges interleave, fail or are chosen as deadlock  *)
(* victims, the committed credit agrees with the committed invoices.       *)
CommittedLedgerBalanced ==
    credit = Sum([k \in DOMAIN deposits |-> deposits[k].amount]) - Sum(balance) - charged

(* Deposit invoices are numbered 1, 2, 3, ... in the order of commit,      *)
(* aborted imports leaving no gap.                                         *)
NumbersFollowCommits ==
    /\ \A k \in DOMAIN deposits : deposits[k].number = k
    /\ number = Len(deposits) + 1

(* What is committed makes sound books at every moment, however imports    *)
(* and charges interleave, fail or are chosen as deadlock victims.         *)
CommittedBooksSound == ImportTypeOK /\ CommittedLedgerBalanced /\ NumbersFollowCommits

(* Whatever other imports did to the debts it had read before, a payment   *)
(* never brings more credit than its price.  (It may bring less: a debt    *)
(* another import paid meanwhile is subtracted from the rest all the same. *)
(* It may even take credit away: imports that pay a part of a debt they    *)
(* all read before bring the balance below zero, and the next one to zero  *)
(* it is credited with the negative balance.)                              *)
CreditedAtMostPrice ==
    \A k \in DOMAIN payments : payments[k].credited <= PriceOf[payments[k].uuid]

(* Every import ends, committed or aborted: imports lock the invoice, the  *)
(* credit and the number rows in different orders, and the database must   *)
(* break the cycle.                                                        *)
EveryImportEnds == \A t \in Importers : tx[t].pc # "idle" ~> tx[t].pc = "idle"

-----------------------------------------------------------------------------
(* "payment already processed" (banking/exceptions.cc:46): a payment that  *)
(* was processed is refused, so no payment is processed twice.             *)
ProcessedOnce ==
    \A j, k \in DOMAIN payments : payments[j].uuid = payments[k].uuid => j = k
=============================================================================

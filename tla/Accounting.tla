------------------------------- MODULE Accounting -------------------------------
(***************************************************************************)
(* The registrar accounts of one zone: credit, charged operations, deposit *)
(* (advance) and account invoices, bank payments.  Sources:                *)
(*   deprecated/libfred/invoicing/invoice.cc    fees, invoices             *)
(*   deprecated/libfred/banking/bank_manager.cc importPayment              *)
(*   deprecated/libfred/credit.cc               credit transactions        *)
(*   backend/epp/domain/impl/domain_billing.cc  EPP create and renew       *)
(*                                                                         *)
(* Every operation is one committed transaction, or nothing when it throws *)
(* (module PaymentImport interleaves payments inside their transactions).  *)
(*                                                                         *)
(* Money columns are numeric(10,2): a number of cents.  A price with VAT   *)
(* is not a whole number of cents in general, so amounts with VAT are      *)
(* counted in hundredths of a cent, which is exact for a whole VAT rate.   *)
(* Dates are days; a month is one day, a year is YearLength days.          *)
(***************************************************************************)
EXTENDS Integers, FiniteSets, AdvanceInvoices

CONSTANTS
    Registrars,
    Uuids,          \* uuids of bank payments
    PaymentPrices,  \* prices of payments, in cents
    Vat,            \* the VAT rate every registrar here pays, in percent
    PriceList,      \* operation -> [price, postpaid], price in cents
    TaxDateLimit,   \* days an invoice may be later than its tax date (15)
    YearLength,     \* days in a year
    MaxDay,         \* bound on the calendar
    MaxOperations,  \* bound on the charged operations of a registrar
    MaxCustomRuns,  \* bound on customRuns
    MaxPrice, MaxBalance,          \* bounds of the inputs PullOff is checked on: amounts,
    MaxInputOps, MaxInputAdvances  \* numbers of operations and of advances

EppOperations == {"CreateDomain", "RenewDomain"}
Fees == {"MonthlyFee", "GeneralEppOperation"}

ASSUME AccountingAssumption ==
    /\ Vat \in Nat
    /\ PaymentPrices \subseteq Int
    /\ DOMAIN PriceList \subseteq EppOperations \cup Fees
    /\ \A op \in DOMAIN PriceList : PriceList[op] \in [price : Nat, postpaid : BOOLEAN]
    /\ TaxDateLimit \in Nat
    /\ YearLength \in Nat \ {0}
    /\ MaxDay \in Nat
    /\ {MaxPrice, MaxBalance, MaxInputOps, MaxInputAdvances} \subseteq Nat

VARIABLES
    today,
    access_todate,       \* registrarinvoice.todate: the last day of zone access
    registrar_credit,    \* registrar -> credit, the sum of its credit transactions
    invoice_operation,   \* the charged operations, in order of their ids
    invoice,             \* invoices, in order of their ids
    invoice_prefix,      \* <<type, year>> -> next number, 0 when not prepared
    invoice_generation,  \* registrar -> todate of its last billing run, -1 for none
    credit_payment_map,  \* invoice_credit_payment_map: <<account, advance>> -> credit
    payment_map,         \* uuid -> [price, credits]: credit transactions it made
    customRuns           \* history: billing runs with a range or tax date of their own

accountVars == <<today, access_todate, registrar_credit, invoice_operation,
    invoice, invoice_prefix, invoice_generation, credit_payment_map,
    payment_map, customRuns>>

Days == 0..MaxDay
Year(d) == d \div YearLength
Types == {"deposit", "account"}
NumberSeries == Types \X {Year(d) : d \in Days}

(* createInvoicePrefixes reserves 99999 numbers for a year and a type (the *)
(* leading digits, which tell the types apart, are left out here).         *)
FirstNumber(year) == (year % 100) * 100000 + 1

Unpaid == [price |-> 0, credits |-> << >>]

Init ==
    /\ today = 0
    /\ access_todate = [r \in Registrars |-> MaxDay]
    /\ registrar_credit = [r \in Registrars |-> 0]
    /\ invoice_operation = << >>
    /\ invoice = << >>
    /\ invoice_prefix = [p \in NumberSeries |-> IF p[2] = 0 THEN FirstNumber(0) ELSE 0]
    /\ invoice_generation = [r \in Registrars |-> -1]
    /\ credit_payment_map = << >>
    /\ payment_map = [u \in Uuids |-> Unpaid]
    /\ customRuns = 0

hasRegistrarZoneAccess(r, day) == day <= access_todate[r]

-----------------------------------------------------------------------------
(* Charging.  The row of registrar_credit is locked from the comparison to *)
(* the end of the transaction.                                             *)
Charge(r, op, quantity, crdate, period) ==
    LET price == PriceList[op].price * quantity
    IN  /\ registrar_credit' = [registrar_credit EXCEPT ![r] = @ - price]
        /\ invoice_operation' = Append(invoice_operation,
               [registrar |-> r, operation |-> op, price |-> price,
                crdate |-> crdate, period |-> period, ac_invoice |-> 0])

(* create_domain_bill_item and renew_domain_bill_item throw BillingFailure *)
(* (which rolls the registration back); charge_operation_auto_price        *)
(* returns false.  Only the former let a free operation pass a debtor.     *)
BillingFailure(r, op, quantity) ==
    LET price == PriceList[op].price * quantity
    IN  price # 0 /\ registrar_credit[r] < price /\ ~PriceList[op].postpaid

ChargeRefused(r, op) ==
    registrar_credit[r] < PriceList[op].price /\ ~PriceList[op].postpaid

domain_bill_item(r, op, quantity) ==
    /\ op \in EppOperations \cap DOMAIN PriceList
    /\ op = "CreateDomain" => quantity = 1
    /\ hasRegistrarZoneAccess(r, today)
    /\ ~BillingFailure(r, op, quantity)
    /\ Charge(r, op, quantity, today, today)
    /\ UNCHANGED <<today, access_todate, invoice, invoice_prefix,
                   invoice_generation, credit_payment_map, payment_map, customRuns>>

(* was_registrar_charged is a plain SELECT before the charge.  Charging    *)
(* runs come one after another here, as cron and the operator start them;  *)
(* two runs at the same time could both find nothing and both charge, for  *)
(* nothing in the code locks the fee of a month.                           *)
MutAlreadyCharged(r, op, period) ==
    \E i \in DOMAIN invoice_operation :
        /\ invoice_operation[i].registrar = r
        /\ invoice_operation[i].operation = op
        /\ invoice_operation[i].crdate = period

AlreadyCharged(r, op, period) ==
    \E i \in DOMAIN invoice_operation :
        /\ invoice_operation[i].registrar = r
        /\ invoice_operation[i].operation = op
        /\ invoice_operation[i].period = period

(* chargeRegistryAccessFee for one month (a year is twelve of these in one *)
(* transaction, one after the other): nothing happens for a registrar      *)
(* without access in that month or already charged for it.  The charge is  *)
(* dated now or at the end of the previous month, whatever the month paid. *)
chargeRegistryAccessFee(r, period, crdate) ==
    /\ "MonthlyFee" \in DOMAIN PriceList
    /\ crdate \in {today, today - 1} \cap Days
    /\ hasRegistrarZoneAccess(r, period)
    /\ ~AlreadyCharged(r, "MonthlyFee", period)
    /\ ~ChargeRefused(r, "MonthlyFee")
    /\ Charge(r, "MonthlyFee", 1, crdate, period)
    /\ UNCHANGED <<today, access_todate, invoice, invoice_prefix,
                   invoice_generation, credit_payment_map, payment_map, customRuns>>

(* chargeRequestFee for a month that is over and in which the registrar    *)
(* made more requests than are free (there is a poll message that says     *)
(* so).  The charge is dated at the end of that month.                     *)
chargeRequestFee(r, period) ==
    /\ "GeneralEppOperation" \in DOMAIN PriceList
    /\ period < today
    /\ ~AlreadyCharged(r, "GeneralEppOperation", period)
    /\ ~ChargeRefused(r, "GeneralEppOperation")
    /\ Charge(r, "GeneralEppOperation", 1, period, period)
    /\ UNCHANGED <<today, access_todate, invoice, invoice_prefix,
                   invoice_generation, credit_payment_map, payment_map, customRuns>>

-----------------------------------------------------------------------------
(* round_half_up of the fraction n / d to a whole number, n >= 0.          *)
RoundHalfUp(n, d) == (2 * n + d) \div (2 * d)

(* count_dph: the VAT, in cents, contained in a price of u hundredths of a *)
(* cent.                                                                   *)
count_dph(u) == RoundHalfUp(u * Vat, 100 * (100 + Vat))

(* The price without VAT, as numeric(10,2) stores it.                      *)
WithoutVat(u) == RoundHalfUp(u - 100 * count_dph(u), 100)
WithVat(cents) == cents * (100 + Vat)

(* The number an invoice of this type and tax date gets (its invoice_prefix*)
(* row is locked FOR UPDATE until the end of the transaction).             *)
Prefix(typ, taxdate) == <<typ, Year(taxdate)>>

NewInvoice(r, typ, taxdate, operations_price, total) ==
    [registrar |-> r, typ |-> typ, taxdate |-> taxdate,
     prefix |-> invoice_prefix[Prefix(typ, taxdate)],
     operations_price |-> operations_price, total |-> total, balance |-> total]

(* The dates createDepositInvoice and insert_account_invoice accept.       *)
ValidTaxDate(taxdate) == taxdate <= today /\ today - taxdate <= TaxDateLimit

(* find_unpaid_account_invoices.                                           *)
UnpaidAccountInvoices(r) ==
    {i \in DOMAIN invoice : /\ invoice[i].registrar = r
                            /\ invoice[i].typ = "account"
                            /\ invoice[i].balance > 0}

(* One turn of processPayment's loop over the unpaid invoices, oldest      *)
(* first: s.rest is what is left of the payment, s.change what it takes    *)
(* off the balance of each invoice, s.credits what it has credited.        *)
PayDebt(r, s, i) ==
    LET due == WithVat(invoice[i].balance)
        partial == s.rest <= due
        change == IF partial THEN WithoutVat(s.rest) ELSE invoice[i].balance
    IN  IF i \notin UnpaidAccountInvoices(r) \/ s.rest = 0 THEN s
        ELSE [rest |-> IF partial THEN 0 ELSE s.rest - due,
              change |-> [s.change EXCEPT ![i] = change],
              credits |-> Append(s.credits, change)]

DebtsPaid(r, price) ==
    FoldLeftDomain(LAMBDA s, i : PayDebt(r, s, i),
                   [rest |-> 100 * price, change |-> [i \in DOMAIN invoice |-> 0],
                    credits |-> << >>],
                   invoice)

(* What payment of the debts does to the invoice table.                    *)
AfterDebts(change) ==
    [i \in DOMAIN invoice |-> [invoice[i] EXCEPT !.balance = @ - change[i]]]

(* processPayment cancels a payment that is not positive, one of a         *)
(* registrar without access and without debt, and one of a registrar       *)
(* without access that exceeds the debt (InvalidPaymentData).              *)
InvalidPayment(r, price) ==
    \/ price <= 0
    \/ /\ ~hasRegistrarZoneAccess(r, today)
       /\ \/ UnpaidAccountInvoices(r) = {}
          \/ DebtsPaid(r, price).rest > 0

MutPaymentAlreadyProcessed(uuid) == FALSE
PaymentAlreadyProcessed(uuid) == payment_map[uuid].credits # << >>

(* importPayment of a payment paired with registrar r: the debts first,    *)
(* then a deposit invoice for the rest, all or nothing.                    *)
importPayment(uuid, r, price, taxdate) ==
    LET s == DebtsPaid(r, price)
        deposit == WithoutVat(s.rest)
        p == Prefix("deposit", taxdate)
        credits == s.credits \o (IF s.rest > 0 THEN <<deposit>> ELSE << >>)
    IN  /\ ~PaymentAlreadyProcessed(uuid)
        /\ ~InvalidPayment(r, price)
        /\ s.rest > 0 => ValidTaxDate(taxdate) /\ invoice_prefix[p] # 0
        /\ invoice' = AfterDebts(s.change)
                         \o (IF s.rest > 0
                             THEN <<NewInvoice(r, "deposit", taxdate, 0, deposit)>> ELSE << >>)
        /\ invoice_prefix' = [invoice_prefix EXCEPT ![p] = IF s.rest > 0 THEN @ + 1 ELSE @]
        /\ registrar_credit' = [registrar_credit EXCEPT ![r] = @ + SumSeq(credits)]
        /\ payment_map' = [payment_map EXCEPT ![uuid] =
               [price |-> price, credits |-> @.credits \o credits]]
        /\ UNCHANGED <<today, access_todate, invoice_operation, invoice_generation,
                       credit_payment_map, customRuns>>

-----------------------------------------------------------------------------
(* Account invoices.                                                       *)
NoDate == -1

(* The first day of a default run: the day after the last run, or the      *)
(* first day of access (day 0).                                            *)
DefaultFrom(r) == invoice_generation[r] + 1

(* The unaccounted operations of a range, and their ORDER BY crdate, id.   *)
Unaccounted(r, from, to) ==
    {i \in DOMAIN invoice_operation : /\ invoice_operation[i].registrar = r
                                      /\ invoice_operation[i].ac_invoice = 0
                                      /\ invoice_operation[i].crdate \in from..to}

Precedes(i, j) ==
    \/ invoice_operation[i].crdate < invoice_operation[j].crdate
    \/ invoice_operation[i].crdate = invoice_operation[j].crdate /\ i < j

InOrder(ops) ==
    [n \in 1..Cardinality(ops) |->
        CHOOSE i \in ops : Cardinality({j \in ops : Precedes(j, i)}) = n - 1]

Prices(ops) ==
    [n \in 1..Cardinality(ops) |-> invoice_operation[InOrder(ops)[n]].price]

(* The advances that may pay an invoice with this tax date.                *)
MutAdvances(r, taxdate) ==
    {i \in DOMAIN invoice : /\ invoice[i].registrar = r
                            /\ invoice[i].typ = "deposit"
                            /\ invoice[i].balance > 0
                            /\ invoice[i].taxdate < taxdate}

Advances(r, taxdate) ==
    {i \in DOMAIN invoice : /\ invoice[i].registrar = r
                            /\ invoice[i].typ = "deposit"
                            /\ invoice[i].balance > 0
                            /\ invoice[i].taxdate <= taxdate}

(* What the loops may pull off each invoice, oldest first: they pass over  *)
(* a balance of 0, which stands for an invoice the query does not return.  *)
AdvanceBalances(advances) ==
    [i \in DOMAIN invoice |-> IF i \in advances THEN invoice[i].balance ELSE 0]

(* The early errors of create_account_invoice.  A default run (from not    *)
(* given) must not reach into today.                                       *)
RangeAccepted(r, from, to) ==
    /\ today - to <= TaxDateLimit
    /\ from = NoDate => to < today
    /\ (IF from = NoDate THEN DefaultFrom(r) ELSE from) <= to

CountCustomRun(from, to, taxdate) ==
    customRuns' = IF from # NoDate \/ taxdate # to THEN customRuns + 1 ELSE customRuns

(* The tables after ops are invoiced: s is the result of the pull-off.     *)
InvoicesAfter(r, taxdate, ops, advances, s) ==
    [i \in DOMAIN invoice |->
        IF i \in advances THEN [invoice[i] EXCEPT !.balance = s.balance[i]] ELSE invoice[i]]
    \o <<NewInvoice(r, "account", taxdate, SumSeq(Prices(ops)), s.price_left)>>

(* invoice_credit_payment_map with the new rows: which advance paid how    *)
(* much.                                                                   *)
MutCreditPayments(id, advances, s) ==
    LET new == {<<id, i>> : i \in {j \in advances : s.credit_change[j] > 0}}
    IN  [p \in DOMAIN credit_payment_map \cup new |->
            IF p \in new THEN s.balance[p[2]] ELSE credit_payment_map[p]]

CreditPayments(id, advances, s) ==
    LET new == {<<id, i>> : i \in {j \in advances : s.credit_change[j] > 0}}
    IN  [p \in DOMAIN credit_payment_map \cup new |->
            IF p \in new THEN s.credit_change[p[2]] ELSE credit_payment_map[p]]

(* create_account_invoice, from = NoDate for a default run.  Operations    *)
(* that cost nothing in total make no invoice and stay unaccounted.        *)
createAccountInvoice(r, from, to, taxdate) ==
    LET fromdate == IF from = NoDate THEN DefaultFrom(r) ELSE from
        ops == Unaccounted(r, fromdate, to)
        advances == Advances(r, taxdate)
        s == PullOff(Prices(ops), AdvanceBalances(advances))
        p == Prefix("account", taxdate)
        id == Len(invoice) + 1
    IN  /\ RangeAccepted(r, from, to)
        /\ SumSeq(Prices(ops)) # 0
        /\ ValidTaxDate(taxdate) /\ invoice_prefix[p] # 0
        /\ invoice' = InvoicesAfter(r, taxdate, ops, advances, s)
        /\ invoice_prefix' = [invoice_prefix EXCEPT ![p] = @ + 1]
        /\ invoice_operation' =
               [i \in DOMAIN invoice_operation |->
                   IF i \in ops
                   THEN [invoice_operation[i] EXCEPT !.ac_invoice = id]
                   ELSE invoice_operation[i]]
        /\ credit_payment_map' = CreditPayments(id, advances, s)
        /\ invoice_generation' = [invoice_generation EXCEPT ![r] = to]
        /\ CountCustomRun(from, to, taxdate)
        /\ UNCHANGED <<today, access_todate, registrar_credit, payment_map>>

(* A run with nothing to invoice only records that the range was billed.   *)
(* So does, in createAccountInvoices, a run whose tax date is refused: the *)
(* exception is caught inside the transaction that then commits.           *)
EmptyRun(r, from, to, taxdate) ==
    LET fromdate == IF from = NoDate THEN DefaultFrom(r) ELSE from
        ops == Unaccounted(r, fromdate, to)
    IN  /\ RangeAccepted(r, from, to)
        /\ \/ SumSeq(Prices(ops)) = 0
           \/ ~ValidTaxDate(taxdate)
           \/ invoice_prefix[Prefix("account", taxdate)] = 0
        /\ invoice_generation' = [invoice_generation EXCEPT ![r] = to]
        /\ CountCustomRun(from, to, taxdate)
        /\ UNCHANGED <<today, access_todate, registrar_credit, invoice_operation,
                       invoice, invoice_prefix, credit_payment_map, payment_map>>

(* createInvoicePrefixes prepares the numbers of the next year, once.      *)
createInvoicePrefixes(year) ==
    /\ \E p \in NumberSeries : p[2] = year /\ invoice_prefix[p] = 0
    /\ year \in {Year(today), Year(today) + 1}
    /\ invoice_prefix' = [p \in NumberSeries |->
           IF p[2] = year /\ invoice_prefix[p] = 0 THEN FirstNumber(year) ELSE invoice_prefix[p]]
    /\ UNCHANGED <<today, access_todate, registrar_credit, invoice_operation, invoice,
                   invoice_generation, credit_payment_map, payment_map, customRuns>>

(* The registrar's access to the zone is ended as of today.                *)
EndAccess(r) ==
    /\ access_todate[r] = MaxDay
    /\ access_todate' = [access_todate EXCEPT ![r] = today]
    /\ UNCHANGED <<today, registrar_credit, invoice_operation, invoice, invoice_prefix,
                   invoice_generation, credit_payment_map, payment_map, customRuns>>

NextDay ==
    /\ today < MaxDay
    /\ today' = today + 1
    /\ UNCHANGED <<access_todate, registrar_credit, invoice_operation, invoice, invoice_prefix,
                   invoice_generation, credit_payment_map, payment_map, customRuns>>

CanCharge(r) ==
    Cardinality({i \in DOMAIN invoice_operation : invoice_operation[i].registrar = r})
        < MaxOperations

Next ==
    \/ \E r \in Registrars, op \in EppOperations, quantity \in 1..2 :
           CanCharge(r) /\ domain_bill_item(r, op, quantity)
    \/ \E r \in Registrars, period, crdate \in Days :
           CanCharge(r) /\ chargeRegistryAccessFee(r, period, crdate)
    \/ \E r \in Registrars, period \in Days : CanCharge(r) /\ chargeRequestFee(r, period)
    \/ \E u \in Uuids, r \in Registrars, price \in PaymentPrices, d \in Days :
           importPayment(u, r, price, d)
    \/ \E r \in Registrars, from \in Days \cup {NoDate}, to, d \in Days :
           /\ from # NoDate \/ d # to => customRuns < MaxCustomRuns
           /\ createAccountInvoice(r, from, to, d) \/ EmptyRun(r, from, to, d)
    \/ \E y \in {Year(d) : d \in Days} : createInvoicePrefixes(y)
    \/ \E r \in Registrars : EndAccess(r)
    \/ NextDay

Spec == Init /\ [][Next]_accountVars

-----------------------------------------------------------------------------
Operation == [registrar : Registrars, operation : EppOperations \cup Fees, price : Nat,
              crdate : Days, period : Days, ac_invoice : Nat]
Invoice == [registrar : Registrars, typ : Types, taxdate : Days, prefix : Nat \ {0},
            operations_price : Nat, total : Nat, balance : Nat]

(* Every variable has its type; no amount of an invoice is negative, in    *)
(* particular no payment lowers the balance of an account invoice below 0. *)
TypeOK ==
    /\ today \in Days
    /\ access_todate \in [Registrars -> Days]
    /\ registrar_credit \in [Registrars -> Int]
    /\ invoice_operation \in Seq(Operation)
    /\ invoice \in Seq(Invoice)
    /\ invoice_prefix \in [NumberSeries -> Nat]
    /\ invoice_generation \in [Registrars -> Days \cup {NoDate}]
    /\ DOMAIN credit_payment_map \subseteq (DOMAIN invoice) \X (DOMAIN invoice)
    /\ \A p \in DOMAIN credit_payment_map : credit_payment_map[p] \in Nat
    /\ payment_map \in [Uuids -> [price : Int, credits : Seq(Nat)]]
    /\ customRuns \in Nat

InvoicesOf(r, typ) ==
    {i \in DOMAIN invoice : invoice[i].registrar = r /\ invoice[i].typ = typ}

OperationsOf(r) == {i \in DOMAIN invoice_operation : invoice_operation[i].registrar = r}

InvoiceBalances == [i \in DOMAIN invoice |-> invoice[i].balance]
OperationPrices == [i \in DOMAIN invoice_operation |-> invoice_operation[i].price]

(* The credit the EPP operations are charged against agrees with the       *)
(* invoices: it is what the deposits still hold, less what is owed on      *)
(* account invoices, less the operations no invoice has accounted for.     *)
(* Credit and invoices are written by different functions, with rounding.  *)
LedgerBalanced ==
    \A r \in Registrars :
        registrar_credit[r] =
              SumOn(InvoiceBalances, InvoicesOf(r, "deposit"))
            - SumOn(InvoiceBalances, InvoicesOf(r, "account"))
            - SumOn(OperationPrices, {i \in OperationsOf(r) : invoice_operation[i].ac_invoice = 0})

(* What advance ad paid of account invoice ac.                             *)
PulledOff(ac, ad) ==
    IF <<ac, ad>> \in DOMAIN credit_payment_map THEN credit_payment_map[<<ac, ad>>] ELSE 0

(* An account invoice is its operations, less what the advances paid of    *)
(* it; an advance invoice is its balance and what it paid of others.       *)
InvoicesAddUp ==
    \A i \in DOMAIN invoice :
        IF invoice[i].typ = "account"
        THEN /\ invoice[i].operations_price =
                    SumOn(OperationPrices, {k \in DOMAIN invoice_operation :
                                               invoice_operation[k].ac_invoice = i})
             /\ invoice[i].operations_price = invoice[i].total
                    + SumSeq([j \in DOMAIN invoice |-> PulledOff(i, j)])
             /\ invoice[i].balance <= invoice[i].total
        ELSE invoice[i].total = invoice[i].balance
                    + SumSeq([j \in DOMAIN invoice |-> PulledOff(j, i)])

(* However many debts a payment settles, the credit it brings is its price *)
(* without VAT, to less than one cent.                                     *)
PaymentCreditedOnce ==
    \A u \in Uuids :
        LET difference == WithVat(SumSeq(payment_map[u].credits)) - 100 * payment_map[u].price
        IN  difference < WithVat(1) /\ -difference < WithVat(1)

(* No sequence of charges, payments and invoices makes the debt of a       *)
(* registrar larger than its postpaid charges.                             *)
DebtIsPostpaid ==
    \A r \in Registrars :
        registrar_credit[r] +
            SumOn(OperationPrices, {i \in OperationsOf(r) :
                PriceList[invoice_operation[i].operation].postpaid}) >= 0

(* The invoices of a type and year.                                        *)
Issued(p) == {i \in DOMAIN invoice : Prefix(invoice[i].typ, invoice[i].taxdate) = p}

(* The numbers of the invoices of a type and year follow each other        *)
(* without a gap and without a repetition, in the order of their ids.      *)
NumbersWithoutGaps ==
    \A p \in NumberSeries :
        /\ \A i \in Issued(p) : invoice[i].prefix =
               FirstNumber(p[2]) + Cardinality({j \in Issued(p) : j < i})
        /\ Issued(p) # {} => invoice_prefix[p] = FirstNumber(p[2]) + Cardinality(Issued(p))

(* The books of a registrar close after every charge, payment, billing run *)
(* and rounding: its credit agrees with its invoices, the invoices agree   *)
(* with the operations and payments behind them, its debt is postpaid, and *)
(* the invoices of each series are numbered without gaps.                  *)
BooksAddUp ==
    TypeOK /\ LedgerBalanced /\ InvoicesAddUp /\ DebtIsPostpaid /\ NumbersWithoutGaps

(* A registrar pays a fee once for a month, whatever dates the charges     *)
(* carry and however often the charging is repeated, run after run, with   *)
(* other charges, payments and billing runs in between.  (Two charging     *)
(* runs at the same time are not excluded by the code and not modelled.)   *)
FeeOncePerPeriod ==
    \A i, j \in DOMAIN invoice_operation :
        /\ invoice_operation[i].registrar = invoice_operation[j].registrar
        /\ invoice_operation[i].operation = invoice_operation[j].operation
        /\ invoice_operation[i].operation \in Fees
        /\ invoice_operation[i].period = invoice_operation[j].period
        => i = j

(* A registrar that was charged prepaid EPP operations only, and billed by *)
(* default runs only, never owes anything on an account invoice: although  *)
(* advances are chosen by tax date, they always cover the operations.      *)
(* (A fee may be dated back to before the deposit that paid for it.)       *)
PrepaidWorkLeavesNoDebt ==
    \A r \in Registrars :
        /\ customRuns = 0
        /\ \A i \in OperationsOf(r) :
               /\ invoice_operation[i].operation \in EppOperations
               /\ ~PriceList[invoice_operation[i].operation].postpaid
        => \A i \in InvoicesOf(r, "account") : invoice[i].total = 0

(* The loops of create_account_invoice compute the waterfall, for all      *)
(* inputs within the bounds.  An operation may be free, an advance         *)
(* exhausted.  (The initial state is where TLC evaluates it.)              *)
LoopsComputeWaterfall ==
    Init => \A prices \in BoundedSeq(0..MaxPrice, MaxInputOps),
            balances \in BoundedSeq(0..MaxBalance, MaxInputAdvances) :
        PaidByWaterfall(prices, balances)
=============================================================================

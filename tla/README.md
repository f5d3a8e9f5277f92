# A TLA+ model of the FRED server

FRED is a domain registry. This project models the parts of fred-server that keep the registry's
state and money right: EPP sessions and logins, the blocking of registrars, the EPP domain
commands, the clean-up of expired domains, registrar accounts and invoices, the import of bank
payments, the EPP message queue, the mojeID accounts and verification of contacts, administrative
blocks beside the holders' own locks, and the automatic management of keysets. Each module was translated from the C++ source;
`PROJECT.json` maps every definition to the lines it stands for.

`tlc -config X.cfg M` checks a run, `tlapm M_proofs.tla` the proofs. Runs, mutants, hazards and
theorems are listed in `PROJECT.json`.

## 1. Inventory

The server is a set of processes (rifd for EPP, adifd for administration, pifd, msgd and others,
and the command line tool fred-admin that cron runs) around one PostgreSQL database. Processes
talk by CORBA. Except for the session table of rifd, all state is in the database; every operation
is one transaction at READ COMMITTED, so what it reads without a lock may be out of date when it
is used. The library that holds the SQL of most object operations (libfred, `LibFred::CreateDomain`
and so on), the schema, its indexes and its triggers are not part of this repository. What the code
relies on there is modelled from its use and marked external.

| Component | State | Operations | What is hard about it | What makes it correct |
|---|---|---|---|---|
| Session container (`bin/corba/epp/epp_session.cc`) | sessions, count per registrar, time stamps, a sequence of ids in the database | login, logout, eviction, lookup, collection of expired sessions | two counters kept beside the sessions; collection only at logins; restarts | counts exact, limits kept, ids never reused |
| EPP login (`bin/corba/epp/epp_impl.cc`, `authentic_registrar.cc`) | passwords, the running transactions | ClientLogin, ClientLogout, eviction from another process | a transaction that may fail after the session exists; blocking while a login is under way | sessions only for the current password; a blocked and evicted registrar stays out |
| Registrar blocking (`deprecated/libfred/registrar.cc`) | `registrar_disconnect` | block, unblock, is-blocked | processes that hold SHARE locks together; the oldest record stands for the current one | what other processes may rely on: module BlockedRegistrars |
| Accounts and invoices (`deprecated/libfred/invoicing/invoice.cc`, `credit.cc`) | credit, operations, invoices, balances, numbers | charge, deposit invoice, account invoice, fees, number prefixes | two books written by different code, VAT rounding, order of payment, ranges of dates | credit and invoices agree to the cent; numbers without gaps |
| Payment import (`deprecated/libfred/banking/bank_manager.cc`) | the map of payments to credit | importPayment, processPayment | check and act without a lock; lock order; deadlocks | a payment counts once, never for more than its price |
| EPP domain commands (`backend/epp/domain/*`) | domains and their history, credit, poll messages, notifications | create, renew, transfer, delete, update | concurrent creates, repeated commands, bills inside the transaction, dates | what is paid is what is registered; horizons; the sponsor learns of changes |
| Clean-up (`bin/cli/remove_delete_candidates.cc`) | a list of objects in memory | list, then delete one by one | the list is old when it is used | nothing but the listed objects is deleted |
| Poll messages (`backend/epp/poll/*`) | `message` | request, acknowledge | several sessions per registrar; row locks; messages whose data are gone | acknowledged once, own messages only, read in the end |
| mojeID (`backend/mojeid/mojeid.cc`) | prepared transactions, a map of them in memory, states and public requests of a contact | create, transfer, update, validate, cancel an account; commit and rollback | two transactions per change, unlocked reads, clients and servers that disappear in between | states and letters vouch for present data; accounts stay protected |
| Contact verification (`backend/contact_verification`, `backend/admin/contact/verification`), EPP contact commands | the same contact | identification by PIN, manual checks, update, delete, transfer | they share the contact with mojeID | checked together with mojeID |
| Public requests to block and unblock (`backend/public_request`, `bin/cli/public_request_method.cc`), domain browser | requests, manual states of domains | create, resolve, process; setObjectBlockStatus | lists that are old when used; check and act without a lock | no half locks; resolved requests are processed |
| Administrative blocking (`backend/admin_block/administrativeblocking.cc`) | states saved under a block, copies of holders | block, update, unblock, restore, blacklist | holders shared by domains, copied, merged, deleted | holders' locks survive; holders follow their domains |
| Automatic keyset management (`backend/automatic_keyset_management`) | keysets and links of domains | turn on, exchange keys, turn off | scans of any age, unlocked reads, keysets shared through EPP | calls act on present data; the delete key is honoured |
| Queries, documents, CORBA glue, configuration | none of their own | conversion, rendering | | not modelled: pure I/O |

The parts interact as follows. blockRegistrar commits a record and then calls rifd, which evicts the
registrar's sessions; ClientLogin reads that record before it opens a session. Domain commands take
their bill items from the credit that payments and invoices maintain, write poll messages that
sessions read later, and queue notifications after their commit. The clean-up deletes domains the
domain commands work on. mojeID, registrars and the verification service change the states of the
same contacts, and fred-admin performs at night what they left requested. Holders, operators and
registrars change the states of the same domains. The scanner of keys calls the server while
registrars move domains between nssets and keysets. `PROJECT.json` lists 40 hazards at the lines
where they bite.

## 2. Modules

### EppSession
State: `sessions` (id to registrar, language and time stamp), `registrar_session_count`,
`epp_login_id_seq`, `clock`. All public methods of `EppSessionContainer` hold its mutex from first to
last line, so a method call is one action: `login_session_admitted`, `login_session_refused` and
`login_session_throws` (nextval fails; all three collect expired sessions first, as the code does), `logout_session`,
`destroy_all_registrar_sessions`, `get_registrar_id` (which refreshes the time stamp). `Restart` empties
the memory and leaves the database sequence. The code's two internal-error throws have no action;
`ThrowsUnreachable` says their conditions never hold, and that is proved.

### BlockedRegistrars, RegistrarBlocking
BlockedRegistrars is the abstract specification: a registrar becomes blocked, an eviction is due after
that, a block ends by itself or is lifted. RegistrarBlocking is the code: callers in several processes,
the SHARE lock and the wait of the INSERT for the other holders, the choice of the oldest record,
months, and the CORBA call after the commit. `BlockingImplementsPromise` is the refinement, with
`blocked` mapped to what isRegistrarBlocked answers.

### EppLogin
Extends EppSession and uses BlockedRegistrars as its environment. Threads run ClientLogin in four
steps (`LoginStart`, `Authenticate` under the lock of the `registraracl` row, `LoginSession`,
`LoginEnd`); `LoginFails` is a database failure at any of them, which leaves an opened session behind.
All of them use the container by the actions of EppSession.

### AdvanceInvoices
A pure algorithm: the two nested loops of create_account_invoice that pay operations from advance
invoices, written with folds over the same loop state (balances, credit changes, the charge map). The
reference it is compared with is the closed form of an oldest-first waterfall (`PaidByWaterfall`). An advance is known by
its number, counted from 1, and the new account invoice is none of them (`AdvanceAssumption`).

### Accounting
Extends AdvanceInvoices. One action per committed transaction: charging an EPP operation, the
monthly and the request fee, importPayment (debts first, a deposit for the rest, VAT rounded as in
count_dph), create_account_invoice by default and by given ranges and tax dates, a run that makes
no invoice, createInvoicePrefixes. What a query returns is a set and its ORDER BY an order of its own (`Precedes`, `InOrder`); debts and advances are
visited in the order of their ids. The table invoice_credit_payment_map is a function from an account invoice and an advance to what the one was paid
from the other, and sums are taken along the tables (`SumOn`). Amounts are cents; amounts with VAT are hundredths of a cent, which
is exact for a whole VAT rate. `AlreadyCharged` stands for was_registrar_charged, which reads without a lock:
here the check and the charge are one step, so `FeeOncePerPeriod` speaks of a command that is repeated after
another one, and not of two at the same time, which the code does not keep apart.

### PaymentImport
The same import, now statement by statement, as several processes run it: the check for a processed
payment, the unlocked read of the debts (a set of copies, of which the loop takes the first by number,
`NextDebt`), one step for each locked row, commit, abort, the deadlock
detector. It leaves out VAT (see Accounting) and keeps what interleaves.

### EppDomain
State: the registry (id to domain, with sponsor, dates, references, states and version), the two id
sequences, credit and bill items, poll messages, notifications, and a log of who did what. Every
command but create locks the domain's row first and holds it to its commit: it is one action. create
has no row to lock; its checks and its INSERT are two steps, and the database's unique index decides (`NameFree`,
external: that names are unique is the database's doing and is not counted among the properties).
`updateObjectStates` and `RequestStates` are the batch and the operator that change states. The
contacts, nssets and keysets commands refer to are constants.

### DeleteCandidates
Extends EppDomain: one action lists the candidates (any part of them, because of the limit and the
split over time), further ones delete or fail one object each, beside every EPP command.

### PollQueue
Sessions, messages, row locks. poll_request is two steps, because the row it picked may be locked by
an acknowledgement; poll_acknowledgement is an UPDATE that waits, tests its condition again and is
committed or rolled back later. A client may repeat either, and may acknowledge any id, also of a message it
was never offered or of another registrar. `details` says whether the rows that the
message's own query joins still exist.

### ContactStates, MojeId
One contact. ContactStates has its sponsor, the requested states (`wanted`, object_state_request) and
those in force (`performed`, object_state), its public requests, and what registrars and the
verification service do to it. Contact data are the aspects the code compares (name, mailing address,
place, e-mail, other); times of requests and updates are abstracted to whether a request is older than
the last change ("outdated"). MojeId extends it with the account operations. A `*_prepare` method ends in
PREPARE TRANSACTION and keeps its locks until `Commit` or `Rollback`; the methods that read states before
they lock take two steps (`StartUpdate`, then `UpdateContactPrepare`); `PerformCommitted` is the second
transaction of commit_prepared_transaction, which may fail; `Restart` empties the map in memory and
leaves prepared transactions. A call that is refused (a wrong password, the limit of letters, an
attached identity) changes nothing and has no action. Whether the contact is linked decides in
cancel_account_prepare between deletion and cancellation; both are possible. An update without a
difference prepares an empty transaction and is left out. Requesting a state that is already requested
makes the library call fail. The system registrar may act against the prohibitions. undisclose_address_async, which
the verification service calls after its commit, is a step of its own (`HideAddress`); until then "hide" is open
among the requests.

`stale` and `misaddressed` record every change of data under a state or an open letter, with who made it. Some changes the code
lets pass on purpose, and `KeptByRule` lists them: a registrar's update and cancel_account_prepare (which resets it, `mojeid.cc:3082`)
change the mailing address of an identified contact, update_validated_contact_prepare (`mojeid.cc:1553`) writes name and
place and keeps both states, and the system registrar's updates keep validatedContact. An open letter outlives
update_validated_contact_prepare as well, so its PIN3, sent to the former name, still identifies the contact; `LetterMatchesAddress` names that exception.

The other exceptions in the properties are the windows the code leaves open, and are recorded in the
history `raced`, `misaddressed` and `disturbed`: a state granted between the read and the lock of an
update stays in force over changed data (`mojeid.cc:1313`); between COMMIT PREPARED and the performing of
state requests a validation or a transfer sees the former states (`mojeid.cc:2403`); an open letter
request of a cancelled account is preferred to a newer one (`mojeid.cc:2292`).

### ObjectLocks, AdminBlocking
ObjectLocks: what a holder may lock, by public request (created, resolved or invalidated by an operator,
listed and then processed by fred-admin) or in the domain browser (reads, then writes). AdminBlocking
extends it with `administrativeblocking.cc` and the commands that change who holds what. Every method there
locks its domains FOR UPDATE, so it is one action; the browser's outer transaction holds the row FOR
SHARE for the whole call, so administrators and registrars wait for it, and only the processing of
requests can come between its steps (the history `raced`). When the update of a processed request or its commit fails the code
swallows the exception and the request stays scheduled (`CommitFails`, `block_unblock.cc:407`).

Contacts are named by sequences of numbers so that the suffixes of copied holders, and the order by name that picks the next one, are kept.
Names are compared as texts: an index is padded to a width, and from `CopyIndexLimit` on (100000 in the code) it is a digit longer, so that X-ABC_99999
comes after X-ABC_100000 (`TextBefore`; `Base` is ten in the code and two in the run). copy_domain_owners copies one holder after another, in the
order of their ids, which may be any, and looks for each handle among the copies made before (`CopyDomainOwners`). Handles may be registered with a suffix
of their own. Assumed: the database orders handles byte by byte, so that the wildcard `_` of the LIKE pattern matches nothing that the comparison
before it lets through and the suffix does not start. Not modelled: indices of seven and more digits, and suffixes written with fewer than five digits. Requests
of a deleted domain name no object any more. `Night` ends blocks on their date.

### AutomaticKeysets
Domains with their nsset and keyset, the name servers of nssets, the keys of keysets, and what the name
servers publish. The scanner is a program outside this repository: `Scan` takes a domain of one of the three
lists with the keys published then, and the call may be handled any time later. A call is three
steps: the read of the domain, the read of its nsset or keyset, and the locked write (`turn_on`, `turn_off`, or `call_fails`). An exchange of keys has
a fourth: `check_keyset` takes the lock of the keyset and counts its domains, `rollover` writes. Commands on the keyset wait for that lock, update_domain
does not take it. `update_domain` may name an nsset, a keyset or both, and clears the keyset with a new nsset where rifd_epp_update_domain_keyset_clear is set
(`KeysetClear` has the settings; the run has both). Keys are named by the server that published them and its generation. "frozen" stands
for serverBlocked, serverUpdateProhibited and deleteCandidate. EPP commands have no guard on states,
because the system registrar may do all of them. UpdateDomain finds the domain by its name, so a call whose
registration was deleted may write a new one of that name. Notices, poll messages and errors of the
configuration are left out. Three things are visible in the model and claimed by no property: turning the management on
for a domain with a registrar's keyset, and the exchange of keys, do not compare the scanned name
servers with the nsset, so a late scan may link keys of former name servers there; the exchange does not look at the states of the domain; and a domain may be linked to the
keyset between the count of its domains (`automatic_keyset_management.cc:388`) and the write, and then has its keys replaced.

Each definition whose name starts with `Mut` is a wrong variant of the definition after it. It is used
by no specification; `PROJECT.json` says which property refutes it.

## 3. Runs

| Run | Instance | Checks |
|---|---|---|
| login | 2 registrars, 2 threads, 2 passwords, limits 2 in total and 1 each, sessions that time out at once, 2 login ids | counts, limits, ids never reused over restarts, logins refused only for sessions that have not timed out, password current at the moment a session opens, blocked and evicted registrars have no session |
| blocking | 1 registrar, 2 callers, 3 months of 3 ticks | refinement of BlockedRegistrars |
| accounting | 1 registrar, 2 payments, 3 days with a change of the year, 2 operations, 1 run of a given range; for the loops every input of up to 3 operations of price 0..3 and 3 advances of 0..3 | BooksAddUp (the ledger balances, invoices add up, debts come from postpaid operations only, numbers without gaps); payments count once; fees once, run after run; prepaid EPP operations leave no debt; the loops equal the waterfall |
| imports | 3 importers, 2 payments of 2 and 3, debts of 2 and 1, 1 charge; fairness | the committed books and numbers, no payment above its price, every import ends |
| domains | an ENUM zone, 2 registrars (one of them the system's, the other with an access that ends), 1 name, 2 creates at a time, dates 0..3, 3 versions, 2 ids, the clean-up beside EPP | both horizons, paid periods tile the registration, credit, repeated renewals, announced changes, frozen domains, nothing registered later than the list is deleted |
| poll | 2 registrars, 3 sessions, 2 messages; fairness | acknowledged once, own messages only whatever ids clients send, messages are read |
| mojeid | 1 contact, 2 transactions, 4 calls, changes of name, mailing address and e-mail, letters sent automatically | protected accounts, validated contacts are accounts, verified data and letters are current but for the changes named, accounts are identified |
| adminblock | 2 domains, 2 handles (one a mojeID account, registered with a suffix next to the limit of the index), 1 request, 1 run of fred-admin, 4 calls, 1 night; fairness | holders' locks survive, no half lock, holders that exist, new handles for copies but for the one exception at the limit of the index, holders unblocked with their domains, other blocked domains keep a blocked holder, resolved requests are processed |
| akm | 1 managed domain and one of another zone, 2 nssets, 3 keysets, 2 calls at a time, 2 commands of others; fairness | calls act on present data, the delete key is honoured |
| blocking_overlap, import_twice, cleanup_stale_list | | expected violations, section 4 |

Bounds and why they suffice. Limits are small so that they are reached: with one session each and two
in total, a third login is refused or follows a logout, an eviction or an expiry. Two importers of the
same payment and a third one of another are the smallest deadlock with a bystander. Two ids of one
name are a deletion and a second registration. Three versions are a create and two further commands, so
that every pair of commands meets. Four dates are a creation, a prolongation inside the continuation
window and one outside it. Two messages and two sessions of one registrar are the smallest queue with an
order and a conflict. Four calls of mojeID are an account, an update, a cancellation and one more,
and everything an earlier call has made ready (commits, answers to requests) is not counted. Four
calls on domains are a block, an unblocking and two changes of locks or holders between them. Two
commands between the steps of two calls move a keyset and change a name server; the safety
property of akm is also proved. Each bound is a constant with a name (`Max...`) and appears in a guard only. Expiration dates may
lie beyond the calendar, so that the horizons bind and not `MaxDate`.

Deadlock is checked in login, blocking and imports. Elsewhere the bounded calendar and sequences end a
behaviour, and `CHECK_DEADLOCK FALSE` says so.

Fairness. Four properties need it.
* `EveryImportEnds`: strong fairness of every importer's steps, because PostgreSQL queues the waiters
  for a row, and weak fairness of the deadlock detector, which runs on a timer. Nothing is assumed of
  new imports, charges or aborts. The mutant, which goes back to reading debts while money is left after the last one, never ends.
* `MessagesAreRead`: the server answers (weak fairness of its steps); a client that is offered messages
  again and again finally acknowledges one, and has its transaction committed (strong fairness). This
  is a statement about the queue under willing clients; the code guarantees nothing to others. The
  property admits that a message may stand behind one whose data are gone: poll_request then fails
  (`poll_request.cc:326`). Only the acknowledgement of the message before tells its id (`poll_acknowledgement.cc:47`), and
  that a client acknowledges it unread is possible and not assumed.
* `ResolvedRequestsAreProcessed`: cron starts fred-admin again and it works through its list (weak
  fairness), and a request whose turn comes in run after run is at last processed (strong fairness): a run may be stopped, and
  the commit may fail unnoticed, any number of times, but not every time. The code retries for ever and can promise no more.
* `DeleteKeyIsHonoured`: the server goes on with calls it has begun, and the scanner comes to every domain of its
  lists (weak fairness of each). The property speaks of domains that keep publishing the key; that registrars
  stop linking the domain to keysets in the end is the bound `MaxCommands`.

## 4. Where the code disagrees with what it says

* `blocking_overlap`. blockRegistrar looks at the registrar's oldest record. From the second blocked
  month on it inserts records that overlap, which the comment at `registrar.cc:1505` relies on never
  to happen. unblockRegistrar (line 1574) has the same query: it answers NOT_BLOCKED for a registrar
  that is blocked in a second month.
* `import_twice`. Two concurrent imports of one payment both find it unprocessed and both credit it.
* `cleanup_stale_list`. A domain that lost its deleteCandidate state after the list was made is
  deleted, although the help text speaks of objects "with state delete_candidate".

More was met while modelling and has no run: the windows of mojeID named in section 2, and two others. A payment that read a debt which another import
pays first is credited less than its price, the difference nowhere (`bank_manager.cc:404`); when others paid the
debt twice in between, so that its balance is negative, it even takes credit away. Hence
`CreditedAtMostPrice` claims an upper bound only. And an empty `--object_delete_types` selects all types
(`remove_delete_candidates.cc:137`), while the manual page
`man/fred-admin/cron/object_delete_candidates.rst:59` says that nothing is deleted; the model follows the
code (`SelectsDomains`).

## 5. Proofs

All theorems hold for every value of the constants that satisfies the named assumptions of the
modules. These ask for little: registrars form a finite set, limits, bounds and debts are natural numbers, the account invoice is not the number of an advance, domains that can be blocked form a finite set,
`ExPeriodMin <= ExPeriodMax` and both are positive, every session has a registrar. They are evaluated
by TLC in every run.

**EppLogin_proofs**, first part: the container. IInv is `TypeOK /\ CountConsistent`. Neither limit is inductive without the
counts: login_session compares the count, the property counts sessions. The work is in
`CardinalityWithout` (what removing a set of sessions does to the number of each registrar) and in
`AdmissionPreserves`. Results: `TypeCorrect`, `CountCorrect`, `LimitsHold`, `ThrowsAreUnreachable`, and the action
properties `AdmissionAlwaysCollects` and `LoginIdsAreUsedOnce` (the sequence survives restarts, so the
ids given out only grow).

**EppLogin_proofs**, second part: the login. `ThreadShape` (a thread that works on a login does so for an existing registrar) is
inductive together with the container's IInv; with it each step of the composed system is a step of
the container or leaves it alone.
`ConcurrentLoginsRespectLimits` carries the container's invariants over to interleaved logins.
`RefusalsFindLiveSessions` says that a refused login met a limit filled by sessions that have not timed out: after the collection the
counts are those of the sessions left (`CountCorrect`), and those left are not expired.
`ShutOutStaysOut` needs ShutOutInv: a registrar that counts as shut out is blocked, has no session and no login
under way; the last is what keeps a login that passed the check before the block from opening a
session later. `PasswordIsCurrent` needs PasswordInv: the lock of the `registraracl` row is held by one login at
a time (`OneLoginHoldsTheRow`), and a login past its authentication holds a password that is still the committed one.

**RegistrarBlocking_proofs.** `BlockingKeepsThePromise` is the refinement of BlockedRegistrars, for any number of callers. `blocked` is
mapped to what isRegistrarBlocked answers, so the step that needs an invariant is the passing of time: a record that begins
in the future would block a registrar without a commit. `NothingFromTheFuture` (`RecordsAreOfThePast`) excludes it, because
now() is the start of the transaction. The refinement does not need that records never overlap, which section 4 shows
to be false.

**Billing_proofs**, first part: PaymentImport. A transaction decides by balances it read without a lock. IInv says how such a balance may be out
of date: it is never lower than the committed one (`DebtsRead`), since each commit lowers a balance or makes it zero
(`PaidOff`). With it go `Course` (what is held at which step), `DepositIsNext` (the number taken from the prefix is the next one while its row is locked), `BooksOf` (what a
transaction has credited, or is about to, it took off balances or deposited), `WithinPrice`, and `Apart`: no row is locked by two
transactions. A commit then adds the books of one transaction to those committed. Results: `BooksStaySound`, `PaymentsKeepTheirPrice`.

**Billing_proofs**, second part: Accounting. `AccountsInv` is `TypeOK /\ FeeOncePerPeriod /\ PaymentCreditedOnce`. Its steps are short once the three loops
are understood, and these carry the proof. processPayment's loop over the debts stays in `PayingDebts`: what is left and what was credited make up the price exactly, until the
payment does not cover a debt; that last credit is rounded, and `VatTakenOff` says for every VAT rate that it is wrong by less than a cent with VAT and never
more than the debt it pays, so no balance goes below zero. create_account_invoice's two loops stay in `Pulling`:
what an advance lost is what it paid. The loop over the operations takes them by date and id; `PlacesAreTaken` shows that every place in this order belongs to
one operation, so each is accounted once. `RunTo` and `FollowersRun` turn each loop, a fold of an operator, into
a function of the number of turns, along which an invariant can be carried. The assumptions are those of the module: the VAT rate is a natural number of percent,
prices are natural numbers of cents. Results: `PullOffCovers`, `AccountTypesHold`, `FeesAreChargedOnce`, `PaymentsAreCreditedOnce`.

**Billing_proofs**, third part: the waterfall. `Stairs` is what the loops keep true: an advance is charged only when the older ones are exhausted, the
account invoice only when all are. Within the inner loop `Pouring` goes with it (before the break, the advances passed are empty). Stairs that cover the sum of
the prices can only be the closed form (`IsWaterfall`), because `PullOffCovers` leaves no cent out. The charge map is followed in the same way, row by row (`RowsWithin`, `RowsAfter`).
`LoopsAreWaterfall` says it of all prices and balances, `WaterfallOnInputs` of the inputs that TLC enumerates.

**Billing_proofs**, fourth part: the books. `BooksInv` is the ledger, the sums of the invoices, the bound of the debt and the numbering, said of tables as
values so that they can be compared before and after a step, and one thing more: an operation is accounted to an invoice there is (`AccountedUpTo`), or
the next invoice would find operations that are accounted to it already. Steps are described by what they do to the tables: one row more
(`LongerBy`), balances lowered (`Lowered`), operations accounted (`Invoiced`), credit payments added (`PaidMore`). The facts the loops owe are
`PricesAddUp` (in the order of dates the prices come to the same sum), `DebtsPaidAddUp` (what a payment takes off the debts it also credits) and `PullOffCovers`.
Result: `BooksAlwaysAddUp`.

**Billing_proofs**, fifth part: prepaid work. That no account invoice of a prepaid registrar is ever owed is not inductive, because the advances are
chosen by their tax date, and the credit an operation is charged against knows of no date. `CoverInv` says that for every day the deposits dated up to
it cover the operations up to it that the next default runs will still find (`Covers`), and that nothing is dated later than today (`DatedBy`).
A charge adds to the days from today on only, for which the ledger gives the inequality; the waterfall then says that the invoice is paid and takes
from the deposits what it takes from the waiting operations. A run that makes no invoice leaves its operations behind, which only helps. This is where fees and runs with a range
of their own would break it: both reach into the past. Result: `PrepaidWorkIsCovered`.

**EppDomain_proofs.** All theorems are about `CandidatesSpec`, the EPP commands with the clean-up beside them. IInv is `TypeOK`, `Shape` (what registry, creating and credit are as functions),
`ChecksHold` (what create_domain_check established of a create under way still holds: its period and
validation date were in the horizon when it began, and time only goes on), both horizons, and
that the database keeps names unique (`OneRegistrationPerFqdn`, a lemma here). `ChecksHold` is needed because a create may commit on a later day than its
checks. The type of a date depends on the horizons and the horizons on the types, so they are proved
together. `ReplaceKeepsIInv` and `FewerKeepsIInv` say what replacing and removing a domain preserve; every command is
one lemma on top of them. Results: `TypeCorrect`, `DomainsStayInHorizons`.

On top of IInv, `Books` is the invariant of the bill items and of the log. `charges` is a set, and a sum over a set grows with an item only if it
is new; that it is follows from `PeriodsAreDisjoint` and `PeriodsEndInTime` (paid periods of a domain end at its exdate, and the next
begins there), so tiling and credit are proved together (`Money`). `LogIsSound` ties the logged renewals and deletions to the registry: a date that a
renewal asked for lies before the domain's exdate ever after, which is why a repeated one is refused. Steps that bill nothing share one lemma (`Quiet`). Results:
`BilledPeriodsTile`, `CreditIsSpentOnCharges`, `RenewalsAreNotRepeated`, `SponsorsAndHoldersLearn`; and with `TodoWasListed` the
action properties `CandidatesAreFrozen` and `CleanupKeepsToItsList`.

**PollQueue_proofs.** IInv is `TypeOK`, `AcknowledgedOnce`, `OwnMessagesOnly` and `UpdateHoldsRow`: a session
between its UPDATE and its commit is the only one there for its message, which is unseen. Without
that conjunct two commits could count. `OwnMessagesOnly` is about the condition on the registrar in the UPDATE: the ids
clients send are any. Results: `MessagesAcknowledgedOnce`, `SessionsSeeOwnMessages`.

**AutomaticKeysets_proofs.** IInv is `TypeOK`, `LinkedKeysetsExist` (a domain is linked only to a keyset that exists:
delete_keyset refuses one in use, and a new one is linked in the transaction that creates it) and
`CallsKnow` (what a call has established by its unlocked reads when it comes to the lock: the kind of keyset the domain had and, for a domain without keys, that
the name servers it saw are those of the scan). The action property then follows step by step; without `CallsKnow` the
write could not be related to what was read. Results: `TypeCorrect`, `NoDanglingKeyset`, `LinksAreCurrent`.

**MojeId_proofs.** The safety properties of mojeID are not inductive, because a commit and the performing of its
state requests are two steps. IInv adds three things to them: `WantedInForce` (every requested state is in force, so only a
cancellation can be late), `OneHoldsContact` (a prepared transaction and an update_transfer that reads hold the row of the
contact, one at a time), and `CallsKnow` (what a call that read the states before it locked them may still count
on: every state there is now was seen, or is among the raced ones). `BuildsOnIdentification` says the same of
what registration and transfer rely on. The exceptions of `VerifiedStayCurrent` are those of `KeptByRule` and the raced states, no others. Results: `AccountsStaySound`, `ValidatedStayAccounts`, `VerifiedStayCurrent`,
`AccountsStayIdentified`, `GrantsAreNeverLate`.

The PIN3 letters take a second invariant on top of IInv, `LInv`: unless one of the exceptions that LetterMatchesAddress names has happened (`Excused`, which
never ends), a contact has one open letter at a time (`OneLetterIsOpen`), of the kind that fits whether the account was ever identified, and no letter is misaddressed but by
update_validated_contact_prepare. The
kind is chosen when an update is prepared and used when it commits; `KnowsLetters` says that it is still right then, because the prepared
update holds the requests of the contact. `AccountsKeepTheirMark` keeps the verification service from opening a conditional identification of its own beside
the one of mojeID. Result: `LettersStayAddressed`.

**AdminBlocking_proofs.** IInv is `Shapes`, `HoldersExist`, `DomainsAreTidy` and `ContactsAreTidy` (for each object, what the holder asked for is
what is in force, or what is to be restored) and `BrowserKnows`: between its reads and its writes a call of
setObjectBlockStatus finds its domain still in the register and not blocked, and it has seen no update lock when it
removes a transfer lock alone. Without `BrowserKnows` the writes could land on a blocked domain; it holds because
every administrative and EPP step takes the row the browser holds FOR SHARE, and the nightly end of blocks touches blocked domains only.
Lemmas about `Blocked`, `Restored` and `Granted` carry the steps. Results: `LocksOutliveBlocks`,
`UpdateLockIsNeverAlone`, `DomainsKeepHolders`, `BrowserFindsWhatItRead`.

That CopyOwnerHandle gives a new handle (`CopyIsNew`) rests on the order of names as texts: `Before` is total and transitive, so the
copies of a handle, if they are finitely many, have a last one (`LastExists`), and the name made from it comes after all of them, unless its index is the first
that is too long; that one exception the theorem keeps, because there the code proposes a name that may exist. `Names` keeps what this
needs: handles are not empty, and there are finitely many copies, since a step makes at most one for each domain. The assumption that `Domains` is finite is used only here.
`Frame` holds the remaining types. Results: `TypesHold`, `CopiesGetNewHandles`, and the action properties `HoldersAreFreed` and `SiblingsKeepTheirBlock`.

Sums and maxima. The library's induction theorems cannot be used here, because they take an operator as a parameter. The facts about
sums over finite sets (EppDomain_proofs), over sequences (Billing_proofs) and about the last copy (AdminBlocking_proofs) are proved by
smallest counterexample instead: the set of the cases that fail is a set like any other, and finite subsets and natural numbers
are well-founded.

Only model-checked: the liveness properties `EveryImportEnds`, `MessagesAreRead`, `ResolvedRequestsAreProcessed` and
`DeleteKeyIsHonoured` (fairness is outside the prover's reach), and the three expected violations. Every invariant and every
action property of the passing runs, and the refinement of BlockedRegistrars, are proved for all values of the constants.

## 6. What is left out

* Wording, languages, certificates, the action log, mail, PDF and XML: they decide nothing modelled.
* Commands that change nothing (check, info, hello) and those whose effect is an e-mail
  (send-authinfo).
* SQL inside libfred; the modules say what is relied on, above all the unique index on registered
  names and the row lock of `InfoDomain...set_lock`.
* In Accounting a billing run is one step; two at the same time are not modelled. Renewals for parts
  of a year, zones with fractional years and more than 99,999 invoices a year are not either.
* In EppDomain the references of a domain are constants and the runs keep them few. AutomaticKeysets
  has the rule that clears the keyset with a new nsset, and the deletion of keysets.
* Clean-up of contacts, nssets and keysets takes the same path as that of domains and is not repeated.
* Public requests for authinfo and personal information, record statements, whois: they end in a document or an answer.
* The automatic tests of contact checks, which only suggest a result; letters and their limits.
* `bin/cli/handle_adminclientselection_args.hh`, `bin/corba/admin`, `deprecated/util` and much of `deprecated/libfred`
  (filters, lists and page tables) are argument parsing, CORBA conversion and query building. They hold
  a large part of the repository's lines and no state of their own, so the modules cover a small share of all
  lines and most of the code that decides what the registry holds.

## 7. Plan

Done, in the order of importance: sessions and login; blocking; accounts and payments; domain
commands; clean-up; poll; mojeID with contact verification; administrative blocking with public requests and the
domain browser; automatic keyset management.

Next in the models: two billing runs of one zone at the same time, and charges that commit after the run of
their day; nssets and contacts deleted while a domain command refers to them.

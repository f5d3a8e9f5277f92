-------------------------------- MODULE EppDomain --------------------------------
(***************************************************************************)
(* The life of domains in one zone: the EPP commands that change a domain  *)
(* (backend/epp/domain/{create,renew,transfer,delete,update}_domain.cc),   *)
(* what they bill (impl/domain_billing.cc), the poll messages and the      *)
(* e-mail notifications they leave behind.                                 *)
(*                                                                         *)
(* Every command but create locks the domain's row with InfoDomain's       *)
(* set_lock before it reads anything it decides on and holds the lock      *)
(* until it commits, so a successful command is one step here.  A command  *)
(* that throws rolls back everything, its bill items included: it is no    *)
(* step at all.  create_domain has no row to lock: its checks and its      *)
(* INSERT are two steps, and creates of one name may interleave.           *)
(*                                                                         *)
(* The notification is enqueued in a second transaction after the commit.  *)
(* Nothing reads the queue in between, so a command's step also decides    *)
(* whether its notification gets there (see Notify).                       *)
(*                                                                         *)
(* Dates, and the periods of the zone, are counted in one unit.            *)
(***************************************************************************)
EXTENDS Integers, FiniteSets, Functions, FiniteSetsExt

CONSTANTS
    Registrars,
    SystemRegistrars,   \* registrar.system: may act on every domain
    InternalRegistrars, \* registrar.is_internal
    OperationsCharging, \* rifd_epp_operations_charging
    AccessTodate,       \* registrar -> last date of its access to the zone
    Fqdns,              \* names of the zone that pass its syntax and blacklist checks
    Contacts, Nssets, Keysets,  \* the registered ones; others are refused
    None, Keep,         \* an unset reference or date; a field update leaves alone
    ExPeriodMin, ExPeriodMax,   \* zone.ex_period_min, ex_period_max
    YearLength,
    AdminLists,         \* the lists of admin contacts commands carry, without duplicates
    Periods,            \* the periods commands ask for; 0 when the client gives none
    IsEnum, EnumValidationPeriod, ContinuationWindow,
    RegistrationProtection,     \* time from exdate to deleteCandidate
    ProhibitionSets,    \* sets of server*Prohibited states operators put on a domain
    CreatePrice, RenewPrice, Postpaid, InitialCredit,
    KeysetClear,        \* rifd_epp_update_domain_keyset_clear
    MaxDate, MaxId, MaxHistory, \* bounds on the calendar and on the two sequences
    MaxOpenCreates      \* bound on the creates between their checks and their commit

Prohibitions == {"serverRenewProhibited", "serverTransferProhibited",
    "serverUpdateProhibited", "serverDeleteProhibited",
    "serverRegistrantChangeProhibited"}

ASSUME DomainAssumption ==
    /\ SystemRegistrars \subseteq Registrars
    /\ InternalRegistrars \subseteq Registrars
    /\ OperationsCharging \in BOOLEAN
    /\ AccessTodate \in [Registrars -> Int]
    /\ ExPeriodMin \in Nat \ {0}
    /\ ExPeriodMax \in Nat
    /\ ExPeriodMin <= ExPeriodMax
    /\ YearLength \in Nat \ {0}
    /\ Periods \subseteq Nat
    /\ IsEnum \in BOOLEAN
    /\ EnumValidationPeriod \in Nat
    /\ ContinuationWindow \in Nat
    /\ RegistrationProtection \in Nat
    /\ ProhibitionSets \subseteq SUBSET Prohibitions
    /\ CreatePrice \in Nat
    /\ RenewPrice \in Nat
    /\ Postpaid \in BOOLEAN
    /\ InitialCredit \in Int
    /\ KeysetClear \in BOOLEAN
    /\ AdminLists \subseteq SUBSET Contacts
    /\ MaxDate \in Nat /\ MaxId \in Nat /\ MaxHistory \in Nat
    /\ None \notin Nat \cup Nssets \cup Keysets
    /\ Keep \notin Nat \cup Contacts \cup Nssets \cup Keysets \cup {None}

VARIABLES
    today,
    registry,       \* id -> domain, for the registered ids only
    nextId,         \* the object id sequence
    nextHistory,    \* the history id sequence
    log,            \* history: who did what to which domain, and its sponsor before
    credit,         \* registrar_credit
    charges,        \* invoice_operation
    poll,           \* poll messages
    creating,       \* registrar -> a create_domain past its checks, or None
    notified        \* notification_queue

domainVars == <<today, registry, nextId, nextHistory, log, credit, charges, poll,
    creating, notified>>

Dates == 0..MaxDate

\* Dates that periods can lead to from a date of the calendar.
FarDates == 0..(MaxDate + ExPeriodMax + EnumValidationPeriod + ContinuationWindow)

Domain == [fqdn : Fqdns, registrar : Registrars, crdate : Dates, exdate : FarDates,
    valexdate : FarDates \cup {None}, registrant : Contacts,
    admins : SUBSET Contacts, nsset : Nssets \cup {None},
    keyset : Keysets \cup {None}, states : SUBSET (Prohibitions \cup {"deleteCandidate"}),
    history : Nat]

System(r) == r \in SystemRegistrars

IsRegistered(fqdn) == \E id \in DOMAIN registry : registry[id].fqdn = fqdn

\* LibFred::is_zone_accessible_by_registrar
ZoneAccessible(r) == today <= AccessTodate[r]

Sponsors(r, id) == registry[id].registrar = r

Prohibited(id, states) == registry[id].states \cap states # {}

----------------------------------------------------------------------------
(* Periods and prices *)

\* A command without a period asks for the shortest one.
EffectivePeriod(period) == IF period = 0 THEN ExPeriodMin ELSE period

PeriodValid(period) ==
    /\ EffectivePeriod(period) \in ExPeriodMin..ExPeriodMax
    /\ EffectivePeriod(period) % ExPeriodMin = 0

MutInContinuationWindow(current) == current # None /\ today < current

InContinuationWindow(current) ==
    current # None /\ today >= current - ContinuationWindow /\ today < current

\* is_new_enum_domain_validation_expiration_date_invalid, negated: a validation
\* may be prolonged from its end on once that is within the continuation window.
NewValexdateValid(new, current) ==
    LET continues == InContinuationWindow(current)
        from == IF continues THEN current ELSE today
    IN  new > today /\ new <= from + EnumValidationPeriod

\* Bill items count whole years.
RenewalPrice(period) == (period \div YearLength) * RenewPrice

Charged(r) == OperationsCharging /\ ~System(r) /\ r \notin InternalRegistrars

\* Both bill items check the credit as the items before them left it.
CanPay(balance, price) == price = 0 \/ balance >= price \/ Postpaid

Charge(r, id, op, from, to, price) ==
    [registrar |-> r, id |-> id, op |-> op, from |-> from, to |-> to, price |-> price]

\* asked is the curExpDate of a renew command, which the request log keeps.
LogRow(event, history, id, r, sponsor, asked) ==
    [event |-> event, history |-> history, id |-> id, actor |-> r, sponsor |-> sponsor,
     asked |-> asked]

PollMessage(to, type, history) == [to |-> to, type |-> type, history |-> history]

Notification(event, history) == [event |-> event, history |-> history]

\* conditionally_enqueue_notification after the commit.  The notification is left
\* out when notification is disabled, when the system registrar asks for silence,
\* when enqueueing fails (all exceptions are swallowed) and when rifd stops first.
Notify(event, history) ==
    \/ notified' = notified \cup {Notification(event, history)}
    \/ UNCHANGED notified

----------------------------------------------------------------------------
Init ==
    /\ today = 0
    /\ registry = <<>>
    /\ nextId = 1
    /\ nextHistory = 1
    /\ log = {}
    /\ credit = [r \in Registrars |-> InitialCredit]
    /\ charges = {}
    /\ poll = {}
    /\ creating = [r \in Registrars |-> None]
    /\ notified = {}

NextDay ==
    /\ today < MaxDate
    /\ today' = today + 1
    /\ UNCHANGED <<registry, nextId, nextHistory, log, credit, charges, poll,
                   creating, notified>>

\* What a create_domain command may carry.
CreateInput == [fqdn : Fqdns, period : Periods, registrant : Contacts,
    admins : AdminLists, nsset : Nssets \cup {None}, keyset : Keysets \cup {None},
    valexdate : Dates \cup {None}]

\* create_domain up to its try block: every check, on what is committed now.
create_domain_check(r, in) ==
    /\ creating[r] = None
    /\ Cardinality({q \in Registrars : creating[q] # None}) < MaxOpenCreates
    /\ ~IsRegistered(in.fqdn)
    /\ ZoneAccessible(r)
    /\ PeriodValid(in.period)
    /\ IsEnum <=> in.valexdate # None
    /\ IsEnum => NewValexdateValid(in.valexdate, None)
    /\ creating' = [creating EXCEPT ![r] = [input |-> in, start |-> today]]
    /\ UNCHANGED <<today, registry, nextId, nextHistory, log, credit, charges, poll,
                   notified>>

NewDomain(r, in, start) ==
    [fqdn |-> in.fqdn, registrar |-> r, crdate |-> start,
     exdate |-> start + EffectivePeriod(in.period), valexdate |-> in.valexdate,
     registrant |-> in.registrant, admins |-> in.admins, nsset |-> in.nsset,
     keyset |-> in.keyset, states |-> {}, history |-> nextHistory]

\* What the unique index on registered names leaves to insert: create_domain's own
\* check, made earlier and without a lock, does not keep a second create out.
NameFree(fqdn) == ~IsRegistered(fqdn)

\* CreateDomain inserts the domain, then the registration and its first period
\* are billed one after the other; the date is that of the transaction's start.
create_domain(r) ==
    /\ creating[r] # None
    /\ nextId <= MaxId
    /\ nextHistory <= MaxHistory
    /\ LET in == creating[r].input
           start == creating[r].start
           period == EffectivePeriod(in.period)
           renewal == RenewalPrice(period)
       IN  /\ NameFree(in.fqdn)
           /\ Charged(r) => /\ CanPay(credit[r], CreatePrice)
                            /\ CanPay(credit[r] - CreatePrice, renewal)
           /\ registry' = [id \in DOMAIN registry \cup {nextId} |->
                  IF id = nextId THEN NewDomain(r, in, start) ELSE registry[id]]
           /\ log' = log \cup {LogRow("create", nextHistory, nextId, r, r, None)}
           /\ IF Charged(r)
              THEN /\ credit' = [credit EXCEPT ![r] = @ - CreatePrice - renewal]
                   /\ charges' = charges \cup
                        {Charge(r, nextId, "CreateDomain", start, start, CreatePrice),
                         Charge(r, nextId, "RenewDomain", start, start + period, renewal)}
              ELSE UNCHANGED <<credit, charges>>
    /\ Notify("create", nextHistory)
    /\ creating' = [creating EXCEPT ![r] = None]
    /\ nextId' = nextId + 1
    /\ nextHistory' = nextHistory + 1
    /\ UNCHANGED <<today, poll>>

MutCreateDomainFails(r) ==
    /\ creating[r] # None
    /\ creating' = [creating EXCEPT ![r] = None]
    /\ credit' = IF Charged(r) /\ CanPay(credit[r], CreatePrice)
                 THEN [credit EXCEPT ![r] = @ - CreatePrice] ELSE credit
    /\ UNCHANGED <<today, registry, nextId, nextHistory, log, charges, poll, notified>>

\* The name was registered meanwhile, a bill item throws BillingFailure, or the
\* database fails: all of it is rolled back, but for the id sequences.
create_domain_fails(r) ==
    /\ creating[r] # None
    /\ creating' = [creating EXCEPT ![r] = None]
    /\ UNCHANGED <<today, registry, nextId, nextHistory, log, credit, charges, poll,
                   notified>>

\* The part every other command shares: it locks a domain, replaces it by a new
\* version and logs who did that; the notification follows.
NewVersion(r, id, event, domain, asked) ==
    /\ nextHistory <= MaxHistory
    /\ registry' = [registry EXCEPT ![id] = [domain EXCEPT !.history = nextHistory]]
    /\ log' = log \cup {LogRow(event, nextHistory, id, r, registry[id].registrar, asked)}
    /\ nextHistory' = nextHistory + 1
    /\ Notify(event, nextHistory)

MutCurrentExdate(domain, curExpDate) == curExpDate <= domain.exdate

\* The client must know the date it renews from.
CurrentExdate(domain, curExpDate) == curExpDate = domain.exdate

ExdateAllowed(new) == new <= today + ExPeriodMax

MutBilledFrom(domain) == today

\* The period that is billed starts where the one before ended.
BilledFrom(domain) == domain.exdate

\* valexdate is Keep when the command has no ENUM extension.
renew_domain(r, id, curExpDate, period, valexdate) ==
    LET domain == registry[id]
        length == EffectivePeriod(period)
        new == domain.exdate + length
    IN
    /\ ZoneAccessible(r)
    /\ CurrentExdate(domain, curExpDate)
    /\ PeriodValid(period)
    /\ ExdateAllowed(new)
    /\ valexdate # Keep => IsEnum /\ NewValexdateValid(valexdate, domain.valexdate)
    /\ Sponsors(r, id) \/ System(r)
    /\ System(r) \/ ~Prohibited(id, {"serverRenewProhibited", "deleteCandidate"})
    /\ NewVersion(r, id, "renew", [domain EXCEPT !.exdate = new,
            !.valexdate = IF valexdate = Keep THEN @ ELSE valexdate], curExpDate)
    /\ IF Charged(r)
       THEN /\ CanPay(credit[r], RenewalPrice(length))
            /\ credit' = [credit EXCEPT ![r] = @ - RenewalPrice(length)]
            /\ charges' = charges \cup
                 {Charge(r, id, "RenewDomain", BilledFrom(domain), new, RenewalPrice(length))}
       ELSE UNCHANGED <<credit, charges>>
    /\ UNCHANGED <<today, nextId, poll, creating>>

MutTransferProhibiting == {"serverTransferProhibited"}

TransferProhibiting == {"serverTransferProhibited", "deleteCandidate"}

\* LibFred::TransferDomain throws unless the password is the domain's authinfo;
\* a command with a wrong one is no step.  The poll message goes to the
\* registrar that loses the domain.
transfer_domain(r, id) ==
    /\ ZoneAccessible(r)
    /\ ~Sponsors(r, id)
    /\ System(r) \/ ~Prohibited(id, TransferProhibiting)
    /\ NewVersion(r, id, "transfer", [registry[id] EXCEPT !.registrar = r], None)
    /\ poll' = poll \cup {PollMessage(registry[id].registrar, "transfer", nextHistory)}
    /\ UNCHANGED <<today, nextId, credit, charges, creating>>

MutTellSponsor(r, id, type, history) ==
    poll' = IF Sponsors(r, id) THEN poll \cup {PollMessage(r, type, history)} ELSE poll

\* A poll message for the sponsor unless the sponsor itself acts.
TellSponsor(r, id, type, history) ==
    poll' = IF Sponsors(r, id) THEN poll
            ELSE poll \cup {PollMessage(registry[id].registrar, type, history)}

LastVersion(id) == registry[id].history

\* delete_domain answers with, and notifies about, the last version there was.
delete_domain(r, id) ==
    LET history == LastVersion(id)
    IN
    /\ ZoneAccessible(r)
    /\ Sponsors(r, id) \/ System(r)
    /\ System(r) \/ ~Prohibited(id, {"serverUpdateProhibited", "serverDeleteProhibited",
                                     "deleteCandidate"})
    /\ registry' = Restrict(registry, DOMAIN registry \ {id})
    /\ log' = log \cup {LogRow("delete", registry[id].history, id, r, registry[id].registrar, None)}
    /\ TellSponsor(r, id, "delete", history)
    /\ Notify("delete", history)
    /\ UNCHANGED <<today, nextId, nextHistory, credit, charges, creating>>

\* What an update_domain command may carry.
UpdateInput == [registrant : Contacts \cup {Keep}, nsset : Nssets \cup {None, Keep},
    keyset : Keysets \cup {None, Keep}, add : AdminLists, rem : AdminLists,
    valexdate : Dates \cup {Keep}]

Changed(old, new) == IF new = Keep THEN old ELSE new

\* A change to another nsset unsets the keyset the command does not mention.
NewKeyset(domain, in) ==
    IF KeysetClear /\ in.nsset \notin {Keep, None, domain.nsset} /\ in.keyset = Keep
    THEN None
    ELSE Changed(domain.keyset, in.keyset)

update_domain(r, id, in) ==
    LET domain == registry[id]
    IN
    /\ ZoneAccessible(r)
    /\ in.valexdate # Keep => IsEnum /\ NewValexdateValid(in.valexdate, domain.valexdate)
    /\ Sponsors(r, id) \/ System(r)
    /\ System(r) \/ ~Prohibited(id, {"serverUpdateProhibited", "deleteCandidate"})
    /\ in.add \cap domain.admins = {}
    /\ in.rem \subseteq domain.admins
    /\ in.registrant # Keep =>
         System(r) \/ ~Prohibited(id, {"serverRegistrantChangeProhibited"})
    /\ NewVersion(r, id, "update", [domain EXCEPT
            !.registrant = Changed(@, in.registrant),
            !.nsset = Changed(@, in.nsset),
            !.keyset = NewKeyset(domain, in),
            !.admins = (@ \cup in.add) \ in.rem,
            !.valexdate = Changed(@, in.valexdate)], None)
    /\ TellSponsor(r, id, "update", nextHistory)
    /\ UNCHANGED <<today, nextId, credit, charges, creating>>

\* An operator, a public request or administrative blocking changes the
\* server*Prohibited states of a domain.
RequestStates(id, states) ==
    /\ registry' = [registry EXCEPT ![id].states = (@ \ Prohibitions) \cup states]
    /\ UNCHANGED <<today, nextId, nextHistory, log, credit, charges, poll, creating,
                   notified>>

\* SELECT update_object_states(0): the states that follow from dates.
updateObjectStates ==
    /\ registry' = [id \in DOMAIN registry |-> [registry[id] EXCEPT !.states =
           (@ \ {"deleteCandidate"}) \cup
           (IF today >= registry[id].exdate + RegistrationProtection
            THEN {"deleteCandidate"} ELSE {})]]
    /\ UNCHANGED <<today, nextId, nextHistory, log, credit, charges, poll, creating,
                   notified>>

DomainNext ==
    \/ NextDay
    \/ updateObjectStates
    \/ \E r \in Registrars : \/ \E in \in CreateInput : create_domain_check(r, in)
                             \/ create_domain(r)
                             \/ create_domain_fails(r)
    \/ \E r \in Registrars, id \in DOMAIN registry :
         \/ \E curExpDate \in FarDates, period \in Periods, valexdate \in Dates \cup {Keep} :
              renew_domain(r, id, curExpDate, period, valexdate)
         \/ transfer_domain(r, id)
         \/ delete_domain(r, id)
         \/ \E in \in UpdateInput : update_domain(r, id, in)
    \/ \E id \in DOMAIN registry, states \in ProhibitionSets : RequestStates(id, states)

Spec == Init /\ [][DomainNext]_domainVars

----------------------------------------------------------------------------
(* Properties *)

\* The variables have their types, and no version or id is ahead of its sequence.
TypeOK ==
    /\ today \in Dates
    /\ DOMAIN registry \subseteq 1..(nextId - 1)
    /\ \A id \in DOMAIN registry : registry[id] \in Domain /\ registry[id].history < nextHistory
    /\ nextId \in 1..(MaxId + 1)
    /\ nextHistory \in 1..(MaxHistory + 1)
    /\ credit \in [Registrars -> Int]
    /\ \A r \in Registrars :
         creating[r] # None => creating[r].input \in CreateInput /\ creating[r].start \in 0..today

Renewals(id) == {c \in charges : c.id = id /\ c.op = "RenewDomain"}

ActedOn(id, event) == {row.actor : row \in {l \in log : l.id = id /\ l.event = event}}

\* What was billed for a domain is exactly the time it was registered for: no two
\* billed periods overlap, none reaches past exdate, and unless a registrar that
\* is not billed created or renewed it, they cover it from crdate to exdate, with
\* one registration fee.
PaidPeriodsTile ==
    /\ \A c, d \in charges : c.op = "RenewDomain" /\ d.op = "RenewDomain" /\ c.id = d.id =>
         c = d \/ c.to <= d.from \/ d.to <= c.from
    /\ \A id \in DOMAIN registry :
         /\ \A c \in Renewals(id) : c.to <= registry[id].exdate
         /\ (\A r \in ActedOn(id, "create") \cup ActedOn(id, "renew") : Charged(r)) =>
              /\ MapThenSumSet(LAMBDA c : c.to - c.from, Renewals(id))
                   = registry[id].exdate - registry[id].crdate
              /\ \E c \in charges : c.id = id /\ c.op = "CreateDomain"

\* The credit of a registrar is what it had less what its billed operations cost:
\* a create whose second bill item fails takes nothing.
CreditMatchesCharges ==
    \A r \in Registrars :
        credit[r] = InitialCredit
            - MapThenSumSet(LAMBDA c : c.price, {c \in charges : c.registrar = r})

\* No sequence of creates and renewals registers a domain for longer ahead than
\* the zone allows.
RenewalHorizon ==
    \A id \in DOMAIN registry : registry[id].exdate <= today + ExPeriodMax

\* However often an ENUM validation is prolonged, it never reaches further than
\* the continuation window and one validation period ahead.
ValidationHorizon ==
    \A id \in DOMAIN registry : registry[id].valexdate # None =>
        registry[id].valexdate <= today + ContinuationWindow + EnumValidationPeriod

\* Both at once, for whatever creates, renewals and updates a domain has seen.
HorizonsHold == RenewalHorizon /\ ValidationHorizon

\* A renew command that is sent again, its answer lost, does not renew again:
\* curExpDate admits one renewal only.
RetriedRenewalIsRefused ==
    \A a, b \in log : a.event = "renew" /\ b.event = "renew" /\ a.id = b.id =>
        a = b \/ a.asked # b.asked

\* Whenever another registrar updated, deleted or took over a domain, its sponsor
\* at that time has a poll message about that version.
SponsorLearnsOfForeignChange ==
    \A row \in log : row.event \in {"update", "delete", "transfer"} /\ row.actor # row.sponsor =>
        PollMessage(row.sponsor, row.event, row.history) \in poll

\* The notifier finds the version every queued notification names.
NotifiedVersionsExist ==
    \A n \in notified :
        \E row \in log : row.event = n.event /\ row.history = n.history

\* What the commands leave for others to read agrees with what they did, in
\* whichever order transfers, updates and deletes came: the sponsors' poll messages
\* and the notifications, which are enqueued after the commit.
ChangesAreAnnounced == SponsorLearnsOfForeignChange /\ NotifiedVersionsExist

\* A domain marked deleteCandidate stays as it is until the mark is taken away or
\* the domain is gone: its registrar, holder and dates change through the system
\* registrar only.
FrozenDomainsStay ==
    [][\A id \in DOMAIN registry :
          "deleteCandidate" \in registry[id].states =>
              \/ id \in DOMAIN registry' /\ registry'[id].history = registry[id].history
              \/ id \notin DOMAIN registry' /\ UNCHANGED log   \* the clean-up
              \/ \E row \in log' \ log : row.id = id /\ System(row.actor)]_domainVars
==================================================================================

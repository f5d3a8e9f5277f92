----------------------------- MODULE EppDomain_proofs -----------------------------
(***************************************************************************)
(* What the EPP domain commands keep for any zone, registrars, prices and  *)
(* calendar, the clean-up of delete candidates running beside them.        *)
(*                                                                         *)
(* The registry (IInv).  RenewalHorizon and ValidationHorizon are not      *)
(* inductive alone, because a create_domain checks its period and its      *)
(* validation date in one step and inserts the domain in a later one,      *)
(* possibly on another day.  ChecksHold says what is still true of the     *)
(* checked command then.  TypeOK needs the horizons in turn: they bound    *)
(* the dates.                                                              *)
(*                                                                         *)
(* The books (Books).  charges is a set, so a bill item counts only if it  *)
(* is not there yet; that no item is written twice follows from the tiling *)
(* of the paid periods, and the tiling from exdate growing with every      *)
(* renewal.  The sums over charges are those of MapThenSumSet, for sets of *)
(* any size: the lemmas on SumOf derive what is needed of them by taking a *)
(* smallest set for which a claim fails.                                   *)
(***************************************************************************)
EXTENDS DeleteCandidates, FiniteSetTheorems, TLAPS

Shape ==
    /\ registry = [id \in DOMAIN registry |-> registry[id]]
    /\ creating = [r \in Registrars |-> creating[r]]

\* A create_domain past its checks asks for a period the zone allows and for a
\* validation that is in reach today, if it was in reach when it was checked.
ChecksHold ==
    \A r \in Registrars : creating[r] # None =>
        /\ PeriodValid(creating[r].input.period)
        /\ creating[r].input.valexdate # None =>
             creating[r].input.valexdate <= today + EnumValidationPeriod

\* The part of the invariant that is about one registered domain.
Sound(d, date, history) ==
    /\ d \in Domain
    /\ d.history < history
    /\ d.exdate <= date + ExPeriodMax
    /\ d.valexdate # None => d.valexdate <= date + ContinuationWindow + EnumValidationPeriod

\* What the unique index keeps true.
OneRegistrationPerFqdn ==
    \A i, j \in DOMAIN registry : registry[i].fqdn = registry[j].fqdn => i = j

IInv ==
    /\ TypeOK
    /\ Shape
    /\ ChecksHold
    /\ RenewalHorizon
    /\ ValidationHorizon
    /\ OneRegistrationPerFqdn

----------------------------------------------------------------------------
LEMMA SoundDomains ==
    ASSUME IInv
    PROVE  \A id \in DOMAIN registry : Sound(registry[id], today, nextHistory)
  BY DEF IInv, TypeOK, RenewalHorizon, ValidationHorizon, Sound

\* A domain stays sound as time and the history sequence go on.
LEMMA SoundLater ==
    ASSUME NEW d, NEW date \in Dates, NEW later \in Dates, date <= later,
           NEW history \in Nat, NEW more \in Nat, history <= more,
           Sound(d, date, history)
    PROVE  Sound(d, later, more)
<1>1. d.exdate \in Int /\ d.history \in Nat /\ (d.valexdate # None => d.valexdate \in Int)
  BY DomainAssumption DEF Sound, Domain, FarDates
<1>2. date \in Int /\ later \in Int
  BY DEF Dates
<1>3. QED
  BY <1>1, <1>2, DomainAssumption DEF Sound

\* The dates a sound domain has are dates of the model.
LEMMA InHorizon ==
    ASSUME NEW date \in Dates, NEW x \in Nat,
           \/ x <= date + ExPeriodMax
           \/ x <= date + ContinuationWindow + EnumValidationPeriod
    PROVE  x \in FarDates
  BY DomainAssumption DEF Dates, FarDates

\* What every action has to show: its new registry is sound, names stay unique,
\* and the other variables keep their shape.
LEMMA IInvFromParts ==
    ASSUME IInv,
           today' \in Dates, today <= today',
           nextId' \in 1..(MaxId + 1), nextHistory' \in 1..(MaxHistory + 1),
           credit' \in [Registrars -> Int],
           registry' = [id \in DOMAIN registry' |-> registry'[id]],
           DOMAIN registry' \subseteq 1..(nextId' - 1),
           \A id \in DOMAIN registry' : Sound(registry'[id], today', nextHistory'),
           \A i, j \in DOMAIN registry' : registry'[i].fqdn = registry'[j].fqdn => i = j,
           creating' = [r \in Registrars |-> creating'[r]],
           \A r \in Registrars : creating'[r] \in {creating[r], None}
    PROVE  IInv'
<1>1. TypeOK'
  <2>1. \A r \in Registrars : creating'[r] # None =>
          creating'[r].input \in CreateInput /\ creating'[r].start \in 0..today'
    <3>1. today \in Int /\ today' \in Int
      BY DEF IInv, TypeOK, Dates
    <3>2. QED
      BY <3>1 DEF IInv, TypeOK
  <2>2. QED
    BY <2>1 DEF TypeOK, Sound
<1>2. Shape'
  BY DEF Shape
<1>3. ChecksHold'
  <2> SUFFICES ASSUME NEW r \in Registrars, creating'[r] # None
               PROVE  /\ PeriodValid(creating'[r].input.period)
                      /\ creating'[r].input.valexdate # None =>
                           creating'[r].input.valexdate <= today' + EnumValidationPeriod
    BY DEF ChecksHold
  <2>1. creating'[r] = creating[r] /\ creating[r] # None
    OBVIOUS
  <2>2. PeriodValid(creating[r].input.period)
    BY <2>1 DEF IInv, ChecksHold
  <2>3. ASSUME creating[r].input.valexdate # None
        PROVE  creating[r].input.valexdate <= today' + EnumValidationPeriod
    <3>1. creating[r].input.valexdate <= today + EnumValidationPeriod
      BY <2>1, <2>3 DEF IInv, ChecksHold
    <3>2. creating[r].input.valexdate \in Int
      BY <2>1, <2>3 DEF IInv, TypeOK, CreateInput, Dates
    <3>3. today \in Int /\ today' \in Int
      BY DEF IInv, TypeOK, Dates
    <3>4. QED
      BY <3>1, <3>2, <3>3, DomainAssumption
  <2>4. QED
    BY <2>1, <2>2, <2>3
<1>4. RenewalHorizon' /\ ValidationHorizon'
  BY DEF RenewalHorizon, ValidationHorizon, Sound
<1>5. OneRegistrationPerFqdn'
  BY DEF OneRegistrationPerFqdn
<1>6. QED
  BY <1>1, <1>2, <1>3, <1>4, <1>5 DEF IInv

\* Commands that replace one domain by a new version of the same name.
LEMMA ReplaceKeepsIInv ==
    ASSUME IInv, NEW id \in DOMAIN registry, NEW d,
           Sound(d, today, nextHistory'), d.fqdn = registry[id].fqdn,
           registry' = [registry EXCEPT ![id] = d],
           nextHistory' \in 1..(MaxHistory + 1), nextHistory <= nextHistory',
           credit' \in [Registrars -> Int],
           UNCHANGED <<today, nextId, creating>>
    PROVE  IInv'
<1>1. /\ today \in Dates /\ nextId \in 1..(MaxId + 1) /\ nextHistory \in Nat
      /\ DOMAIN registry \subseteq 1..(nextId - 1)
      /\ today <= today'
  BY DEF IInv, TypeOK, Dates
<1>2. /\ DOMAIN registry' = DOMAIN registry
      /\ registry'[id] = d
      /\ \A i \in DOMAIN registry \ {id} : registry'[i] = registry[i]
      /\ registry' = [i \in DOMAIN registry' |-> registry'[i]]
  BY DEF IInv, Shape
<1>3. \A i \in DOMAIN registry' : Sound(registry'[i], today', nextHistory')
  <2> SUFFICES ASSUME NEW i \in DOMAIN registry, i # id
               PROVE  Sound(registry[i], today, nextHistory')
    BY <1>2
  <2>1. Sound(registry[i], today, nextHistory)
    BY SoundDomains
  <2>2. nextHistory' \in Nat
    OBVIOUS
  <2>3. today <= today
    BY <1>1 DEF Dates
  <2>4. QED
    BY <1>1, <2>1, <2>2, <2>3, SoundLater
<1>4. \A i, j \in DOMAIN registry' : registry'[i].fqdn = registry'[j].fqdn => i = j
  <2>1. \A i \in DOMAIN registry' : registry'[i].fqdn = registry[i].fqdn
    BY <1>2
  <2>2. QED
    BY <1>2, <2>1 DEF IInv, OneRegistrationPerFqdn
<1>5. creating' = [r \in Registrars |-> creating'[r]]
  BY DEF IInv, Shape
<1>6. QED
  BY <1>1, <1>2, <1>3, <1>4, <1>5, IInvFromParts

\* What a version of a domain is by its fields.
LEMMA DomainFields ==
    ASSUME NEW d \in Domain
    PROVE  /\ d.fqdn \in Fqdns /\ d.registrar \in Registrars /\ d.crdate \in Dates
           /\ d.exdate \in FarDates /\ d.valexdate \in FarDates \cup {None}
           /\ d.registrant \in Contacts /\ d.admins \in SUBSET Contacts
           /\ d.nsset \in Nssets \cup {None} /\ d.keyset \in Keysets \cup {None}
           /\ d.states \in SUBSET (Prohibitions \cup {"deleteCandidate"})
           /\ d.history \in Nat
  BY DEF Domain

\* A new valid validation date is within the horizon.
LEMMA ValidationInHorizon ==
    ASSUME today \in Dates, NEW new \in Dates, NEW current \in FarDates \cup {None},
           NewValexdateValid(new, current)
    PROVE  new <= today + ContinuationWindow + EnumValidationPeriod
<1>0. today \in Int /\ new \in Int
  BY DEF Dates
<1>1. CASE InContinuationWindow(current)
  <2>1. current \in Int /\ today >= current - ContinuationWindow
    BY <1>1 DEF InContinuationWindow, FarDates
  <2>2. new <= current + EnumValidationPeriod
    BY <1>1 DEF NewValexdateValid
  <2>3. QED
    BY <1>0, <2>1, <2>2, DomainAssumption
<1>2. CASE ~InContinuationWindow(current)
  <2>1. new <= today + EnumValidationPeriod
    BY <1>2 DEF NewValexdateValid
  <2>2. QED
    BY <1>0, <2>1, DomainAssumption
<1>3. QED
  BY <1>1, <1>2

LEMMA RenewKeepsIInv ==
    ASSUME IInv, NEW r \in Registrars, NEW id \in DOMAIN registry,
           NEW curExpDate \in FarDates, NEW period \in Periods,
           NEW valexdate \in Dates \cup {Keep},
           renew_domain(r, id, curExpDate, period, valexdate)
    PROVE  IInv'
<1> DEFINE domain == registry[id]
           new == domain.exdate + EffectivePeriod(period)
           val == IF valexdate = Keep THEN domain.valexdate ELSE valexdate
           d == [[domain EXCEPT !.exdate = new, !.valexdate = val]
                    EXCEPT !.history = nextHistory]
<1>1. /\ domain \in Domain /\ today \in Dates
      /\ Sound(domain, today, nextHistory)
      /\ nextHistory \in Nat /\ nextHistory <= MaxHistory
  BY SoundDomains DEF IInv, TypeOK, renew_domain, NewVersion
<1>2. new \in FarDates /\ new <= today + ExPeriodMax
  <2>1. EffectivePeriod(period) \in Nat
    BY DomainAssumption DEF EffectivePeriod
  <2>2. domain.exdate \in Nat
    BY <1>1, DomainFields DEF FarDates
  <2>3. new \in Nat /\ new <= today + ExPeriodMax
    BY <2>1, <2>2 DEF renew_domain, ExdateAllowed
  <2>4. QED
    BY <1>1, <2>3, InHorizon
<1>3. /\ val \in FarDates \cup {None}
      /\ val # None => val <= today + ContinuationWindow + EnumValidationPeriod
  <2>1. CASE valexdate = Keep
    BY <1>1, <2>1, DomainFields DEF Sound
  <2>2. CASE valexdate # Keep
    <3>1. NewValexdateValid(valexdate, domain.valexdate)
      BY <2>2 DEF renew_domain
    <3>2. valexdate \in Dates /\ domain.valexdate \in FarDates \cup {None}
      BY <1>1, <2>2, DomainFields
    <3>3. valexdate <= today + ContinuationWindow + EnumValidationPeriod
      BY <1>1, <3>1, <3>2, ValidationInHorizon
    <3>4. valexdate \in FarDates
      BY <1>1, <3>2, <3>3, InHorizon DEF Dates
    <3>5. QED
      BY <2>2, <3>3, <3>4
  <2>3. QED
    BY <2>1, <2>2
<1>4. d \in Domain /\ d.fqdn = domain.fqdn /\ d.exdate = new /\ d.valexdate = val
        /\ d.history = nextHistory
  <2> HIDE DEF new, val, domain
  <2>1. QED
    BY <1>1, <1>2, <1>3 DEF Domain
<1>5. registry' = [registry EXCEPT ![id] = d] /\ nextHistory' = nextHistory + 1
  BY DEF renew_domain, NewVersion
<1>6. Sound(d, today, nextHistory')
  <2> HIDE DEF new, val, domain, d
  <2>1. QED
    BY <1>1, <1>2, <1>3, <1>4, <1>5 DEF Sound
<1>7. credit' \in [Registrars -> Int]
  <2>1. RenewalPrice(EffectivePeriod(period)) \in Int
    BY DomainAssumption DEF RenewalPrice, EffectivePeriod
  <2>2. credit \in [Registrars -> Int]
    BY DEF IInv, TypeOK
  <2>3. QED
    BY <2>1, <2>2 DEF renew_domain
<1>8. UNCHANGED <<today, nextId, creating>>
  BY DEF renew_domain
<1>9. nextHistory' \in 1..(MaxHistory + 1) /\ nextHistory <= nextHistory'
  BY <1>1, <1>5, DomainAssumption DEF IInv, TypeOK
<1>10. QED
  <2> HIDE DEF d
  <2>1. QED
    BY <1>4, <1>5, <1>6, <1>7, <1>8, <1>9, ReplaceKeepsIInv

LEMMA TransferKeepsIInv ==
    ASSUME IInv, NEW r \in Registrars, NEW id \in DOMAIN registry, transfer_domain(r, id)
    PROVE  IInv'
<1> DEFINE domain == registry[id]
           d == [[domain EXCEPT !.registrar = r] EXCEPT !.history = nextHistory]
<1>1. /\ domain \in Domain /\ Sound(domain, today, nextHistory)
      /\ nextHistory \in Nat /\ nextHistory <= MaxHistory
  BY SoundDomains DEF IInv, TypeOK, transfer_domain, NewVersion
<1>2. /\ d \in Domain /\ d.fqdn = domain.fqdn /\ d.exdate = domain.exdate
      /\ d.valexdate = domain.valexdate /\ d.history = nextHistory
  <2> HIDE DEF domain
  <2>1. QED
    BY <1>1 DEF Domain
<1>3. registry' = [registry EXCEPT ![id] = d] /\ nextHistory' = nextHistory + 1
  BY DEF transfer_domain, NewVersion
<1>4. Sound(d, today, nextHistory')
  <2> HIDE DEF domain, d
  <2>1. QED
    BY <1>1, <1>2, <1>3 DEF Sound
<1>5. UNCHANGED <<today, nextId, creating>> /\ credit' \in [Registrars -> Int]
  BY DEF transfer_domain, IInv, TypeOK
<1>6. nextHistory' \in 1..(MaxHistory + 1) /\ nextHistory <= nextHistory'
  BY <1>1, <1>3, DomainAssumption DEF IInv, TypeOK
<1>7. QED
  <2> HIDE DEF d
  <2>1. QED
    BY <1>2, <1>3, <1>4, <1>5, <1>6, ReplaceKeepsIInv

LEMMA UpdateKeepsIInv ==
    ASSUME IInv, NEW r \in Registrars, NEW id \in DOMAIN registry,
           NEW in \in UpdateInput, update_domain(r, id, in)
    PROVE  IInv'
<1> DEFINE domain == registry[id]
           registrant == Changed(domain.registrant, in.registrant)
           nsset == Changed(domain.nsset, in.nsset)
           keyset == NewKeyset(domain, in)
           admins == (domain.admins \cup in.add) \ in.rem
           val == Changed(domain.valexdate, in.valexdate)
           d == [[domain EXCEPT !.registrant = registrant, !.nsset = nsset,
                     !.keyset = keyset, !.admins = admins, !.valexdate = val]
                     EXCEPT !.history = nextHistory]
<1>1. /\ domain \in Domain /\ today \in Dates
      /\ Sound(domain, today, nextHistory)
      /\ nextHistory \in Nat /\ nextHistory <= MaxHistory
  BY SoundDomains DEF IInv, TypeOK, update_domain, NewVersion
<1>2. /\ registrant \in Contacts /\ nsset \in Nssets \cup {None}
      /\ keyset \in Keysets \cup {None} /\ admins \in SUBSET Contacts
  <2>1. /\ in.registrant \in Contacts \cup {Keep} /\ in.nsset \in Nssets \cup {None, Keep}
        /\ in.keyset \in Keysets \cup {None, Keep} /\ in.add \subseteq Contacts
    BY DomainAssumption DEF UpdateInput
  <2>2. QED
    BY <1>1, <2>1, DomainFields DEF Changed, NewKeyset
<1>3. /\ val \in FarDates \cup {None}
      /\ val # None => val <= today + ContinuationWindow + EnumValidationPeriod
  <2>1. CASE in.valexdate = Keep
    BY <1>1, <2>1, DomainFields DEF Sound, Changed
  <2>2. CASE in.valexdate # Keep
    <3>1. NewValexdateValid(in.valexdate, domain.valexdate)
      BY <2>2 DEF update_domain
    <3>2. in.valexdate \in Dates /\ domain.valexdate \in FarDates \cup {None}
      BY <1>1, <2>2, DomainFields DEF UpdateInput
    <3>3. in.valexdate <= today + ContinuationWindow + EnumValidationPeriod
      BY <1>1, <3>1, <3>2, ValidationInHorizon
    <3>4. in.valexdate \in FarDates
      BY <1>1, <3>2, <3>3, InHorizon DEF Dates
    <3>5. QED
      BY <2>2, <3>3, <3>4 DEF Changed
  <2>3. QED
    BY <2>1, <2>2
<1>4. /\ d \in Domain /\ d.fqdn = domain.fqdn /\ d.exdate = domain.exdate
      /\ d.valexdate = val /\ d.history = nextHistory
  <2> HIDE DEF domain, registrant, nsset, keyset, admins, val
  <2>1. QED
    BY <1>1, <1>2, <1>3 DEF Domain
<1>5. registry' = [registry EXCEPT ![id] = d] /\ nextHistory' = nextHistory + 1
  BY DEF update_domain, NewVersion
<1>6. Sound(d, today, nextHistory')
  <2> HIDE DEF domain, val, d
  <2>1. QED
    BY <1>1, <1>3, <1>4, <1>5 DEF Sound
<1>7. UNCHANGED <<today, nextId, creating>> /\ credit' \in [Registrars -> Int]
  BY DEF update_domain, IInv, TypeOK
<1>8. nextHistory' \in 1..(MaxHistory + 1) /\ nextHistory <= nextHistory'
  BY <1>1, <1>5, DomainAssumption DEF IInv, TypeOK
<1>9. QED
  <2> HIDE DEF d
  <2>1. QED
    BY <1>4, <1>5, <1>6, <1>7, <1>8, ReplaceKeepsIInv

LEMMA RequestKeepsIInv ==
    ASSUME IInv, NEW id \in DOMAIN registry, NEW states \in ProhibitionSets,
           RequestStates(id, states)
    PROVE  IInv'
<1> DEFINE domain == registry[id]
           new == (domain.states \ Prohibitions) \cup states
           d == [domain EXCEPT !.states = new]
<1>1. domain \in Domain /\ Sound(domain, today, nextHistory) /\ nextHistory \in Nat
  BY SoundDomains DEF IInv, TypeOK
<1>2. new \in SUBSET (Prohibitions \cup {"deleteCandidate"})
  BY <1>1, DomainFields, DomainAssumption
<1>3. /\ d \in Domain /\ d.fqdn = domain.fqdn /\ d.exdate = domain.exdate
      /\ d.valexdate = domain.valexdate /\ d.history = domain.history
  <2> HIDE DEF domain, new
  <2>1. QED
    BY <1>1, <1>2 DEF Domain
<1>4. registry' = [registry EXCEPT ![id] = d] /\ nextHistory' = nextHistory
  BY DEF RequestStates
<1>5. Sound(d, today, nextHistory')
  <2> HIDE DEF domain, d
  <2>1. QED
    BY <1>1, <1>3, <1>4 DEF Sound
<1>6. UNCHANGED <<today, nextId, creating>> /\ credit' \in [Registrars -> Int]
  BY DEF RequestStates, IInv, TypeOK
<1>7. nextHistory' \in 1..(MaxHistory + 1) /\ nextHistory <= nextHistory'
  BY <1>4 DEF IInv, TypeOK
<1>8. QED
  <2> HIDE DEF d
  <2>1. QED
    BY <1>3, <1>4, <1>5, <1>6, <1>7, ReplaceKeepsIInv

\* Steps that leave every version as it is, or take domains away.
LEMMA FewerKeepsIInv ==
    ASSUME IInv, NEW S \in SUBSET DOMAIN registry,
           registry' = [id \in S |-> registry[id]],
           today' \in Dates, today <= today',
           credit' \in [Registrars -> Int],
           creating' = [r \in Registrars |-> creating'[r]],
           \A r \in Registrars : creating'[r] \in {creating[r], None},
           UNCHANGED <<nextId, nextHistory>>
    PROVE  IInv'
<1>1. /\ today \in Dates /\ nextId \in 1..(MaxId + 1)
      /\ nextHistory \in Nat /\ nextHistory \in 1..(MaxHistory + 1)
      /\ DOMAIN registry \subseteq 1..(nextId - 1)
  BY DEF IInv, TypeOK
<1>2. DOMAIN registry' = S /\ \A id \in S : registry'[id] = registry[id]
  OBVIOUS
<1>3. \A id \in DOMAIN registry' : Sound(registry'[id], today', nextHistory')
  <2> SUFFICES ASSUME NEW id \in S
               PROVE  Sound(registry[id], today', nextHistory)
    BY <1>2
  <2>1. Sound(registry[id], today, nextHistory)
    BY SoundDomains
  <2>2. QED
    BY <1>1, <2>1, SoundLater
<1>4. \A i, j \in DOMAIN registry' : registry'[i].fqdn = registry'[j].fqdn => i = j
  BY <1>2 DEF IInv, OneRegistrationPerFqdn
<1>5. registry' = [id \in DOMAIN registry' |-> registry'[id]]
  BY <1>2
<1>6. DOMAIN registry' \subseteq 1..(nextId' - 1)
  BY <1>1, <1>2
<1>7. QED
  BY <1>1, <1>3, <1>4, <1>5, <1>6, IInvFromParts

LEMMA NextDayKeepsIInv == ASSUME IInv, NextDay PROVE IInv'
<1>1. today' \in Dates /\ today <= today'
  BY DomainAssumption DEF NextDay, IInv, TypeOK, Dates
<1>2. registry' = [id \in DOMAIN registry |-> registry[id]]
  BY DEF NextDay, IInv, Shape
<1>3. /\ creating' = [r \in Registrars |-> creating'[r]]
      /\ creating' = creating
      /\ credit' \in [Registrars -> Int] /\ UNCHANGED <<nextId, nextHistory>>
  BY DEF NextDay, IInv, Shape, TypeOK
<1>4. QED
  BY <1>1, <1>2, <1>3, FewerKeepsIInv

LEMMA DeleteKeepsIInv ==
    ASSUME IInv, NEW r \in Registrars, NEW id \in DOMAIN registry, delete_domain(r, id)
    PROVE  IInv'
<1>1. registry' = [i \in DOMAIN registry \ {id} |-> registry[i]]
  BY DEF delete_domain, Restrict
<1>2. /\ creating' = [q \in Registrars |-> creating'[q]]
      /\ creating' = creating
      /\ credit' \in [Registrars -> Int]
      /\ UNCHANGED <<today, nextId, nextHistory>>
  BY DEF delete_domain, IInv, Shape, TypeOK
<1>3. today' \in Dates /\ today <= today'
  BY <1>2 DEF IInv, TypeOK, Dates
<1>4. QED
  BY <1>1, <1>2, <1>3, FewerKeepsIInv

LEMMA CreateFailsKeepsIInv ==
    ASSUME IInv, NEW r \in Registrars, create_domain_fails(r)
    PROVE  IInv'
<1>1. registry' = [i \in DOMAIN registry |-> registry[i]]
  BY DEF create_domain_fails, IInv, Shape
<1>2. /\ creating' = [q \in Registrars |-> creating'[q]]
      /\ \A q \in Registrars : creating'[q] \in {creating[q], None}
  BY DEF create_domain_fails, IInv, Shape
<1>3. credit' \in [Registrars -> Int] /\ UNCHANGED <<today, nextId, nextHistory>>
  BY DEF create_domain_fails, IInv, TypeOK
<1>4. today' \in Dates /\ today <= today'
  BY <1>3 DEF IInv, TypeOK, Dates
<1>5. QED
  BY <1>1, <1>2, <1>3, <1>4, FewerKeepsIInv

LEMMA UpdateStatesKeepsIInv == ASSUME IInv, updateObjectStates PROVE IInv'
<1>1. /\ today \in Dates /\ today <= today
      /\ nextId \in 1..(MaxId + 1) /\ nextHistory \in 1..(MaxHistory + 1)
      /\ DOMAIN registry \subseteq 1..(nextId - 1)
  BY DEF IInv, TypeOK, Dates
<1>2. /\ DOMAIN registry' = DOMAIN registry
      /\ registry' = [id \in DOMAIN registry' |-> registry'[id]]
      /\ UNCHANGED <<today, nextId, nextHistory, credit, creating>>
  BY DEF updateObjectStates
<1>3. ASSUME NEW id \in DOMAIN registry
      PROVE  /\ Sound(registry'[id], today, nextHistory)
             /\ registry'[id].fqdn = registry[id].fqdn
  <2> DEFINE domain == registry[id]
             new == (domain.states \ {"deleteCandidate"}) \cup
                      (IF today >= domain.exdate + RegistrationProtection
                       THEN {"deleteCandidate"} ELSE {})
             d == [domain EXCEPT !.states = new]
  <2>1. registry'[id] = d
    BY DEF updateObjectStates
  <2>2. domain \in Domain /\ Sound(domain, today, nextHistory)
    BY SoundDomains DEF IInv, TypeOK
  <2>3. new \in SUBSET (Prohibitions \cup {"deleteCandidate"})
    <3> DEFINE added == IF today >= domain.exdate + RegistrationProtection
                        THEN {"deleteCandidate"} ELSE {}
    <3>1. added \in SUBSET {"deleteCandidate"}
      OBVIOUS
    <3> HIDE DEF added
    <3>2. domain.states \in SUBSET (Prohibitions \cup {"deleteCandidate"})
      BY <2>2, DomainFields
    <3>3. (domain.states \ {"deleteCandidate"}) \cup added
            \in SUBSET (Prohibitions \cup {"deleteCandidate"})
      BY <3>1, <3>2
    <3>4. QED
      BY <3>3 DEF added
  <2>4. /\ d \in Domain /\ d.fqdn = domain.fqdn /\ d.exdate = domain.exdate
        /\ d.valexdate = domain.valexdate /\ d.history = domain.history
    <3> HIDE DEF domain, new
    <3>1. QED
      BY <2>2, <2>3 DEF Domain
  <2>5. QED
    <3> HIDE DEF d
    <3>1. QED
      BY <2>1, <2>2, <2>4 DEF Sound
<1>4. \A id \in DOMAIN registry' : Sound(registry'[id], today', nextHistory')
  BY <1>2, <1>3
<1>5. \A i, j \in DOMAIN registry' : registry'[i].fqdn = registry'[j].fqdn => i = j
  BY <1>2, <1>3 DEF IInv, OneRegistrationPerFqdn
<1>6. credit' \in [Registrars -> Int] /\ creating' = [r \in Registrars |-> creating'[r]]
  BY <1>2 DEF IInv, TypeOK, Shape
<1>7. QED
  BY <1>1, <1>2, <1>4, <1>5, <1>6, IInvFromParts

LEMMA CreateCheckKeepsIInv ==
    ASSUME IInv, NEW r \in Registrars, NEW in \in CreateInput, create_domain_check(r, in)
    PROVE  IInv'
<1> DEFINE checked == [input |-> in, start |-> today]
<1>1. UNCHANGED <<today, registry, nextId, nextHistory, credit>>
  BY DEF create_domain_check
<1>2. /\ creating' = [q \in Registrars |-> creating'[q]]
      /\ creating'[r] = checked
      /\ \A q \in Registrars \ {r} : creating'[q] = creating[q]
  BY DEF create_domain_check, IInv, Shape
<1>3. today \in Dates /\ today \in 0..today
  BY DEF IInv, TypeOK, Dates
<1>4. TypeOK'
  <2>1. \A q \in Registrars : creating'[q] # None =>
          creating'[q].input \in CreateInput /\ creating'[q].start \in 0..today
    BY <1>2, <1>3 DEF IInv, TypeOK
  <2>2. QED
    BY <1>1, <2>1 DEF IInv, TypeOK
<1>5. Shape'
  BY <1>1, <1>2 DEF IInv, Shape
<1>6. ChecksHold'
  <2>1. PeriodValid(in.period)
    BY DEF create_domain_check
  <2>2. ASSUME in.valexdate # None
        PROVE  in.valexdate <= today + EnumValidationPeriod
    BY <2>2 DEF create_domain_check, NewValexdateValid, InContinuationWindow
  <2>3. checked.input = in
    OBVIOUS
  <2> HIDE DEF checked
  <2>4. QED
    BY <1>1, <1>2, <2>1, <2>2, <2>3 DEF IInv, ChecksHold
<1>7. RenewalHorizon' /\ ValidationHorizon' /\ OneRegistrationPerFqdn'
  BY <1>1 DEF IInv, RenewalHorizon, ValidationHorizon, OneRegistrationPerFqdn
<1>8. QED
  BY <1>4, <1>5, <1>6, <1>7 DEF IInv

LEMMA CreateKeepsIInv ==
    ASSUME IInv, NEW r \in Registrars, create_domain(r)
    PROVE  IInv'
<1> DEFINE in == creating[r].input
           start == creating[r].start
           d == NewDomain(r, in, start)
<1>1. /\ today \in Dates /\ nextId \in Nat /\ nextId <= MaxId
      /\ nextHistory \in Nat /\ nextHistory <= MaxHistory
      /\ nextId \in 1..(MaxId + 1) /\ nextHistory \in 1..(MaxHistory + 1)
      /\ DOMAIN registry \subseteq 1..(nextId - 1)
      /\ credit \in [Registrars -> Int]
  BY DEF IInv, TypeOK, create_domain
<1>2. in \in CreateInput /\ start \in 0..today
  BY DEF IInv, TypeOK, create_domain
<1>3. /\ in.fqdn \in Fqdns /\ in.registrant \in Contacts /\ in.admins \in SUBSET Contacts
      /\ in.nsset \in Nssets \cup {None} /\ in.keyset \in Keysets \cup {None}
      /\ in.valexdate \in Dates \cup {None} /\ in.period \in Periods
  BY <1>2, DomainAssumption DEF CreateInput
<1>4. /\ EffectivePeriod(in.period) \in Nat
      /\ EffectivePeriod(in.period) <= ExPeriodMax
  <2>1. PeriodValid(in.period)
    BY DEF IInv, ChecksHold, create_domain
  <2>2. EffectivePeriod(in.period) \in ExPeriodMin..ExPeriodMax
    BY <2>1 DEF PeriodValid
  <2>3. QED
    BY <2>2, DomainAssumption
<1>5. start \in Nat /\ start <= today /\ start \in Dates /\ today \in Nat
  BY <1>1, <1>2, DomainAssumption DEF Dates
<1> DEFINE exdate == start + EffectivePeriod(in.period)
<1>6. exdate \in FarDates /\ exdate <= today + ExPeriodMax
  <2>1. exdate \in Nat /\ exdate <= today + ExPeriodMax
    BY <1>4, <1>5, DomainAssumption
  <2>2. QED
    BY <1>1, <2>1, InHorizon
<1>7. /\ in.valexdate \in FarDates \cup {None}
      /\ in.valexdate # None =>
           in.valexdate <= today + ContinuationWindow + EnumValidationPeriod
  <2>1. Dates \subseteq FarDates
    BY DomainAssumption DEF Dates, FarDates
  <2>2. ASSUME in.valexdate # None
        PROVE  in.valexdate <= today + ContinuationWindow + EnumValidationPeriod
    <3>1. in.valexdate <= today + EnumValidationPeriod
      BY <2>2 DEF IInv, ChecksHold, create_domain
    <3>2. in.valexdate \in Int
      BY <1>3, <2>2 DEF Dates
    <3>3. QED
      BY <1>5, <3>1, <3>2, DomainAssumption
  <2>3. QED
    BY <1>3, <2>1, <2>2
<1>8. /\ d \in Domain /\ d.fqdn = in.fqdn /\ d.exdate = exdate
      /\ d.valexdate = in.valexdate /\ d.history = nextHistory
  <2>1. d = [fqdn |-> in.fqdn, registrar |-> r, crdate |-> start, exdate |-> exdate,
             valexdate |-> in.valexdate, registrant |-> in.registrant,
             admins |-> in.admins, nsset |-> in.nsset, keyset |-> in.keyset,
             states |-> {}, history |-> nextHistory]
    BY DEF NewDomain
  <2> HIDE DEF in, start, d, exdate
  <2>2. QED
    BY <1>1, <1>3, <1>5, <1>6, <1>7, <2>1 DEF Domain
<1>9. registry' = [id \in DOMAIN registry \cup {nextId} |->
                     IF id = nextId THEN d ELSE registry[id]]
  BY DEF create_domain
<1>10. nextId \notin DOMAIN registry
  BY <1>1
<1>11. /\ DOMAIN registry' = DOMAIN registry \cup {nextId}
       /\ registry'[nextId] = d
       /\ \A id \in DOMAIN registry : registry'[id] = registry[id]
       /\ registry' = [id \in DOMAIN registry' |-> registry'[id]]
  <2> HIDE DEF d
  <2>1. QED
    BY <1>9, <1>10
<1>12. nextId' = nextId + 1 /\ nextHistory' = nextHistory + 1 /\ today' = today
  BY DEF create_domain
<1>13. /\ nextId' \in 1..(MaxId + 1) /\ nextHistory' \in 1..(MaxHistory + 1)
       /\ DOMAIN registry' \subseteq 1..(nextId' - 1)
       /\ nextHistory' \in Nat /\ nextHistory <= nextHistory' /\ today <= today'
  BY <1>1, <1>5, <1>11, <1>12, DomainAssumption
<1>14. \A id \in DOMAIN registry' : Sound(registry'[id], today', nextHistory')
  <2>1. Sound(d, today, nextHistory')
    <3> HIDE DEF in, start, d, exdate
    <3>1. QED
      BY <1>1, <1>6, <1>7, <1>8, <1>12 DEF Sound
  <2>2. ASSUME NEW id \in DOMAIN registry
        PROVE  Sound(registry[id], today, nextHistory')
    <3>1. Sound(registry[id], today, nextHistory)
      BY SoundDomains
    <3>2. QED
      BY <1>1, <1>12, <1>13, <3>1, SoundLater
  <2> HIDE DEF d
  <2>3. QED
    BY <1>11, <1>12, <2>1, <2>2
<1>15. \A i, j \in DOMAIN registry' : registry'[i].fqdn = registry'[j].fqdn => i = j
  <2>1. \A id \in DOMAIN registry : registry[id].fqdn # in.fqdn
    BY DEF create_domain, NameFree, IsRegistered
  <2> HIDE DEF in, d
  <2>2. QED
    BY <1>8, <1>11, <2>1 DEF IInv, OneRegistrationPerFqdn
<1>16. /\ creating' = [q \in Registrars |-> creating'[q]]
       /\ \A q \in Registrars : creating'[q] \in {creating[q], None}
  BY DEF create_domain, IInv, Shape
<1>17. credit' \in [Registrars -> Int]
  <2>1. RenewalPrice(EffectivePeriod(in.period)) \in Int
    BY <1>4, DomainAssumption DEF RenewalPrice
  <2>2. CreatePrice \in Int
    BY DomainAssumption
  <2>3. \/ credit' = credit
        \/ credit' = [credit EXCEPT ![r] = @ - CreatePrice
                                            - RenewalPrice(EffectivePeriod(in.period))]
    BY DEF create_domain
  <2>4. QED
    BY <1>1, <2>1, <2>2, <2>3
<1>18. today' \in Dates
  BY <1>1, <1>12
<1>19. QED
  BY <1>11, <1>13, <1>14, <1>15, <1>16, <1>17, <1>18, IInvFromParts

LEMMA InitIInv == Init => IInv
<1> SUFFICES ASSUME Init PROVE IInv
  OBVIOUS
<1>1. /\ DOMAIN registry = {}
      /\ registry = [id \in DOMAIN registry |-> registry[id]]
  BY DEF Init
<1>2. \A r \in Registrars : creating[r] = None
  BY DEF Init
<1>3. TypeOK
  BY <1>1, <1>2, DomainAssumption DEF Init, TypeOK, Dates
<1>4. Shape
  BY <1>1 DEF Init, Shape
<1>5. QED
  BY <1>1, <1>2, <1>3, <1>4
     DEF IInv, ChecksHold, RenewalHorizon, ValidationHorizon, OneRegistrationPerFqdn

LEMMA NextIInv == IInv /\ [DomainNext]_domainVars => IInv'
<1> SUFFICES ASSUME IInv, [DomainNext]_domainVars PROVE IInv'
  OBVIOUS
<1>1. CASE NextDay
  BY <1>1, NextDayKeepsIInv
<1>2. CASE updateObjectStates
  BY <1>2, UpdateStatesKeepsIInv
<1>3. ASSUME NEW r \in Registrars,
             \/ \E in \in CreateInput : create_domain_check(r, in)
             \/ create_domain(r)
             \/ create_domain_fails(r)
      PROVE  IInv'
  BY <1>3, CreateCheckKeepsIInv, CreateKeepsIInv, CreateFailsKeepsIInv
<1>4. ASSUME NEW r \in Registrars, NEW id \in DOMAIN registry,
             \/ \E curExpDate \in FarDates, period \in Periods,
                   valexdate \in Dates \cup {Keep} :
                   renew_domain(r, id, curExpDate, period, valexdate)
             \/ transfer_domain(r, id)
             \/ delete_domain(r, id)
             \/ \E in \in UpdateInput : update_domain(r, id, in)
      PROVE  IInv'
  BY <1>4, RenewKeepsIInv, TransferKeepsIInv, DeleteKeepsIInv, UpdateKeepsIInv
<1>5. ASSUME NEW id \in DOMAIN registry, NEW states \in ProhibitionSets,
             RequestStates(id, states)
      PROVE  IInv'
  BY <1>5, RequestKeepsIInv
<1>6. CASE UNCHANGED domainVars
  BY <1>6 DEF domainVars, IInv, TypeOK, Shape, ChecksHold, RenewalHorizon,
     ValidationHorizon, OneRegistrationPerFqdn
<1>7. QED
  BY <1>1, <1>2, <1>3, <1>4, <1>5, <1>6 DEF DomainNext

----------------------------------------------------------------------------
(* Sums over finite sets *)

\* The element a fold takes next.
Pick(s) == CHOOSE x \in s : TRUE

\* g gives the sums of the weights w over the subsets of S, as MapThenSumSet computes them.
Sums(g, w, S) ==
    g = [s \in SUBSET S |-> IF s = {} THEN 0 ELSE w[Pick(s)] + g[s \ {Pick(s)}]]

\* The sum of w over S.
SumOf(w, S) == (CHOOSE g : Sums(g, w, S))[S]

\* Induction over the subsets of a finite set: a set of them that is not empty has
\* a smallest member.
LEMMA SmallestSubset ==
    ASSUME NEW S, IsFiniteSet(S), NEW Bad \in SUBSET SUBSET S, Bad # {}
    PROVE  \E s \in Bad : \A t \in Bad : ~(t \subseteq s /\ t # s)
<1> DEFINE R == StrictSubsetOrdering(S)
<1>1. \A s, t \in SUBSET S : t \subseteq s /\ t # s => <<t, s>> \in R
  BY DEF StrictSubsetOrdering
<1>2. IsWellFoundedOn(R, SUBSET S)
  BY FS_StrictSubsetOrderingWellFounded, FS_FiniteSubsetsOfFinite
<1> HIDE DEF R
<1>3. PICK s \in Bad : \A t \in Bad : ~(<<t, s>> \in R)
  BY <1>2, WFMin
<1>4. QED
  BY <1>1, <1>3

\* The element picked from a set is in it.
LEMMA PickIn == \A s : s # {} => Pick(s) \in s
  BY DEF Pick

\* The sums over a set's subsets do not depend on the set.
LEMMA SumsAgree ==
    ASSUME NEW S, IsFiniteSet(S), NEW T, NEW w, NEW g, NEW h,
           Sums(g, w, S), Sums(h, w, T)
    PROVE  \A s \in SUBSET S : s \subseteq T => g[s] = h[s]
<1> DEFINE Bad == {s \in SUBSET S : s \subseteq T /\ g[s] # h[s]}
<1> SUFFICES ASSUME Bad # {} PROVE FALSE
  OBVIOUS
<1>1. PICK s \in Bad : \A t \in Bad : ~(t \subseteq s /\ t # s)
  <2>1. Bad \in SUBSET SUBSET S
    OBVIOUS
  <2> HIDE DEF Bad
  <2>2. QED
    BY <2>1, SmallestSubset
<1>2. s \in SUBSET S /\ s \in SUBSET T /\ g[s] # h[s]
  OBVIOUS
<1>3. /\ g[s] = IF s = {} THEN 0 ELSE w[Pick(s)] + g[s \ {Pick(s)}]
      /\ h[s] = IF s = {} THEN 0 ELSE w[Pick(s)] + h[s \ {Pick(s)}]
  BY <1>2 DEF Sums
<1>4. s # {}
  BY <1>2, <1>3
<1>5. Pick(s) \in s
  BY <1>4, PickIn
<1>6. s \ {Pick(s)} \notin Bad
  BY <1>1, <1>5
<1>7. g[s \ {Pick(s)}] = h[s \ {Pick(s)}]
  BY <1>2, <1>6
<1>8. QED
  BY <1>2, <1>3, <1>4, <1>7

\* The recursion of the sum has a solution: below a smallest set without one, the
\* solutions for the smaller sets fit together.
LEMMA SumsExist ==
    ASSUME NEW S, IsFiniteSet(S), NEW w
    PROVE  \E g : Sums(g, w, S)
<1> DEFINE Bad == {s \in SUBSET S : ~\E g : Sums(g, w, s)}
<1> SUFFICES ASSUME Bad # {} PROVE FALSE
  OBVIOUS
<1>1. PICK s \in Bad : \A t \in Bad : ~(t \subseteq s /\ t # s)
  <2>1. Bad \in SUBSET SUBSET S
    OBVIOUS
  <2> HIDE DEF Bad
  <2>2. QED
    BY <2>1, SmallestSubset
<1>2. s \in SUBSET S /\ ~\E g : Sums(g, w, s)
  OBVIOUS
<1>3. \A t \in SUBSET S : t \subseteq s /\ t # s => \E g : Sums(g, w, t)
  BY <1>1
<1> HIDE DEF Bad
<1> DEFINE G(t) == CHOOSE g : Sums(g, w, t)
<1>4. \A t \in SUBSET s : t # s => Sums(G(t), w, t)
  BY <1>2, <1>3
<1> DEFINE below(t) == t \ {Pick(t)}
           v(t) == IF t = {} THEN 0 ELSE w[Pick(t)] + G(below(t))[below(t)]
           f == [t \in SUBSET s |-> v(t)]
<1>5. ASSUME NEW t \in SUBSET s, t # s PROVE G(t)[t] = v(t)
  <2>1. Sums(G(t), w, t)
    BY <1>4, <1>5
  <2> HIDE DEF G
  <2>2. G(t)[t] = IF t = {} THEN 0 ELSE w[Pick(t)] + G(t)[below(t)]
    BY <2>1 DEF Sums
  <2>3. CASE t # {}
    <3>1. Pick(t) \in t /\ below(t) \subseteq t /\ below(t) \in SUBSET s /\ below(t) # s
      BY <2>3, PickIn
    <3>2. Sums(G(below(t)), w, below(t))
      BY <1>4, <3>1
    <3>3. IsFiniteSet(below(t))
      BY <1>2, <3>1, FS_Subset
    <3>4. G(below(t))[below(t)] = G(t)[below(t)]
      <4> HIDE DEF below
      <4>1. QED
        BY <2>1, <3>1, <3>2, <3>3, SumsAgree
    <3>5. QED
      BY <2>2, <2>3, <3>4
  <2>4. QED
    BY <2>2, <2>3
<1>6. \A t \in SUBSET s : t # {} => f[below(t)] = G(below(t))[below(t)]
  <2> SUFFICES ASSUME NEW t \in SUBSET s, t # {}
               PROVE  f[below(t)] = G(below(t))[below(t)]
    OBVIOUS
  <2>1. below(t) \in SUBSET s /\ below(t) # s
    BY PickIn
  <2> HIDE DEF below, G, v
  <2>2. QED
    BY <1>5, <2>1
<1>7. Sums(f, w, s)
  <2>1. f = [t \in SUBSET s |-> IF t = {} THEN 0 ELSE w[Pick(t)] + f[below(t)]]
    <3> HIDE DEF below, G
    <3>1. ASSUME NEW t \in SUBSET s
          PROVE  v(t) = IF t = {} THEN 0 ELSE w[Pick(t)] + f[below(t)]
      <4> HIDE DEF f
      <4>1. QED
        BY <1>6, <3>1
    <3> HIDE DEF v
    <3> DEFINE u(t) == IF t = {} THEN 0 ELSE w[Pick(t)] + f[below(t)]
    <3>2. \A t \in SUBSET s : v(t) = u(t)
      BY <3>1
    <3> HIDE DEF u
    <3>3. [t \in SUBSET s |-> v(t)] = [t \in SUBSET s |-> u(t)]
      BY <3>2
    <3>4. QED
      BY <3>3 DEF u
  <2>2. QED
    BY <2>1 DEF Sums
<1>8. QED
  BY <1>2, <1>7

\* The sum of the empty set is 0, and any other sum is made in one step from a
\* smaller one.
LEMMA SumOfStep ==
    ASSUME NEW S, IsFiniteSet(S), NEW w
    PROVE  /\ Sums(CHOOSE g : Sums(g, w, S), w, S)
           /\ SumOf(w, S) = IF S = {} THEN 0 ELSE w[Pick(S)] + SumOf(w, S \ {Pick(S)})
<1> DEFINE G(t) == CHOOSE g : Sums(g, w, t)
           T == S \ {Pick(S)}
<1>1. IsFiniteSet(T) /\ T \in SUBSET S /\ S \in SUBSET S
  BY FS_Subset
<1>2. Sums(G(S), w, S) /\ Sums(G(T), w, T)
  <2>1. (\E g : Sums(g, w, S)) /\ \E g : Sums(g, w, T)
    BY <1>1, SumsExist
  <2>2. QED
    BY <2>1
<1> HIDE DEF G, T
<1>3. G(T)[T] = G(S)[T]
  BY <1>1, <1>2, SumsAgree
<1>4. G(S)[S] = IF S = {} THEN 0 ELSE w[Pick(S)] + G(S)[T]
  BY <1>1, <1>2 DEF Sums, T
<1>5. G(S)[S] = IF S = {} THEN 0 ELSE w[Pick(S)] + G(T)[T]
  BY <1>3, <1>4
<1>6. QED
  BY <1>2, <1>5 DEF SumOf, G, T

\* Sums of integers are integers.
LEMMA SumOfInt ==
    ASSUME NEW S, IsFiniteSet(S), NEW w, \A x \in S : w[x] \in Int
    PROVE  \A s \in SUBSET S : SumOf(w, s) \in Int
<1> DEFINE Bad == {s \in SUBSET S : SumOf(w, s) \notin Int}
<1> SUFFICES ASSUME Bad # {} PROVE FALSE
  OBVIOUS
<1>1. PICK s \in Bad : \A t \in Bad : ~(t \subseteq s /\ t # s)
  <2>1. Bad \in SUBSET SUBSET S
    OBVIOUS
  <2> HIDE DEF Bad
  <2>2. QED
    BY <2>1, SmallestSubset
<1>2. s \in SUBSET S /\ SumOf(w, s) \notin Int /\ IsFiniteSet(s)
  BY FS_Subset
<1>3. SumOf(w, s) = IF s = {} THEN 0 ELSE w[Pick(s)] + SumOf(w, s \ {Pick(s)})
  BY <1>2, SumOfStep
<1>4. s # {} /\ Pick(s) \in s
  BY <1>2, <1>3, PickIn
<1>5. SumOf(w, s \ {Pick(s)}) \in Int
  BY <1>1, <1>2, <1>4
<1>6. w[Pick(s)] \in Int
  BY <1>2, <1>4
<1>7. QED
  BY <1>2, <1>3, <1>4, <1>5, <1>6

\* Any element may be taken out first.
LEMMA SumOfRemove ==
    ASSUME NEW S, IsFiniteSet(S), NEW w, \A x \in S : w[x] \in Int, NEW x \in S
    PROVE  SumOf(w, S) = w[x] + SumOf(w, S \ {x})
<1> DEFINE Bad == {s \in SUBSET S : \E y \in s : SumOf(w, s) # w[y] + SumOf(w, s \ {y})}
<1> SUFFICES ASSUME Bad # {} PROVE FALSE
  OBVIOUS
<1>1. PICK s \in Bad : \A t \in Bad : ~(t \subseteq s /\ t # s)
  <2>1. Bad \in SUBSET SUBSET S
    OBVIOUS
  <2> HIDE DEF Bad
  <2>2. QED
    BY <2>1, SmallestSubset
<1>2. PICK y \in s : SumOf(w, s) # w[y] + SumOf(w, s \ {y})
  OBVIOUS
<1>3. s \in SUBSET S /\ IsFiniteSet(s)
  BY FS_Subset
<1> DEFINE p == Pick(s)
<1>4. SumOf(w, s) = w[p] + SumOf(w, s \ {p}) /\ p \in s
  BY <1>2, <1>3, SumOfStep, PickIn
<1> HIDE DEF p
<1>5. y # p
  BY <1>2, <1>4
<1>6. ASSUME NEW q \in s, NEW z \in s \ {q}
      PROVE  SumOf(w, s \ {q}) = w[z] + SumOf(w, (s \ {q}) \ {z})
  <2>1. s \ {q} \notin Bad
    BY <1>1
  <2>2. QED
    BY <1>3, <2>1
<1>7. SumOf(w, s \ {p}) = w[y] + SumOf(w, (s \ {p}) \ {y})
  BY <1>4, <1>5, <1>6
<1>8. SumOf(w, s \ {y}) = w[p] + SumOf(w, (s \ {y}) \ {p})
  BY <1>4, <1>5, <1>6
<1>9. (s \ {y}) \ {p} = (s \ {p}) \ {y}
  OBVIOUS
<1>10. w[p] \in Int /\ w[y] \in Int /\ SumOf(w, (s \ {p}) \ {y}) \in Int
  BY <1>3, <1>4, SumOfInt
<1> DEFINE rest == SumOf(w, (s \ {p}) \ {y})
<1>11. /\ SumOf(w, s) = w[p] + (w[y] + rest)
       /\ SumOf(w, s \ {y}) = w[p] + rest
  BY <1>4, <1>7, <1>8, <1>9
<1> HIDE DEF rest
<1>12. QED
  BY <1>2, <1>10, <1>11 DEF rest

\* What solves the recursion of the sum is the sum.
LEMMA SumsGiveSum ==
    ASSUME NEW S, IsFiniteSet(S), NEW w, NEW g, Sums(g, w, S)
    PROVE  g[S] = SumOf(w, S)
<1> DEFINE G == CHOOSE h : Sums(h, w, S)
<1>1. Sums(G, w, S)
  BY SumOfStep
<1> HIDE DEF G
<1>2. g[S] = G[S]
  BY <1>1, SumsAgree
<1>3. QED
  BY <1>2 DEF SumOf, G

\* The two sums of the books: the time a set of charges is for, and its price.
Lengths(S) == MapThenSumSet(LAMBDA c : c.to - c.from, S)
Prices(S) == MapThenSumSet(LAMBDA c : c.price, S)

\* Both are sums in the sense above.
LEMMA LengthsAreSums ==
    ASSUME NEW S, IsFiniteSet(S), NEW w, \A c \in S : w[c] = c.to - c.from
    PROVE  Lengths(S) = SumOf(w, S)
<1> DEFINE body(g, s) == IF s = {} THEN 0
                         ELSE (Pick(s).to - Pick(s).from) + g[s \ {Pick(s)}]
           it == CHOOSE g : g = [s \in SUBSET S |-> body(g, s)]
<1>1. Lengths(S) = it[S]
  BY DEF Lengths, MapThenSumSet, MapThenFoldSet, Pick
<1>2. ASSUME NEW g PROVE Sums(g, w, S) <=> g = [s \in SUBSET S |-> body(g, s)]
  <2> DEFINE other(s) == IF s = {} THEN 0 ELSE w[Pick(s)] + g[s \ {Pick(s)}]
  <2>1. \A s \in SUBSET S : other(s) = body(g, s)
    BY PickIn
  <2>2. [s \in SUBSET S |-> other(s)] = [s \in SUBSET S |-> body(g, s)]
    <3> HIDE DEF other, body
    <3>1. QED
      BY <2>1
  <2>3. QED
    BY <2>2 DEF Sums
<1> HIDE DEF body
<1>3. it = [s \in SUBSET S |-> body(it, s)]
  <2>1. \E g : g = [s \in SUBSET S |-> body(g, s)]
    BY <1>2, SumsExist
  <2>2. QED
    BY <2>1
<1> HIDE DEF it
<1>4. QED
  BY <1>1, <1>2, <1>3, SumsGiveSum

LEMMA PricesAreSums ==
    ASSUME NEW S, IsFiniteSet(S), NEW w, \A c \in S : w[c] = c.price
    PROVE  Prices(S) = SumOf(w, S)
<1> DEFINE body(g, s) == IF s = {} THEN 0 ELSE Pick(s).price + g[s \ {Pick(s)}]
           it == CHOOSE g : g = [s \in SUBSET S |-> body(g, s)]
<1>1. Prices(S) = it[S]
  BY DEF Prices, MapThenSumSet, MapThenFoldSet, Pick
<1>2. ASSUME NEW g PROVE Sums(g, w, S) <=> g = [s \in SUBSET S |-> body(g, s)]
  <2> DEFINE other(s) == IF s = {} THEN 0 ELSE w[Pick(s)] + g[s \ {Pick(s)}]
  <2>1. \A s \in SUBSET S : other(s) = body(g, s)
    BY PickIn
  <2>2. [s \in SUBSET S |-> other(s)] = [s \in SUBSET S |-> body(g, s)]
    <3> HIDE DEF other, body
    <3>1. QED
      BY <2>1
  <2>3. QED
    BY <2>2 DEF Sums
<1> HIDE DEF body
<1>3. it = [s \in SUBSET S |-> body(it, s)]
  <2>1. \E g : g = [s \in SUBSET S |-> body(g, s)]
    BY <1>2, SumsExist
  <2>2. QED
    BY <2>1
<1> HIDE DEF it
<1>4. QED
  BY <1>1, <1>2, <1>3, SumsGiveSum

\* A renewal more is so much time more that is paid for.
LEMMA LengthsAdd ==
    ASSUME NEW S, IsFiniteSet(S), NEW x, x \notin S,
           \A c \in S \cup {x} : c.to - c.from \in Int
    PROVE  /\ Lengths(S) \in Int
           /\ Lengths(S \cup {x}) = Lengths(S) + (x.to - x.from)
           /\ Lengths({}) = 0
<1> DEFINE T == S \cup {x}
           w == [c \in T |-> c.to - c.from]
<1>1. IsFiniteSet(T) /\ S \in SUBSET T /\ T \ {x} = S /\ x \in T /\ IsFiniteSet({})
  BY FS_AddElement, FS_EmptySet
<1>2. (\A c \in T : w[c] \in Int) /\ w[x] = x.to - x.from
  OBVIOUS
<1>3. Lengths(T) = SumOf(w, T) /\ Lengths(S) = SumOf(w, S) /\ Lengths({}) = SumOf(w, {})
  BY <1>1, LengthsAreSums
<1> HIDE DEF T, w
<1>4. SumOf(w, T) = w[x] + SumOf(w, S) /\ SumOf(w, S) \in Int
  BY <1>1, <1>2, SumOfRemove, SumOfInt
<1>5. SumOf(w, {}) = 0
  BY <1>1, SumOfStep
<1>6. QED
  BY <1>1, <1>2, <1>3, <1>4, <1>5 DEF T

\* An operation more is so much more to pay.
LEMMA PricesAdd ==
    ASSUME NEW S, IsFiniteSet(S), NEW x, x \notin S, \A c \in S \cup {x} : c.price \in Int
    PROVE  /\ Prices(S) \in Int
           /\ Prices(S \cup {x}) = Prices(S) + x.price
<1> DEFINE T == S \cup {x}
           w == [c \in T |-> c.price]
<1>1. IsFiniteSet(T) /\ S \in SUBSET T /\ T \ {x} = S /\ x \in T
  BY FS_AddElement
<1>2. (\A c \in T : w[c] \in Int) /\ w[x] = x.price
  OBVIOUS
<1>3. Prices(T) = SumOf(w, T) /\ Prices(S) = SumOf(w, S)
  BY <1>1, PricesAreSums
<1> HIDE DEF T, w
<1>4. SumOf(w, T) = w[x] + SumOf(w, S) /\ SumOf(w, S) \in Int
  BY <1>1, <1>2, SumOfRemove, SumOfInt
<1>5. QED
  BY <1>1, <1>2, <1>3, <1>4 DEF T

\* A registrar that was billed nothing owes nothing.
LEMMA NothingToPay == Prices({}) = 0
<1> DEFINE w == [c \in {} |-> 0]
<1>1. IsFiniteSet({})
  BY FS_EmptySet
<1>2. Prices({}) = SumOf(w, {})
  BY <1>1, PricesAreSums
<1> HIDE DEF w
<1>3. QED
  BY <1>1, <1>2, SumOfStep

----------------------------------------------------------------------------
(* The books *)

\* Every charge is for an operation on a domain there was, and a renewal is for a
\* time that is not empty.
ChargesAreSound ==
    /\ IsFiniteSet(charges)
    /\ \A c \in charges :
        /\ c.id \in 1..(nextId - 1) /\ c.price \in Int /\ c.from \in Int /\ c.to \in Int
        /\ c.op = "RenewDomain" => c.from < c.to

\* A renewal that was made asked for a date before the one that it left; a domain
\* whose deletion is logged is gone.
LogIsSound ==
    \A row \in log :
        /\ row.id \in 1..(nextId - 1)
        /\ row.history \in Nat /\ row.history < nextHistory
        /\ row.event = "delete" => row.id \notin DOMAIN registry
        /\ row.event = "renew" =>
             /\ row.asked \in Int
             /\ row.id \in DOMAIN registry => row.asked < registry[row.id].exdate

\* The three parts of PaidPeriodsTile.
PeriodsAreDisjoint ==
    \A c, d \in charges : c.op = "RenewDomain" /\ d.op = "RenewDomain" /\ c.id = d.id =>
        c = d \/ c.to <= d.from \/ d.to <= c.from

PeriodsEndInTime ==
    \A id \in DOMAIN registry : \A c \in Renewals(id) : c.to <= registry[id].exdate

\* Only registrars that are billed created or renewed the domain.
AllBilled(id) == \A r \in ActedOn(id, "create") \cup ActedOn(id, "renew") : Charged(r)

PeriodsCover ==
    \A id \in DOMAIN registry : AllBilled(id) =>
        /\ Lengths(Renewals(id)) = registry[id].exdate - registry[id].crdate
        /\ \E c \in charges : c.id = id /\ c.op = "CreateDomain"

\* The charges of C that registrar r pays, and CreditMatchesCharges in these words.
BilledTo(r, C) == {c \in C : c.registrar = r}

CreditIsRight == \A r \in Registrars : credit[r] = InitialCredit - Prices(BilledTo(r, charges))

\* The part of the books that is about money.
Money ==
    /\ ChargesAreSound
    /\ PeriodsAreDisjoint
    /\ PeriodsEndInTime
    /\ PeriodsCover
    /\ CreditIsRight

\* Money says of charges and credit what the two invariants say.
LEMMA MoneyParts ==
    /\ PaidPeriodsTile <=> PeriodsAreDisjoint /\ PeriodsEndInTime /\ PeriodsCover
    /\ CreditMatchesCharges <=> CreditIsRight
<1>1. PaidPeriodsTile <=> PeriodsAreDisjoint /\ PeriodsEndInTime /\ PeriodsCover
  BY Zenon DEF PaidPeriodsTile, PeriodsAreDisjoint, PeriodsEndInTime, PeriodsCover, Lengths,
     AllBilled
<1>2. CreditMatchesCharges <=> CreditIsRight
  BY Zenon DEF CreditMatchesCharges, CreditIsRight, Prices, BilledTo
<1>3. QED
  BY <1>1, <1>2

\* The inductive invariant of charges, log, poll messages and notifications.
Books == Money /\ LogIsSound /\ RetriedRenewalIsRefused /\ ChangesAreAnnounced

\* Steps that bill nothing and leave the dates of the domains as they are.
Quiet ==
    /\ UNCHANGED <<credit, charges, nextId>>
    /\ nextHistory' \in Nat /\ nextHistory <= nextHistory'
    /\ DOMAIN registry' \subseteq DOMAIN registry
    /\ \A id \in DOMAIN registry' :
         registry'[id].exdate = registry[id].exdate /\ registry'[id].crdate = registry[id].crdate
    /\ log \subseteq log'
    /\ \A row \in log' \ log : row.event \notin {"create", "renew"}

\* Who created or renewed a domain does not change by rows about something else.
LEMMA ActedOnSame ==
    ASSUME NEW id, NEW event, log \subseteq log',
           \A row \in log' \ log : row.id # id \/ row.event # event
    PROVE  ActedOn(id, event)' = ActedOn(id, event)
  BY DEF ActedOn

\* What is billed and what is registered still agree after a quiet step.
LEMMA QuietKeepsMoney ==
    ASSUME Money, Quiet PROVE Money'
<1>1. ChargesAreSound' /\ PeriodsAreDisjoint'
  BY DEF Money, Quiet, ChargesAreSound, PeriodsAreDisjoint
<1>2. \A id : Renewals(id)' = Renewals(id)
  BY DEF Quiet, Renewals
<1>3. PeriodsEndInTime'
  BY <1>2 DEF Money, Quiet, PeriodsEndInTime
<1>4. PeriodsCover'
  <2> SUFFICES ASSUME NEW id \in DOMAIN registry', AllBilled(id)'
               PROVE  /\ Lengths(Renewals(id)') = registry'[id].exdate - registry'[id].crdate
                      /\ \E c \in charges' : c.id = id /\ c.op = "CreateDomain"
    BY DEF PeriodsCover
  <2>1. AllBilled(id)
    <3>1. ActedOn(id, "create")' = ActedOn(id, "create") /\ ActedOn(id, "renew")' = ActedOn(id, "renew")
      BY ActedOnSame DEF Quiet
    <3>2. QED
      BY <3>1 DEF AllBilled, Charged, System
  <2>2. QED
    BY <1>2, <2>1 DEF Money, Quiet, PeriodsCover
<1>5. CreditIsRight'
  BY DEF Money, Quiet, CreditIsRight
<1>6. QED
  BY <1>1, <1>3, <1>4, <1>5 DEF Money

\* What a step has to show for the log: dates of registered domains do not go back
\* and its new rows are sound.
LEMMA LogStaysSound ==
    ASSUME LogIsSound, nextId \in Nat, nextId' \in Nat, nextId <= nextId',
           nextHistory \in Nat, nextHistory' \in Nat, nextHistory <= nextHistory',
           \A id \in DOMAIN registry' \cap 1..(nextId - 1) :
              /\ id \in DOMAIN registry
              /\ registry[id].exdate \in Int /\ registry'[id].exdate \in Int
              /\ registry[id].exdate <= registry'[id].exdate,
           \A row \in log' \ log :
              /\ row.id \in 1..(nextId' - 1)
              /\ row.history \in Nat /\ row.history < nextHistory'
              /\ row.event = "delete" => row.id \notin DOMAIN registry'
              /\ row.event = "renew" =>
                   /\ row.asked \in Int
                   /\ row.id \in DOMAIN registry' => row.asked < registry'[row.id].exdate
    PROVE  LogIsSound'
<1> SUFFICES ASSUME NEW row \in log'
             PROVE  /\ row.id \in 1..(nextId' - 1)
                    /\ row.history \in Nat /\ row.history < nextHistory'
                    /\ row.event = "delete" => row.id \notin DOMAIN registry'
                    /\ row.event = "renew" =>
                         /\ row.asked \in Int
                         /\ row.id \in DOMAIN registry' =>
                              row.asked < registry'[row.id].exdate
  BY DEF LogIsSound
<1>1. CASE row \in log
  BY <1>1 DEF LogIsSound
<1>2. CASE row \in log' \ log
  BY <1>2
<1>3. QED
  BY <1>1, <1>2

\* A quiet step logs no renewal.
LEMMA QuietKeepsRenewals ==
    ASSUME RetriedRenewalIsRefused, Quiet PROVE RetriedRenewalIsRefused'
  BY DEF RetriedRenewalIsRefused, Quiet

\* What a step that logs and announces has to show.
LEMMA StaysAnnounced ==
    ASSUME ChangesAreAnnounced, log \subseteq log', poll \subseteq poll',
           \A row \in log' \ log :
              row.event \in {"update", "delete", "transfer"} /\ row.actor # row.sponsor =>
                  PollMessage(row.sponsor, row.event, row.history) \in poll',
           \A n \in notified' \ notified :
              \E row \in log' : row.event = n.event /\ row.history = n.history
    PROVE  ChangesAreAnnounced'
<1>1. SponsorLearnsOfForeignChange'
  BY DEF ChangesAreAnnounced, SponsorLearnsOfForeignChange
<1>2. NotifiedVersionsExist'
  BY DEF ChangesAreAnnounced, NotifiedVersionsExist
<1>3. QED
  BY <1>1, <1>2 DEF ChangesAreAnnounced

\* A step that only changes the registry, without a trace in the books.
LEMMA SilentKeepsBooks ==
    ASSUME IInv, Books, Quiet, UNCHANGED <<log, poll, notified>>
    PROVE  Books'
<1>1. Money'
  BY QuietKeepsMoney DEF Books
<1>2. RetriedRenewalIsRefused' /\ ChangesAreAnnounced'
  BY DEF Books, RetriedRenewalIsRefused, ChangesAreAnnounced, SponsorLearnsOfForeignChange,
     NotifiedVersionsExist
<1>3. LogIsSound'
  <2>1. \A id \in DOMAIN registry : registry[id].exdate \in Int
    BY DomainFields DEF IInv, TypeOK, FarDates
  <2>2. nextId \in Nat /\ nextHistory \in Nat
    BY DEF IInv, TypeOK
  <2>3. QED
    BY <2>1, <2>2, LogStaysSound DEF Books, Quiet
<1>4. QED
  BY <1>1, <1>2, <1>3 DEF Books

\* A step that logs one change of a domain and leaves its dates.
LEMMA ChangeKeepsBooks ==
    ASSUME IInv, Books, Quiet, NEW r, NEW id \in DOMAIN registry,
           NEW event \in {"transfer", "update", "delete"}, NEW history \in Nat,
           history < nextHistory',
           event = "delete" => id \notin DOMAIN registry',
           log' = log \cup {LogRow(event, history, id, r, registry[id].registrar, None)},
           poll \subseteq poll',
           r # registry[id].registrar =>
              PollMessage(registry[id].registrar, event, history) \in poll',
           Notify(event, history)
    PROVE  Books'
<1> DEFINE row == LogRow(event, history, id, r, registry[id].registrar, None)
<1>1. /\ row.event = event /\ row.history = history /\ row.id = id /\ row.actor = r
      /\ row.sponsor = registry[id].registrar
  BY DEF LogRow
<1>2. log' = log \cup {row}
  OBVIOUS
<1> HIDE DEF row
<1>3. Money'
  BY QuietKeepsMoney DEF Books
<1>4. RetriedRenewalIsRefused'
  BY QuietKeepsRenewals DEF Books
<1>5. ChangesAreAnnounced'
  <2>1. \A n \in notified' \ notified : n.event = event /\ n.history = history
    BY DEF Notify, Notification
  <2>2. QED
    BY <1>1, <1>2, <2>1, StaysAnnounced DEF Books
<1>6. LogIsSound'
  <2>1. \A i \in DOMAIN registry : registry[i].exdate \in Int
    BY DomainFields DEF IInv, TypeOK, FarDates
  <2>2. /\ nextId \in Nat /\ nextHistory \in Nat
        /\ id \in 1..(nextId - 1)
    BY DEF IInv, TypeOK
  <2>3. QED
    BY <1>1, <1>2, <2>1, <2>2, LogStaysSound DEF Books, Quiet
<1>7. QED
  BY <1>3, <1>4, <1>5, <1>6 DEF Books

\* What the registry is after one domain got a new version.
LEMMA ReplaceEffect ==
    ASSUME IInv, NEW id \in DOMAIN registry, NEW d,
           registry' = [registry EXCEPT ![id] = d]
    PROVE  /\ DOMAIN registry' = DOMAIN registry
           /\ registry'[id] = d
           /\ \A i \in DOMAIN registry \ {id} : registry'[i] = registry[i]
  BY DEF IInv, Shape

\* The sequences are ahead of every registered domain, whose dates are numbers.
LEMMA Sequences ==
    ASSUME IInv
    PROVE  nextId \in Nat /\ nextHistory \in Nat /\ \A id \in DOMAIN registry :
             /\ registry[id] \in Domain /\ id \in 1..(nextId - 1)
             /\ registry[id].history \in Nat /\ registry[id].history < nextHistory
             /\ registry[id].exdate \in Int /\ registry[id].crdate \in Int
<1>1. nextId \in Nat /\ nextHistory \in Nat
  BY DEF IInv, TypeOK
<1>2. ASSUME NEW id \in DOMAIN registry
      PROVE  /\ registry[id] \in Domain /\ id \in 1..(nextId - 1)
             /\ registry[id].history < nextHistory
  BY DEF IInv, TypeOK
<1>3. ASSUME NEW d \in Domain
      PROVE  d.history \in Nat /\ d.exdate \in Int /\ d.crdate \in Int
  BY DomainFields DEF FarDates, Dates
<1>4. QED
  BY <1>1, <1>2, <1>3

\* A transfer, an update and a delete are quiet and concern one domain.
LEMMA TransferEffect ==
    ASSUME IInv, NEW r \in Registrars, NEW id \in DOMAIN registry, transfer_domain(r, id)
    PROVE  Quiet /\ DOMAIN registry' = DOMAIN registry
             /\ \A i \in DOMAIN registry \ {id} : registry'[i] = registry[i]
<1> DEFINE domain == registry[id]
           d == [[domain EXCEPT !.registrar = r] EXCEPT !.history = nextHistory]
<1>1. registry' = [registry EXCEPT ![id] = d] /\ nextHistory' = nextHistory + 1
  BY DEF transfer_domain, NewVersion
<1>2. domain \in Domain /\ nextHistory \in Nat
  BY Sequences
<1>3. d.exdate = domain.exdate /\ d.crdate = domain.crdate
  <2> HIDE DEF domain
  <2>1. QED
    BY <1>2 DEF Domain
<1>4. log' = log \cup {LogRow("transfer", nextHistory, id, r, domain.registrar, None)}
  BY DEF transfer_domain, NewVersion
<1>5. UNCHANGED <<credit, charges, nextId>>
  BY DEF transfer_domain
<1>6. \A row \in log' \ log : row.event = "transfer"
  BY <1>4 DEF LogRow
<1> HIDE DEF d
<1>7. QED
  BY <1>1, <1>2, <1>3, <1>4, <1>5, <1>6, ReplaceEffect DEF Quiet

LEMMA TransferKeepsBooks ==
    ASSUME IInv, Books, NEW r \in Registrars, NEW id \in DOMAIN registry, transfer_domain(r, id)
    PROVE  Books'
<1>1. Quiet
  BY TransferEffect
<1>2. /\ log' = log \cup {LogRow("transfer", nextHistory, id, r, registry[id].registrar, None)}
      /\ poll' = poll \cup {PollMessage(registry[id].registrar, "transfer", nextHistory)}
      /\ Notify("transfer", nextHistory)
      /\ nextHistory' = nextHistory + 1
  BY DEF transfer_domain, NewVersion
<1>3. nextHistory \in Nat /\ nextHistory < nextHistory'
  BY <1>2, Sequences
<1>4. QED
  BY <1>1, <1>2, <1>3, ChangeKeepsBooks

LEMMA UpdateEffect ==
    ASSUME IInv, NEW r \in Registrars, NEW id \in DOMAIN registry,
           NEW in \in UpdateInput, update_domain(r, id, in)
    PROVE  Quiet /\ DOMAIN registry' = DOMAIN registry
             /\ \A i \in DOMAIN registry \ {id} : registry'[i] = registry[i]
<1> DEFINE domain == registry[id]
           registrant == Changed(domain.registrant, in.registrant)
           nsset == Changed(domain.nsset, in.nsset)
           keyset == NewKeyset(domain, in)
           admins == (domain.admins \cup in.add) \ in.rem
           val == Changed(domain.valexdate, in.valexdate)
           d == [[domain EXCEPT !.registrant = registrant, !.nsset = nsset,
                     !.keyset = keyset, !.admins = admins, !.valexdate = val]
                     EXCEPT !.history = nextHistory]
<1>1. registry' = [registry EXCEPT ![id] = d] /\ nextHistory' = nextHistory + 1
  BY DEF update_domain, NewVersion
<1>2. domain \in Domain /\ nextHistory \in Nat
  BY Sequences
<1>3. d.exdate = domain.exdate /\ d.crdate = domain.crdate
  <2> HIDE DEF domain, registrant, nsset, keyset, admins, val
  <2>1. QED
    BY <1>2 DEF Domain
<1>4. log' = log \cup {LogRow("update", nextHistory, id, r, domain.registrar, None)}
  BY DEF update_domain, NewVersion
<1>5. UNCHANGED <<credit, charges, nextId>>
  BY DEF update_domain
<1>6. \A row \in log' \ log : row.event = "update"
  BY <1>4 DEF LogRow
<1> HIDE DEF d
<1>7. QED
  BY <1>1, <1>2, <1>3, <1>4, <1>5, <1>6, ReplaceEffect DEF Quiet

LEMMA UpdateKeepsBooks ==
    ASSUME IInv, Books, NEW r \in Registrars, NEW id \in DOMAIN registry,
           NEW in \in UpdateInput, update_domain(r, id, in)
    PROVE  Books'
<1>1. Quiet
  BY UpdateEffect
<1>2. /\ log' = log \cup {LogRow("update", nextHistory, id, r, registry[id].registrar, None)}
      /\ TellSponsor(r, id, "update", nextHistory)
      /\ Notify("update", nextHistory)
      /\ nextHistory' = nextHistory + 1
  BY DEF update_domain, NewVersion
<1>3. /\ poll \subseteq poll'
      /\ r # registry[id].registrar =>
           PollMessage(registry[id].registrar, "update", nextHistory) \in poll'
  BY <1>2 DEF TellSponsor, Sponsors
<1>4. nextHistory \in Nat /\ nextHistory < nextHistory'
  BY <1>2, Sequences
<1>5. QED
  BY <1>1, <1>2, <1>3, <1>4, ChangeKeepsBooks

LEMMA DeleteEffect ==
    ASSUME IInv, NEW r \in Registrars, NEW id \in DOMAIN registry, delete_domain(r, id)
    PROVE  Quiet /\ DOMAIN registry' = DOMAIN registry \ {id}
             /\ \A i \in DOMAIN registry \ {id} : registry'[i] = registry[i]
<1>1. registry' = [i \in DOMAIN registry \ {id} |-> registry[i]]
  BY DEF delete_domain, Restrict
<1>2. log' = log \cup {LogRow("delete", registry[id].history, id, r, registry[id].registrar, None)}
  BY DEF delete_domain
<1>3. UNCHANGED <<credit, charges, nextId, nextHistory>>
  BY DEF delete_domain
<1>4. \A row \in log' \ log : row.event = "delete"
  BY <1>2 DEF LogRow
<1>5. QED
  BY <1>1, <1>2, <1>3, <1>4, Sequences DEF Quiet

LEMMA DeleteKeepsBooks ==
    ASSUME IInv, Books, NEW r \in Registrars, NEW id \in DOMAIN registry, delete_domain(r, id)
    PROVE  Books'
<1> DEFINE history == registry[id].history
<1>1. Quiet /\ id \notin DOMAIN registry'
  BY DeleteEffect
<1>2. /\ log' = log \cup {LogRow("delete", history, id, r, registry[id].registrar, None)}
      /\ TellSponsor(r, id, "delete", history)
      /\ Notify("delete", history)
      /\ nextHistory' = nextHistory
  BY DEF delete_domain, LastVersion
<1>3. history \in Nat /\ history < nextHistory'
  BY <1>2, Sequences
<1> HIDE DEF history
<1>4. /\ poll \subseteq poll'
      /\ r # registry[id].registrar =>
           PollMessage(registry[id].registrar, "delete", history) \in poll'
  BY <1>2 DEF TellSponsor, Sponsors
<1>5. QED
  BY <1>1, <1>2, <1>3, <1>4, ChangeKeepsBooks

\* Requests for states and the states that follow from dates leave the versions.
LEMMA RequestEffect ==
    ASSUME IInv, NEW id \in DOMAIN registry, NEW states \in ProhibitionSets,
           RequestStates(id, states)
    PROVE  Quiet /\ UNCHANGED <<log, poll, notified>> /\ DOMAIN registry' = DOMAIN registry
             /\ \A i \in DOMAIN registry : registry'[i].history = registry[i].history
<1> DEFINE domain == registry[id]
           new == (domain.states \ Prohibitions) \cup states
           d == [domain EXCEPT !.states = new]
<1>1. domain \in Domain
  BY Sequences
<1>2. /\ d.exdate = domain.exdate /\ d.crdate = domain.crdate /\ d.history = domain.history
  <2> HIDE DEF domain, new
  <2>1. QED
    BY <1>1 DEF Domain
<1>3. registry' = [registry EXCEPT ![id] = d]
      /\ UNCHANGED <<log, poll, notified, credit, charges, nextId, nextHistory>>
  BY DEF RequestStates
<1> HIDE DEF d
<1>4. QED
  BY <1>2, <1>3, ReplaceEffect, Sequences DEF Quiet

LEMMA UpdateStatesEffect ==
    ASSUME IInv, updateObjectStates
    PROVE  Quiet /\ UNCHANGED <<log, poll, notified>> /\ DOMAIN registry' = DOMAIN registry
             /\ \A i \in DOMAIN registry : registry'[i].history = registry[i].history
<1>1. DOMAIN registry' = DOMAIN registry
      /\ UNCHANGED <<log, poll, notified, credit, charges, nextId, nextHistory>>
  BY DEF updateObjectStates
<1>2. ASSUME NEW id \in DOMAIN registry
      PROVE  /\ registry'[id].exdate = registry[id].exdate
             /\ registry'[id].crdate = registry[id].crdate
             /\ registry'[id].history = registry[id].history
  <2> DEFINE domain == registry[id]
             new == (domain.states \ {"deleteCandidate"}) \cup
                      (IF today >= domain.exdate + RegistrationProtection
                       THEN {"deleteCandidate"} ELSE {})
             d == [domain EXCEPT !.states = new]
  <2>1. registry'[id] = d
    BY DEF updateObjectStates
  <2>2. domain \in Domain
    BY Sequences
  <2>3. d.exdate = domain.exdate /\ d.crdate = domain.crdate /\ d.history = domain.history
    <3> HIDE DEF domain, new
    <3>1. QED
      BY <2>2 DEF Domain
  <2> HIDE DEF d
  <2>4. QED
    BY <2>1, <2>3
<1>3. QED
  BY <1>1, <1>2, Sequences DEF Quiet

\* Nothing at all happens to the registry.
LEMMA SameRegistryQuiet ==
    ASSUME IInv, UNCHANGED <<registry, nextId, nextHistory, log, credit, charges>>
    PROVE  Quiet
  BY Sequences DEF Quiet

\* The clean-up takes away the domain with the listed id, if it is still there.
LEMMA CleanupEffect ==
    ASSUME IInv, NEW d \in todo, delete_next(d)
    PROVE  Quiet /\ UNCHANGED <<log, poll, notified>>
             /\ DOMAIN registry' = DOMAIN registry \ {d.id}
             /\ \A i \in DOMAIN registry' : registry'[i] = registry[i]
<1>1. registry' = [i \in DOMAIN registry \ {d.id} |-> registry[i]]
  <2>1. DOMAIN registry \ lock_existing(d) = DOMAIN registry \ {d.id}
    BY DEF lock_existing
  <2>2. QED
    BY <2>1 DEF delete_next, Restrict
<1>2. UNCHANGED <<log, poll, notified, credit, charges, nextId, nextHistory>>
  BY DEF delete_next
<1>3. QED
  BY <1>1, <1>2, Sequences DEF Quiet

\* The columns of a row of invoice_operation.
LEMMA ChargeFields ==
    ASSUME NEW r, NEW id, NEW op, NEW from, NEW to, NEW price
    PROVE  LET c == Charge(r, id, op, from, to, price)
           IN  /\ c.registrar = r /\ c.id = id /\ c.op = op
               /\ c.from = from /\ c.to = to /\ c.price = price
  BY DEF Charge

\* One operation more is billed.
LEMMA BilledOnce ==
    ASSUME NEW C, IsFiniteSet(C), \A c \in C : c.price \in Int, NEW x, x \notin C,
           x.price \in Int, NEW r
    PROVE  /\ Prices(BilledTo(r, C)) \in Int
           /\ Prices(BilledTo(r, C \cup {x})) =
                IF x.registrar = r THEN Prices(BilledTo(r, C)) + x.price
                ELSE Prices(BilledTo(r, C))
<1> DEFINE S == BilledTo(r, C)
<1>1. S \in SUBSET C
  BY DEF BilledTo
<1>2. IsFiniteSet(S) /\ x \notin S /\ \A c \in S \cup {x} : c.price \in Int
  BY <1>1, FS_Subset
<1>3. x.registrar = r => BilledTo(r, C \cup {x}) = S \cup {x}
  BY DEF BilledTo
<1>4. x.registrar # r => BilledTo(r, C \cup {x}) = S
  BY DEF BilledTo
<1> HIDE DEF S
<1>5. Prices(S) \in Int /\ Prices(S \cup {x}) = Prices(S) + x.price
  BY <1>2, PricesAdd
<1>6. QED
  BY <1>3, <1>4, <1>5 DEF S

\* A renewal moves exdate on by a period that is not empty, from the date the
\* client named, and logs that date.
LEMMA RenewEffect ==
    ASSUME IInv, NEW r \in Registrars, NEW id \in DOMAIN registry,
           NEW curExpDate \in FarDates, NEW period \in Periods,
           NEW valexdate \in Dates \cup {Keep},
           renew_domain(r, id, curExpDate, period, valexdate)
    PROVE  /\ DOMAIN registry' = DOMAIN registry
           /\ \A i \in DOMAIN registry \ {id} : registry'[i] = registry[i]
           /\ registry'[id].exdate = registry[id].exdate + EffectivePeriod(period)
           /\ registry'[id].crdate = registry[id].crdate
           /\ EffectivePeriod(period) \in Nat \ {0}
           /\ RenewalPrice(EffectivePeriod(period)) \in Int
           /\ curExpDate = registry[id].exdate
           /\ log' = log \cup {LogRow("renew", nextHistory, id, r, registry[id].registrar,
                                      registry[id].exdate)}
           /\ nextHistory' = nextHistory + 1
<1> DEFINE domain == registry[id]
           new == domain.exdate + EffectivePeriod(period)
           val == IF valexdate = Keep THEN domain.valexdate ELSE valexdate
           d == [[domain EXCEPT !.exdate = new, !.valexdate = val]
                    EXCEPT !.history = nextHistory]
<1>1. domain \in Domain
  BY Sequences
<1>2. d.exdate = new /\ d.crdate = domain.crdate
  <2> HIDE DEF new, val, domain
  <2>1. QED
    BY <1>1 DEF Domain
<1>3. registry' = [registry EXCEPT ![id] = d] /\ nextHistory' = nextHistory + 1
      /\ curExpDate = registry[id].exdate
  BY DEF renew_domain, NewVersion, CurrentExdate
<1>4. log' = log \cup {LogRow("renew", nextHistory, id, r, registry[id].registrar, curExpDate)}
  BY DEF renew_domain, NewVersion
<1>5. EffectivePeriod(period) \in Nat \ {0}
  <2>1. EffectivePeriod(period) \in ExPeriodMin..ExPeriodMax
    BY DEF renew_domain, PeriodValid
  <2>2. QED
    BY <2>1, DomainAssumption
<1>6. RenewalPrice(EffectivePeriod(period)) \in Int
  BY <1>5, DomainAssumption DEF RenewalPrice
<1> HIDE DEF d
<1>7. QED
  BY <1>2, <1>3, <1>4, <1>5, <1>6, ReplaceEffect

\* The new charge begins where every earlier one has ended, so it is new.
LEMMA RenewKeepsBooks ==
    ASSUME IInv, Books, NEW r \in Registrars, NEW id \in DOMAIN registry,
           NEW curExpDate \in FarDates, NEW period \in Periods,
           NEW valexdate \in Dates \cup {Keep},
           renew_domain(r, id, curExpDate, period, valexdate)
    PROVE  Books'
<1> DEFINE length == EffectivePeriod(period)
           price == RenewalPrice(length)
           old == registry[id].exdate
           new == old + length
           row == LogRow("renew", nextHistory, id, r, registry[id].registrar, old)
           x == Charge(r, id, "RenewDomain", old, new, price)
<1>1. /\ DOMAIN registry' = DOMAIN registry
      /\ \A i \in DOMAIN registry \ {id} : registry'[i] = registry[i]
      /\ registry'[id].exdate = new
      /\ registry'[id].crdate = registry[id].crdate
      /\ length \in Nat \ {0} /\ price \in Int
      /\ log' = log \cup {row}
      /\ nextHistory' = nextHistory + 1
  BY RenewEffect
<1>2. /\ UNCHANGED <<nextId, poll>> /\ Notify("renew", nextHistory)
      /\ IF Charged(r) THEN /\ credit' = [credit EXCEPT ![r] = credit[r] - price]
                            /\ charges' = charges \cup {x}
         ELSE UNCHANGED <<credit, charges>>
  BY DEF renew_domain, NewVersion, BilledFrom
<1>3. /\ row.event = "renew" /\ row.history = nextHistory /\ row.id = id /\ row.actor = r
      /\ row.asked = old
  BY DEF LogRow
<1>4. /\ x.registrar = r /\ x.id = id /\ x.op = "RenewDomain" /\ x.from = old
      /\ x.to = new /\ x.price = price
  BY ChargeFields
<1>5. /\ nextId \in Nat /\ nextHistory \in Nat /\ id \in 1..(nextId - 1)
      /\ \A i \in DOMAIN registry : registry[i].exdate \in Int /\ registry[i].crdate \in Int
  BY Sequences
<1>6. old \in Int /\ new \in Int /\ old < new
  BY <1>1, <1>5
<1>7. Money /\ LogIsSound /\ RetriedRenewalIsRefused /\ ChangesAreAnnounced
  BY DEF Books
<1> HIDE DEF length, price, old, row, x
<1>8. LogIsSound'
  <2>1. \A i \in DOMAIN registry : registry[i].exdate <= registry'[i].exdate
            /\ registry'[i].exdate \in Int
    BY <1>1, <1>5, <1>6 DEF old
  <2> HIDE DEF new
  <2>2. QED
    BY <1>1, <1>2, <1>3, <1>5, <1>6, <1>7, <2>1, LogStaysSound
<1>9. RetriedRenewalIsRefused'
  <2>1. ASSUME NEW b \in log, b.event = "renew", b.id = id
        PROVE  b.asked # row.asked
    BY <1>3, <1>6, <1>7, <2>1 DEF LogIsSound, old
  <2>2. QED
    BY <1>1, <1>3, <1>7, <2>1 DEF RetriedRenewalIsRefused
<1>10. ChangesAreAnnounced'
  <2>1. \A n \in notified' \ notified : n.event = "renew" /\ n.history = nextHistory
    BY <1>2 DEF Notify, Notification
  <2>2. QED
    BY <1>1, <1>2, <1>3, <1>7, <2>1, StaysAnnounced
<1>11. /\ charges \subseteq charges' /\ charges' \subseteq charges \cup {x}
       /\ \A j \in DOMAIN registry \ {id} : Renewals(j)' = Renewals(j)
  BY <1>2, <1>4 DEF Renewals
<1>12. x \notin charges /\ \A c \in charges : c.id = id /\ c.op = "RenewDomain" => c.to <= old
  BY <1>4, <1>6, <1>7 DEF Money, PeriodsEndInTime, Renewals, ChargesAreSound, old
<1>13. ChargesAreSound'
  <2>1. IsFiniteSet(charges')
    BY <1>2, <1>7, FS_AddElement DEF Money, ChargesAreSound
  <2>2. /\ x.id \in 1..(nextId - 1) /\ x.price \in Int /\ x.from \in Int /\ x.to \in Int
        /\ x.from < x.to
    BY <1>1, <1>4, <1>5, <1>6
  <2>3. QED
    BY <1>2, <1>7, <1>11, <2>1, <2>2 DEF Money, ChargesAreSound
<1>14. PeriodsAreDisjoint'
  <2>1. \A c \in charges : c.id = id /\ c.op = "RenewDomain" => c.to <= x.from
    BY <1>4, <1>12
  <2>2. QED
    BY <1>4, <1>7, <1>11, <2>1 DEF Money, PeriodsAreDisjoint
<1>15. PeriodsEndInTime'
  <2> SUFFICES ASSUME NEW i \in DOMAIN registry, NEW c \in charges', c.id = i,
                      c.op = "RenewDomain"
               PROVE  c.to <= registry'[i].exdate
    BY <1>1 DEF PeriodsEndInTime, Renewals
  <2>1. CASE i = id
    <3>1. CASE c \in charges
      <4>1. c.to <= old /\ c.to \in Int
        BY <1>7, <1>12, <2>1, <3>1 DEF Money, ChargesAreSound
      <4>2. QED
        BY <1>1, <1>6, <2>1, <4>1
    <3>2. CASE c = x
      BY <1>1, <1>4, <1>6, <2>1, <3>2
    <3>3. QED
      BY <1>11, <3>1, <3>2
  <2>2. CASE i # id
    <3>1. c \in charges
      BY <1>4, <1>11, <2>2
    <3>2. QED
      BY <1>1, <1>7, <2>2, <3>1 DEF Money, PeriodsEndInTime, Renewals
  <2>3. QED
    BY <2>1, <2>2
<1>16. PeriodsCover'
  <2> SUFFICES ASSUME NEW i \in DOMAIN registry, AllBilled(i)'
               PROVE  /\ Lengths(Renewals(i)') = registry'[i].exdate - registry'[i].crdate
                      /\ \E c \in charges' : c.id = i /\ c.op = "CreateDomain"
    BY <1>1 DEF PeriodsCover
  <2>1. AllBilled(i)
    BY <1>1 DEF AllBilled, ActedOn, Charged, System
  <2>2. /\ Lengths(Renewals(i)) = registry[i].exdate - registry[i].crdate
        /\ \E c \in charges' : c.id = i /\ c.op = "CreateDomain"
    BY <1>7, <1>11, <2>1 DEF Money, PeriodsCover
  <2>3. CASE i # id
    BY <1>1, <1>11, <2>2, <2>3
  <2>4. CASE i = id
    <3>1. Charged(r)
      <4>1. r \in ActedOn(id, "renew")'
        BY <1>1, <1>3 DEF ActedOn
      <4>2. QED
        BY <2>4, <4>1 DEF AllBilled, Charged, System
    <3>2. charges' = charges \cup {x}
      BY <1>2, <3>1
    <3>3. Renewals(id)' = Renewals(id) \cup {x} /\ x \notin Renewals(id)
      BY <1>4, <1>12, <3>2 DEF Renewals
    <3>4. /\ IsFiniteSet(Renewals(id))
          /\ \A c \in Renewals(id) \cup {x} : c.to - c.from \in Int
      <4>1. Renewals(id) \in SUBSET charges /\ IsFiniteSet(charges)
        BY <1>7 DEF Renewals, Money, ChargesAreSound
      <4>2. \A c \in charges : c.to \in Int /\ c.from \in Int
        BY <1>7 DEF Money, ChargesAreSound
      <4>3. QED
        BY <1>4, <1>6, <4>1, <4>2, FS_Subset
    <3>5. Lengths(Renewals(id) \cup {x}) = Lengths(Renewals(id)) + (x.to - x.from)
      BY <3>3, <3>4, LengthsAdd
    <3>6. Lengths(Renewals(id) \cup {x}) = (old - registry[id].crdate) + (new - old)
      BY <1>4, <2>2, <2>4, <3>5 DEF old
    <3>7. (old - registry[id].crdate) + (new - old) = new - registry[id].crdate
      BY <1>5, <1>6
    <3>8. QED
      BY <1>1, <2>2, <2>4, <3>3, <3>6, <3>7
  <2>5. QED
    BY <2>3, <2>4
<1>17. CreditIsRight'
  <2>1. CASE ~Charged(r)
    BY <1>2, <1>7, <2>1 DEF Money, CreditIsRight
  <2>2. CASE Charged(r)
    <3> SUFFICES ASSUME NEW q \in Registrars
                 PROVE  credit'[q] = InitialCredit - Prices(BilledTo(q, charges'))
      BY DEF CreditIsRight
    <3>1. charges' = charges \cup {x} /\ credit' = [credit EXCEPT ![r] = credit[r] - price]
      BY <1>2, <2>2
    <3>2. IsFiniteSet(charges) /\ \A c \in charges : c.price \in Int
      BY <1>7 DEF Money, ChargesAreSound
    <3>3. /\ Prices(BilledTo(q, charges)) \in Int
          /\ Prices(BilledTo(q, charges \cup {x})) =
               IF r = q THEN Prices(BilledTo(q, charges)) + price
               ELSE Prices(BilledTo(q, charges))
      BY <1>1, <1>4, <1>12, <3>2, BilledOnce
    <3>4. credit[q] = InitialCredit - Prices(BilledTo(q, charges))
      BY <1>7 DEF Money, CreditIsRight
    <3>5. credit'[q] = IF q = r THEN credit[q] - price ELSE credit[q]
      BY <3>1 DEF IInv, TypeOK
    <3>6. InitialCredit \in Int /\ price \in Int
      BY <1>1, DomainAssumption
    <3>7. QED
      BY <3>1, <3>3, <3>4, <3>5, <3>6
  <2>3. QED
    BY <2>1, <2>2
<1>18. QED
  BY <1>8, <1>9, <1>10, <1>13, <1>14, <1>15, <1>16, <1>17 DEF Books, Money

\* A create registers the next id from its start date for a period that is not
\* empty, and bills both items or none.
LEMMA CreateEffect ==
    ASSUME IInv, NEW r \in Registrars, create_domain(r)
    PROVE  \E start \in Int, period \in Nat \ {0}, price \in Int :
           /\ DOMAIN registry' = DOMAIN registry \cup {nextId}
           /\ \A i \in DOMAIN registry : registry'[i] = registry[i]
           /\ registry'[nextId].exdate = start + period
           /\ registry'[nextId].crdate = start
           /\ log' = log \cup {LogRow("create", nextHistory, nextId, r, r, None)}
           /\ Notify("create", nextHistory)
           /\ nextId' = nextId + 1 /\ nextHistory' = nextHistory + 1 /\ UNCHANGED poll
           /\ IF Charged(r)
              THEN /\ credit' = [credit EXCEPT ![r] = credit[r] - CreatePrice - price]
                   /\ charges' = charges \cup
                        {Charge(r, nextId, "CreateDomain", start, start, CreatePrice),
                         Charge(r, nextId, "RenewDomain", start, start + period, price)}
              ELSE UNCHANGED <<credit, charges>>
<1> DEFINE in == creating[r].input
           start == creating[r].start
           period == EffectivePeriod(in.period)
           price == RenewalPrice(period)
           d == NewDomain(r, in, start)
<1>1. in \in CreateInput /\ start \in 0..today /\ today \in Int
  BY DEF IInv, TypeOK, create_domain, Dates
<1>2. period \in Nat \ {0}
  <2>1. PeriodValid(in.period)
    BY DEF IInv, ChecksHold, create_domain
  <2>2. QED
    BY <2>1, DomainAssumption DEF PeriodValid
<1>3. price \in Int
  BY <1>2, DomainAssumption DEF RenewalPrice
<1>4. d.exdate = start + period /\ d.crdate = start
  BY DEF NewDomain
<1>5. registry' = [id \in DOMAIN registry \cup {nextId} |->
                     IF id = nextId THEN d ELSE registry[id]]
  BY DEF create_domain
<1>6. nextId \notin DOMAIN registry
  BY DEF IInv, TypeOK
<1>7. /\ log' = log \cup {LogRow("create", nextHistory, nextId, r, r, None)}
      /\ Notify("create", nextHistory)
      /\ nextId' = nextId + 1 /\ nextHistory' = nextHistory + 1 /\ UNCHANGED poll
      /\ IF Charged(r)
         THEN /\ credit' = [credit EXCEPT ![r] = credit[r] - CreatePrice - price]
              /\ charges' = charges \cup
                   {Charge(r, nextId, "CreateDomain", start, start, CreatePrice),
                    Charge(r, nextId, "RenewDomain", start, start + period, price)}
         ELSE UNCHANGED <<credit, charges>>
  BY DEF create_domain
<1> HIDE DEF d, price, period, start, in
<1>8. /\ DOMAIN registry' = DOMAIN registry \cup {nextId}
      /\ \A i \in DOMAIN registry : registry'[i] = registry[i]
      /\ registry'[nextId] = d
  BY <1>5, <1>6
<1>9. start \in Int
  BY <1>1
<1>10. WITNESS start \in Int, period \in Nat \ {0}, price \in Int
<1>11. QED
  BY <1>4, <1>7, <1>8

\* The two charges of a create are for an id that was never charged.
LEMMA CreateKeepsBooks ==
    ASSUME IInv, Books, NEW r \in Registrars, create_domain(r)
    PROVE  Books'
<1>1. PICK start \in Int, period \in Nat \ {0}, price \in Int :
           /\ DOMAIN registry' = DOMAIN registry \cup {nextId}
           /\ \A i \in DOMAIN registry : registry'[i] = registry[i]
           /\ registry'[nextId].exdate = start + period
           /\ registry'[nextId].crdate = start
           /\ log' = log \cup {LogRow("create", nextHistory, nextId, r, r, None)}
           /\ Notify("create", nextHistory)
           /\ nextId' = nextId + 1 /\ nextHistory' = nextHistory + 1 /\ UNCHANGED poll
           /\ IF Charged(r)
              THEN /\ credit' = [credit EXCEPT ![r] = credit[r] - CreatePrice - price]
                   /\ charges' = charges \cup
                        {Charge(r, nextId, "CreateDomain", start, start, CreatePrice),
                         Charge(r, nextId, "RenewDomain", start, start + period, price)}
              ELSE UNCHANGED <<credit, charges>>
  BY CreateEffect
<1> DEFINE row == LogRow("create", nextHistory, nextId, r, r, None)
           x == Charge(r, nextId, "CreateDomain", start, start, CreatePrice)
           y == Charge(r, nextId, "RenewDomain", start, start + period, price)
<1>2. /\ row.event = "create" /\ row.history = nextHistory /\ row.id = nextId
      /\ row.actor = r /\ row.sponsor = r
  BY DEF LogRow
<1>3. /\ x.registrar = r /\ x.id = nextId /\ x.op = "CreateDomain" /\ x.from = start
      /\ x.to = start /\ x.price = CreatePrice
      /\ y.registrar = r /\ y.id = nextId /\ y.op = "RenewDomain" /\ y.from = start
      /\ y.to = start + period /\ y.price = price
  BY ChargeFields
<1>4. /\ nextId \in Nat \ {0} /\ nextHistory \in Nat
      /\ \A i \in DOMAIN registry : /\ registry[i].exdate \in Int /\ registry[i].crdate \in Int
                                    /\ i \in 1..(nextId - 1)
      /\ CreatePrice \in Int /\ InitialCredit \in Int
  BY Sequences, DomainAssumption DEF IInv, TypeOK
<1>5. /\ log' = log \cup {row}
      /\ IF Charged(r)
         THEN /\ credit' = [credit EXCEPT ![r] = credit[r] - CreatePrice - price]
              /\ charges' = (charges \cup {x}) \cup {y}
         ELSE UNCHANGED <<credit, charges>>
  BY <1>1
<1>6. Money /\ LogIsSound /\ RetriedRenewalIsRefused /\ ChangesAreAnnounced
  BY DEF Books
<1> HIDE DEF row, x, y
<1>7. LogIsSound'
  <2>1. \A i \in DOMAIN registry' \cap 1..(nextId - 1) :
          /\ i \in DOMAIN registry
          /\ registry[i].exdate \in Int /\ registry'[i].exdate \in Int
          /\ registry[i].exdate <= registry'[i].exdate
    BY <1>1, <1>4
  <2>2. QED
    BY <1>1, <1>2, <1>4, <1>5, <1>6, <2>1, LogStaysSound
<1>8. RetriedRenewalIsRefused'
  BY <1>2, <1>5, <1>6 DEF RetriedRenewalIsRefused
<1>9. ChangesAreAnnounced'
  <2>1. \A n \in notified' \ notified : n.event = "create" /\ n.history = nextHistory
    BY <1>1 DEF Notify, Notification
  <2>2. QED
    BY <1>1, <1>2, <1>5, <1>6, <2>1, StaysAnnounced
<1>10. /\ charges \subseteq charges' /\ charges' \subseteq charges \cup {x, y}
       /\ \A c \in charges : c.id # nextId
       /\ x # y /\ x \notin charges /\ y \notin charges
  BY <1>3, <1>4, <1>5, <1>6 DEF Money, ChargesAreSound
<1>11. ChargesAreSound'
  <2>1. IsFiniteSet(charges')
    <3>1. IsFiniteSet(charges)
      BY <1>6 DEF Money, ChargesAreSound
    <3>2. IsFiniteSet(charges \cup {x})
      BY <3>1, FS_AddElement
    <3>3. IsFiniteSet((charges \cup {x}) \cup {y})
      BY <3>2, FS_AddElement
    <3>4. QED
      BY <1>5, <3>1, <3>3
  <2>2. start < start + period /\ start + period \in Int
    BY <1>1
  <2>3. QED
    BY <1>1, <1>3, <1>4, <1>6, <1>10, <2>1, <2>2 DEF Money, ChargesAreSound
<1>12. PeriodsAreDisjoint'
  BY <1>3, <1>6, <1>10 DEF Money, PeriodsAreDisjoint
<1>13. PeriodsEndInTime'
  <2> SUFFICES ASSUME NEW i \in DOMAIN registry', NEW c \in charges', c.id = i,
                      c.op = "RenewDomain"
               PROVE  c.to <= registry'[i].exdate
    BY DEF PeriodsEndInTime, Renewals
  <2>1. CASE i = nextId
    <3>1. c = y
      BY <1>3, <1>10, <2>1
    <3>2. QED
      BY <1>1, <1>3, <2>1, <3>1
  <2>2. CASE i # nextId
    <3>1. c \in charges /\ i \in DOMAIN registry
      BY <1>1, <1>3, <1>10, <2>2
    <3>2. QED
      BY <1>1, <1>6, <3>1 DEF Money, PeriodsEndInTime, Renewals
  <2>3. QED
    BY <2>1, <2>2
<1>14. PeriodsCover'
  <2> SUFFICES ASSUME NEW i \in DOMAIN registry', AllBilled(i)'
               PROVE  /\ Lengths(Renewals(i)') = registry'[i].exdate - registry'[i].crdate
                      /\ \E c \in charges' : c.id = i /\ c.op = "CreateDomain"
    BY DEF PeriodsCover
  <2>1. CASE i = nextId
    <3>1. Charged(r)
      <4>1. r \in ActedOn(i, "create")'
        BY <1>2, <1>5, <2>1 DEF ActedOn
      <4>2. QED
        BY <4>1 DEF AllBilled, Charged, System
    <3>2. charges' = (charges \cup {x}) \cup {y}
      BY <1>5, <3>1
    <3>3. Renewals(i)' = {} \cup {y}
      BY <1>3, <1>10, <2>1, <3>2 DEF Renewals
    <3>4. Lengths({} \cup {y}) = Lengths({}) + (y.to - y.from) /\ Lengths({}) = 0
      <4>1. \A c \in {} \cup {y} : c.to - c.from \in Int
        BY <1>1, <1>3
      <4>2. IsFiniteSet({}) /\ y \notin {}
        BY FS_EmptySet
      <4>3. QED
        BY <4>1, <4>2, LengthsAdd
    <3>5. 0 + ((start + period) - start) = (start + period) - start
      BY <1>1
    <3>6. QED
      BY <1>1, <1>3, <2>1, <3>2, <3>3, <3>4, <3>5
  <2>2. CASE i # nextId
    <3>1. i \in DOMAIN registry
      BY <1>1, <2>2
    <3>2. Renewals(i)' = Renewals(i)
      BY <1>3, <1>10, <2>2 DEF Renewals
    <3>3. AllBilled(i)
      BY <1>5 DEF AllBilled, ActedOn, Charged, System
    <3>4. QED
      BY <1>1, <1>6, <1>10, <3>1, <3>2, <3>3 DEF Money, PeriodsCover
  <2>3. QED
    BY <2>1, <2>2
<1>15. CreditIsRight'
  <2>1. CASE ~Charged(r)
    BY <1>5, <1>6, <2>1 DEF Money, CreditIsRight
  <2>2. CASE Charged(r)
    <3> SUFFICES ASSUME NEW q \in Registrars
                 PROVE  credit'[q] = InitialCredit - Prices(BilledTo(q, charges'))
      BY DEF CreditIsRight
    <3>1. /\ charges' = (charges \cup {x}) \cup {y}
          /\ credit' = [credit EXCEPT ![r] = credit[r] - CreatePrice - price]
      BY <1>5, <2>2
    <3>2. IsFiniteSet(charges) /\ \A c \in charges : c.price \in Int
      BY <1>6 DEF Money, ChargesAreSound
    <3>3. /\ Prices(BilledTo(q, charges)) \in Int
          /\ Prices(BilledTo(q, charges \cup {x})) =
               IF r = q THEN Prices(BilledTo(q, charges)) + CreatePrice
               ELSE Prices(BilledTo(q, charges))
      BY <1>3, <1>4, <1>10, <3>2, BilledOnce
    <3> DEFINE C == charges \cup {x}
    <3>4. /\ IsFiniteSet(C) /\ \A c \in C : c.price \in Int
          /\ y \notin C /\ y.price \in Int
      BY <1>1, <1>3, <1>4, <1>10, <3>2, FS_AddElement
    <3> HIDE DEF C
    <3>5. Prices(BilledTo(q, C \cup {y})) =
            IF r = q THEN Prices(BilledTo(q, C)) + price ELSE Prices(BilledTo(q, C))
      BY <1>3, <3>4, BilledOnce
    <3>6. credit[q] = InitialCredit - Prices(BilledTo(q, charges))
      BY <1>6 DEF Money, CreditIsRight
    <3>7. credit'[q] = IF q = r THEN credit[q] - CreatePrice - price ELSE credit[q]
      BY <3>1 DEF IInv, TypeOK
    <3>8. QED
      BY <1>1, <1>4, <3>1, <3>3, <3>5, <3>6, <3>7 DEF C
  <2>3. QED
    BY <2>1, <2>2
<1>16. QED
  BY <1>7, <1>8, <1>9, <1>11, <1>12, <1>13, <1>14, <1>15 DEF Books, Money

LEMMA InitBooks == Init => Books
<1> SUFFICES ASSUME Init PROVE Books
  OBVIOUS
<1>1. DOMAIN registry = {} /\ charges = {} /\ log = {} /\ notified = {}
  BY DEF Init
<1>2. ChargesAreSound
  BY <1>1, FS_EmptySet DEF ChargesAreSound
<1>3. CreditIsRight
  <2>1. \A r \in Registrars : BilledTo(r, charges) = {}
    BY <1>1 DEF BilledTo
  <2>2. \A r \in Registrars : credit[r] = InitialCredit
    BY DEF Init
  <2>3. InitialCredit \in Int
    BY DomainAssumption
  <2>4. QED
    BY <2>1, <2>2, <2>3, NothingToPay DEF CreditIsRight
<1>4. PeriodsAreDisjoint /\ PeriodsEndInTime /\ PeriodsCover
  BY <1>1 DEF PeriodsAreDisjoint, PeriodsEndInTime, PeriodsCover
<1>5. LogIsSound /\ RetriedRenewalIsRefused /\ ChangesAreAnnounced
  BY <1>1 DEF LogIsSound, RetriedRenewalIsRefused, ChangesAreAnnounced,
     SponsorLearnsOfForeignChange, NotifiedVersionsExist
<1>6. QED
  BY <1>2, <1>3, <1>4, <1>5 DEF Books, Money

LEMMA DomainNextBooks == IInv /\ Books /\ [DomainNext]_domainVars => Books'
<1> SUFFICES ASSUME IInv, Books, [DomainNext]_domainVars PROVE Books'
  OBVIOUS
<1>1. CASE NextDay
  <2>1. UNCHANGED <<registry, nextId, nextHistory, log, credit, charges, poll, notified>>
    BY <1>1 DEF NextDay
  <2>2. QED
    BY <2>1, SameRegistryQuiet, SilentKeepsBooks
<1>2. CASE updateObjectStates
  BY <1>2, UpdateStatesEffect, SilentKeepsBooks
<1>3. ASSUME NEW r \in Registrars, NEW in \in CreateInput, create_domain_check(r, in)
      PROVE  Books'
  <2>1. UNCHANGED <<registry, nextId, nextHistory, log, credit, charges, poll, notified>>
    BY <1>3 DEF create_domain_check
  <2>2. QED
    BY <2>1, SameRegistryQuiet, SilentKeepsBooks
<1>4. ASSUME NEW r \in Registrars, create_domain_fails(r)
      PROVE  Books'
  <2>1. UNCHANGED <<registry, nextId, nextHistory, log, credit, charges, poll, notified>>
    BY <1>4 DEF create_domain_fails
  <2>2. QED
    BY <2>1, SameRegistryQuiet, SilentKeepsBooks
<1>5. ASSUME NEW r \in Registrars, create_domain(r)
      PROVE  Books'
  BY <1>5, CreateKeepsBooks
<1>6. ASSUME NEW r \in Registrars, NEW id \in DOMAIN registry,
             \/ \E curExpDate \in FarDates, period \in Periods,
                   valexdate \in Dates \cup {Keep} :
                   renew_domain(r, id, curExpDate, period, valexdate)
             \/ transfer_domain(r, id)
             \/ delete_domain(r, id)
             \/ \E in \in UpdateInput : update_domain(r, id, in)
      PROVE  Books'
  BY <1>6, RenewKeepsBooks, TransferKeepsBooks, DeleteKeepsBooks, UpdateKeepsBooks
<1>7. ASSUME NEW id \in DOMAIN registry, NEW states \in ProhibitionSets,
             RequestStates(id, states)
      PROVE  Books'
  BY <1>7, RequestEffect, SilentKeepsBooks
<1>8. CASE UNCHANGED domainVars
  <2>1. UNCHANGED <<registry, nextId, nextHistory, log, credit, charges, poll, notified>>
    BY <1>8 DEF domainVars
  <2>2. QED
    BY <2>1, SameRegistryQuiet, SilentKeepsBooks
<1>9. QED
  BY <1>1, <1>2, <1>3, <1>4, <1>5, <1>6, <1>7, <1>8 DEF DomainNext

----------------------------------------------------------------------------
(* The clean-up, and what one step may do *)

\* What a run of the clean-up has yet to delete was a candidate when it began.
TodoWasListed == \A d \in todo : d.id \in listed

\* The inductive invariant of the commands and the clean-up together.
CInv == IInv /\ Books /\ TodoWasListed

LEMMA InitCInv == CleanupInit => CInv
  BY InitIInv, InitBooks DEF CleanupInit, CInv, TodoWasListed

LEMMA CleanupKeepsIInv ==
    ASSUME IInv, NEW d \in todo, delete_next(d)
    PROVE  IInv'
<1>1. registry' = [i \in DOMAIN registry \ lock_existing(d) |-> registry[i]]
  BY DEF delete_next, Restrict
<1>2. UNCHANGED <<today, nextId, nextHistory, credit, creating>>
  BY DEF delete_next
<1>3. /\ creating' = [q \in Registrars |-> creating'[q]] /\ credit' \in [Registrars -> Int]
      /\ today' \in Dates /\ today <= today'
  BY <1>2 DEF IInv, Shape, TypeOK, Dates
<1>4. QED
  BY <1>1, <1>2, <1>3, FewerKeepsIInv

LEMMA NextCInv == CInv /\ [CandidatesNext]_candidateVars => CInv'
<1> SUFFICES ASSUME IInv, Books, TodoWasListed, [CandidatesNext]_candidateVars PROVE CInv'
  BY DEF CInv
<1>1. CASE [DomainNext]_domainVars /\ UNCHANGED cleanupVars
  BY <1>1, NextIInv, DomainNextBooks DEF CInv, TodoWasListed, cleanupVars
<1>2. ASSUME NEW option \in TypeOptions, NEW chosen \in SUBSET DOMAIN registry,
             init_objects_to_delete(option, chosen)
      PROVE  CInv'
  <2>1. UNCHANGED domainVars
    BY <1>2 DEF init_objects_to_delete
  <2>2. TodoWasListed'
    <3>1. /\ todo' = {DomainToDelete(id) : id \in chosen}
          /\ chosen \subseteq Candidates /\ listed' = Candidates
      BY <1>2 DEF init_objects_to_delete
    <3>2. \A id \in chosen : DomainToDelete(id).id = id
      BY DEF DomainToDelete
    <3>3. QED
      BY <3>1, <3>2 DEF TodoWasListed
  <2>3. QED
    BY <2>1, <2>2, NextIInv, DomainNextBooks DEF CInv
<1>3. ASSUME NEW d \in todo, delete_next(d)
      PROVE  CInv'
  <2>1. TodoWasListed'
    BY <1>3 DEF delete_next, TodoWasListed
  <2>2. IInv'
    BY <1>3, CleanupKeepsIInv
  <2>3. Books'
    BY <1>3, CleanupEffect, SilentKeepsBooks
  <2>4. QED
    BY <2>1, <2>2, <2>3 DEF CInv
<1>4. ASSUME NEW d \in todo, delete_fails(d)
      PROVE  CInv'
  <2>1. UNCHANGED domainVars
    BY <1>4 DEF delete_fails
  <2>2. TodoWasListed'
    BY <1>4 DEF delete_fails, TodoWasListed
  <2>3. QED
    BY <2>1, <2>2, NextIInv, DomainNextBooks DEF CInv
<1>5. CASE UNCHANGED candidateVars
  BY <1>5, <1>1 DEF candidateVars
<1>6. QED
  BY <1>1, <1>2, <1>3, <1>4, <1>5 DEF CandidatesNext, CleanupNext

----------------------------------------------------------------------------
\* A command that changes a domain leaves a row in the log that was not there.
LEMMA NewRowIsNew ==
    ASSUME Books, nextHistory \in Nat, NEW event, NEW id, NEW r, NEW sponsor, NEW asked
    PROVE  LogRow(event, nextHistory, id, r, sponsor, asked) \notin log
<1> DEFINE row == LogRow(event, nextHistory, id, r, sponsor, asked)
<1>1. row.history = nextHistory
  BY DEF LogRow
<1> HIDE DEF row
<1>2. row \notin log
  BY <1>1 DEF Books, LogIsSound
<1>3. QED
  BY <1>2 DEF row

\* The same of the deletion of a domain that is still registered.
LEMMA DeleteRowIsNew ==
    ASSUME Books, NEW history, NEW id \in DOMAIN registry, NEW r, NEW sponsor
    PROVE  LogRow("delete", history, id, r, sponsor, None) \notin log
<1> DEFINE row == LogRow("delete", history, id, r, sponsor, None)
<1>1. row.event = "delete" /\ row.id = id
  BY DEF LogRow
<1> HIDE DEF row
<1>2. row \notin log
  BY <1>1 DEF Books, LogIsSound
<1>3. QED
  BY <1>2 DEF row

\* What FrozenDomainsStay says of one domain in one step.
StaysFrozen(id) ==
    "deleteCandidate" \in registry[id].states =>
        \/ id \in DOMAIN registry' /\ registry'[id].history = registry[id].history
        \/ id \notin DOMAIN registry' /\ UNCHANGED log
        \/ \E row \in log' \ log : row.id = id /\ System(row.actor)

\* A command by r on the domain at: every other domain keeps its version, and that
\* one is frozen only for registrars that are not system registrars.
LEMMA CommandKeepsFrozen ==
    ASSUME NEW r, NEW at \in DOMAIN registry, NEW row, row \in log' \ log,
           row.id = at, row.actor = r,
           System(r) \/ "deleteCandidate" \notin registry[at].states,
           \A i \in DOMAIN registry \ {at} :
              i \in DOMAIN registry' /\ registry'[i] = registry[i]
    PROVE  \A id \in DOMAIN registry : StaysFrozen(id)
  BY DEF StaysFrozen

\* The columns of a row of the log that matter here.
LEMMA RowFields ==
    ASSUME NEW event, NEW history, NEW id, NEW r, NEW sponsor, NEW asked
    PROVE  /\ LogRow(event, history, id, r, sponsor, asked).id = id
           /\ LogRow(event, history, id, r, sponsor, asked).actor = r
  BY DEF LogRow

\* Every command asks for deleteCandidate, or is from a system registrar.
LEMMA DomainKeepsFrozen ==
    ASSUME IInv, Books, DomainNext
    PROVE  \A id \in DOMAIN registry : StaysFrozen(id)
<1>0. nextHistory \in Nat /\ nextId \notin DOMAIN registry
  BY DEF IInv, TypeOK
<1>1. ASSUME UNCHANGED registry PROVE \A id \in DOMAIN registry : StaysFrozen(id)
  BY <1>1 DEF StaysFrozen
<1>2. CASE NextDay
  BY <1>1, <1>2 DEF NextDay
<1>3. CASE updateObjectStates
  BY <1>3, UpdateStatesEffect DEF StaysFrozen
<1>4. ASSUME NEW r \in Registrars, NEW in \in CreateInput, create_domain_check(r, in)
      PROVE  \A id \in DOMAIN registry : StaysFrozen(id)
  BY <1>1, <1>4 DEF create_domain_check
<1>5. ASSUME NEW r \in Registrars, create_domain_fails(r)
      PROVE  \A id \in DOMAIN registry : StaysFrozen(id)
  BY <1>1, <1>5 DEF create_domain_fails
<1>6. ASSUME NEW r \in Registrars, create_domain(r)
      PROVE  \A id \in DOMAIN registry : StaysFrozen(id)
  <2>1. \A i \in DOMAIN registry : i \in DOMAIN registry' /\ registry'[i] = registry[i]
    BY <1>6, CreateEffect
  <2>2. QED
    BY <2>1 DEF StaysFrozen
<1>7. ASSUME NEW r \in Registrars, NEW id \in DOMAIN registry,
             NEW curExpDate \in FarDates, NEW period \in Periods,
             NEW valexdate \in Dates \cup {Keep},
             renew_domain(r, id, curExpDate, period, valexdate)
      PROVE  \A i \in DOMAIN registry : StaysFrozen(i)
  <2> DEFINE row == LogRow("renew", nextHistory, id, r, registry[id].registrar,
                           registry[id].exdate)
  <2>1. /\ log' = log \cup {row}
        /\ \A i \in DOMAIN registry \ {id} :
             i \in DOMAIN registry' /\ registry'[i] = registry[i]
    BY <1>7, RenewEffect
  <2>2. row \notin log /\ row.id = id /\ row.actor = r
    BY <1>0, NewRowIsNew, RowFields
  <2>3. System(r) \/ "deleteCandidate" \notin registry[id].states
    BY <1>7 DEF renew_domain, Prohibited
  <2> HIDE DEF row
  <2>4. QED
    BY <2>1, <2>2, <2>3, CommandKeepsFrozen
<1>8. ASSUME NEW r \in Registrars, NEW id \in DOMAIN registry, transfer_domain(r, id)
      PROVE  \A i \in DOMAIN registry : StaysFrozen(i)
  <2> DEFINE row == LogRow("transfer", nextHistory, id, r, registry[id].registrar, None)
  <2>1. /\ log' = log \cup {row}
        /\ System(r) \/ "deleteCandidate" \notin registry[id].states
    BY <1>8 DEF transfer_domain, NewVersion, Prohibited, TransferProhibiting
  <2>2. row \notin log /\ row.id = id /\ row.actor = r
    BY <1>0, NewRowIsNew, RowFields
  <2>3. \A i \in DOMAIN registry \ {id} :
             i \in DOMAIN registry' /\ registry'[i] = registry[i]
    BY <1>8, TransferEffect
  <2> HIDE DEF row
  <2>4. QED
    BY <2>1, <2>2, <2>3, CommandKeepsFrozen
<1>9. ASSUME NEW r \in Registrars, NEW id \in DOMAIN registry, delete_domain(r, id)
      PROVE  \A i \in DOMAIN registry : StaysFrozen(i)
  <2> DEFINE row == LogRow("delete", registry[id].history, id, r, registry[id].registrar, None)
  <2>1. /\ log' = log \cup {row}
        /\ System(r) \/ "deleteCandidate" \notin registry[id].states
    BY <1>9 DEF delete_domain, Prohibited
  <2>2. row \notin log /\ row.id = id /\ row.actor = r
    BY DeleteRowIsNew, RowFields
  <2>3. \A i \in DOMAIN registry \ {id} :
             i \in DOMAIN registry' /\ registry'[i] = registry[i]
    BY <1>9, DeleteEffect
  <2> HIDE DEF row
  <2>4. QED
    BY <2>1, <2>2, <2>3, CommandKeepsFrozen
<1>10. ASSUME NEW r \in Registrars, NEW id \in DOMAIN registry, NEW in \in UpdateInput,
              update_domain(r, id, in)
       PROVE  \A i \in DOMAIN registry : StaysFrozen(i)
  <2> DEFINE row == LogRow("update", nextHistory, id, r, registry[id].registrar, None)
  <2>1. /\ log' = log \cup {row}
        /\ System(r) \/ "deleteCandidate" \notin registry[id].states
    BY <1>10 DEF update_domain, NewVersion, Prohibited
  <2>2. row \notin log /\ row.id = id /\ row.actor = r
    BY <1>0, NewRowIsNew, RowFields
  <2>3. \A i \in DOMAIN registry \ {id} :
             i \in DOMAIN registry' /\ registry'[i] = registry[i]
    BY <1>10, UpdateEffect
  <2> HIDE DEF row
  <2>4. QED
    BY <2>1, <2>2, <2>3, CommandKeepsFrozen
<1>11. ASSUME NEW id \in DOMAIN registry, NEW states \in ProhibitionSets,
              RequestStates(id, states)
       PROVE  \A i \in DOMAIN registry : StaysFrozen(i)
  BY <1>11, RequestEffect DEF StaysFrozen
<1>12. QED
  BY <1>2, <1>3, <1>4, <1>5, <1>6, <1>7, <1>8, <1>9, <1>10, <1>11 DEF DomainNext

LEMMA StepKeepsFrozen ==
    ASSUME CInv, [CandidatesNext]_candidateVars
    PROVE  \A id \in DOMAIN registry : StaysFrozen(id)
<1>1. CASE DomainNext
  BY <1>1, DomainKeepsFrozen DEF CInv
<1>2. ASSUME NEW d \in todo, delete_next(d)
      PROVE  \A id \in DOMAIN registry : StaysFrozen(id)
  <2>1. UNCHANGED log /\ \A i \in DOMAIN registry' : registry'[i] = registry[i]
    BY <1>2, CleanupEffect DEF CInv
  <2>2. QED
    BY <2>1 DEF StaysFrozen
<1>3. CASE UNCHANGED domainVars
  BY <1>3 DEF StaysFrozen, domainVars
<1>4. ASSUME NEW option, NEW chosen, init_objects_to_delete(option, chosen)
      PROVE  UNCHANGED domainVars
  BY <1>4 DEF init_objects_to_delete
<1>5. ASSUME NEW d, delete_fails(d)
      PROVE  UNCHANGED domainVars
  BY <1>5 DEF delete_fails, domainVars
<1>6. CASE UNCHANGED candidateVars
  BY <1>6, <1>3 DEF candidateVars
<1>7. QED
  BY <1>1, <1>2, <1>3, <1>4, <1>5, <1>6 DEF CandidatesNext, CleanupNext

\* Only delete_next deletes, and only the id it took from its list.
LEMMA CleanupDeletesListed ==
    ASSUME CInv, [CandidatesNext]_candidateVars, todo' # todo
    PROVE  Deleted \subseteq listed
<1>1. ~UNCHANGED candidateVars /\ ~UNCHANGED cleanupVars
  BY DEF candidateVars, cleanupVars
<1>2. ASSUME NEW option, NEW chosen, init_objects_to_delete(option, chosen)
      PROVE  Deleted \subseteq listed
  BY <1>2 DEF init_objects_to_delete, Deleted, domainVars
<1>3. ASSUME NEW d \in todo, delete_next(d)
      PROVE  Deleted \subseteq listed
  <2>1. Deleted \subseteq {d.id}
    BY <1>3, CleanupEffect DEF CInv, Deleted
  <2>2. QED
    BY <2>1 DEF CInv, TodoWasListed
<1>4. ASSUME NEW d \in todo, delete_fails(d)
      PROVE  Deleted \subseteq listed
  BY <1>4 DEF delete_fails, Deleted, domainVars
<1>5. QED
  BY <1>1, <1>2, <1>3, <1>4 DEF CandidatesNext, CleanupNext

----------------------------------------------------------------------------
\* CInv is an invariant of every behaviour of the domain commands beside the
\* clean-up of delete candidates.
THEOREM CInvHolds == CandidatesSpec => []CInv
  BY InitCInv, NextCInv, PTL DEF CandidatesSpec

\* The registry keeps its types: no command leaves a domain with a date, a
\* registrar or a reference outside what the zone's settings allow.
THEOREM TypeCorrect == CandidatesSpec => []TypeOK
<1>1. CInv => TypeOK
  BY DEF CInv, IInv
<1>2. QED
  BY <1>1, CInvHolds, PTL

\* No order of create_domain, renew_domain and update_domain registers a domain
\* for longer ahead than ex_period_max of its zone, or takes an ENUM validation
\* beyond the continuation window and one validation period, even when a create
\* commits on a later day than the one it was checked on.
THEOREM DomainsStayInHorizons == CandidatesSpec => []HorizonsHold
<1>1. CInv => HorizonsHold
  BY DEF CInv, IInv, HorizonsHold
<1>2. QED
  BY <1>1, CInvHolds, PTL

\* The periods billed for a domain do not overlap, end by its exdate and, when
\* every registrar that created or renewed it is billed, add up to the time it is
\* registered for, for any number of renewals.
THEOREM BilledPeriodsTile == CandidatesSpec => []PaidPeriodsTile
<1>1. CInv => PaidPeriodsTile
  BY MoneyParts DEF CInv, Books, Money
<1>2. QED
  BY <1>1, CInvHolds, PTL

\* The credit of every registrar is what it had less the sum of all that was
\* billed to it: a create_domain whose second bill item fails takes nothing.
THEOREM CreditIsSpentOnCharges == CandidatesSpec => []CreditMatchesCharges
<1>1. CInv => CreditMatchesCharges
  BY MoneyParts DEF CInv, Books, Money
<1>2. QED
  BY <1>1, CInvHolds, PTL

\* renew_domain never accepts the same curExpDate twice for one domain.
THEOREM RenewalsAreNotRepeated == CandidatesSpec => []RetriedRenewalIsRefused
<1>1. CInv => RetriedRenewalIsRefused
  BY DEF CInv, Books
<1>2. QED
  BY <1>1, CInvHolds, PTL

\* The sponsor of a domain has a poll message for every change another registrar
\* made, and the version a queued notification names is in the history.
THEOREM SponsorsAndHoldersLearn == CandidatesSpec => []ChangesAreAnnounced
<1>1. CInv => ChangesAreAnnounced
  BY DEF CInv, Books
<1>2. QED
  BY <1>1, CInvHolds, PTL

\* No command of a registrar that is not a system registrar changes or deletes a
\* domain marked deleteCandidate.
THEOREM CandidatesAreFrozen == CandidatesSpec => FrozenDomainsStay
<1>1. CInv /\ [CandidatesNext]_candidateVars =>
        [\A id \in DOMAIN registry :
          "deleteCandidate" \in registry[id].states =>
              \/ id \in DOMAIN registry' /\ registry'[id].history = registry[id].history
              \/ id \notin DOMAIN registry' /\ UNCHANGED log
              \/ \E row \in log' \ log : row.id = id /\ System(row.actor)]_domainVars
  BY StepKeepsFrozen DEF StaysFrozen
<1>2. QED
  BY <1>1, CInvHolds, PTL DEF CandidatesSpec, FrozenDomainsStay

\* A run of the clean-up deletes only what was a candidate when it made its list,
\* whatever commands delete and register again meanwhile.
THEOREM CleanupKeepsToItsList == CandidatesSpec => LaterRegistrationsSurvive
<1>1. CInv /\ [CandidatesNext]_candidateVars =>
        [todo' # todo => Deleted \subseteq listed]_candidateVars
  BY CleanupDeletesListed
<1>2. QED
  BY <1>1, CInvHolds, PTL DEF CandidatesSpec, LaterRegistrationsSurvive
===================================================================================

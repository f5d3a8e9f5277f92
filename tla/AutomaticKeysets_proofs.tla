------------------------ MODULE AutomaticKeysets_proofs ------------------------
(***************************************************************************)
(* Proofs about AutomaticKeysets: what a late call may write, for any      *)
(* number of domains, keysets, calls at a time and commands in between.    *)
(* The inductive invariant adds to the types that a domain is linked only  *)
(* to a keyset that exists, and what a call has found out by the time it   *)
(* comes to the lock.                                                      *)
(***************************************************************************)
EXTENDS AutomaticKeysets, TLAPS

\* delete_keyset refuses a keyset in use, and a new one is linked in the
\* transaction that creates it.
LinkedKeysetsExist ==
    \A f \in Fqdns : domain[f].keyset # None => domain[f].keyset \in DOMAIN keysets

\* What a call knows after its unlocked reads.
CallKnows(c) ==
    /\ c.stage \in {"read", "checked", "locked"} =>
         /\ c.domain.id = c.id
         /\ c.keys \in Versions \cup {"delete"}
         /\ c.op = "insecure" =>
              c.domain.keyset = None /\ c.domain.nsset # None /\ c.keys \in Versions
         /\ c.op = "secure" =>
              c.domain.keyset # None /\ ~is_automatically_managed_keyset(c.domain.keyset)
         /\ c.op = "managed" => is_automatically_managed_keyset(c.domain.keyset)
    /\ c.stage = "locked" => c.keys # "delete"
    /\ c.stage = "read" => ReadsTwice(c)
    /\ c.stage = "checked" /\ c.op = "insecure" => c.seen = c.server

CallsKnow == \A s \in Scanners : CallKnows(calls[s])

IInv == TypeOK /\ LinkedKeysetsExist /\ CallsKnow

-----------------------------------------------------------------------------
LEMMA IdleIsCall == Idle \in Call /\ CallKnows(Idle)
<1>1. (CHOOSE f \in Fqdns : TRUE) \in Fqdns
  BY ConstantsAssumption
<1>2. QED
  BY <1>1 DEF Idle, Call, CallKnows, Operations, Publications, Versions, Unregistered,
     DomainRecord, DomainStates, Keys, OwnKeys

LEMMA InitEstablishes == Init => IInv
<1> SUFFICES ASSUME Init PROVE IInv
  OBVIOUS
<1>1. InitialIds \in [Fqdns -> Registrations]
  BY ConstantsAssumption DEF InitialIds
<1>2. PICK k \in RegistrarKeysets \cup {None} :
        domain = [f \in Fqdns |-> [id |-> InitialIds[f], nsset |-> CHOOSE n \in Nssets : TRUE,
                                   keyset |-> k, states |-> {}]]
  BY DEF Init
<1>3. (CHOOSE n \in Nssets : TRUE) \in Nssets
  BY ConstantsAssumption
<1>4. domain \in [Fqdns -> DomainRecord]
  BY <1>1, <1>2, <1>3 DEF DomainRecord, Keysets
<1>5. \A j \in DOMAIN keysets : keysets[j] \in [keys : Keys, prohibited : BOOLEAN]
  <2>1. OwnKeys \in Keys
    BY DEF OwnKeys, Keys, Versions
  <2>2. [keys |-> OwnKeys, prohibited |-> FALSE] \in [keys : Keys, prohibited : BOOLEAN]
    BY <2>1
  <2>3. QED
    BY <2>2 DEF Init
<1>6. TypeOK
  BY <1>4, <1>5, IdleIsCall, ConstantsAssumption
     DEF Init, TypeOK, Keysets, Publications, Versions
<1>7. LinkedKeysetsExist
  BY <1>2 DEF Init, LinkedKeysetsExist
<1>8. CallsKnow
  BY IdleIsCall DEF Init, CallsKnow
<1>9. QED
  BY <1>6, <1>7, <1>8 DEF IInv

-----------------------------------------------------------------------------
(* Steps that leave the calls alone.                                       *)

LEMMA CommandCounts == ASSUME TypeOK, Command PROVE commands' \in 0..MaxCommands
  BY ConstantsAssumption DEF TypeOK, Command

LEMMA CallsStayKnowing == ASSUME CallsKnow, UNCHANGED calls PROVE CallsKnow'
  BY DEF CallsKnow, CallKnows, ReadsTwice, is_dnssec_turn_off_requested,
     is_automatically_managed_keyset

\* A command that changes one domain.
LEMMA DomainStep ==
    ASSUME IInv, Command, UNCHANGED <<hosts, keysets, published, calls>>,
           NEW f \in Fqdns, NEW d \in DomainRecord,
           d.keyset # None => d.keyset \in DOMAIN keysets,
           domain' = [domain EXCEPT ![f] = d]
    PROVE  IInv'
<1> USE DEF IInv
<1>1. CallsKnow'
  BY CallsStayKnowing
<1>2. domain' \in [Fqdns -> DomainRecord]
  BY DEF TypeOK
<1>3. TypeOK'
  BY <1>2, CommandCounts DEF TypeOK
<1>4. LinkedKeysetsExist'
  BY DEF TypeOK, LinkedKeysetsExist
<1>5. QED
  BY <1>1, <1>3, <1>4

\* A step that changes one keyset or creates one; domains keep their links.
LEMMA KeysetWrite ==
    ASSUME TypeOK, LinkedKeysetsExist, UNCHANGED domain,
           NEW k \in DOMAIN keysets, NEW v \in [keys : Keys, prohibited : BOOLEAN],
           keysets' = [keysets EXCEPT ![k] = v]
    PROVE  /\ DOMAIN keysets' \subseteq Keysets
           /\ \A j \in DOMAIN keysets' : keysets'[j] \in [keys : Keys, prohibited : BOOLEAN]
           /\ LinkedKeysetsExist'
<1>1. DOMAIN keysets' = DOMAIN keysets
  OBVIOUS
<1>2. \A j \in DOMAIN keysets' : keysets'[j] = IF j = k THEN v ELSE keysets[j]
  BY <1>1
<1>3. \A j \in DOMAIN keysets' : keysets'[j] \in [keys : Keys, prohibited : BOOLEAN]
  BY <1>1, <1>2 DEF TypeOK
<1>4. QED
  BY <1>1, <1>3 DEF TypeOK, LinkedKeysetsExist

LEMMA KeysetStep ==
    ASSUME IInv, Command, UNCHANGED <<domain, hosts, published, calls>>,
           NEW k \in DOMAIN keysets, NEW v \in [keys : Keys, prohibited : BOOLEAN],
           keysets' = [keysets EXCEPT ![k] = v]
    PROVE  IInv'
<1> USE DEF IInv
<1>1. CallsKnow'
  BY CallsStayKnowing
<1>2. QED
  BY <1>1, KeysetWrite, CommandCounts DEF TypeOK

LEMMA UpdateDomainPreserves ==
    ASSUME IInv, NEW f \in Fqdns, NEW changed, NEW n \in Nssets \cup {None},
           NEW k \in Keysets \cup {None}, NEW clear \in BOOLEAN,
           update_domain(f, changed, n, k, clear)
    PROVE  IInv'
<1> DEFINE old == domain[f]
           different == "nsset" \in changed /\ n # None /\ n # old.nsset
           nsset == IF "nsset" \in changed THEN n ELSE old.nsset
           keyset == IF "keyset" \in changed THEN k
                     ELSE IF clear /\ different THEN None ELSE old.keyset
           new == [old EXCEPT !.nsset = nsset, !.keyset = keyset]
<1>1. old \in DomainRecord /\ (old.keyset # None => old.keyset \in DOMAIN keysets)
  BY DEF IInv, TypeOK, LinkedKeysetsExist
<1>2. /\ Command /\ k \in DOMAIN keysets \cup {None}
      /\ domain' = [domain EXCEPT ![f] = new]
      /\ UNCHANGED <<hosts, keysets, published, calls>>
  BY DEF update_domain
<1>3. /\ nsset \in Nssets \cup {None}
      /\ keyset \in Keysets \cup {None}
      /\ keyset # None => keyset \in DOMAIN keysets
  BY <1>1, <1>2 DEF DomainRecord
<1>4. new \in DomainRecord /\ new.keyset = keyset
  <2> HIDE DEF nsset, keyset
  <2>1. QED
    BY <1>1, <1>3 DEF DomainRecord
<1> HIDE DEF new, keyset
<1>5. QED
  BY <1>2, <1>3, <1>4, DomainStep

LEMMA RegistrarPreserves == ASSUME IInv, Registrar PROVE IInv'
<1> USE DEF IInv
<1>1. ASSUME NEW f \in ManagedZone, delete_domain(f) PROVE IInv'
  <2>1. f \in Fqdns /\ Unregistered \in DomainRecord /\ Unregistered.keyset = None
    BY ConstantsAssumption DEF Unregistered, DomainRecord
  <2>2. QED
    BY <1>1, <2>1, DomainStep DEF delete_domain
<1>2. ASSUME NEW f \in ManagedZone, NEW n \in Nssets \cup {None},
             NEW k \in Keysets \cup {None}, create_domain(f, n, k)
      PROVE  IInv'
  <2>1. PICK id \in Registrations :
          domain' = [domain EXCEPT ![f] =
                        [id |-> id, nsset |-> n, keyset |-> k, states |-> {}]]
    BY <1>2 DEF create_domain
  <2> DEFINE d == [id |-> id, nsset |-> n, keyset |-> k, states |-> {}]
  <2>2. f \in Fqdns /\ d \in DomainRecord
    BY ConstantsAssumption DEF DomainRecord
  <2>3. d.keyset # None => d.keyset \in DOMAIN keysets
    BY <1>2 DEF create_domain
  <2>4. Command /\ UNCHANGED <<hosts, keysets, published, calls>>
    BY <1>2 DEF create_domain
  <2> HIDE DEF d
  <2>5. QED
    BY <2>1, <2>2, <2>3, <2>4, DomainStep DEF d
<1>3. ASSUME NEW f \in ManagedZone, NEW n \in Nssets \cup {None}, NEW clear \in KeysetClear,
             update_domain(f, {"nsset"}, n, None, clear)
      PROVE  IInv'
  BY <1>3, UpdateDomainPreserves, ConstantsAssumption
<1>4. ASSUME NEW f \in Fqdns, NEW k \in Keysets \cup {None},
             update_domain(f, {"keyset"}, None, k, FALSE)
      PROVE  IInv'
  BY <1>4, UpdateDomainPreserves
<1>4a. ASSUME NEW f \in ManagedZone, NEW n \in Nssets \cup {None},
             NEW k \in Keysets \cup {None}, update_domain(f, {"nsset", "keyset"}, n, k, FALSE)
      PROVE  IInv'
  BY <1>4a, UpdateDomainPreserves, ConstantsAssumption
<1>5. ASSUME NEW n \in Nssets, NEW server \in Nameservers, update_nsset(n, server)
      PROVE  IInv'
  <2>1. hosts' \in [Nssets -> Nameservers]
    BY <1>5 DEF update_nsset, TypeOK
  <2>2. /\ Command
        /\ UNCHANGED <<domain, keysets, published, calls>>
    BY <1>5 DEF update_nsset
  <2>3. TypeOK'
    BY <2>1, <2>2, CommandCounts DEF TypeOK
  <2>4. LinkedKeysetsExist'
    BY <2>2 DEF LinkedKeysetsExist
  <2>5. QED
    BY <2>2, <2>3, <2>4, CallsStayKnowing
<1>6. ASSUME NEW k \in Keysets, update_keyset(k) PROVE IInv'
  <2> DEFINE v == [keysets[k] EXCEPT !.keys = OwnKeys]
  <2>1. k \in DOMAIN keysets /\ keysets[k] \in [keys : Keys, prohibited : BOOLEAN]
    BY <1>6 DEF update_keyset, TypeOK
  <2>2. OwnKeys \in Keys
    BY DEF OwnKeys, Keys, Versions
  <2>3. v \in [keys : Keys, prohibited : BOOLEAN]
    BY <2>1, <2>2
  <2>4. keysets' = [keysets EXCEPT ![k] = v]
    BY <1>6 DEF update_keyset
  <2>5. Command /\ UNCHANGED <<domain, hosts, published, calls>>
    BY <1>6 DEF update_keyset
  <2> HIDE DEF v
  <2>6. QED
    BY <2>1, <2>3, <2>4, <2>5, KeysetStep
<1>7. ASSUME NEW k \in Keysets, delete_keyset(k) PROVE IInv'
  <2>1. /\ Command /\ UNCHANGED <<domain, hosts, published, calls>>
        /\ Users(k) = {}
        /\ keysets' = [j \in DOMAIN keysets \ {k} |-> keysets[j]]
    BY <1>7 DEF delete_keyset
  <2>2. \A j \in DOMAIN keysets' :
          j \in DOMAIN keysets /\ keysets'[j] = keysets[j]
    BY <2>1
  <2>3. TypeOK'
    BY <2>1, <2>2, CommandCounts DEF TypeOK
  <2>4. LinkedKeysetsExist'
    BY <2>1 DEF LinkedKeysetsExist, Users
  <2>5. QED
    BY <2>1, <2>3, <2>4, CallsStayKnowing
<1>8. QED
  BY <1>1, <1>2, <1>3, <1>4, <1>4a, <1>5, <1>6, <1>7 DEF Registrar

LEMMA EnvironmentPreserves == ASSUME IInv, Environment PROVE IInv'
<1> USE DEF IInv
<1>1. ASSUME NEW f \in ManagedZone, NEW state \in DomainStates, SetDomainStates(f, state)
      PROVE  IInv'
  <2> DEFINE d == [domain[f] EXCEPT !.states =
                      IF state \in @ THEN @ \ {state} ELSE @ \cup {state}]
  <2>1. f \in Fqdns /\ domain[f] \in DomainRecord
    BY ConstantsAssumption DEF TypeOK
  <2>2. d \in DomainRecord /\ d.keyset = domain[f].keyset
    BY <2>1 DEF DomainRecord
  <2>3. domain' = [domain EXCEPT ![f] = d]
    BY <1>1, <2>1 DEF SetDomainStates, TypeOK, DomainRecord
  <2>4. d.keyset # None => d.keyset \in DOMAIN keysets
    BY <2>1, <2>2 DEF LinkedKeysetsExist
  <2>5. Command /\ UNCHANGED <<hosts, keysets, published, calls>>
    BY <1>1 DEF SetDomainStates
  <2> HIDE DEF d
  <2>6. QED
    BY <2>1, <2>2, <2>3, <2>4, <2>5, DomainStep
<1>2. ASSUME NEW k \in Keysets, SetKeysetStates(k) PROVE IInv'
  <2> DEFINE v == [keysets[k] EXCEPT !.prohibited = ~@]
  <2>1. k \in DOMAIN keysets /\ keysets[k] \in [keys : Keys, prohibited : BOOLEAN]
    BY <1>2 DEF SetKeysetStates, TypeOK
  <2>2. v \in [keys : Keys, prohibited : BOOLEAN]
    BY <2>1
  <2>3. keysets' = [keysets EXCEPT ![k] = v]
    BY <1>2 DEF SetKeysetStates
  <2>4. Command /\ UNCHANGED <<domain, hosts, published, calls>>
    BY <1>2 DEF SetKeysetStates
  <2> HIDE DEF v
  <2>5. QED
    BY <2>1, <2>2, <2>3, <2>4, KeysetStep
<1>3. ASSUME NEW f \in ManagedZone, NEW server \in Nameservers, NEW keys \in Published,
             Publish(f, server, keys)
      PROVE  IInv'
  <2>1. published' \in [ManagedZone -> [Nameservers -> Publications]]
    BY <1>3, ConstantsAssumption DEF Publish, TypeOK
  <2>2. Command /\ UNCHANGED <<domain, hosts, keysets, calls>>
    BY <1>3 DEF Publish
  <2>3. TypeOK'
    BY <2>1, <2>2, CommandCounts DEF TypeOK
  <2>4. LinkedKeysetsExist'
    BY <2>2 DEF LinkedKeysetsExist
  <2>5. QED
    BY <2>2, <2>3, <2>4, CallsStayKnowing
<1>4. QED
  BY <1>1, <1>2, <1>3 DEF Environment

-----------------------------------------------------------------------------
(* Steps of a call.                                                        *)

\* One call changes, to something that is a call and knows what it should.
LEMMA CallStep ==
    ASSUME TypeOK, CallsKnow, NEW s \in Scanners, NEW c \in Call, CallKnows(c),
           calls' = [calls EXCEPT ![s] = c]
    PROVE  calls' \in [Scanners -> Call] /\ CallsKnow'
<1>1. calls' \in [Scanners -> Call]
  BY DEF TypeOK
<1>2. \A t \in Scanners : calls'[t] = IF t = s THEN c ELSE calls[t]
  BY DEF TypeOK
<1>3. \A t \in Scanners : CallKnows(calls'[t])
  BY <1>2 DEF CallsKnow
<1>4. QED
  BY <1>1, <1>3 DEF CallsKnow, CallKnows, ReadsTwice, is_dnssec_turn_off_requested,
     is_automatically_managed_keyset

\* A step that changes only a call.
LEMMA OnlyCallStep ==
    ASSUME IInv, NEW s \in Scanners, NEW c \in Call, CallKnows(c),
           calls' = [calls EXCEPT ![s] = c],
           UNCHANGED <<domain, hosts, keysets, published, commands>>
    PROVE  IInv'
<1>1. calls' \in [Scanners -> Call] /\ CallsKnow'
  BY CallStep DEF IInv
<1>2. TypeOK'
  BY <1>1 DEF IInv, TypeOK
<1>3. LinkedKeysetsExist'
  BY DEF IInv, LinkedKeysetsExist
<1>4. QED
  BY <1>1, <1>2, <1>3 DEF IInv

LEMMA ScanPreserves ==
    ASSUME IInv, NEW s \in Scanners, NEW f \in ManagedZone, Scan(s, f)
    PROVE  IInv'
<1>1. PICK op \in Operations :
        /\ f \in get_nameservers_with(op)
        /\ calls' = [calls EXCEPT ![s] = [Idle EXCEPT !.stage = "called", !.op = op,
               !.fqdn = f, !.id = domain[f].id, !.server = hosts[domain[f].nsset],
               !.keys = published[f][hosts[domain[f].nsset]]]]
        /\ UNCHANGED <<domain, hosts, keysets, published, commands>>
  BY DEF Scan
<1> DEFINE c == [Idle EXCEPT !.stage = "called", !.op = op,
               !.fqdn = f, !.id = domain[f].id, !.server = hosts[domain[f].nsset],
               !.keys = published[f][hosts[domain[f].nsset]]]
<1>2. f \in Fqdns /\ domain[f] \in DomainRecord /\ domain[f].nsset \in Nssets
  BY <1>1, ConstantsAssumption DEF IInv, TypeOK, get_nameservers_with, DomainRecord
<1>3. hosts[domain[f].nsset] \in Nameservers
  BY <1>2 DEF IInv, TypeOK
<1>4. published[f][hosts[domain[f].nsset]] \in Publications
  BY <1>2, <1>3 DEF IInv, TypeOK
<1>5. c \in Call
  BY <1>2, <1>3, <1>4, IdleIsCall DEF Call, DomainRecord
<1>6. c.stage = "called"
  BY DEF Idle
<1>7. CallKnows(c)
  BY <1>6 DEF CallKnows
<1> HIDE DEF c
<1>8. QED
  BY <1>1, <1>5, <1>7, OnlyCallStep DEF c

LEMMA ReadPreserves ==
    ASSUME IInv, NEW s \in Scanners, read_domain(s)
    PROVE  IInv'
<1> DEFINE c == calls[s]
           d == domain[c.fqdn]
           new == [c EXCEPT !.stage = IF ReadsTwice(c) THEN "read" ELSE "checked",
                            !.domain = d]
<1>1. c \in Call /\ d \in DomainRecord
  BY DEF IInv, TypeOK, Call
<1>2. CASE Acceptable(c, d)
  <2>1. new \in Call
    BY <1>1 DEF Call
  <2>2. /\ new.stage \in {"read", "checked"} /\ new.domain = d
        /\ new.id = c.id /\ new.keys = c.keys /\ new.op = c.op
        /\ new.stage = "read" <=> ReadsTwice(c)
    BY <1>1 DEF Call
  <2>3. ReadsTwice(new) <=> ReadsTwice(c)
    BY <2>2 DEF ReadsTwice, is_dnssec_turn_off_requested
  <2>4. /\ d.id = c.id
        /\ c.keys \in Versions \cup {"delete"}
        /\ c.op = "insecure" => d.keyset = None /\ d.nsset # None /\ c.keys \in Versions
        /\ c.op = "secure" => d.keyset # None /\ ~is_automatically_managed_keyset(d.keyset)
        /\ c.op = "managed" => is_automatically_managed_keyset(d.keyset)
    BY <1>1, <1>2 DEF Acceptable, Call, Operations, has_valid_dnskeys,
       is_dnssec_turn_off_requested
  <2>5. new.stage = "checked" => new.op # "insecure"
    BY <2>2 DEF ReadsTwice
  <2>6. CallKnows(new)
    <3> HIDE DEF new, c, d
    <3>1. QED
      BY <2>2, <2>3, <2>4, <2>5 DEF CallKnows
  <2>7. calls' = [calls EXCEPT ![s] = new]
        /\ UNCHANGED <<domain, hosts, keysets, published, commands>>
    BY <1>2 DEF read_domain
  <2> HIDE DEF new
  <2>8. QED
    BY <2>1, <2>6, <2>7, OnlyCallStep
<1>3. CASE ~Acceptable(c, d)
  <2>1. calls' = [calls EXCEPT ![s] = Idle]
        /\ UNCHANGED <<domain, hosts, keysets, published, commands>>
    BY <1>3 DEF read_domain
  <2>2. QED
    BY <2>1, IdleIsCall, OnlyCallStep
<1>4. QED
  BY <1>2, <1>3

LEMMA ComparePreserves ==
    ASSUME IInv, NEW s \in Scanners, compare(s)
    PROVE  IInv'
<1> DEFINE c == calls[s]
           seen == [c EXCEPT !.stage = "checked", !.seen = hosts[c.domain.nsset]]
           old == [c EXCEPT !.stage = "checked", !.old = keysets[c.domain.keyset].keys]
<1>1. /\ c \in Call /\ c.domain \in DomainRecord /\ CallKnows(c) /\ c.stage = "read"
      /\ UNCHANGED <<domain, hosts, keysets, published, commands>>
  BY DEF IInv, TypeOK, Call, CallsKnow, compare
<1>2. CASE c.op = "insecure" /\ are_nssets_equal(c)
  <2>1. calls' = [calls EXCEPT ![s] = seen]
    BY <1>2 DEF compare
  <2>2. c.domain.nsset \in Nssets
    BY <1>1, <1>2 DEF CallKnows, DomainRecord
  <2>3. hosts[c.domain.nsset] \in Nameservers
    BY <2>2 DEF IInv, TypeOK
  <2>4. seen \in Call
    BY <1>1, <2>3 DEF Call
  <2>5. /\ seen.stage = "checked" /\ seen.op = c.op /\ seen.keys = c.keys
        /\ seen.domain = c.domain /\ seen.id = c.id
        /\ seen.server = c.server /\ seen.seen = hosts[c.domain.nsset]
    BY <1>1 DEF Call
  <2>6. c.server = hosts[c.domain.nsset]
    BY <1>2 DEF are_nssets_equal
  <2>7. CallKnows(seen)
    <3> HIDE DEF seen, c
    <3>1. QED
      BY <1>1, <2>5, <2>6 DEF CallKnows
  <2> HIDE DEF seen
  <2>8. QED
    BY <1>1, <2>1, <2>4, <2>7, OnlyCallStep
<1>3. CASE c.op = "managed" /\ c.domain.keyset \in DOMAIN keysets /\ ~are_keysets_equal(c)
  <2>1. calls' = [calls EXCEPT ![s] = old]
    BY <1>3 DEF compare
  <2>2. keysets[c.domain.keyset].keys \in Keys
    BY <1>3 DEF IInv, TypeOK
  <2>3. old \in Call
    BY <1>1, <2>2 DEF Call
  <2>4. /\ old.stage = "checked" /\ old.op = c.op /\ old.keys = c.keys
        /\ old.domain = c.domain /\ old.id = c.id
    BY <1>1 DEF Call
  <2>5. CallKnows(old)
    <3> HIDE DEF old, c
    <3>1. QED
      BY <1>1, <1>3, <2>4 DEF CallKnows
  <2> HIDE DEF old
  <2>6. QED
    BY <1>1, <2>1, <2>3, <2>5, OnlyCallStep
<1>4. CASE /\ ~(c.op = "insecure" /\ are_nssets_equal(c))
           /\ ~(c.op = "managed" /\ c.domain.keyset \in DOMAIN keysets /\ ~are_keysets_equal(c))
  <2>1. calls' = [calls EXCEPT ![s] = Idle]
    BY <1>4 DEF compare
  <2>2. QED
    BY <1>1, <2>1, IdleIsCall, OnlyCallStep
<1>5. QED
  BY <1>2, <1>3, <1>4

\* The keys a call brings are keys of a keyset, unless it turns DNSSEC off.
LEMMA NewKeysAreKeys ==
    ASSUME IInv, NEW s \in Scanners, calls[s].stage \in {"checked", "locked"},
           calls[s].keys # "delete"
    PROVE  NewKeys(calls[s]) \in Keys
<1>1. calls[s] \in Call /\ calls[s].keys \in Versions
  BY DEF IInv, TypeOK, CallsKnow, CallKnows
<1>2. QED
  BY <1>1 DEF NewKeys, Keys, Call

LEMMA RelinkedType ==
    ASSUME TypeOK, NEW f \in Fqdns, NEW k \in Keysets \cup {None}
    PROVE  [domain EXCEPT ![f].keyset = k] \in [Fqdns -> DomainRecord]
<1> DEFINE d == [domain[f] EXCEPT !.keyset = k]
<1>1. domain \in [Fqdns -> DomainRecord] /\ domain[f] \in DomainRecord
  BY DEF TypeOK
<1>2. d \in DomainRecord
  BY <1>1 DEF DomainRecord
<1>3. [domain EXCEPT ![f].keyset = k] = [domain EXCEPT ![f] = d]
  OBVIOUS
<1> HIDE DEF d
<1>4. QED
  BY <1>1, <1>2, <1>3

LEMMA TurnOnPreserves ==
    ASSUME IInv, NEW s \in Scanners, turn_on(s)
    PROVE  IInv'
<1> DEFINE c == calls[s]
<1>1. c \in Call /\ c.fqdn \in Fqdns
  BY DEF IInv, TypeOK, Call
<1>2. PICK k \in FreeHandles :
        /\ keysets' = [j \in DOMAIN keysets \cup {k} |->
                          IF j = k THEN KeysetOf(c) ELSE keysets[j]]
        /\ domain' = [domain EXCEPT ![c.fqdn].keyset = k]
  BY DEF turn_on, link_automatically_managed_keyset_to_domain
<1>3. k \in AkmKeysets
  BY DEF FreeHandles
<1>4. NewKeys(c) \in Keys
  BY NewKeysAreKeys DEF turn_on, TurnsOn, is_dnssec_turn_off_requested
<1>5. KeysetOf(c) \in [keys : Keys, prohibited : BOOLEAN]
  BY <1>4 DEF KeysetOf
<1>6. DOMAIN keysets' = DOMAIN keysets \cup {k}
  BY <1>2
<1>7. DOMAIN keysets' \subseteq Keysets
  BY <1>3, <1>6 DEF IInv, TypeOK, Keysets
<1>8. \A j \in DOMAIN keysets' : keysets'[j] = IF j = k THEN KeysetOf(c) ELSE keysets[j]
  BY <1>2, <1>6
<1>9. \A j \in DOMAIN keysets' : keysets'[j] \in [keys : Keys, prohibited : BOOLEAN]
  <2> HIDE DEF c
  <2>1. QED
    BY <1>5, <1>6, <1>8 DEF IInv, TypeOK
<1>10. domain' \in [Fqdns -> DomainRecord]
  BY <1>1, <1>2, <1>3, RelinkedType DEF IInv, Keysets
<1>11. calls' \in [Scanners -> Call] /\ CallsKnow'
  BY IdleIsCall, CallStep DEF IInv, turn_on
<1>12. TypeOK'
  BY <1>7, <1>9, <1>10, <1>11 DEF IInv, TypeOK, turn_on
<1>13. LinkedKeysetsExist'
  BY <1>1, <1>2, <1>6 DEF IInv, TypeOK, LinkedKeysetsExist, DomainRecord
<1>14. QED
  BY <1>11, <1>12, <1>13 DEF IInv

LEMMA TurnOffPreserves ==
    ASSUME IInv, NEW s \in Scanners, turn_off(s)
    PROVE  IInv'
<1>1. calls[s].fqdn \in Fqdns
  BY DEF IInv, TypeOK, Call
<1>2. domain' = [domain EXCEPT ![calls[s].fqdn].keyset = None]
  BY DEF turn_off, unlink_automatically_managed_keyset
<1>3. domain' \in [Fqdns -> DomainRecord]
  BY <1>1, <1>2, RelinkedType DEF IInv
<1>4. calls' \in [Scanners -> Call] /\ CallsKnow'
  BY IdleIsCall, CallStep DEF IInv, turn_off
<1>5. TypeOK'
  BY <1>3, <1>4 DEF IInv, TypeOK, turn_off
<1>6. LinkedKeysetsExist'
  BY <1>1, <1>2 DEF IInv, TypeOK, LinkedKeysetsExist, DomainRecord, turn_off
<1>7. QED
  BY <1>4, <1>5, <1>6 DEF IInv

LEMMA CheckPreserves ==
    ASSUME IInv, NEW s \in Scanners, check_keyset(s)
    PROVE  IInv'
<1> DEFINE c == calls[s]
           new == [c EXCEPT !.stage = "locked"]
<1>1. /\ c \in Call /\ CallKnows(c) /\ c.stage = "checked" /\ c.keys # "delete"
      /\ calls' = [calls EXCEPT ![s] = new]
      /\ UNCHANGED <<domain, hosts, keysets, published, commands>>
  BY DEF IInv, TypeOK, CallsKnow, check_keyset, Exchanges, TurnsOff,
     is_dnssec_turn_off_requested
<1>2. new \in Call
  BY <1>1 DEF Call
<1>3. /\ new.stage = "locked" /\ new.op = c.op /\ new.keys = c.keys
      /\ new.domain = c.domain /\ new.id = c.id
  BY <1>1 DEF Call
<1>4. CallKnows(new)
  <2> HIDE DEF new, c
  <2>1. QED
    BY <1>1, <1>3 DEF CallKnows
<1> HIDE DEF new
<1>5. QED
  BY <1>1, <1>2, <1>4, OnlyCallStep

LEMMA RolloverPreserves ==
    ASSUME IInv, NEW s \in Scanners, rollover(s)
    PROVE  IInv'
<1> DEFINE c == calls[s]
           k == c.domain.keyset
           v == [keysets[k] EXCEPT !.keys = NewKeys(c)]
<1>1. k \in DOMAIN keysets
  BY DEF rollover
<1>2. NewKeys(c) \in Keys
  <2>1. c.stage = "locked" /\ c.keys # "delete"
    BY DEF rollover, IInv, CallsKnow, CallKnows
  <2>2. QED
    BY <2>1, NewKeysAreKeys
<1>3. v \in [keys : Keys, prohibited : BOOLEAN]
  BY <1>1, <1>2 DEF IInv, TypeOK
<1>4. keysets' = [keysets EXCEPT ![k] = v]
  BY DEF rollover, update_automatically_managed_keyset
<1>5. UNCHANGED <<domain, hosts, published, commands>>
  BY DEF rollover
<1>6. calls' \in [Scanners -> Call] /\ CallsKnow'
  BY IdleIsCall, CallStep DEF IInv, rollover
<1> HIDE DEF k, v
<1>7. /\ DOMAIN keysets' \subseteq Keysets
      /\ \A j \in DOMAIN keysets' : keysets'[j] \in [keys : Keys, prohibited : BOOLEAN]
      /\ LinkedKeysetsExist'
  BY <1>1, <1>3, <1>4, <1>5, KeysetWrite DEF IInv
<1>8. TypeOK'
  BY <1>5, <1>6, <1>7 DEF IInv, TypeOK
<1>9. QED
  BY <1>6, <1>7, <1>8 DEF IInv

LEMMA ManagementPreserves ==
    ASSUME IInv, NEW s \in Scanners, Management(s)
    PROVE  IInv'
<1>1. CASE call_fails(s)
  BY <1>1, IdleIsCall, OnlyCallStep DEF call_fails
<1>2. QED
  BY <1>1, ReadPreserves, ComparePreserves, TurnOnPreserves, TurnOffPreserves,
     CheckPreserves, RolloverPreserves DEF Management

LEMMA NextPreserves == IInv /\ [Next]_vars => IInv'
<1> SUFFICES ASSUME IInv, [Next]_vars PROVE IInv'
  OBVIOUS
<1>1. CASE UNCHANGED vars
  <2>1. CallsKnow'
    BY <1>1, CallsStayKnowing DEF vars, IInv
  <2>2. TypeOK' /\ LinkedKeysetsExist'
    BY <1>1 DEF vars, IInv, TypeOK, LinkedKeysetsExist
  <2>3. QED
    BY <2>1, <2>2 DEF IInv
<1>2. CASE Next
  BY <1>2, RegistrarPreserves, EnvironmentPreserves, ManagementPreserves, ScanPreserves
     DEF Next
<1>3. QED
  BY <1>1, <1>2

LEMMA IInvHolds == Spec => []IInv
  BY InitEstablishes, NextPreserves, PTL DEF Spec

-----------------------------------------------------------------------------
(* What the runs check, for every value of the constants.                  *)

\* Every variable keeps its type under any order of EPP commands, scans and
\* the steps of automatic_keyset_management.cc.
THEOREM TypeCorrect == Spec => []TypeOK
<1>1. IInv => TypeOK
  BY DEF IInv
<1>2. QED
  BY <1>1, IInvHolds, PTL

\* delete_keyset and turning DNSSEC off never leave a domain linked to a keyset
\* that is gone.
THEOREM NoDanglingKeyset == Spec => []LinkedKeysetsExist
<1>1. IInv => LinkedKeysetsExist
  BY DEF IInv
<1>2. QED
  BY <1>1, IInvHolds, PTL

\* A call ends only in its own locked step.
LEMMA EndsInOwnStep ==
    ASSUME IInv, Next, NEW s \in Scanners, Ends(s)
    PROVE  turn_on(s) \/ turn_off(s) \/ rollover(s) \/ call_fails(s)
<1>1. calls[s].stage \in {"checked", "locked"} /\ calls'[s] # calls[s] /\ calls'[s].stage = "idle"
  BY DEF Ends, Idle
<1>2. ~Registrar
  BY <1>1 DEF Registrar, create_domain, delete_domain, update_domain, update_nsset, update_keyset, delete_keyset
<1>3. ~Environment
  BY <1>1 DEF Environment, SetDomainStates, SetKeysetStates, Publish
<1>4. ASSUME NEW t \in Scanners, NEW f \in ManagedZone, Scan(t, f) PROVE FALSE
  <2>1. calls[t].stage = "idle"
    BY <1>4 DEF Scan, Idle
  <2>2. calls'[s] = calls[s]
    BY <1>1, <1>4, <2>1 DEF Scan, IInv, TypeOK
  <2>3. QED
    BY <1>1, <2>2
<1>5. PICK t \in Scanners : Management(t)
  BY <1>2, <1>3, <1>4 DEF Next
<1>6. t = s
  BY <1>1, <1>5 DEF Management, read_domain, compare, turn_on, turn_off,
     check_keyset, rollover, call_fails, IInv, TypeOK
<1>7. ~read_domain(s) /\ ~compare(s)
  BY <1>1 DEF read_domain, compare
<1>8. ~check_keyset(s)
  <2> SUFFICES ASSUME check_keyset(s) PROVE FALSE
    OBVIOUS
  <2>1. calls[s] \in Call /\ calls'[s] = [calls[s] EXCEPT !.stage = "locked"]
    BY DEF check_keyset, IInv, TypeOK
  <2>2. calls'[s].stage = "locked"
    BY <2>1 DEF Call
  <2>3. QED
    BY <1>1, <2>2
<1>9. QED
  BY <1>5, <1>6, <1>7, <1>8 DEF Management

\* However late a scan and its call are, a change of the keyset of a domain is
\* right for the domain as it is when the lock is held: it is not frozen, its
\* keyset is of the kind the call is for, and keys given to a domain without any
\* are of its present name servers; save what changed between the unlocked reads
\* of the call and its lock.  For the calls on domains with a keyset nothing is
\* said of the name servers, which the code does not compare there.
THEOREM LinksAreCurrent == Spec => LinksActOnPresentData
<1> DEFINE Right(s) ==
             LET c == calls[s]
                 d == domain[c.fqdn]
             IN /\ "frozen" \notin d.states \/ d.id # c.id
                /\ ~ChangedMeanwhile(c) =>
                     /\ CandidateOf(c.fqdn) = c.op
                     /\ c.op = "insecure" => c.server = hosts[d.nsset]
           A == \A s \in Scanners :
             LET c == calls[s]
                 d == domain[c.fqdn]
             IN Ends(s) /\ domain'[c.fqdn] # d =>
                  /\ "frozen" \notin d.states \/ d.id # c.id
                  /\ ~ChangedMeanwhile(c) =>
                       /\ CandidateOf(c.fqdn) = c.op
                       /\ c.op = "insecure" => c.server = hosts[d.nsset]
<1>1. ASSUME IInv, Next, NEW s \in Scanners, Ends(s),
             domain'[calls[s].fqdn] # domain[calls[s].fqdn]
      PROVE  Right(s)
  <2> DEFINE c == calls[s]
             d == domain[c.fqdn]
  <2>1. turn_on(s) \/ turn_off(s)
    BY <1>1, EndsInOwnStep DEF rollover, call_fails
  <2>2. DomainAllowsWrite(c) /\ c.stage = "checked"
    BY <2>1 DEF turn_on, turn_off
  <2>3. CallKnows(c) /\ c \in Call
    BY <1>1 DEF IInv, CallsKnow, TypeOK
  <2>4. "frozen" \notin d.states \/ d.id # c.id
    BY <2>2 DEF DomainAllowsWrite
  <2>5. ASSUME ~ChangedMeanwhile(c)
        PROVE  CandidateOf(c.fqdn) = c.op /\ (c.op = "insecure" => c.server = hosts[d.nsset])
    <3>1. /\ d.nsset = c.domain.nsset /\ d.keyset = c.domain.keyset
          /\ c.op = "insecure" => hosts[c.domain.nsset] = c.seen
      BY <2>5 DEF ChangedMeanwhile
    <3>2. /\ c.op = "insecure" => d.keyset = None /\ c.server = hosts[d.nsset]
          /\ c.op = "secure" => d.keyset # None /\ ~is_automatically_managed_keyset(d.keyset)
          /\ c.op = "managed" => is_automatically_managed_keyset(d.keyset)
      BY <2>2, <2>3, <3>1 DEF CallKnows
    <3>3. c.op \in Operations /\ None \notin AkmKeysets
      BY <2>3, ConstantsAssumption DEF Call
    <3>4. QED
      BY <3>2, <3>3 DEF CandidateOf, Operations, is_automatically_managed_keyset
  <2>6. QED
    BY <2>4, <2>5
<1>2. IInv /\ [Next]_vars => [A]_vars
  BY <1>1
<1>3. QED
  BY <1>2, IInvHolds, PTL DEF Spec, LinksActOnPresentData
================================================================================

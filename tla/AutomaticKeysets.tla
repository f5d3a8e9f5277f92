---------------------------- MODULE AutomaticKeysets ----------------------------
(***************************************************************************)
(* Automatic keyset management (AKM), after                                *)
(*   src/src/backend/automatic_keyset_management/automatic_keyset_management.cc *)
(* A scanner (a program of its own) asks for the domains the management    *)
(* may concern, looks at the keys their name servers publish, and calls    *)
(* the server to turn the management on, to exchange keys, or to turn      *)
(* DNSSEC off.  A call reads the domain without a lock, reads its nsset or *)
(* keyset in a second statement, and only then takes the lock of the       *)
(* object and writes: each of the three is a step here, with the EPP       *)
(* commands of the registrars between them.  An exchange of keys has a     *)
(* fourth, since it counts the domains of the keyset before it writes, and *)
(* the lock of a keyset does not keep domains from being linked to it.     *)
(* The e-mail notifications and the poll messages a call leaves for the    *)
(* sponsor are not kept.                                                   *)
(***************************************************************************)
EXTENDS Naturals, FiniteSets

CONSTANTS
    Fqdns,             \* names of domains
    ManagedZone,       \* names in automatically_managed_keyset_zones
    Registrations,     \* ids of registrations; an id in use is never given again
    Nssets,            \* handles of nssets
    Nameservers,       \* the servers of an nsset, as one value
    RegistrarKeysets,  \* handles of keysets of registrars
    AkmKeysets,        \* handles with the prefix and the registrar of the management
    Scanners,          \* calls the server handles at a time
    Published,         \* what the name servers may publish, of Publications
    InitialHosts,      \* the name servers of each nsset at the start
    KeysetClear,       \* settings of rifd_epp_update_domain_keyset_clear
    MaxCommands,       \* bound on the steps of registrars, operators and name servers
    None

\* What a name server publishes for a domain: nothing, one of two generations
\* of valid keys, the delete key of RFC 8078, or keys that are not valid.
Versions == {"first", "second"}
Publications == Versions \cup {"unsigned", "delete", "invalid"}

Injective(ids) == \A f, g \in Fqdns : f # g => ids[f] # ids[g]

ASSUME ConstantsAssumption ==
    /\ IsFiniteSet(Fqdns) /\ Fqdns # {}
    /\ ManagedZone \subseteq Fqdns
    /\ Nssets # {}
    /\ RegistrarKeysets \cap AkmKeysets = {}
    /\ Published \subseteq Publications
    /\ InitialHosts \in [Nssets -> Nameservers]
    /\ KeysetClear \subseteq BOOLEAN
    /\ MaxCommands \in Nat
    /\ None \notin Nameservers
    /\ None \notin Registrations \cup Nssets \cup RegistrarKeysets \cup AkmKeysets
    /\ \E ids \in [Fqdns -> Registrations] : Injective(ids)

VARIABLES
    domain,    \* the registered domain of a name
    hosts,     \* the name servers of an nsset
    keysets,   \* the registered keysets: their keys, and whether a state prohibits updates
    published, \* the keys a name server publishes for a domain
    calls,     \* the call of a scanner, with what it has read
    commands   \* steps of registrars, operators and name servers so far

vars == <<domain, hosts, keysets, published, calls, commands>>

-----------------------------------------------------------------------------

Keysets == RegistrarKeysets \cup AkmKeysets

\* The keys of a keyset, named by the servers that published them; a
\* registrar's own keys are of no server.
Keys == [server : Nameservers \cup {None}, version : Versions]
OwnKeys == [server |-> None, version |-> "first"]

\* server_blocked, server_update_prohibited and delete_candidate have the same
\* effect here: the domain is "frozen".
DomainStates == {"frozen", "outzone"}
DomainRecord == [id : Registrations \cup {None}, nsset : Nssets \cup {None},
    keyset : Keysets \cup {None}, states : SUBSET DomainStates]
Unregistered == [id |-> None, nsset |-> None, keyset |-> None, states |-> {}]

Operations == {"insecure", "secure", "managed"}
Call == [stage : {"idle", "called", "read", "checked", "locked"}, op : Operations,
    fqdn : Fqdns, id : Registrations \cup {None}, server : Nameservers \cup {None},
    keys : Publications, domain : DomainRecord, seen : Nameservers \cup {None},
    old : Keys]

Idle == [stage |-> "idle", op |-> "managed", fqdn |-> CHOOSE f \in Fqdns : TRUE,
    id |-> None, server |-> None, keys |-> "unsigned", domain |-> Unregistered,
    seen |-> None, old |-> OwnKeys]

TypeOK ==
    /\ domain \in [Fqdns -> DomainRecord]
    /\ hosts \in [Nssets -> Nameservers]
    /\ DOMAIN keysets \subseteq Keysets
    /\ \A k \in DOMAIN keysets : keysets[k] \in [keys : Keys, prohibited : BOOLEAN]
    /\ published \in [ManagedZone -> [Nameservers -> Publications]]
    /\ calls \in [Scanners -> Call]
    /\ commands \in 0..MaxCommands

Registered(f) == domain[f].id # None

\* The names whose domain is linked to a keyset.
Users(k) == {f \in Fqdns : domain[f].keyset = k}

\* A call holds the lock of the keyset; EPP commands on the keyset and other
\* calls that exchange its keys wait.
Locked(k) == \E s \in Scanners : calls[s].stage = "locked" /\ calls[s].domain.keyset = k

\* The prefix of the handle and the sponsoring registrar.
is_automatically_managed_keyset(k) == k \in AkmKeysets

-----------------------------------------------------------------------------
(***************************************************************************)
(* The registrars, the operators and the name servers.  What a registrar   *)
(* may not do to a frozen domain the system registrar may, so the commands *)
(* have no guard on the states.                                            *)
(***************************************************************************)

Command == /\ commands < MaxCommands
           /\ commands' = commands + 1

\* A name is registered with an id no domain and no call has.
create_domain(f, n, k) ==
    /\ Command
    /\ ~Registered(f)
    /\ k \in DOMAIN keysets \cup {None}
    /\ \E id \in Registrations :
          /\ \A g \in Fqdns : domain[g].id # id
          /\ \A s \in Scanners : calls[s].id # id
          /\ domain' = [domain EXCEPT ![f] =
                            [id |-> id, nsset |-> n, keyset |-> k, states |-> {}]]
    /\ UNCHANGED <<hosts, keysets, published, calls>>

delete_domain(f) ==
    /\ Command
    /\ Registered(f)
    /\ domain' = [domain EXCEPT ![f] = Unregistered]
    /\ UNCHANGED <<hosts, keysets, published, calls>>

\* The command names a new nsset, a new keyset or both (changed), any registered
\* keyset, the management's ones too.  When it moves the domain to another nsset
\* and says nothing of the keyset, the server may be set to take the keyset off
\* (clear).
update_domain(f, changed, n, k, clear) ==
    LET old == domain[f]
        different == "nsset" \in changed /\ n # None /\ n # old.nsset
        new == [old EXCEPT
                  !.nsset = IF "nsset" \in changed THEN n ELSE @,
                  !.keyset = IF "keyset" \in changed THEN k
                             ELSE IF clear /\ different THEN None ELSE @]
    IN
    /\ Command
    /\ Registered(f)
    /\ k \in DOMAIN keysets \cup {None}
    /\ new # old
    /\ domain' = [domain EXCEPT ![f] = new]
    /\ UNCHANGED <<hosts, keysets, published, calls>>

\* The domains of the nsset keep their keysets.
update_nsset(n, server) ==
    /\ Command
    /\ server # hosts[n]
    /\ hosts' = [hosts EXCEPT ![n] = server]
    /\ UNCHANGED <<domain, keysets, published, calls>>

\* The sponsor replaces the keys; for the management's keysets that is the
\* system registrar.
update_keyset(k) ==
    /\ Command
    /\ k \in DOMAIN keysets
    /\ ~Locked(k)
    /\ keysets[k].keys # OwnKeys
    /\ keysets' = [keysets EXCEPT ![k].keys = OwnKeys]
    /\ UNCHANGED <<domain, hosts, published, calls>>

delete_keyset(k) ==
    /\ Command
    /\ k \in DOMAIN keysets
    /\ ~Locked(k)
    /\ Users(k) = {}
    /\ keysets' = [j \in DOMAIN keysets \ {k} |-> keysets[j]]
    /\ UNCHANGED <<domain, hosts, published, calls>>

\* Requests for states, and the life cycle, change what is prohibited.
SetDomainStates(f, state) ==
    /\ Command
    /\ Registered(f)
    /\ domain' = [domain EXCEPT ![f].states =
                       IF state \in @ THEN @ \ {state} ELSE @ \cup {state}]
    /\ UNCHANGED <<hosts, keysets, published, calls>>

\* The nightly update of states takes no lock of the keyset.
SetKeysetStates(k) ==
    /\ Command
    /\ k \in DOMAIN keysets
    /\ keysets' = [keysets EXCEPT ![k].prohibited = ~@]
    /\ UNCHANGED <<domain, hosts, published, calls>>

Publish(f, server, keys) ==
    /\ Command
    /\ keys # published[f][server]
    /\ published' = [published EXCEPT ![f][server] = keys]
    /\ UNCHANGED <<domain, hosts, keysets, calls>>

-----------------------------------------------------------------------------
(***************************************************************************)
(* The scanner.                                                            *)
(***************************************************************************)

\* The list of get_nameservers_with_... a domain is on: linked to no keyset, to
\* a registrar's, or to one of the management's.
CandidateOf(f) ==
    CASE domain[f].keyset = None -> "insecure"
      [] is_automatically_managed_keyset(domain[f].keyset) -> "managed"
      [] OTHER -> "secure"

get_nameservers_with(op) ==
    {f \in ManagedZone : /\ Registered(f)
                         /\ domain[f].nsset # None
                         /\ "outzone" \notin domain[f].states
                         /\ CandidateOf(f) = op}

\* The scanner takes a domain of a list, asks its name servers, and calls the
\* server with what they publish.  By the time the call is handled all of it may
\* have changed.
Scan(s, f) ==
    /\ calls[s] = Idle
    /\ \E op \in Operations :
        /\ f \in get_nameservers_with(op)
        /\ LET server == hosts[domain[f].nsset]
           IN /\ published[f][server] # "unsigned"
              /\ calls' = [calls EXCEPT ![s] = [Idle EXCEPT !.stage = "called", !.op = op,
                     !.fqdn = f, !.id = domain[f].id, !.server = server,
                     !.keys = published[f][server]]]
    /\ UNCHANGED <<domain, hosts, keysets, published, commands>>

-----------------------------------------------------------------------------
(***************************************************************************)
(* The calls.  A call that throws changes nothing.                         *)
(***************************************************************************)

MutTurnOffRequested(c) == c.keys = "delete" /\ c.op = "managed"
is_dnssec_turn_off_requested(c) == c.keys = "delete"
has_valid_dnskeys(c) == c.keys \in Versions
NewKeys(c) == [server |-> c.server, version |-> c.keys]

\* What each call requires of the domain, read without a lock.
Acceptable(c, d) ==
    /\ d.id = c.id
    /\ c.fqdn \in ManagedZone
    /\ CASE c.op = "insecure" -> /\ d.keyset = None
                                 /\ d.nsset # None
                                 /\ has_valid_dnskeys(c)
         [] c.op = "secure" ->   /\ d.keyset # None
                                 /\ ~is_automatically_managed_keyset(d.keyset)
                                 /\ is_dnssec_turn_off_requested(c) \/ has_valid_dnskeys(c)
         [] c.op = "managed" ->  /\ is_automatically_managed_keyset(d.keyset)
                                 /\ is_dnssec_turn_off_requested(c) \/ has_valid_dnskeys(c)

\* The calls that read the nsset or the keyset of the domain as well.
ReadsTwice(c) ==
    c.op = "insecure" \/ (c.op = "managed" /\ ~is_dnssec_turn_off_requested(c))

read_domain(s) ==
    LET c == calls[s]
        d == domain[c.fqdn]
    IN
    /\ c.stage = "called"
    /\ calls' = [calls EXCEPT ![s] =
           IF Acceptable(c, d)
           THEN [c EXCEPT !.stage = IF ReadsTwice(c) THEN "read" ELSE "checked",
                          !.domain = d]
           ELSE Idle]
    /\ UNCHANGED <<domain, hosts, keysets, published, commands>>

MutAreNssetsEqual(c) == TRUE
are_nssets_equal(c) == c.server = hosts[c.domain.nsset]

are_keysets_equal(c) == NewKeys(c) = keysets[c.domain.keyset].keys

compare(s) ==
    LET c == calls[s]
    IN
    /\ c.stage = "read"
    /\ calls' = [calls EXCEPT ![s] =
           CASE c.op = "insecure" /\ are_nssets_equal(c) ->
                  [c EXCEPT !.stage = "checked", !.seen = hosts[c.domain.nsset]]
             [] /\ c.op = "managed"
                /\ c.domain.keyset \in DOMAIN keysets
                /\ ~are_keysets_equal(c) ->
                  [c EXCEPT !.stage = "checked", !.old = keysets[c.domain.keyset].keys]
             [] OTHER -> Idle]
    /\ UNCHANGED <<domain, hosts, keysets, published, commands>>

\* Under the lock of the registration that was read its states allow the
\* write.  UpdateDomain then looks the domain up by its name, so a name that was
\* deleted and registered again since is written whatever its states.
DomainAllowsWrite(c) ==
    /\ Registered(c.fqdn)
    /\ domain[c.fqdn].id = c.id => "frozen" \notin domain[c.fqdn].states

\* Handles that neither a keyset nor what a call has read uses.
FreeHandles ==
    {k \in AkmKeysets : k \notin DOMAIN keysets
                        /\ \A s \in Scanners : calls[s].domain.keyset # k}

TurnsOn(c) == c.op \in {"insecure", "secure"} /\ ~is_dnssec_turn_off_requested(c)
TurnsOff(c) == is_dnssec_turn_off_requested(c)

\* create_automatically_managed_keyset.
KeysetOf(c) == [keys |-> NewKeys(c), prohibited |-> FALSE]

link_automatically_managed_keyset_to_domain(f, k) == [domain EXCEPT ![f].keyset = k]

turn_on(s) ==
    LET c == calls[s]
    IN
    /\ c.stage = "checked"
    /\ TurnsOn(c)
    /\ DomainAllowsWrite(c)
    /\ \E k \in FreeHandles :
          /\ keysets' = [j \in DOMAIN keysets \cup {k} |->
                             IF j = k THEN KeysetOf(c) ELSE keysets[j]]
          /\ domain' = link_automatically_managed_keyset_to_domain(c.fqdn, k)
    /\ calls' = [calls EXCEPT ![s] = Idle]
    /\ UNCHANGED <<hosts, published, commands>>

\* Of a registrar's keyset as well.
unlink_automatically_managed_keyset(f) == [domain EXCEPT ![f].keyset = None]

turn_off(s) ==
    LET c == calls[s]
    IN
    /\ c.stage = "checked"
    /\ TurnsOff(c)
    /\ DomainAllowsWrite(c)
    /\ domain' = unlink_automatically_managed_keyset(c.fqdn)
    /\ calls' = [calls EXCEPT ![s] = Idle]
    /\ UNCHANGED <<hosts, keysets, published, commands>>

is_keyset_shared(k) == Cardinality(Users(k)) > 1

\* What update_automatically_managed_keyset finds under the lock of the keyset:
\* its states, and that one domain is linked to it.  The domain's states are not
\* looked at.
KeysetAllowsWrite(k) ==
    /\ k \in DOMAIN keysets
    /\ ~keysets[k].prohibited
    /\ ~is_keyset_shared(k)

Exchanges(c) == ~TurnsOn(c) /\ ~TurnsOff(c)

check_keyset(s) ==
    LET c == calls[s]
    IN
    /\ c.stage = "checked"
    /\ Exchanges(c)
    /\ ~Locked(c.domain.keyset)
    /\ KeysetAllowsWrite(c.domain.keyset)
    /\ calls' = [calls EXCEPT ![s] = [c EXCEPT !.stage = "locked"]]
    /\ UNCHANGED <<domain, hosts, keysets, published, commands>>

\* The keys that were read are removed, the new ones added.
update_automatically_managed_keyset(k, c) == [keysets EXCEPT ![k].keys = NewKeys(c)]

\* UpdateKeyset removes the keys the call has read and fails if they are no
\* longer there.  The domains linked meanwhile are not counted again.
rollover(s) ==
    LET c == calls[s]
    IN
    /\ c.stage = "locked"
    /\ c.domain.keyset \in DOMAIN keysets
    /\ keysets[c.domain.keyset].keys = c.old
    /\ keysets' = update_automatically_managed_keyset(c.domain.keyset, c)
    /\ calls' = [calls EXCEPT ![s] = Idle]
    /\ UNCHANGED <<domain, hosts, published, commands>>

\* A state policy error, a registration that is gone, a random handle that is
\* taken, a keyset that changed: the transaction is rolled back.  What the lock
\* and the states of a deleted registration give is the library's choice.
call_fails(s) ==
    LET c == calls[s]
    IN
    /\ \/ /\ c.stage = "checked"
          /\ TurnsOn(c) \/ TurnsOff(c)
          /\ ~DomainAllowsWrite(c) \/ domain[c.fqdn].id # c.id
       \/ c.stage = "checked" /\ TurnsOn(c) /\ FreeHandles = {}
       \/ /\ c.stage = "checked"
          /\ Exchanges(c)
          /\ ~Locked(c.domain.keyset)
          /\ ~KeysetAllowsWrite(c.domain.keyset)
       \/ c.stage = "locked" /\ keysets[c.domain.keyset].keys # c.old
    /\ calls' = [calls EXCEPT ![s] = Idle]
    /\ UNCHANGED <<domain, hosts, keysets, published, commands>>

-----------------------------------------------------------------------------

\* The registrations before the first command, with any ids.
InitialIds == CHOOSE ids \in [Fqdns -> Registrations] : Injective(ids)

Init ==
    /\ \E k \in RegistrarKeysets \cup {None} :
          domain = [f \in Fqdns |-> [id |-> InitialIds[f], nsset |-> CHOOSE n \in Nssets : TRUE,
                                     keyset |-> k, states |-> {}]]
    /\ hosts = InitialHosts
    /\ keysets = [k \in RegistrarKeysets |-> [keys |-> OwnKeys, prohibited |-> FALSE]]
    /\ published = [f \in ManagedZone |-> [server \in Nameservers |-> "first"]]
    /\ calls = [s \in Scanners |-> Idle]
    /\ commands = 0

\* Of a domain outside the managed zones only the keyset it is linked to
\* matters, so the other commands are those on managed ones.
Registrar ==
    \/ \E f \in ManagedZone : delete_domain(f)
    \/ \E f \in ManagedZone, n \in Nssets \cup {None}, k \in Keysets \cup {None} :
          create_domain(f, n, k)
    \/ \E f \in ManagedZone, n \in Nssets \cup {None}, clear \in KeysetClear :
          update_domain(f, {"nsset"}, n, None, clear)
    \/ \E f \in Fqdns, k \in Keysets \cup {None} :
          update_domain(f, {"keyset"}, None, k, FALSE)
    \/ \E f \in ManagedZone, n \in Nssets \cup {None}, k \in Keysets \cup {None} :
          update_domain(f, {"nsset", "keyset"}, n, k, FALSE)
    \/ \E n \in Nssets, server \in Nameservers : update_nsset(n, server)
    \/ \E k \in Keysets : update_keyset(k)
    \/ \E k \in Keysets : delete_keyset(k)

Environment ==
    \/ \E f \in ManagedZone, state \in DomainStates : SetDomainStates(f, state)
    \/ \E k \in Keysets : SetKeysetStates(k)
    \/ \E f \in ManagedZone, server \in Nameservers, keys \in Published :
          Publish(f, server, keys)

Management(s) ==
    \/ read_domain(s)
    \/ compare(s)
    \/ turn_on(s)
    \/ turn_off(s)
    \/ check_keyset(s)
    \/ rollover(s)
    \/ call_fails(s)

Next ==
    \/ Registrar
    \/ Environment
    \/ \E s \in Scanners : Management(s) \/ \E f \in ManagedZone : Scan(s, f)

\* A call that the server has begun ends: its thread is scheduled and locks are
\* released at the end of a transaction.  The scanner is a periodic job that
\* comes to every domain of its lists.
Fairness ==
    \A s \in Scanners : /\ WF_vars(Management(s))
                        /\ \A f \in ManagedZone : WF_vars(Scan(s, f))

Spec == Init /\ [][Next]_vars /\ Fairness

-----------------------------------------------------------------------------
(***************************************************************************)
(* Properties.                                                             *)
(***************************************************************************)

\* The call of s, done with its unlocked reads, ends in this step.
Ends(s) == calls[s].stage \in {"checked", "locked"} /\ calls'[s] = Idle

\* The domain or its nsset has changed between the unlocked reads of the call
\* and its lock.
ChangedMeanwhile(c) ==
    LET d == domain[c.fqdn]
    IN \/ d.id # c.id \/ d.nsset # c.domain.nsset \/ d.keyset # c.domain.keyset
       \/ c.op = "insecure" /\ hosts[c.domain.nsset] # c.seen

\* However late a scan arrives, a call that changes the keyset a domain is
\* linked to acts on the present: the domain is not frozen, it has the kind of
\* keyset the call is for (none, a registrar's or one of the management's), and
\* the keys of a domain that had none are of its present name servers.  The
\* only exception is a domain or an nsset changed between the unlocked reads
\* and the lock of that very call.  Of a domain that has a keyset the name
\* servers are not compared, neither by the code nor here: a late scan of a
\* registrar's secure domain may link keys of former name servers.
LinksActOnPresentData ==
    [][\A s \in Scanners :
         LET c == calls[s]
             d == domain[c.fqdn]
         IN Ends(s) /\ domain'[c.fqdn] # d =>
              /\ "frozen" \notin d.states \/ d.id # c.id
              /\ ~ChangedMeanwhile(c) =>
                   /\ CandidateOf(c.fqdn) = c.op
                   /\ c.op = "insecure" => c.server = hosts[d.nsset]]_vars

\* A domain in the zone that stays registered and unfrozen, and whose name
\* servers go on publishing the delete key, loses its keyset, the
\* management's or the registrar's, whatever calls were under way before.
AsksForNoKeys(f) ==
    /\ Registered(f)
    /\ domain[f].nsset # None
    /\ domain[f].states = {}
    /\ published[f][hosts[domain[f].nsset]] = "delete"

DeleteKeyIsHonoured ==
    \A f \in ManagedZone : <>[]AsksForNoKeys(f) => <>[](domain[f].keyset = None)
=============================================================================

----------------------------- MODULE DeleteCandidates -----------------------------
(***************************************************************************)
(* fred-admin --object_delete_candidates (bin/cli/remove_delete_candidates *)
(* .cc), run beside the EPP commands of EppDomain.  One transaction lists  *)
(* the objects that are marked deleteCandidate; each of them is then       *)
(* deleted in a transaction of its own, spread over a time the operator    *)
(* chooses.  Of the object types only domains are modelled.                *)
(***************************************************************************)
EXTENDS EppDomain

CONSTANT
    TypeOptions     \* values of --object_delete_types: sets of types, None when omitted

ASSUME TypeOptionsAssumption == TypeOptions \ {None} \subseteq SUBSET {"contact", "domain", "keyset", "nsset"}

VARIABLES
    todo,       \* the domains the run under way has yet to delete
    listed      \* history: ids that were candidates when it made its list

cleanupVars == <<todo, listed>>
candidateVars == <<domainVars, cleanupVars>>

CleanupInit ==
    /\ Init
    /\ todo = {}
    /\ listed = {}

Candidates == {id \in DOMAIN registry : "deleteCandidate" \in registry[id].states}

DomainToDelete(id) == [id |-> id, fqdn |-> registry[id].fqdn]

\* Without a list of types the query has no condition on the type.
SelectsDomains(option) == option # None => "domain" \in option

\* --object_delete_limit, --object_delete_parts and the shuffle leave any part of
\* the candidates to be deleted in this run.
init_objects_to_delete(option, chosen) ==
    /\ todo = {}
    /\ SelectsDomains(option)
    /\ chosen \subseteq Candidates
    /\ chosen # {}
    /\ todo' = {DomainToDelete(id) : id \in chosen}
    /\ listed' = Candidates
    /\ UNCHANGED domainVars

MutLockExisting(d) == {id \in DOMAIN registry : registry[id].fqdn = d.fqdn}

\* lock_existing: the object with this id, if nobody deleted it meanwhile.
lock_existing(d) == {d.id} \cap DOMAIN registry

\* DeleteDomainById of what lock_existing found, or NotExist, logged and passed over.
delete_next(d) ==
    /\ d \in todo
    /\ registry' = Restrict(registry, DOMAIN registry \ lock_existing(d))
    /\ todo' = todo \ {d}
    /\ UNCHANGED <<today, nextId, nextHistory, log, credit, charges, poll, creating,
                   notified, listed>>

\* The deletion throws: it is logged and the loop goes on to the next object.
delete_fails(d) ==
    /\ d \in todo
    /\ todo' = todo \ {d}
    /\ UNCHANGED <<domainVars, listed>>

CleanupNext ==
    \/ \E option \in TypeOptions, chosen \in SUBSET DOMAIN registry :
         init_objects_to_delete(option, chosen)
    \/ \E d \in todo : delete_next(d) \/ delete_fails(d)

CandidatesNext ==
    \/ DomainNext /\ UNCHANGED cleanupVars
    \/ CleanupNext

CandidatesSpec == CleanupInit /\ [][CandidatesNext]_candidateVars

----------------------------------------------------------------------------
Deleted == DOMAIN registry \ DOMAIN registry'

\* The list names ids, not names: a domain that was deleted and registered again
\* while the run is under way, or was no candidate when it began, survives it.
LaterRegistrationsSurvive ==
    [][todo' # todo => Deleted \subseteq listed]_candidateVars

\* "delete objects of given types with state delete_candidate" (help text of the
\* command): what a run deletes is a candidate when it is deleted.
OnlyCandidatesAreDeleted ==
    [][todo' # todo => Deleted \subseteq Candidates]_candidateVars
===================================================================================

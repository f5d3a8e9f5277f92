---------------------------- MODULE AdminBlocking ----------------------------
(***************************************************************************)
(* Administrative blocking of domains and of their holders                 *)
(* (backend/admin_block/administrativeblocking.cc), beside the holders'    *)
(* own locks of module ObjectLocks, the EPP commands that change who holds *)
(* what, and the merging of contacts.                                      *)
(*                                                                         *)
(* Every method of the server is one transaction that starts by locking    *)
(* the rows of its domains FOR UPDATE and commits only when no domain was  *)
(* refused, so each is one action.                                         *)
(*                                                                         *)
(* A contact is named by its handle, a sequence of numbers: <<n>> for a    *)
(* handle without suffix, and the indices of the suffixes "-ABC_00000"     *)
(* that get_copy_owner_handle appends.  Copies share the data of their     *)
(* original.  A handle may also be registered with a suffix; one with      *)
(* another text behind "-ABC_" is treated as a copy of a copy is.          *)
(***************************************************************************)
EXTENDS ObjectLocks

CONSTANTS
    Handles,      \* registered handles
    MojeIdHandles,\* those with a mojeID account
    StatusLists,  \* the status lists operators use
    MaxDay,       \* the last day a limited block may end
    Base,           \* ten, in the code
    CopyIndexLimit  \* the first index too long for owner_copy_zero_idx

ASSUME AdminBlockingAssumption ==
    /\ \A h \in Handles : h \in Seq(Nat) /\ Len(h) > 0
    /\ IsFiniteSet(Handles)
    /\ Base \in Nat /\ Base > 1
    /\ CopyIndexLimit \in Nat
    /\ MojeIdHandles \subseteq Handles
    /\ StatusLists \subseteq SUBSET Statuses
    /\ MaxDay \in Nat

(* The day on which a block without a date ends.                           *)
Never == MaxDay + 1

VARIABLES
    contact,    \* existing contact -> its manual states
    blacklist,  \* names that may not be registered
    today

vars == <<holder, domain, requests, run, browser, ops, contact, blacklist, today>>

lockVars == <<requests, run, browser>>

-----------------------------------------------------------------------------
(* get_copy_owner_handle.                                                  *)

IsProperPrefix(h, n) == Len(h) < Len(n) /\ SubSeq(n, 1, Len(h)) = h

(* Order of indices as the database orders names, by their text: padded to *)
(* a fixed width, except from CopyIndexLimit on, where they have one digit *)
(* more.  The text of m comes first if its digits do, or if it ends first. *)
Scaled(m) == IF m < CopyIndexLimit THEN m * Base ELSE m

TextBefore(m, n) ==
    \/ Scaled(m) < Scaled(n)
    \/ Scaled(m) = Scaled(n) /\ m < n

(* Order of handles by name: the first difference decides, a prefix is     *)
(* smaller.                                                                *)
Before(h, n) ==
    \/ IsProperPrefix(h, n)
    \/ \E i \in DOMAIN h \cap DOMAIN n :
          TextBefore(h[i], n[i]) /\ \A j \in 1 .. i - 1 : h[j] = n[j]

MutCopyOwnerHandle(h, names) ==
    Append(h, Cardinality({n \in names : IsProperPrefix(h, n)}))

(* The last existing name that starts with the handle and the suffix: its  *)
(* index is increased, or the suffix appended to it if it is not a number. *)
CopyOwnerHandle(h, names) ==
    LET copies == {n \in names : IsProperPrefix(h, n)}
        last   == CHOOSE n \in copies : \A m \in copies \ {n} : Before(m, n)
    IN  IF copies = {} THEN Append(h, 0)
        ELSE IF Len(last) = Len(h) + 1 THEN Append(h, last[Len(last)] + 1)
        ELSE Append(last, 0)

(* copy_domain_owners: the owners are copied one after another, in the     *)
(* order of their ids, and the next handle is looked for among the copies  *)
(* made so far.  CopyContact fails, and with it the call, when a contact   *)
(* with the handle exists.                                                 *)
Turns(owners) ==
    {turn \in [owners -> 1 .. Cardinality(owners)] :
        \A g, h \in owners : turn[g] = turn[h] => g = h}

NamesSoFar(copyOf, turn, h) ==
    DOMAIN contact \cup {copyOf[g] : g \in {o \in DOMAIN turn : turn[o] < turn[h]}}

InTurn(turn) ==
    LET copyOf[h \in DOMAIN turn] ==
            CopyOwnerHandle(h, DOMAIN contact \cup
                {copyOf[g] : g \in {o \in DOMAIN turn : turn[o] < turn[h]}})
    IN  copyOf

MadeInTurn(copyOf, turn) ==
    \A h \in DOMAIN turn :
        /\ copyOf[h] = CopyOwnerHandle(h, NamesSoFar(copyOf, turn, h))
        /\ copyOf[h] \notin NamesSoFar(copyOf, turn, h)

(* The copies the call may make: owner -> handle of its copy.              *)
CopyDomainOwners(owners) ==
    {copyOf \in {InTurn(turn) : turn \in Turns(owners)} :
        \E turn \in Turns(owners) : MadeInTurn(copyOf, turn)}

-----------------------------------------------------------------------------
MutHeld(h, holds, states) ==
    {d \in DOMAIN holds : holds[d] = h /\ states[d].until = Never}

(* get_blocked_domains_by_owner.                                           *)
Held(h, holds, states) == {d \in DOMAIN holds : holds[d] = h /\ IsBlocked(states[d])}

(* get_domain_handle: the domains exist and their rows are locked.         *)
Locked(ds) == ds # {} /\ ds \subseteq DOMAIN domain /\ \A d \in ds : RowIsFree(d)

(* The statuses of a list that a contact may have.                         *)
ContactStatuses(statuses) == statuses \ {"outzone"}

Holders(ds) == {holder[d] : d \in ds}

BlockedDomains(ds, statuses, until) ==
    [d \in DOMAIN domain |-> IF d \in ds THEN Blocked(domain[d], statuses, until)
                                         ELSE domain[d]]

(* blockDomainsId with OWNER_BLOCK_MODE_KEEP_OWNER.                        *)
BlockKeepOwner(ds, statuses, until) ==
    /\ Call
    /\ Locked(ds)
    /\ \A d \in ds : ~ IsBlocked(domain[d])
    /\ domain' = BlockedDomains(ds, statuses, until)
    /\ UNCHANGED <<lockVars, holder, contact, blacklist, today>>

(* blockDomainsId with OWNER_BLOCK_MODE_BLOCK_OWNER.                       *)
BlockOwner(ds, statuses, until) ==
    LET owners == Holders(ds)
        list   == ContactStatuses(statuses)
    IN  /\ Call
        /\ Locked(ds)
        /\ \A d \in DOMAIN domain \ ds : holder[d] \notin owners
        /\ owners \cap MojeIdHandles = {}
        /\ \A d \in ds : ~ IsBlocked(domain[d])
        /\ list # {} => \A h \in owners : ~ IsBlocked(contact[h])
        /\ domain' = BlockedDomains(ds, statuses, until)
        /\ contact' = [h \in DOMAIN contact |->
                IF h \in owners /\ list # {} THEN Blocked(contact[h], list, until)
                                             ELSE contact[h]]
        /\ UNCHANGED <<lockVars, holder, blacklist, today>>

(* blockDomainsId with OWNER_BLOCK_MODE_BLOCK_OWNER_COPY: every holder is  *)
(* copied and the copy blocked; the domains move to the copies, unless no  *)
(* status of the list is one of a contact.                                 *)
BlockOwnerCopy(ds, statuses, until) ==
    LET list == ContactStatuses(statuses)
    IN  /\ Call
        /\ Locked(ds)
        /\ \A d \in ds : ~ IsBlocked(domain[d])
        /\ domain' = BlockedDomains(ds, statuses, until)
        /\ \E copyOf \in CopyDomainOwners(Holders(ds)) :
              LET copies == {copyOf[h] : h \in Holders(ds)}
              IN  /\ contact' = [h \in DOMAIN contact \cup copies |->
                         IF h \in copies THEN Blocked(Unlocked, list, until)
                                         ELSE contact[h]]
                  /\ holder' = [d \in DOMAIN holder |->
                         IF d \in ds /\ list # {} THEN copyOf[holder[d]] ELSE holder[d]]
        /\ UNCHANGED <<lockVars, blacklist, today>>

(* administrative_unblock_domains.  The holders before the change of       *)
(* registrant that are blocked are unblocked too.                          *)
MutFormerOwners(ds, holder1) == {h \in {holder1[d] : d \in ds} : IsBlocked(contact[h])}

FormerOwners(ds, holder1) == {h \in Holders(ds) : IsBlocked(contact[h])}

(* _create_copy_contact_allowed: without a new holder, a blocked copy of a *)
(* holder takes the domains that stay blocked.                             *)
CopiedOwners(keeping, newOwner) == IF newOwner = <<>> THEN keeping ELSE {}

(* administrative_unblock_contact: a holder that keeps blocked domains and *)
(* is not copied stays blocked, the others return to their states.  The    *)
(* copy has the states of the original, and its block has no date.         *)
Unblock(ds, restore, newOwner) ==
    LET domain1 == [d \in DOMAIN domain |->
                      IF d \notin ds THEN domain[d]
                      ELSE IF restore THEN Restored(domain[d]) ELSE Cleared(domain[d])]
        holder1 == [d \in DOMAIN holder |->
                      IF d \in ds /\ newOwner # <<>> THEN newOwner ELSE holder[d]]
        owners  == FormerOwners(ds, holder1)
        keeping == {h \in owners : Held(h, holder1, domain1) # {}}
        copied  == CopiedOwners(keeping, newOwner)
        freed   == (owners \ keeping) \cup copied
    IN  /\ Call
        /\ Locked(ds)
        /\ \A d \in ds : IsBlocked(domain[d])
        /\ domain' = domain1
        /\ \E copyOf \in CopyDomainOwners(copied) :
              LET original(n) == CHOOSE h \in copied : copyOf[h] = n
              IN  /\ holder' = [d \in DOMAIN holder |->
                         IF holder1[d] \in copied /\ IsBlocked(domain1[d])
                         THEN copyOf[holder1[d]] ELSE holder1[d]]
                  /\ contact' = [n \in DOMAIN contact \cup {copyOf[h] : h \in copied} |->
                         IF n \in freed THEN Restored(contact[n])
                         ELSE IF n \in DOMAIN contact THEN contact[n]
                         ELSE Blocked(Unlocked, contact[original(n)].locks, Never)]
        /\ UNCHANGED <<lockVars, blacklist, today>>

(* unblockDomainsId and restorePreAdministrativeBlockStatesId.             *)
UnblockDomains(ds, newOwner) == Unblock(ds, FALSE, newOwner)

RestorePreBlockStates(ds, newOwner) == Unblock(ds, TRUE, newOwner)

(* updateBlockDomainsId: restored and blocked again; the holders keep the  *)
(* block they have.                                                        *)
UpdateBlock(ds, statuses, until) ==
    /\ Call
    /\ ds # {} /\ ds \subseteq DOMAIN domain
    /\ \A d \in ds : IsBlocked(domain[d])
    /\ domain' = [d \in DOMAIN domain |->
            IF d \in ds THEN Blocked(Restored(domain[d]), statuses, until)
                        ELSE domain[d]]
    /\ UNCHANGED <<lockVars, holder, contact, blacklist, today>>

(* The domain is gone; requests about it name an object that is not there. *)
Forget(ds) ==
    /\ domain' = [d \in DOMAIN domain \ ds |-> domain[d]]
    /\ holder' = [d \in DOMAIN holder \ ds |-> holder[d]]
    /\ requests' = [i \in DOMAIN requests |->
            IF requests[i].on \in ds THEN [requests[i] EXCEPT !.on = "none"]
                                     ELSE requests[i]]

(* blacklistAndDeleteDomainsId: states are not looked at.                  *)
BlacklistAndDelete(ds) ==
    /\ Call
    /\ Locked(ds)
    /\ ds \cap blacklist = {}
    /\ blacklist' = blacklist \cup ds
    /\ Forget(ds)
    /\ UNCHANGED <<run, browser, contact, today>>

(* blacklistDomainsId.                                                     *)
Blacklist(ds) ==
    /\ Call
    /\ ds # {} /\ ds \subseteq DOMAIN domain
    /\ ds \cap blacklist = {}
    /\ blacklist' = blacklist \cup ds
    /\ UNCHANGED <<lockVars, holder, domain, contact, today>>

-----------------------------------------------------------------------------
(* Registrars: the checks of the EPP commands on the states modelled here. *)

CreateDomain(d, h) ==
    /\ Call
    /\ d \notin DOMAIN domain
    /\ d \notin blacklist
    /\ domain' = [n \in DOMAIN domain \cup {d} |->
                    IF n = d THEN Unlocked ELSE domain[n]]
    /\ holder' = [n \in DOMAIN holder \cup {d} |-> IF n = d THEN h ELSE holder[n]]
    /\ UNCHANGED <<lockVars, contact, blacklist, today>>

UpdateRegistrant(d, h) ==
    /\ Call
    /\ RowIsFree(d)
    /\ "update" \notin domain[d].locks
    /\ h # holder[d]
    /\ holder' = [holder EXCEPT ![d] = h]
    /\ UNCHANGED <<lockVars, domain, contact, blacklist, today>>

DeleteDomain(d) ==
    /\ Call
    /\ RowIsFree(d)
    /\ "update" \notin domain[d].locks
    /\ Forget({d})
    /\ UNCHANGED <<run, browser, contact, blacklist, today>>

MutDeleteContact(h) ==
    /\ Call
    /\ "update" \notin contact[h].locks
    /\ contact' = [n \in DOMAIN contact \ {h} |-> contact[n]]
    /\ UNCHANGED <<lockVars, holder, domain, blacklist, today>>

DeleteContact(h) ==
    /\ Call
    /\ h \notin Holders(DOMAIN domain)
    /\ "update" \notin contact[h].locks
    /\ contact' = [n \in DOMAIN contact \ {h} |-> contact[n]]
    /\ UNCHANGED <<lockVars, holder, domain, blacklist, today>>

(* mergeContacts of the domain browser (MergeContactDiffContacts) and      *)
(* MergeContactAutoProcedure: the domains of the source move to a contact  *)
(* with the same data, and the source is deleted.                          *)
MergeContacts(src, dst) ==
    LET moved == {d \in DOMAIN domain : holder[d] = src}
    IN  /\ Call
        /\ src # dst /\ Head(src) = Head(dst)
        /\ ~ IsBlocked(contact[dst])
        /\ src \notin MojeIdHandles
        /\ ~ IsBlocked(contact[src])
        /\ \A d \in moved : RowIsFree(d) /\ ~ IsBlocked(domain[d])
        /\ holder' = [d \in DOMAIN holder |-> IF d \in moved THEN dst ELSE holder[d]]
        /\ contact' = [n \in DOMAIN contact \ {src} |-> contact[n]]
        /\ UNCHANGED <<lockVars, domain, blacklist, today>>

(* The nightly update of object states ends the blocks of the day.         *)
Night ==
    LET Ends(s) == IF s.until = today + 1 THEN Cleared(s) ELSE s
    IN  /\ today < MaxDay
        /\ today' = today + 1
        /\ domain' = [d \in DOMAIN domain |-> Ends(domain[d])]
        /\ contact' = [h \in DOMAIN contact |-> Ends(contact[h])]
        /\ UNCHANGED <<lockVars, holder, ops, blacklist>>

-----------------------------------------------------------------------------
(* One contact holds all domains, locked or not; registrars, requests and  *)
(* the domain browser change holders and locks from there.                 *)
Init ==
    /\ \E h \in Handles : holder = [d \in Domains |-> h]
    /\ \E own \in {{}, {"transfer", "update"}} :
          domain = [d \in Domains |-> [Unlocked EXCEPT !.locks = own, !.own = own]]
    /\ contact = [h \in Handles |-> Unlocked]
    /\ requests = <<>>
    /\ run = [r \in Runs |-> {}]
    /\ browser = Idle
    /\ ops = 0
    /\ blacklist = {}
    /\ today = 0

Dates == (today + 1) .. Never

AdminStep ==
    \E ds \in SUBSET Domains :
        \/ \E statuses \in StatusLists, until \in Dates :
              \/ BlockKeepOwner(ds, statuses, until)
              \/ BlockOwner(ds, statuses, until)
              \/ BlockOwnerCopy(ds, statuses, until)
              \/ UpdateBlock(ds, statuses, until)
        \/ \E newOwner \in DOMAIN contact \cup {<<>>} :
              \/ UnblockDomains(ds, newOwner)
              \/ RestorePreBlockStates(ds, newOwner)
        \/ BlacklistAndDelete(ds)
        \/ Blacklist(ds)

RegistrarStep ==
    \/ \E d \in Domains, h \in DOMAIN contact : CreateDomain(d, h)
    \/ \E d \in DOMAIN domain, h \in DOMAIN contact : UpdateRegistrant(d, h)
    \/ \E d \in DOMAIN domain : DeleteDomain(d)
    \/ \E h \in DOMAIN contact : DeleteContact(h)
    \/ \E src, dst \in DOMAIN contact : MergeContacts(src, dst)

Others == <<contact, blacklist, today>>

HolderStep ==
    /\ UNCHANGED Others
    /\ \/ \E d \in DOMAIN domain, kind \in Kinds :
             CreateBlockUnblockRequest(d, kind) \/ BrowserReads(d, kind)
       \/ BrowserWrites
       \/ \E i \in DOMAIN requests, invalidated \in BOOLEAN :
             ProcessRequest(i, invalidated)

RunStep(r) ==
    /\ UNCHANGED Others
    /\ \/ StartRun(r)
       \/ StopRun(r)
       \/ \E i \in DOMAIN requests : ProcessResolved(r, i) \/ CommitFails(r, i)

Next ==
    \/ AdminStep
    \/ RegistrarStep
    \/ Night
    \/ HolderStep
    \/ \E r \in Runs : RunStep(r)

Spec == Init /\ [][Next]_vars

(* fred-admin is started again and again by cron and works through the     *)
(* list it read, or is stopped.  A request whose turn comes again and      *)
(* again is at last processed: the process does not end, and the commit    *)
(* does not fail, every time.  Nothing else has to happen.                 *)
Processed(i) ==
    /\ UNCHANGED Others
    /\ i \in DOMAIN requests
    /\ \E r \in Runs : ProcessResolved(r, i)

FairSpec ==
    /\ Spec
    /\ \A r \in Runs : WF_vars(RunStep(r))
    /\ \A i \in 1 .. MaxRequests : SF_vars(Processed(i))

-----------------------------------------------------------------------------
(* Properties.                                                             *)

States == [locks : SUBSET Statuses, before : SUBSET Statuses,
           until : 0 .. Never, own : SUBSET Statuses, raced : BOOLEAN]

RequestsType ==
    [on : Domains \cup {"none"}, kind : Kinds,
     status : {"opened", "resolved", "invalidated"},
     action : {"processed", "scheduled", "failed"}]

(* Types; every domain is held by a contact that exists, and the lists of  *)
(* fred-admin name requests that exist.                                    *)
TypeOK ==
    /\ domain \in [DOMAIN domain -> States] /\ DOMAIN domain \subseteq Domains
    /\ contact \in [DOMAIN contact -> States]
    /\ DOMAIN contact \subseteq Seq(Nat)
    /\ holder \in [DOMAIN domain -> DOMAIN contact]
    /\ requests \in Seq(RequestsType)
    /\ run \in [Runs -> SUBSET DOMAIN requests]
    /\ browser \in [on : DOMAIN domain \cup {"none"}, kind : Kinds \cup {"none"},
                    seen : SUBSET Statuses]
    /\ ops \in 0 .. MaxOps
    /\ blacklist \subseteq Domains
    /\ today \in 0 .. MaxDay

(* What a holder locked survives an administrative block: while the object *)
(* is blocked, the states to be restored are the ones the holder asked     *)
(* for, and afterwards they are in force again.  No request or call of the *)
(* domain browser changes an object while it is blocked                    *)
(* (process/block_unblock.cc:171, domain_browser.cc:1269).                 *)
OwnLocksSurvive ==
    \A s \in {domain[d] : d \in DOMAIN domain} \cup {contact[h] : h \in DOMAIN contact} :
        s.own = IF IsBlocked(s) THEN s.before ELSE s.locks

(* Changes are never prohibited while a transfer is allowed: the state     *)
(* process/block_unblock.cc:101 calls inconsistent and partial unblocking, *)
(* which domain_browser.cc:1280 forbids, would lead to.  Except where a    *)
(* request was processed between the reads and the writes of the domain    *)
(* browser, which takes no lock on the states.                             *)
NoUpdateLockAlone ==
    \A d \in DOMAIN domain : domain[d].raced \/ domain[d].own # {"update"}

(* get_copy_owner_handle (administrativeblocking.cc:149) gives a name no   *)
(* contact has, also after copies of copies, after the deletion of some,   *)
(* and beside handles registered with the suffix.  One name is excepted:   *)
(* X-ABC_99999 is the last by its text even when X-ABC_100000 exists, so   *)
(* that one is proposed again, and the copy fails until the former is      *)
(* deleted.                                                                *)
CopiesAreNew ==
    LET names == DOMAIN contact
    IN  \A h \in names :
            CopyOwnerHandle(h, names) \in names =>
                CopyOwnerHandle(h, names) = Append(h, CopyIndexLimit)

(* When the block of a domain is taken off, its holder is unblocked too,   *)
(* or holds another blocked domain (administrative_unblock_contact).  The  *)
(* end of a limited block is the exception: holders are not looked at.     *)
HoldersAreUnblocked ==
    [][today' = today =>
        \A d \in DOMAIN domain \cap DOMAIN domain' :
            (IsBlocked(domain[d]) /\ ~ IsBlocked(domain'[d])) =>
                LET h == holder[d]
                IN  h \in DOMAIN contact' =>
                        \/ ~ IsBlocked(contact'[h])
                        \/ Held(h, holder', domain') # {}]_vars

(* A blocked domain that may not be updated keeps a blocked holder, if it  *)
(* had one, whatever is done to other domains of that holder: until a      *)
(* block ends by its date, the holder or a blocked copy of it holds it.    *)
SiblingsStayProtected ==
    [][today' = today =>
        \A d \in DOMAIN domain \cap DOMAIN domain' :
            (/\ IsBlocked(domain[d]) /\ IsBlocked(domain'[d])
             /\ "update" \in domain[d].locks
             /\ IsBlocked(contact[holder[d]])) =>
                /\ IsBlocked(contact'[holder'[d]])
                /\ Head(holder'[d]) = Head(holder[d])]_vars

(* A request an operator has resolved is processed or fails, also when     *)
(* runs of fred-admin are stopped, commits fail (block_unblock.cc:407), or *)
(* the domain is blocked or deleted.                                       *)
ResolvedRequestsAreProcessed ==
    \A i \in 1 .. MaxRequests :
        LET waits == /\ i \in DOMAIN requests
                     /\ requests[i].status = "resolved"
                     /\ requests[i].action = "scheduled"
        IN  waits ~> ~ waits

=============================================================================

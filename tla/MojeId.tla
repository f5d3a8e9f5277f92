-------------------------------- MODULE MojeId --------------------------------
(***************************************************************************)
(* The mojeID backend (backend/mojeid/mojeid.cc) on one contact, beside    *)
(* the registrars and the verification service of module ContactStates.    *)
(*                                                                         *)
(* The operations of the account are prepared transactions: *_prepare does *)
(* the work and ends in PREPARE TRANSACTION, the front end then calls      *)
(* commit_prepared_transaction or rollback_prepared_transaction with the   *)
(* same identifier.  State requests are performed by a second transaction  *)
(* after the commit, for the contact found in an in-memory map             *)
(* (prepare_transaction_storage) that a restart of the server empties.     *)
(*                                                                         *)
(* update_contact_prepare and update_validated_contact_prepare read the    *)
(* states before they lock anything, update_transfer_contact_prepare before*)
(* it locks the requests: these take two steps.  Locks last until the      *)
(* prepared transaction ends:                                              *)
(*     requests  PublicRequestsOfObjectLockGuardByObjectId and the like    *)
(*     contact   the row of object_registry                                *)
(*     states    LockObjectStateRequestLock                                *)
(***************************************************************************)
EXTENDS ContactStates

CONSTANTS
    Trans,      \* transaction identifiers of the front end
    MaxCalls,   \* bound on the operations of a behaviour that no earlier
                \* one has made ready
    AutoPin3    \* auto_pin3_sending of the configuration

ASSUME MojeIdAssumption == AutoPin3 \in BOOLEAN /\ MaxCalls \in Nat

VARIABLES
    tx,            \* the call and the transaction of each identifier
    calls,         \* number of those operations so far
    storage,       \* prepare_transaction_storage: identifiers with a contact
    raced,         \* history: states granted between the read and the lock
                   \* of an update, or before a commit was performed;
                   \* "mojeid" when a transfer was prepared then
    misaddressed,  \* history: <<letter, by>> when the identified data were
                   \* changed while the request of this letter was open
    disturbed      \* history: an account of this contact was cancelled, or
                   \* changed by the system registrar

historyVars == <<raced, misaddressed, disturbed>>

vars == <<contactVars, tx, calls, storage, historyVars>>

NoTrans == [at |-> "idle", op |-> "none", ch |-> {}, states |-> {}, opens |-> {}]

Init ==
    /\ NoContact
    /\ tx = [t \in Trans |-> NoTrans]
    /\ calls = 0
    /\ storage = {}
    /\ raced = {}
    /\ misaddressed = {}
    /\ disturbed = FALSE

TypeOK ==
    /\ ContactTypeOK
    /\ tx \in [Trans -> [at : {"idle", "reading", "prepared", "committed"},
                         op : Operations, ch : SUBSET Aspects,
                         states : SUBSET ObjectStates,
                         opens : SUBSET RequestTypes]]
    /\ calls \in 0..MaxCalls
    /\ storage \subseteq Trans
    /\ \A t \in Trans : tx[t].at = "committed" => t \in storage
    /\ raced \subseteq {"identified", "validated", "mojeid"}
    /\ misaddressed \subseteq {"CI", "RI"} \X Changers
    /\ disturbed \in BOOLEAN

-----------------------------------------------------------------------------
(* Who holds which lock.                                                   *)
RequestsLocked ==
    \E t \in Trans : tx[t].at = "prepared" /\ tx[t].op # "validated"

ContactLocked ==
    \E t \in Trans :
        \/ tx[t].at = "prepared"
        \/ tx[t].at = "reading" /\ tx[t].op = "updateTransfer"

StatesLocked ==
    \E t \in Trans : tx[t].at = "prepared" /\ tx[t].states # {}

(* PREPARE TRANSACTION with the data the commit will apply: the changed    *)
(* aspects, the cancelled state requests, the created public requests.     *)
(* The map entry is made before, so that a failure of PREPARE leaves it    *)
(* behind, and an identifier that is in use makes the call fail.           *)
Prepare(t, op, ch, cancels, opens, store) ==
    /\ store => t \notin storage
    /\ storage' = IF store THEN storage \cup {t} ELSE storage
    /\ \/ tx' = [tx EXCEPT ![t] = [at |-> "prepared", op |-> op, ch |-> ch,
                                   states |-> cancels, opens |-> opens]]
       \/ tx' = [tx EXCEPT ![t] = NoTrans]
    /\ UNCHANGED <<contactVars, misaddressed, disturbed>>

(* An exception before PREPARE rolls everything back.                      *)
Fail(t) ==
    /\ tx[t].at = "reading"
    /\ tx' = [tx EXCEPT ![t] = NoTrans]
    /\ UNCHANGED <<contactVars, calls, storage, historyVars>>

Called ==
    /\ calls < MaxCalls
    /\ calls' = calls + 1

CallStarts(t) == tx[t].at = "idle" /\ Called

-----------------------------------------------------------------------------
CreateContactPrepare(t) ==
    /\ CallStarts(t)
    /\ sponsor = "none"
    /\ ~ContactLocked
    /\ Prepare(t, "create", {}, {}, {"CCI"}, TRUE)
    /\ UNCHANGED raced

(* states_before_transfer_into_mojeid                                      *)
TransferPermitted(states) == states \cap {"mojeid", "prohibited"} = {}

(* A validated contact gets no request and no entry in the map.            *)
TransferRequest(states) ==
    CASE "validated" \in states -> {}
      [] states \cap {"conditional", "identified"} = {} -> {"CCI"}
      [] "conditional" \in states /\ "identified" \notin states -> {"CICT"}
      [] {"conditional", "identified"} \subseteq states -> {"ICT"}
      [] OTHER -> {}

TransferReadsStates ==
    raced' = raced \cup (IF performed # wanted THEN {"mojeid"} ELSE {})

TransferContactPrepare(t) ==
    /\ CallStarts(t)
    /\ sponsor # "none"
    /\ ~ContactLocked /\ ~RequestsLocked
    /\ TransferPermitted(performed)
    /\ LET opens == TransferRequest(performed)
       IN  Prepare(t, "transfer", {}, {}, opens, opens # {})
    /\ TransferReadsStates

(* The unlocked reads of an update; ch is the difference of the new data   *)
(* from the data read.                                                     *)
StartUpdate(t, op, ch) ==
    /\ CallStarts(t)
    /\ sponsor # "none"
    /\ "mojeid" \in performed
    /\ tx' = [tx EXCEPT ![t] = [at |-> "reading", op |-> op, ch |-> ch,
                                states |-> performed, opens |-> {}]]
    /\ UNCHANGED <<contactVars, storage, historyVars>>

StartUpdateTransfer(t, ch) ==
    /\ CallStarts(t)
    /\ sponsor # "none"
    /\ ~ContactLocked
    /\ TransferPermitted(performed)
    /\ tx' = [tx EXCEPT ![t] = [at |-> "reading", op |-> "updateTransfer",
                                ch |-> ch, states |-> performed, opens |-> {}]]
    /\ TransferReadsStates
    /\ UNCHANGED <<contactVars, storage, misaddressed, disturbed>>

(* What update_contact_prepare cancels, by the states it read.             *)
MutUpdateCancels(states, ch) ==
    states \cap
        ((IF ch \cap ValidatedData # {} THEN {"validated"} ELSE {})
         \cup (IF "name" \in ch THEN {"identified"} ELSE {})
         \cup (IF CancelsManual(ch) THEN {"manual"} ELSE {}))

UpdateCancels(states, ch) ==
    states \cap
        ((IF ch \cap ValidatedData # {} THEN {"validated"} ELSE {})
         \cup (IF ch \cap IdentifiedData # {} THEN {"identified"} ELSE {})
         \cup (IF CancelsManual(ch) THEN {"manual"} ELSE {}))

(* The letter for the changed data: a reidentification for a contact that  *)
(* was identified while in this account.                                   *)
MutLetterRequest(states, ch) ==
    IF ~AutoPin3 \/ "name" \notin ch THEN {}
    ELSE IF "identified" \in states \/ wasIdentified THEN {"RI"}
    ELSE {"CI"}

LetterRequest(states, ch) ==
    IF ~AutoPin3 \/ ch \cap IdentifiedData = {} THEN {}
    ELSE IF "identified" \in states \/ wasIdentified THEN {"RI"}
    ELSE {"CI"}

(* A state request that has meanwhile been cancelled makes the call fail.  *)
UpdateContactPrepare(t) ==
    LET call == tx[t]
        cancels == UpdateCancels(call.states, call.ch)
    IN  /\ call.at = "reading" /\ call.op = "update"
        /\ sponsor # "none"
        /\ ~RequestsLocked /\ ~ContactLocked /\ ~StatesLocked
        /\ cancels \subseteq wanted
        /\ Prepare(t, "update", call.ch, cancels,
                   LetterRequest(call.states, call.ch), cancels # {})
        /\ UNCHANGED <<calls, raced>>

UpdateValidatedContactPrepare(t) ==
    LET cancels == tx[t].states \cap {"manual"}
    IN  /\ tx[t].at = "reading" /\ tx[t].op = "validated"
        /\ sponsor # "none"
        /\ ~ContactLocked
        /\ cancels # {} => ~StatesLocked
        /\ cancels \subseteq wanted
        /\ Prepare(t, "validated", tx[t].ch, cancels, {}, cancels # {})
        /\ UNCHANGED <<calls, raced>>

(* What update_transfer_contact_prepare cancels, by the states it read: a  *)
(* change of e-mail or telephone drops both identifications.  A request    *)
(* that is not there is passed over.                                       *)
UpdateTransferCancels(states, ch) ==
    states \cap
        ((IF "email" \in ch THEN {"conditional", "identified"} ELSE {})
         \cup (IF ch \cap IdentifiedData # {} THEN {"identified"} ELSE {})
         \cup (IF ch \cap ValidatedData # {} THEN {"validated"} ELSE {}))

UpdateTransferContactPrepare(t) ==
    LET call == tx[t]
        cancels == UpdateTransferCancels(call.states, call.ch)
        conditional == "conditional" \in call.states /\ "email" \notin call.ch
    IN  /\ call.at = "reading" /\ call.op = "updateTransfer"
        /\ ~RequestsLocked /\ ~StatesLocked
        /\ Prepare(t, "updateTransfer", call.ch, cancels,
                   IF conditional THEN {"PCT"} ELSE {"PUCT"}, TRUE)
        /\ UNCHANGED <<calls, raced>>

(* A contact without links is deleted; nothing remains to be performed.    *)
MutKeepsMark(t) ==
    /\ CallStarts(t)
    /\ ~RequestsLocked /\ ~ContactLocked /\ ~StatesLocked
    /\ "mojeid" \in performed
    /\ LET cancels == performed \cap {"prohibited", "validated"}
       IN  /\ cancels \subseteq wanted
           /\ Prepare(t, "cancel", {"mailing"}, cancels, {}, TRUE)
    /\ UNCHANGED raced

MutKeepsValidation(t) ==
    /\ CallStarts(t)
    /\ ~RequestsLocked /\ ~ContactLocked /\ ~StatesLocked
    /\ "mojeid" \in performed
    /\ LET cancels == performed \cap {"mojeid", "prohibited"}
       IN  /\ cancels \subseteq wanted
           /\ Prepare(t, "cancel", {"mailing"}, cancels, {}, TRUE)
    /\ UNCHANGED raced

CancelAccountPrepare(t) ==
    /\ CallStarts(t)
    /\ ~RequestsLocked /\ ~ContactLocked /\ ~StatesLocked
    /\ "mojeid" \in performed
    /\ performed \cap {"conditional", "identified", "validated"} # {}
    /\ \/ Prepare(t, "delete", {}, {}, {}, FALSE)
       \/ LET cancels == performed \cap {"mojeid", "prohibited", "validated"}
          IN  /\ cancels \subseteq wanted
              /\ Prepare(t, "cancel", {"mailing"}, cancels, {}, TRUE)
    /\ UNCHANGED raced

-----------------------------------------------------------------------------
(* With the contact go the calls that have read it: its identifier is not  *)
(* used again, so they fail, or find nothing to perform.                   *)
CallsLoseContact ==
    /\ tx' = [t \in Trans |-> NoTrans]
    /\ storage' = storage \ {t \in Trans : tx[t].at = "committed"}

(* The open letters that a change of the identified data leaves with the   *)
(* old name or address; new ones are written to the present data.          *)
MisaddressedAfter(by, ch, letters) ==
    {m \in misaddressed \cup
              (IF ch \cap IdentifiedData = {} THEN {}
               ELSE {r \in {"CI", "RI"} : request[r] # "closed"} \X {by}) :
        m[1] \notin letters}

(* COMMIT PREPARED applies what was prepared.                              *)
Commit(t) ==
    LET call == tx[t]
    IN  /\ call.at = "prepared"
        /\ IF call.op = "delete"
           THEN /\ ContactIsGone
                /\ CallsLoseContact
                /\ misaddressed' = {}
           ELSE /\ tx' = [tx EXCEPT ![t] = IF t \in storage
                                           THEN [@ EXCEPT !.at = "committed"]
                                           ELSE NoTrans]
                /\ sponsor' = IF call.op \in {"create", "updateTransfer"}
                              THEN "mojeid" ELSE sponsor
                /\ wanted' = wanted \ call.states
                /\ request' = RequestsAfter(
                                  call.op \notin {"create", "transfer"},
                                  IF call.op = "cancel" THEN {"VAL"} ELSE {},
                                  call.opens)
                /\ stale' = StaleAfter(call.op, call.ch, {}, wanted')
                /\ misaddressed' = MisaddressedAfter(call.op, call.ch, call.opens)
                /\ UNCHANGED <<performed, wasIdentified, storage>>
        /\ disturbed' = (disturbed \/ call.op = "cancel")
        /\ UNCHANGED <<calls, raced>>

(* The second half of commit_prepared_transaction; when it fails the entry *)
(* stays in the map.                                                       *)
PerformCommitted(t) ==
    /\ tx[t].at = "committed"
    /\ tx' = [tx EXCEPT ![t] = NoTrans]
    /\ \/ /\ ~StatesLocked
          /\ Perform(wanted)
          /\ storage' = storage \ {t}
       \/ UNCHANGED <<performed, wasIdentified, storage>>
    /\ UNCHANGED <<sponsor, wanted, request, stale, calls, historyVars>>

Rollback(t) ==
    /\ tx[t].at = "prepared"
    /\ tx' = [tx EXCEPT ![t] = NoTrans]
    /\ storage' = storage \ {t}
    /\ UNCHANGED <<contactVars, calls, historyVars>>

(* The server restarts: prepared transactions survive in the database, the *)
(* map and every call under way do not.                                    *)
Restart ==
    /\ storage' = {}
    /\ tx' = [t \in Trans |-> IF tx[t].at = "prepared" THEN tx[t] ELSE NoTrans]
    /\ UNCHANGED <<contactVars, calls, historyVars>>

-----------------------------------------------------------------------------
(* The states a resolved registration adds to the protection of the        *)
(* account; validatedContact only where it is not in force yet.            *)
Grants(r) ==
    (IF r \in {"CCI", "PUCT"} THEN {"conditional"} ELSE {})
        \cup (IF r \in {"PUCT", "PCT"} THEN {"validated"} \ performed ELSE {})

Racing(op) ==
    \/ performed # wanted
    \/ \E t \in Trans : tx[t].at = "reading" /\ tx[t].op \in op

RacedAfter(granted, op) ==
    (raced \ granted) \cup (IF Racing(op) THEN granted ELSE {})

(* A request older than the last change of the contact is invalidated and  *)
(* that is committed.  Otherwise the states are set and performed, the     *)
(* address of a contact that has just been validated is undisclosed where  *)
(* it is disclosed and no organization has it, the contact moves to mojeID *)
(* and with auto_pin3_sending the letter with PIN3 is ordered.  A state    *)
(* that is already requested makes the call fail.                          *)
MutProcessRegistrationRequest(r) ==
    /\ ~RequestsLocked /\ ~ContactLocked /\ ~StatesLocked
    /\ \/ /\ request[r] = "never"
          /\ UNCHANGED <<contactVars, historyVars>>
       \/ /\ request[r] # "closed"
          /\ LET sets == Grants(r) \cup {"prohibited", "mojeid"}
                 letter == IF AutoPin3 /\ "identified" \notin wanted THEN {"CI"} ELSE {}
             IN  /\ sets \cap wanted = {}
                 /\ sponsor' = "mojeid"
                 /\ wanted' = wanted \cup sets
                 /\ Perform(wanted')
                 /\ \E undisclose \in BOOLEAN :
                       /\ undisclose => "validated" \in sets
                       /\ request' = RequestsAfter(sponsor # "mojeid" \/ undisclose,
                                                   CancelOnResolve(r), letter)
                 /\ stale' = StaleAfter("none", {}, sets, wanted')
                 /\ raced' = RacedAfter(sets \cap {"validated"}, {"update"})
                 /\ misaddressed' = MisaddressedAfter("none", {}, letter)
          /\ UNCHANGED disturbed
    /\ UNCHANGED <<tx, calls, storage>>

ProcessRegistrationRequest(r) ==
    /\ ~RequestsLocked /\ ~ContactLocked /\ ~StatesLocked
    /\ \/ /\ request[r] = "outdated"
          /\ request' = RequestsAfter(FALSE, {r}, {})
          /\ UNCHANGED <<sponsor, wanted, performed, wasIdentified, stale, historyVars>>
       \/ /\ request[r] = "open"
          /\ LET sets == Grants(r) \cup {"prohibited", "mojeid"}
                 letter == IF AutoPin3 /\ "identified" \notin wanted THEN {"CI"} ELSE {}
             IN  /\ sets \cap wanted = {}
                 /\ sponsor' = "mojeid"
                 /\ wanted' = wanted \cup sets
                 /\ Perform(wanted')
                 /\ \E undisclose \in BOOLEAN :
                       /\ undisclose => "validated" \in sets
                       /\ request' = RequestsAfter(sponsor # "mojeid" \/ undisclose,
                                                   CancelOnResolve(r), letter)
                 /\ stale' = StaleAfter("none", {}, sets, wanted')
                 /\ raced' = RacedAfter(sets \cap {"validated"}, {"update"})
                 /\ misaddressed' = MisaddressedAfter("none", {}, letter)
          /\ UNCHANGED disturbed
    /\ UNCHANGED <<tx, calls, storage>>

(* The request whose PIN3 process_identification_request asks for.         *)
LetterInForce == IF request["CI"] # "closed" THEN "CI" ELSE "RI"

ProcessIdentificationRequest(undisclose) ==
    /\ ~RequestsLocked /\ ~StatesLocked
    /\ undisclose => ~ContactLocked
    /\ request[LetterInForce] # "closed"
    /\ {"mojeid", "conditional", "prohibited"} \subseteq performed
    /\ "identified" \notin performed
    /\ "identified" \notin wanted
    /\ wanted' = wanted \cup {"identified"}
    /\ Perform(wanted')
    /\ request' = RequestsAfter(undisclose, {LetterInForce}, {})
    /\ stale' = StaleAfter("none", {}, {"identified"}, wanted')
    /\ raced' = RacedAfter({"identified"}, {"update"})
    /\ misaddressed' = MisaddressedAfter("none", {}, {LetterInForce})
    /\ UNCHANGED <<sponsor, tx, calls, storage, disturbed>>

CreateValidationRequest ==
    /\ Called
    /\ ~RequestsLocked
    /\ request["VAL"] = "closed"
    /\ "mojeid" \in performed /\ "validated" \notin performed
    /\ request' = RequestsAfter(FALSE, {}, {"VAL"})
    /\ UNCHANGED <<sponsor, wanted, performed, wasIdentified, stale, tx, storage,
                   historyVars>>

(* validate_contact creates a request of its own and resolves it.          *)
ValidateContact(undisclose) ==
    /\ ~RequestsLocked /\ ~StatesLocked
    /\ undisclose => ~ContactLocked
    /\ "mojeid" \in performed /\ "validated" \notin performed
    /\ "validated" \notin wanted
    /\ wanted' = wanted \cup {"validated"}
    /\ Perform(wanted')
    /\ request' = RequestsAfter(undisclose, {"VAL"}, {})
    /\ stale' = StaleAfter("none", {}, {"validated"}, wanted')
    /\ raced' = RacedAfter({"validated"}, {"update"})
    /\ UNCHANGED <<sponsor, tx, calls, storage, misaddressed, disturbed>>

SendNewPin3 ==
    LET letter == IF request["RI"] # "closed" THEN "RI" ELSE "CI"
    IN  /\ Called
        /\ ~RequestsLocked
        /\ "mojeid" \in performed /\ "identified" \notin performed
        /\ request' = RequestsAfter(FALSE, {"CI", "RI"}, {letter})
        /\ misaddressed' = {}
        /\ UNCHANGED <<sponsor, wanted, performed, wasIdentified, stale, tx, storage,
                       raced, disturbed>>

-----------------------------------------------------------------------------
(* The operations of ContactStates wait for the locks as well.             *)
OtherUpdate ==
    /\ Called
    /\ ~ContactLocked /\ ~StatesLocked
    /\ \/ CreateContact
          /\ UNCHANGED misaddressed
       \/ \E system \in BOOLEAN, ch \in Changes :
             /\ UpdateContact(system, ch)
             /\ misaddressed' = MisaddressedAfter(
                                    IF system THEN "system" ELSE "registrar", ch, {})
       \/ \E system \in BOOLEAN : TransferContact(system) /\ UNCHANGED misaddressed
    /\ disturbed' = (disturbed \/ "prohibited" \in wanted)
    /\ UNCHANGED <<tx, storage, raced>>

OtherDelete ==
    /\ Called
    /\ ~ContactLocked /\ ~StatesLocked
    /\ \E system \in BOOLEAN : DeleteContact(system)
    /\ CallsLoseContact
    /\ misaddressed' = {}
    /\ UNCHANGED <<raced, disturbed>>

Verification ==
    /\ ~RequestsLocked /\ ~StatesLocked
    /\ \/ CreateConditionalIdentification /\ Called /\ UNCHANGED raced
       \/ ProcessConditionalIdentification /\ UNCHANGED <<calls, raced>>
       \/ /\ ProcessIdentification
          /\ UNCHANGED calls
          /\ raced' = IF wanted' = wanted THEN raced
                      ELSE RacedAfter({"identified"}, {"update", "updateTransfer"})
    /\ UNCHANGED <<tx, storage, misaddressed, disturbed>>

(* The update of undisclose_address_async waits for the contact only.      *)
HideAddress(update) ==
    /\ update => ~ContactLocked
    /\ UndiscloseAddress(update)
    /\ UNCHANGED <<tx, calls, storage, historyVars>>

ManualCheck ==
    /\ Called
    /\ ~StatesLocked
    /\ ResolveCheck
    /\ UNCHANGED <<tx, storage, historyVars>>

(* The nightly run works on what is committed and takes no lock first.     *)
Nightly ==
    /\ UpdateObjectStates
    /\ UNCHANGED <<tx, calls, storage, historyVars>>

Next ==
    \/ \E t \in Trans :
          \/ CreateContactPrepare(t)
          \/ TransferContactPrepare(t)
          \/ \E ch \in Changes : StartUpdate(t, "update", ch)
          \/ StartUpdate(t, "validated", {"name", "place"})
          \/ \E ch \in Changes : StartUpdateTransfer(t, ch)
          \/ UpdateContactPrepare(t)
          \/ UpdateValidatedContactPrepare(t)
          \/ UpdateTransferContactPrepare(t)
          \/ CancelAccountPrepare(t)
          \/ Fail(t)
          \/ Commit(t)
          \/ PerformCommitted(t)
          \/ Rollback(t)
    \/ Restart
    \/ \E r \in RegistrationTypes : ProcessRegistrationRequest(r)
    \/ \E undisclose \in BOOLEAN : ProcessIdentificationRequest(undisclose)
    \/ CreateValidationRequest
    \/ \E undisclose \in BOOLEAN : ValidateContact(undisclose)
    \/ SendNewPin3
    \/ OtherUpdate
    \/ OtherDelete
    \/ Verification
    \/ \E update \in BOOLEAN : HideAddress(update)
    \/ ManualCheck
    \/ Nightly

Spec == Init /\ [][Next]_vars

-----------------------------------------------------------------------------
(* In force and requested alike, the mark of an account comes with the     *)
(* three prohibitions that keep registrars away from the contact.          *)
AccountsAreProtected ==
    \A s \in {wanted, performed} : "mojeid" \in s => "prohibited" \in s

(* The same, over variables of their types, with the storage of prepared   *)
(* transactions holding every one that waits for its state requests.       *)
AccountsAreSound == TypeOK /\ AccountsAreProtected

(* cancel_account_prepare takes validatedContact back with the account, so *)
(* validated contacts are accounts; the exception is a validation in the   *)
(* time between the commit and the performing of its state requests.       *)
ValidatedContactsAreAccounts ==
    "validated" \in wanted => "mojeid" \in wanted \/ "validated" \in raced

(* The changes under which the code keeps a state of verification on       *)
(* purpose: update_contact and cancel_account_prepare (which resets it)    *)
(* leave identifiedContact to a contact with another mailing address,      *)
(* update_validated_contact_prepare leaves both states, as the data it     *)
(* writes were validated elsewhere, and an update by the system registrar  *)
(* leaves validatedContact.                                                *)
KeptByRule ==
    ({"identified"} \X {"registrar", "system", "cancel"} \X {"mailing"})
        \cup ({"identified", "validated"} \X {"validated"} \X {"name", "place"})
        \cup ({"validated"} \X {"system"} \X ValidatedData)

(* identifiedContact and validatedContact vouch for the present data but   *)
(* for these changes: a state whose data someone else or something else    *)
(* has changed is gone, except where it was granted while                  *)
(* update_contact_prepare or update_transfer_contact_prepare was between   *)
(* reading the states and locking the requests.                            *)
VerifiedDataAreCurrent ==
    \A p \in stale \ KeptByRule : p[1] \in wanted => p[1] \in raced

(* With auto_pin3_sending, the PIN3 that process_identification_request    *)
(* accepts was sent for the present name and address, or for those before  *)
(* update_validated_contact_prepare, which orders no letter and closes     *)
(* none.  Excepted are a contact whose account was cancelled before with   *)
(* its letter open or was changed by the system registrar, and one whose   *)
(* transfer is the exception below.                                        *)
LetterMatchesAddress ==
    [][(/\ "identified" \notin wanted /\ "identified" \in wanted'
        /\ request[LetterInForce] # "closed" /\ request'[LetterInForce] = "closed")
          => \/ ~AutoPin3 \/ disturbed \/ "mojeid" \in raced
             \/ \A m \in misaddressed :
                   m[1] = LetterInForce => m[2] = "validated"]_vars

(* An account is given only to a contact that is at least conditionally    *)
(* identified.  The exception is a transfer prepared on the states in      *)
(* force while a committed change of them waited to be performed.          *)
AccountsAreIdentified ==
    [][("mojeid" \notin wanted /\ "mojeid" \in wanted')
          => "conditional" \in wanted' \/ "mojeid" \in raced]_vars
=============================================================================

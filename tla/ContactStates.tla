---------------------------- MODULE ContactStates ----------------------------
(***************************************************************************)
(* One contact of the register: its sponsor, the states requested for it   *)
(* (object_state_request) and the ones in force (object_state), the public *)
(* requests that wait for a PIN, and the operations of registrars and of   *)
(* the contact verification service on it:                                 *)
(*   backend/epp/contact (create, update with its post hooks, delete),     *)
(*   backend/contact_verification, deprecated/libfred/contact_verification *)
(*   and deprecated/libfred/public_request.                                *)
(*                                                                         *)
(* Contact data are abstracted to the aspects the code compares; a state   *)
(* of verification covers some of them.  Passwords are entered right, or   *)
(* the call fails and leaves nothing behind.                               *)
(***************************************************************************)
EXTENDS Naturals, FiniteSets

CONSTANT Changes   \* the sets of aspects one command may change

Aspects == {"name", "mailing", "place", "email", "other"}

ASSUME ChangesAssumption == Changes \subseteq SUBSET Aspects

(* "prohibited" stands for the three server prohibitions, which are set    *)
(* and cancelled together; "manual" for the result of a manual check.      *)
ObjectStates ==
    {"mojeid", "prohibited", "conditional", "identified", "validated", "manual"}

(* What lets a contact into mojeID.                                        *)
RegistrationTypes == {"CCI", "CICT", "ICT", "PUCT", "PCT"}

(* mojeID: conditional identification, identification, reidentification,   *)
(* validation and the four transfers; vCCI and vCI are the requests of the *)
(* contact verification service.  "hide" is no public request but the call *)
(* of undisclose_address_async that follows an answered vCI.               *)
RequestTypes == RegistrationTypes \cup {"CI", "RI", "VAL", "vCCI", "vCI", "hide"}

(* Who changes the data of the contact: an operation of mojeID, or an EPP  *)
(* update by a registrar or by the system registrar.                       *)
Operations ==
    {"none", "create", "transfer", "update", "validated", "updateTransfer",
     "cancel", "delete"}
Changers == Operations \cup {"registrar", "system"}

VARIABLES
    sponsor,        \* "none" (no such contact), "registrar" or "mojeid"
    wanted,         \* states with an active object_state_request
    performed,      \* states in force
    request,        \* public request type -> "closed", "open" or "outdated"
    wasIdentified,  \* identified at some time of the present mojeID account
    stale           \* history: <<state, by, aspect>> when data a granted
                    \* state vouches for were changed after the grant

contactVars == <<sponsor, wanted, performed, request, wasIdentified, stale>>

NoContact ==
    /\ sponsor = "none"
    /\ wanted = {}
    /\ performed = {}
    /\ request = [r \in RequestTypes |-> "closed"]
    /\ wasIdentified = FALSE
    /\ stale = {}

ContactIsGone ==
    /\ sponsor' = "none"
    /\ wanted' = {}
    /\ performed' = {}
    /\ request' = [r \in RequestTypes |-> "closed"]
    /\ wasIdentified' = FALSE
    /\ stale' = {}

ContactTypeOK ==
    /\ sponsor \in {"none", "registrar", "mojeid"}
    /\ wanted \subseteq ObjectStates
    /\ performed \subseteq ObjectStates
    /\ request \in [RequestTypes -> {"closed", "open", "outdated"}]
    /\ wasIdentified \in BOOLEAN
    /\ stale \subseteq {"identified", "validated"} \X Changers \X Aspects

-----------------------------------------------------------------------------
(* identified_data_changed and validated_data_changed.                     *)
IdentifiedData == {"name", "mailing"}
ValidatedData == {"name", "place"}

(* The types whose processing compares the time of the request with the    *)
(* last update or transfer of the contact.                                 *)
ComparedWithUpdate == RegistrationTypes \cup {"vCCI"}

(* The requests a new one of this type closes.                             *)
CancelOnCreate(r) ==
    CASE r = "CI"   -> {"CI", "vCI"}
      [] r = "PUCT" -> {"PUCT", "vCCI", "CCI"}
      [] r = "PCT"  -> {"PCT", "CICT", "ICT"}
      [] OTHER      -> {r}

(* The requests the resolution of one of this type closes.                 *)
CancelOnResolve(r) ==
    CASE r = "CCI"  -> {"CCI", "vCCI"}
      [] r = "CICT" -> {"CICT", "vCI", "PCT"}
      [] OTHER      -> {r}

(* Requests after a transaction that updates the contact (or not), closes  *)
(* the requests in closed and creates those in opened.                     *)
RequestsAfter(update, closed, opened) ==
    [r \in RequestTypes |->
        IF r \in opened THEN "open"
        ELSE IF r \in closed \/ \E n \in opened : r \in CancelOnCreate(n)
        THEN "closed"
        ELSE IF update /\ request[r] = "open" /\ r \in ComparedWithUpdate
        THEN "outdated"
        ELSE request[r]]

(* What is stale after a step that grants some states and has the data of  *)
(* ch changed by someone, w being the states that are requested then.      *)
NewlyStale(by, ch) ==
    ({"identified"} \X {by} \X (ch \cap IdentifiedData))
        \cup ({"validated"} \X {by} \X (ch \cap ValidatedData))

StaleAfter(by, ch, granted, w) ==
    {p \in stale \cup NewlyStale(by, ch) : p[1] \in w \ granted}

(* PerformObjectStateRequest, update_object_states: the states in force    *)
(* become the requested ones.                                              *)
Perform(w) ==
    /\ performed' = w
    /\ wasIdentified' = ("mojeid" \in w /\ (wasIdentified \/ "identified" \in w))

-----------------------------------------------------------------------------
CreateContact ==
    /\ sponsor = "none"
    /\ sponsor' = "registrar"
    /\ UNCHANGED <<wanted, performed, request, wasIdentified, stale>>

(* What the system registrar may do against the prohibitions.              *)
EppPermitted(system) ==
    /\ sponsor # "none"
    /\ system \/ (sponsor = "registrar" /\ "prohibited" \notin wanted)

(* The changes for which conditionally_cancel_contact_verification_states  *)
(* cancels both identifications: everything but the mailing address.       *)
CancelsVerification(ch) == ch \cap {"name", "place", "email"} # {}

(* ContactStates::conditionally_cancel_final_states                        *)
CancelsManual(ch) == ch \ {"mailing"} # {}

(* update_contact performs the state requests before it looks at them; the *)
(* post hooks run in the same transaction, and the result of a manual      *)
(* check is cancelled after the last performing of requests.               *)
UpdateContact(system, ch) ==
    LET w == wanted \ (IF CancelsVerification(ch)
                       THEN {"conditional", "identified"} ELSE {})
    IN  /\ EppPermitted(system)
        /\ wanted' = w \ (IF CancelsManual(ch) THEN {"manual"} ELSE {})
        /\ Perform(w)
        /\ request' = RequestsAfter(TRUE, {}, {})
        /\ stale' = StaleAfter(IF system THEN "system" ELSE "registrar", ch, {}, w)
        /\ UNCHANGED sponsor

(* A linked contact is refused; whether it is linked is decided by domains *)
(* and nssets.                                                             *)
DeleteContact(system) ==
    /\ EppPermitted(system)
    /\ ContactIsGone

(* TransferContact to another registrar is a change of the object too.     *)
TransferContact(system) ==
    /\ sponsor # "none"
    /\ system \/ "prohibited" \notin wanted
    /\ sponsor' = "registrar"
    /\ IF system THEN UNCHANGED <<performed, wasIdentified>> ELSE Perform(wanted)
    /\ request' = RequestsAfter(TRUE, {}, {})
    /\ UNCHANGED <<wanted, stale>>

-----------------------------------------------------------------------------
(* ContactVerificationImpl::createConditionalIdentification                *)
CreateConditionalIdentification ==
    /\ sponsor # "none"
    /\ performed \cap {"conditional", "identified", "validated"} = {}
    /\ request' = RequestsAfter(FALSE, {"vCCI"}, {"vCCI"})
    /\ UNCHANGED <<sponsor, wanted, performed, wasIdentified, stale>>

(* ContactVerificationImpl::processConditionalIdentification               *)
ProcessConditionalIdentification ==
    /\ request["vCCI"] = "open"
    /\ performed \cap {"conditional", "identified", "validated"} = {}
    /\ wanted' = wanted \cup {"conditional"}
    /\ Perform(wanted')
    /\ request' = RequestsAfter(FALSE, {"vCCI"}, {"vCI"})
    /\ UNCHANGED <<sponsor, stale>>

(* ContactVerificationImpl::processIdentification: a contact that lost the *)
(* conditional identification loses its request; for an identified one the *)
(* address is to be hidden after the commit.                               *)
ProcessIdentification ==
    /\ request["vCI"] # "closed"
    /\ \/ /\ "conditional" \notin performed
          /\ request' = RequestsAfter(FALSE, {"vCI"}, {})
          /\ UNCHANGED <<wanted, performed, wasIdentified, stale>>
       \/ /\ "conditional" \in performed
          /\ "identified" \notin performed
          /\ wanted' = wanted \cup {"identified"}
          /\ Perform(wanted')
          /\ request' = RequestsAfter(FALSE, {"vCI"}, {"hide"})
          /\ stale' = StaleAfter("none", {}, {"identified"}, wanted')
    /\ UNCHANGED sponsor

(* undisclose_address_async, a transaction of its own: an update of the    *)
(* contact, or nothing where the address is hidden already or the call     *)
(* fails, which only the log tells.                                        *)
UndiscloseAddress(update) ==
    /\ request["hide"] = "open"
    /\ request' = RequestsAfter(update, {"hide"}, {})
    /\ UNCHANGED <<sponsor, wanted, performed, wasIdentified, stale>>

(* resolve_check: a manual check passes or fails the contact.              *)
ResolveCheck ==
    /\ sponsor # "none"
    /\ "manual" \notin wanted
    /\ wanted' = wanted \cup {"manual"}
    /\ Perform(wanted')
    /\ UNCHANGED <<sponsor, request, stale>>

(* The nightly update_object_states of fred-admin.                         *)
UpdateObjectStates ==
    /\ performed # wanted
    /\ Perform(wanted)
    /\ UNCHANGED <<sponsor, wanted, request, stale>>
=============================================================================

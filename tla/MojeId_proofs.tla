---------------------------- MODULE MojeId_proofs ----------------------------
(***************************************************************************)
(* Proofs about MojeId: what the states of a contact vouch for, for any    *)
(* number of transactions, calls and sets of changed data.                 *)
(*                                                                         *)
(* Three facts carry the properties.  States come into force in the        *)
(* transaction that requests them, so the requested ones are always in     *)
(* force (only a cancellation can be late).  One call at a time holds the  *)
(* row of the contact.  And a call that read the states before it locked   *)
(* them knows every state there is now, but for the raced ones.  The PIN3  *)
(* letters have an invariant of their own at the end of the module.        *)
(***************************************************************************)
EXTENDS MojeId, TLAPS

WantedInForce == wanted \subseteq performed

\* Who holds the row of object_registry: ContactLocked, call by call.
HoldsContact(c) == c.at = "prepared" \/ (c.at = "reading" /\ c.op = "updateTransfer")

OneHoldsContact ==
    \A t, u \in Trans : HoldsContact(tx[t]) /\ HoldsContact(tx[u]) => t = u

Verifications == {"identified", "validated"}

\* The states whose data the call changes.
Outdates(ch) ==
    (IF ch \cap IdentifiedData # {} THEN {"identified"} ELSE {})
        \cup (IF ch \cap ValidatedData # {} THEN {"validated"} ELSE {})

\* Requests that give an account without a conditional identification of
\* their own.
Builds == {"CICT", "ICT", "PCT"}

\* What a call knows of the requested states w, those in force p and the raced
\* ones g between its steps.
KnowsWhileReading(c, w, p, g) ==
    c.at = "reading" =>
        /\ c.op \in {"update", "updateTransfer"} =>
             w \cap Verifications \subseteq c.states \cup g
        /\ c.op = "updateTransfer" =>
             /\ "mojeid" \notin p
             /\ "conditional" \in c.states => "conditional" \in w \/ "mojeid" \in g
        /\ c.op = "validated" => c.ch = {"name", "place"}

KnowsWhilePrepared(c, w, g) ==
    c.at = "prepared" =>
        /\ IF c.op = "cancel"
           THEN /\ {"mojeid", "prohibited"} \subseteq c.states
                /\ "validated" \in w => "validated" \in c.states
           ELSE c.states \cap {"mojeid", "prohibited"} = {}
        /\ c.op \in {"update", "updateTransfer"} =>
             w \cap Outdates(c.ch) \subseteq c.states \cup g
        /\ c.op # "updateTransfer" => "conditional" \notin c.states
        /\ c.op = "cancel" => c.ch = {"mailing"}
        /\ c.op = "validated" => c.ch = {"name", "place"}
        /\ c.op \notin {"cancel", "validated", "update", "updateTransfer"} => c.ch = {}
        /\ c.opens \cap Builds # {} =>
             /\ "conditional" \in w \/ "mojeid" \in g
             /\ "conditional" \notin c.states

CallsKnow ==
    \A t \in Trans : /\ KnowsWhileReading(tx[t], wanted, performed, raced)
                     /\ KnowsWhilePrepared(tx[t], wanted, raced)

\* Such a request is open only for a contact that is conditionally identified.
BuildsOnIdentification ==
    (\E r \in Builds : request[r] = "open") => "conditional" \in wanted \/ "mojeid" \in raced

IInv ==
    /\ TypeOK
    /\ WantedInForce
    /\ AccountsAreProtected
    /\ ValidatedContactsAreAccounts
    /\ VerifiedDataAreCurrent
    /\ OneHoldsContact
    /\ CallsKnow
    /\ BuildsOnIdentification

-----------------------------------------------------------------------------
(* Types.                                                                  *)
RequestStatuses == {"closed", "open", "outdated"}

CallType ==
    [at : {"idle", "reading", "prepared", "committed"}, op : Operations,
     ch : SUBSET Aspects, states : SUBSET ObjectStates, opens : SUBSET RequestTypes]

StalePairs == Verifications \X Changers \X Aspects
LetterPairs == {"CI", "RI"} \X Changers

LEMMA ChangersType == Operations \subseteq Changers /\ {"registrar", "system", "none"} \subseteq Changers
  BY DEF Changers, Operations

(* Who made what stale.                                                    *)
LEMMA NewlyStaleMembers ==
    ASSUME NEW by, NEW ch, NEW p \in NewlyStale(by, ch)
    PROVE  \E a \in ch : /\ p = <<p[1], by, a>>
                         /\ \/ p[1] = "identified" /\ a \in IdentifiedData
                            \/ p[1] = "validated" /\ a \in ValidatedData
  BY DEF NewlyStale

LEMMA StaleAfterType ==
    ASSUME stale \subseteq StalePairs, NEW by \in Changers, NEW ch \in SUBSET Aspects,
           NEW granted, NEW w
    PROVE  StaleAfter(by, ch, granted, w) \subseteq StalePairs
<1>1. NewlyStale(by, ch) \subseteq StalePairs
  BY NewlyStaleMembers DEF StalePairs, Verifications
<1>2. QED
  BY <1>1 DEF StaleAfter

LEMMA StaleStaysCurrent ==
    ASSUME VerifiedDataAreCurrent, NEW by, NEW ch, NEW granted, NEW w,
           stale' = StaleAfter(by, ch, granted, w),
           raced \ granted \subseteq raced', wanted' \ granted \subseteq wanted,
           \A p \in NewlyStale(by, ch) \ KeptByRule : p[1] \in wanted' => p[1] \in raced'
    PROVE  VerifiedDataAreCurrent'
<1>1. KeptByRule' = KeptByRule
  BY DEF KeptByRule
<1>2. QED
  BY <1>1 DEF VerifiedDataAreCurrent, StaleAfter

LEMMA MisaddressedAfterType ==
    ASSUME misaddressed \subseteq LetterPairs, NEW by \in Changers, NEW ch, NEW letters
    PROVE  MisaddressedAfter(by, ch, letters) \subseteq LetterPairs
  BY DEF MisaddressedAfter, LetterPairs

LEMMA RequestsAfterType ==
    ASSUME request \in [RequestTypes -> RequestStatuses], NEW u, NEW closed, NEW opened
    PROVE  RequestsAfter(u, closed, opened) \in [RequestTypes -> RequestStatuses]
  BY DEF RequestsAfter, RequestStatuses

LEMMA NoTransType == NoTrans \in CallType
  BY DEF NoTrans, CallType, Operations

(* A step of one call that leaves the contact alone.                       *)
LEMMA CallStepType ==
    ASSUME TypeOK, NEW t \in Trans, NEW c \in CallType,
           tx' = [tx EXCEPT ![t] = c],
           UNCHANGED contactVars,
           storage' \subseteq Trans,
           \A u \in Trans : tx'[u].at = "committed" => u \in storage',
           calls' \in 0..MaxCalls,
           raced' \subseteq {"identified", "validated", "mojeid"},
           UNCHANGED <<misaddressed, disturbed>>
    PROVE  TypeOK'
<1>1. tx' \in [Trans -> CallType]
  BY DEF TypeOK, CallType
<1>2. ContactTypeOK'
  BY DEF TypeOK, ContactTypeOK, contactVars
<1>3. QED
  BY <1>1, <1>2 DEF TypeOK, CallType

LEMMA InitEstablishes == Init => IInv
<1> SUFFICES ASSUME Init PROVE IInv
  OBVIOUS
<1>1. TypeOK
  <2>1. ContactTypeOK
    BY DEF Init, NoContact, ContactTypeOK
  <2>2. tx \in [Trans -> CallType]
    BY NoTransType DEF Init
  <2>3. \A t \in Trans : tx[t].at # "committed"
    BY DEF Init, NoTrans
  <2>4. calls \in 0..MaxCalls
    BY MojeIdAssumption DEF Init
  <2>5. QED
    BY <2>1, <2>2, <2>3, <2>4 DEF Init, TypeOK, CallType
<1>2. \A t \in Trans : tx[t].at = "idle"
  BY DEF Init, NoTrans
<1>3. OneHoldsContact /\ CallsKnow
  BY <1>2 DEF OneHoldsContact, HoldsContact, CallsKnow, KnowsWhileReading, KnowsWhilePrepared
<1>4. BuildsOnIdentification
  BY DEF Init, NoContact, BuildsOnIdentification, Builds, RequestTypes, RegistrationTypes
<1>5. QED
  BY <1>1, <1>3, <1>4 DEF IInv, Init, NoContact, WantedInForce, AccountsAreProtected,
     ValidatedContactsAreAccounts, VerifiedDataAreCurrent
-----------------------------------------------------------------------------
(* Steps of calls that leave the contact alone.                            *)
LEMMA CallStep ==
    ASSUME IInv, TypeOK', NEW t \in Trans,
           \A u \in Trans \ {t} : tx'[u] = tx[u],
           UNCHANGED contactVars,
           raced \subseteq raced',
           HoldsContact(tx'[t]) => HoldsContact(tx[t]) \/ ~ContactLocked,
           KnowsWhileReading(tx'[t], wanted, performed, raced'),
           KnowsWhilePrepared(tx'[t], wanted, raced')
    PROVE  IInv'
<1> USE DEF IInv, contactVars
<1>1. WantedInForce' /\ AccountsAreProtected'
  BY DEF WantedInForce, AccountsAreProtected
<1>2. ValidatedContactsAreAccounts' /\ VerifiedDataAreCurrent' /\ BuildsOnIdentification'
  BY DEF ValidatedContactsAreAccounts, VerifiedDataAreCurrent, BuildsOnIdentification
<1>3. OneHoldsContact'
  BY DEF OneHoldsContact, HoldsContact, ContactLocked
<1>4. CallsKnow'
  <2> SUFFICES ASSUME NEW u \in Trans
               PROVE  /\ KnowsWhileReading(tx'[u], wanted, performed, raced')
                      /\ KnowsWhilePrepared(tx'[u], wanted, raced')
    BY DEF CallsKnow
  <2>1. CASE u = t
    BY <2>1
  <2>2. CASE u # t
    BY <2>2 DEF CallsKnow, KnowsWhileReading, KnowsWhilePrepared
  <2>3. QED
    BY <2>1, <2>2
<1>5. QED
  BY <1>1, <1>2, <1>3, <1>4

LEMMA PrepareStep ==
    ASSUME IInv, NEW t \in Trans, NEW op \in Operations, NEW ch \in SUBSET Aspects,
           NEW cancels \in SUBSET ObjectStates, NEW opens \in SUBSET RequestTypes,
           NEW store \in BOOLEAN,
           Prepare(t, op, ch, cancels, opens, store),
           HoldsContact(tx[t]) \/ ~ContactLocked,
           calls' \in 0..MaxCalls,
           raced \subseteq raced',
           raced' \subseteq {"identified", "validated", "mojeid"},
           KnowsWhilePrepared([at |-> "prepared", op |-> op, ch |-> ch,
                               states |-> cancels, opens |-> opens], wanted, raced')
    PROVE  IInv'
<1> DEFINE call == [at |-> "prepared", op |-> op, ch |-> ch,
                    states |-> cancels, opens |-> opens]
<1>1. PICK c \in {call, NoTrans} : tx' = [tx EXCEPT ![t] = c]
  BY DEF Prepare
<1>2. c \in CallType
  BY NoTransType DEF CallType
<1>3. tx'[t] = c /\ \A u \in Trans \ {t} : tx'[u] = tx[u]
  BY <1>1 DEF IInv, TypeOK
<1>4. UNCHANGED contactVars
  BY DEF Prepare
<1>5. TypeOK'
  <2>1. storage \subseteq storage' /\ storage' \subseteq Trans
    BY DEF Prepare, IInv, TypeOK
  <2>2. \A u \in Trans : tx'[u].at = "committed" => u \in storage'
    BY <1>3, <2>1 DEF IInv, TypeOK, NoTrans
  <2>3. UNCHANGED <<misaddressed, disturbed>>
    BY DEF Prepare
  <2>4. TypeOK
    BY DEF IInv
  <2> HIDE DEF call
  <2>5. QED
    BY <1>1, <1>2, <1>4, <2>1, <2>2, <2>3, <2>4, CallStepType
<1>6. KnowsWhileReading(tx'[t], wanted, performed, raced')
  BY <1>3 DEF KnowsWhileReading, NoTrans
<1>7. KnowsWhilePrepared(tx'[t], wanted, raced')
  <2>1. CASE c = call
    BY <1>3, <2>1
  <2>2. CASE c = NoTrans
    BY <1>3, <2>2 DEF KnowsWhilePrepared, NoTrans
  <2>3. QED
    BY <2>1, <2>2
<1> HIDE DEF call
<1>8. QED
  BY <1>3, <1>4, <1>5, <1>6, <1>7, CallStep

(* A call that ends: its record is NoTrans.                                *)
LEMMA EndStep ==
    ASSUME IInv, NEW t \in Trans,
           tx' = [tx EXCEPT ![t] = NoTrans],
           UNCHANGED <<contactVars, calls, historyVars>>,
           storage' \in {storage, storage \ {t}}
    PROVE  IInv'
<1>1. tx'[t] = NoTrans /\ \A u \in Trans \ {t} : tx'[u] = tx[u]
  BY DEF IInv, TypeOK
<1>2. UNCHANGED contactVars /\ UNCHANGED <<misaddressed, disturbed>> /\ raced' = raced
      /\ calls' = calls
  BY DEF historyVars
<1>3. TypeOK'
  <2>1. storage' \subseteq Trans /\ \A u \in Trans : tx'[u].at = "committed" => u \in storage'
    BY <1>1 DEF IInv, TypeOK, NoTrans
  <2>2. calls' \in 0..MaxCalls /\ raced' \subseteq {"identified", "validated", "mojeid"} /\ TypeOK
    BY <1>2 DEF IInv, TypeOK
  <2>3. QED
    BY <1>2, <2>1, <2>2, CallStepType, NoTransType
<1>4. /\ KnowsWhileReading(tx'[t], wanted, performed, raced')
      /\ KnowsWhilePrepared(tx'[t], wanted, raced')
      /\ ~HoldsContact(tx'[t])
  BY <1>1 DEF KnowsWhileReading, KnowsWhilePrepared, NoTrans, HoldsContact
<1>5. QED
  BY <1>1, <1>2, <1>3, <1>4, CallStep

LEMMA FailKeepsIInv == ASSUME IInv, NEW t \in Trans, Fail(t) PROVE IInv'
  BY EndStep DEF Fail

LEMMA RollbackKeepsIInv == ASSUME IInv, NEW t \in Trans, Rollback(t) PROVE IInv'
  BY EndStep DEF Rollback

(* Bounds of the steps below.                                              *)
LEMMA CalledBound == ASSUME IInv, Called PROVE calls' \in 0..MaxCalls
  BY MojeIdAssumption DEF IInv, TypeOK, Called

LEMMA CreateKeepsIInv == ASSUME IInv, NEW t \in Trans, CreateContactPrepare(t) PROVE IInv'
<1>1. Prepare(t, "create", {}, {}, {"CCI"}, TRUE) /\ ~ContactLocked /\ raced' = raced
      /\ calls' \in 0..MaxCalls
  BY CalledBound DEF CreateContactPrepare, CallStarts
<1>2. KnowsWhilePrepared([at |-> "prepared", op |-> "create", ch |-> {},
                          states |-> {}, opens |-> {"CCI"}], wanted, raced')
  BY DEF KnowsWhilePrepared, Builds
<1>3. "create" \in Operations /\ {"CCI"} \in SUBSET RequestTypes
      /\ raced' \subseteq {"identified", "validated", "mojeid"}
  BY <1>1 DEF Operations, RequestTypes, RegistrationTypes, IInv, TypeOK
<1>4. {} \in SUBSET Aspects /\ {} \in SUBSET ObjectStates
  OBVIOUS
<1>5. QED
  BY <1>1, <1>2, <1>3, <1>4, PrepareStep

LEMMA TransferKeepsIInv == ASSUME IInv, NEW t \in Trans, TransferContactPrepare(t) PROVE IInv'
<1>1. PICK opens : opens = TransferRequest(performed)
  OBVIOUS
<1>2. Prepare(t, "transfer", {}, {}, opens, opens # {}) /\ ~ContactLocked
      /\ TransferReadsStates /\ calls' \in 0..MaxCalls
  BY <1>1, CalledBound DEF TransferContactPrepare, CallStarts
<1>3. raced \subseteq raced' /\ raced' \subseteq {"identified", "validated", "mojeid"}
  BY <1>2 DEF TransferReadsStates, IInv, TypeOK
<1>4. opens \subseteq RequestTypes
  BY <1>1 DEF TransferRequest, RequestTypes, RegistrationTypes
<1>5. opens \cap Builds # {} => "conditional" \in wanted \/ "mojeid" \in raced'
  <2>1. opens \cap Builds # {} => "conditional" \in performed
    BY <1>1 DEF TransferRequest, Builds
  <2>2. QED
    BY <1>2, <2>1 DEF TransferReadsStates
<1>6. KnowsWhilePrepared([at |-> "prepared", op |-> "transfer", ch |-> {},
                          states |-> {}, opens |-> opens], wanted, raced')
  BY <1>5 DEF KnowsWhilePrepared
<1>7. "transfer" \in Operations /\ (opens # {}) \in BOOLEAN
  BY DEF Operations
<1>8. {} \in SUBSET Aspects /\ {} \in SUBSET ObjectStates
  OBVIOUS
<1>9. QED
  BY <1>2, <1>3, <1>4, <1>6, <1>7, <1>8, PrepareStep

LEMMA StartUpdateKeepsIInv ==
    ASSUME IInv, NEW t \in Trans, NEW op \in {"update", "validated"}, NEW ch \in SUBSET Aspects,
           StartUpdate(t, op, ch), op = "validated" => ch = {"name", "place"}
    PROVE  IInv'
<1>1. PICK c : c = [at |-> "reading", op |-> op, ch |-> ch, states |-> performed, opens |-> {}]
  OBVIOUS
<1>2. tx' = [tx EXCEPT ![t] = c] /\ UNCHANGED contactVars /\ storage' = storage
      /\ raced' = raced /\ UNCHANGED <<misaddressed, disturbed>> /\ calls' \in 0..MaxCalls
  BY <1>1, CalledBound DEF StartUpdate, historyVars, CallStarts
<1>3. c \in CallType
  BY <1>1 DEF IInv, TypeOK, ContactTypeOK, CallType, Operations
<1>4. tx'[t] = c /\ \A u \in Trans \ {t} : tx'[u] = tx[u]
  BY <1>2 DEF IInv, TypeOK
<1>5. TypeOK'
  <2>1. storage' \subseteq Trans /\ \A u \in Trans : tx'[u].at = "committed" => u \in storage'
    BY <1>1, <1>2, <1>4 DEF IInv, TypeOK
  <2>2. raced' \subseteq {"identified", "validated", "mojeid"} /\ TypeOK
    BY <1>2 DEF IInv, TypeOK
  <2>3. QED
    BY <1>2, <1>3, <2>1, <2>2, CallStepType
<1>6. KnowsWhileReading(tx'[t], wanted, performed, raced')
  BY <1>1, <1>4 DEF IInv, WantedInForce, KnowsWhileReading
<1>7. KnowsWhilePrepared(tx'[t], wanted, raced') /\ ~HoldsContact(tx'[t])
  BY <1>1, <1>4 DEF KnowsWhilePrepared, HoldsContact
<1>8. QED
  BY <1>2, <1>4, <1>5, <1>6, <1>7, CallStep

LEMMA StartUpdateTransferKeepsIInv ==
    ASSUME IInv, NEW t \in Trans, NEW ch \in SUBSET Aspects, StartUpdateTransfer(t, ch)
    PROVE  IInv'
<1>1. PICK c : c = [at |-> "reading", op |-> "updateTransfer", ch |-> ch,
                    states |-> performed, opens |-> {}]
  OBVIOUS
<1>2. tx' = [tx EXCEPT ![t] = c] /\ UNCHANGED contactVars /\ storage' = storage
      /\ UNCHANGED <<misaddressed, disturbed>> /\ calls' \in 0..MaxCalls
      /\ TransferReadsStates /\ ~ContactLocked /\ "mojeid" \notin performed
  BY <1>1, CalledBound DEF StartUpdateTransfer, CallStarts, TransferPermitted
<1>3. c \in CallType
  BY <1>1 DEF IInv, TypeOK, ContactTypeOK, CallType, Operations
<1>4. tx'[t] = c /\ \A u \in Trans \ {t} : tx'[u] = tx[u]
  BY <1>2 DEF IInv, TypeOK
<1>5. raced \subseteq raced' /\ raced' \subseteq {"identified", "validated", "mojeid"}
  BY <1>2 DEF TransferReadsStates, IInv, TypeOK
<1>6. TypeOK'
  <2>1. storage' \subseteq Trans /\ \A u \in Trans : tx'[u].at = "committed" => u \in storage'
    BY <1>1, <1>2, <1>4 DEF IInv, TypeOK
  <2>2. TypeOK
    BY DEF IInv
  <2>3. QED
    BY <1>2, <1>3, <1>5, <2>1, <2>2, CallStepType
<1>7. KnowsWhileReading(tx'[t], wanted, performed, raced')
  <2>1. "conditional" \in performed => "conditional" \in wanted \/ "mojeid" \in raced'
    BY <1>2 DEF TransferReadsStates
  <2>2. QED
    BY <1>1, <1>2, <1>4, <2>1 DEF IInv, WantedInForce, KnowsWhileReading
<1>8. KnowsWhilePrepared(tx'[t], wanted, raced')
  BY <1>1, <1>4 DEF KnowsWhilePrepared
<1>9. QED
  BY <1>2, <1>4, <1>5, <1>6, <1>7, <1>8, CallStep
(* What update_contact_prepare cancels, by the states it read, covers all  *)
(* the verifications that its changes outdate.                             *)
LEMMA UpdateKeepsIInv == ASSUME IInv, NEW t \in Trans, UpdateContactPrepare(t) PROVE IInv'
<1>1. PICK ch, states : ch = tx[t].ch /\ states = tx[t].states
  OBVIOUS
<1>2. PICK cancels, opens :
          cancels = UpdateCancels(states, ch) /\ opens = LetterRequest(states, ch)
  OBVIOUS
<1>3. Prepare(t, "update", ch, cancels, opens, cancels # {}) /\ ~ContactLocked
      /\ raced' = raced /\ calls' = calls /\ tx[t].at = "reading" /\ tx[t].op = "update"
  BY <1>1, <1>2 DEF UpdateContactPrepare
<1>4. ch \in SUBSET Aspects /\ states \in SUBSET ObjectStates
      /\ calls' \in 0..MaxCalls /\ raced' \subseteq {"identified", "validated", "mojeid"}
  BY <1>1, <1>3 DEF IInv, TypeOK
<1>5. cancels \in SUBSET ObjectStates /\ cancels \cap {"mojeid", "prohibited", "conditional"} = {}
  BY <1>2, <1>4 DEF UpdateCancels
<1>6. opens \in SUBSET RequestTypes /\ opens \cap Builds = {}
  BY <1>2 DEF LetterRequest, RequestTypes, RegistrationTypes, Builds
<1>7. wanted \cap Outdates(ch) \subseteq cancels \cup raced
  <2>1. wanted \cap Verifications \subseteq states \cup raced
    BY <1>1, <1>3 DEF IInv, CallsKnow, KnowsWhileReading
  <2>2. QED
    BY <1>2, <2>1 DEF Verifications, Outdates, UpdateCancels
<1>8. KnowsWhilePrepared([at |-> "prepared", op |-> "update", ch |-> ch,
                          states |-> cancels, opens |-> opens], wanted, raced')
  BY <1>3, <1>5, <1>6, <1>7 DEF KnowsWhilePrepared
<1>9. "update" \in Operations /\ (cancels # {}) \in BOOLEAN
  BY DEF Operations
<1>10. QED
  BY <1>3, <1>4, <1>5, <1>6, <1>8, <1>9, PrepareStep

LEMMA UpdateValidatedKeepsIInv ==
    ASSUME IInv, NEW t \in Trans, UpdateValidatedContactPrepare(t) PROVE IInv'
<1>1. PICK ch, cancels : ch = tx[t].ch /\ cancels = tx[t].states \cap {"manual"}
  OBVIOUS
<1>2. Prepare(t, "validated", ch, cancels, {}, cancels # {}) /\ ~ContactLocked
      /\ raced' = raced /\ calls' = calls
  BY <1>1 DEF UpdateValidatedContactPrepare
<1>3. ch \in SUBSET Aspects /\ cancels \in SUBSET ObjectStates
      /\ calls' \in 0..MaxCalls /\ raced' \subseteq {"identified", "validated", "mojeid"}
  BY <1>1, <1>2 DEF IInv, TypeOK, ObjectStates
<1>4. KnowsWhilePrepared([at |-> "prepared", op |-> "validated", ch |-> ch,
                          states |-> cancels, opens |-> {}], wanted, raced')
  <2>1. ch = {"name", "place"}
    BY <1>1 DEF UpdateValidatedContactPrepare, IInv, CallsKnow, KnowsWhileReading
  <2>2. QED
    BY <1>1, <2>1 DEF KnowsWhilePrepared
<1>5. "validated" \in Operations /\ (cancels # {}) \in BOOLEAN /\ {} \in SUBSET RequestTypes
  BY DEF Operations
<1>6. QED
  BY <1>2, <1>3, <1>4, <1>5, PrepareStep

LEMMA UpdateTransferKeepsIInv ==
    ASSUME IInv, NEW t \in Trans, UpdateTransferContactPrepare(t) PROVE IInv'
<1>1. PICK ch, states : ch = tx[t].ch /\ states = tx[t].states
  OBVIOUS
<1>2. PICK cancels, opens :
          /\ cancels = UpdateTransferCancels(states, ch)
          /\ opens = IF "conditional" \in states /\ "email" \notin ch THEN {"PCT"} ELSE {"PUCT"}
  OBVIOUS
<1>3. Prepare(t, "updateTransfer", ch, cancels, opens, TRUE)
      /\ raced' = raced /\ calls' = calls /\ tx[t].at = "reading" /\ tx[t].op = "updateTransfer"
  BY <1>1, <1>2 DEF UpdateTransferContactPrepare
<1>4. ch \in SUBSET Aspects /\ states \in SUBSET ObjectStates
      /\ calls' \in 0..MaxCalls /\ raced' \subseteq {"identified", "validated", "mojeid"}
  BY <1>1, <1>3 DEF IInv, TypeOK
<1>5. cancels \in SUBSET ObjectStates /\ cancels \cap {"mojeid", "prohibited"} = {}
  BY <1>2, <1>4 DEF UpdateTransferCancels
<1>6. opens \in SUBSET RequestTypes
  BY <1>2 DEF RequestTypes, RegistrationTypes
<1>7. /\ wanted \cap Verifications \subseteq states \cup raced
      /\ "conditional" \in states => "conditional" \in wanted \/ "mojeid" \in raced
  BY <1>1, <1>3 DEF IInv, CallsKnow, KnowsWhileReading
<1>8. wanted \cap Outdates(ch) \subseteq cancels \cup raced
  BY <1>2, <1>7 DEF Verifications, Outdates, UpdateTransferCancels
<1>9. opens \cap Builds # {} =>
          ("conditional" \in wanted \/ "mojeid" \in raced) /\ "conditional" \notin cancels
  BY <1>2, <1>7 DEF Builds, UpdateTransferCancels
<1>10. KnowsWhilePrepared([at |-> "prepared", op |-> "updateTransfer", ch |-> ch,
                           states |-> cancels, opens |-> opens], wanted, raced')
  BY <1>3, <1>5, <1>8, <1>9 DEF KnowsWhilePrepared
<1>11. "updateTransfer" \in Operations /\ HoldsContact(tx[t])
  BY <1>3 DEF Operations, HoldsContact
<1>12. QED
  BY <1>3, <1>4, <1>5, <1>6, <1>10, <1>11, PrepareStep

LEMMA CancelKeepsIInv == ASSUME IInv, NEW t \in Trans, CancelAccountPrepare(t) PROVE IInv'
<1>1. ~ContactLocked /\ raced' = raced /\ calls' \in 0..MaxCalls /\ "mojeid" \in performed
      /\ raced' \subseteq {"identified", "validated", "mojeid"}
  BY CalledBound DEF CancelAccountPrepare, CallStarts, IInv, TypeOK
<1>2. CASE Prepare(t, "delete", {}, {}, {}, FALSE)
  <2>1. KnowsWhilePrepared([at |-> "prepared", op |-> "delete", ch |-> {},
                            states |-> {}, opens |-> {}], wanted, raced')
    BY DEF KnowsWhilePrepared
  <2>2. "delete" \in Operations /\ {} \in SUBSET Aspects /\ {} \in SUBSET ObjectStates
        /\ {} \in SUBSET RequestTypes
    BY DEF Operations
  <2>3. QED
    BY <1>1, <1>2, <2>1, <2>2, PrepareStep
<1>3. PICK cancels : cancels = performed \cap {"mojeid", "prohibited", "validated"}
  OBVIOUS
<1>4. CASE Prepare(t, "cancel", {"mailing"}, cancels, {}, TRUE)
  <2>1. {"mojeid", "prohibited"} \subseteq cancels
    BY <1>1, <1>3 DEF IInv, AccountsAreProtected
  <2>2. "validated" \in wanted => "validated" \in cancels
    BY <1>3 DEF IInv, WantedInForce
  <2>3. KnowsWhilePrepared([at |-> "prepared", op |-> "cancel", ch |-> {"mailing"},
                            states |-> cancels, opens |-> {}], wanted, raced')
    BY <1>3, <2>1, <2>2 DEF KnowsWhilePrepared
  <2>4. "cancel" \in Operations /\ {"mailing"} \in SUBSET Aspects
        /\ cancels \in SUBSET ObjectStates /\ {} \in SUBSET RequestTypes
    BY <1>3 DEF Operations, Aspects, ObjectStates
  <2>5. QED
    BY <1>1, <1>4, <2>3, <2>4, PrepareStep
<1>5. QED
  BY <1>2, <1>3, <1>4 DEF CancelAccountPrepare

-----------------------------------------------------------------------------
(* Steps that change the contact.                                          *)
LEMMA ContactStep ==
    ASSUME IInv, TypeOK',
           WantedInForce', AccountsAreProtected', ValidatedContactsAreAccounts',
           VerifiedDataAreCurrent', BuildsOnIdentification',
           \A t \in Trans :
              \/ tx'[t].at \in {"idle", "committed"}
              \/ /\ tx'[t] = tx[t]
                 /\ KnowsWhileReading(tx[t], wanted', performed', raced')
                 /\ KnowsWhilePrepared(tx[t], wanted', raced')
    PROVE  IInv'
<1>1. OneHoldsContact'
  BY DEF IInv, OneHoldsContact, HoldsContact
<1>2. CallsKnow'
  <2> SUFFICES ASSUME NEW t \in Trans
               PROVE  /\ KnowsWhileReading(tx'[t], wanted', performed', raced')
                      /\ KnowsWhilePrepared(tx'[t], wanted', raced')
    BY DEF CallsKnow
  <2>1. CASE tx'[t].at \in {"idle", "committed"}
    BY <2>1 DEF KnowsWhileReading, KnowsWhilePrepared
  <2>2. QED
    BY <2>1
<1>3. QED
  BY <1>1, <1>2 DEF IInv

(* Nothing is verified in the step, and no call loses the conditional      *)
(* identification it builds on.                                            *)
LEMMA KnowledgeStays ==
    ASSUME CallsKnow, NEW t \in Trans,
           wanted' \cap Verifications \subseteq wanted,
           "mojeid" \in performed' => "mojeid" \in performed,
           raced \subseteq raced',
           HoldsContact(tx[t]) /\ "conditional" \in wanted => "conditional" \in wanted'
    PROVE  /\ KnowsWhileReading(tx[t], wanted', performed', raced')
           /\ KnowsWhilePrepared(tx[t], wanted', raced')
<1>1. KnowsWhileReading(tx[t], wanted, performed, raced) /\ KnowsWhilePrepared(tx[t], wanted, raced)
  BY DEF CallsKnow
<1>2. KnowsWhileReading(tx[t], wanted', performed', raced')
  BY <1>1 DEF KnowsWhileReading, HoldsContact
<1>3. KnowsWhilePrepared(tx[t], wanted', raced')
  <2> SUFFICES ASSUME tx[t].at = "prepared" PROVE KnowsWhilePrepared(tx[t], wanted', raced')
    BY DEF KnowsWhilePrepared
  <2>1. Outdates(tx[t].ch) \subseteq Verifications
    BY DEF Outdates, Verifications
  <2>2. wanted' \cap Outdates(tx[t].ch) \subseteq wanted
    BY <2>1
  <2>3. "validated" \in wanted' => "validated" \in wanted
    BY DEF Verifications
  <2>4. "conditional" \in wanted => "conditional" \in wanted'
    BY DEF HoldsContact
  <2>5. QED
    BY <1>1, <2>2, <2>3, <2>4 DEF KnowsWhilePrepared
<1>4. QED
  BY <1>2, <1>3

(* States are granted under the lock of the requests; the calls that read  *)
(* before make them raced.                                                 *)
LEMMA KnowledgeOfGrants ==
    ASSUME CallsKnow, NEW t \in Trans, NEW granted,
           ~RequestsLocked,
           wanted \subseteq wanted',
           wanted' \cap Verifications \subseteq wanted \cup granted,
           "mojeid" \notin granted,
           raced \ granted \subseteq raced',
           tx[t].at = "reading" /\ tx[t].op \in {"update", "updateTransfer"} =>
              /\ granted \subseteq raced'
              /\ tx[t].op = "updateTransfer" => "mojeid" \notin performed'
    PROVE  /\ KnowsWhileReading(tx[t], wanted', performed', raced')
           /\ KnowsWhilePrepared(tx[t], wanted', raced')
<1>1. KnowsWhileReading(tx[t], wanted, performed, raced) /\ KnowsWhilePrepared(tx[t], wanted, raced)
  BY DEF CallsKnow
<1>2. KnowsWhileReading(tx[t], wanted', performed', raced')
  BY <1>1 DEF KnowsWhileReading
<1>3. KnowsWhilePrepared(tx[t], wanted', raced')
  BY <1>1 DEF KnowsWhilePrepared, RequestsLocked
<1>4. QED
  BY <1>2, <1>3

LEMMA RestartKeepsIInv == ASSUME IInv, Restart PROVE IInv'
<1>1. UNCHANGED contactVars /\ UNCHANGED historyVars /\ calls' = calls /\ storage' = {}
  BY DEF Restart
<1>2. \A t \in Trans : tx'[t] = NoTrans \/ (tx[t].at = "prepared" /\ tx'[t] = tx[t])
  BY DEF Restart
<1>3. TypeOK'
  <2>1. tx' \in [Trans -> CallType]
    BY NoTransType DEF Restart, IInv, TypeOK, CallType
  <2>2. ContactTypeOK'
    BY <1>1 DEF IInv, TypeOK, ContactTypeOK, contactVars
  <2>3. \A t \in Trans : tx'[t].at # "committed"
    BY <1>2 DEF NoTrans
  <2>4. QED
    BY <1>1, <2>1, <2>2, <2>3 DEF IInv, TypeOK, CallType, historyVars
<1>4. /\ WantedInForce' /\ AccountsAreProtected' /\ ValidatedContactsAreAccounts'
      /\ VerifiedDataAreCurrent' /\ BuildsOnIdentification'
  BY <1>1 DEF IInv, WantedInForce, AccountsAreProtected, ValidatedContactsAreAccounts,
     VerifiedDataAreCurrent, BuildsOnIdentification, contactVars, historyVars
<1>5. ASSUME NEW t \in Trans
      PROVE  /\ KnowsWhileReading(tx[t], wanted', performed', raced')
             /\ KnowsWhilePrepared(tx[t], wanted', raced')
  BY <1>1 DEF IInv, CallsKnow, contactVars, historyVars
<1>6. QED
  BY <1>2, <1>3, <1>4, <1>5, ContactStep DEF NoTrans
(* Types and requests after such a step.                                   *)
LEMMA ContactStepType ==
    ASSUME TypeOK, ContactTypeOK', UNCHANGED <<tx, storage>>,
           calls' \in 0..MaxCalls,
           raced' \subseteq {"identified", "validated", "mojeid"},
           misaddressed' \subseteq LetterPairs,
           disturbed' \in BOOLEAN
    PROVE  TypeOK'
  BY DEF TypeOK, LetterPairs

LEMMA OpenRequests ==
    ASSUME NEW u, NEW closed, NEW opened, NEW r \in Builds,
           RequestsAfter(u, closed, opened)[r] = "open"
    PROVE  r \in opened \/ (request[r] = "open" /\ ~u)
<1>1. r \in RequestTypes /\ r \in ComparedWithUpdate
  BY DEF Builds, RequestTypes, RegistrationTypes, ComparedWithUpdate
<1>2. QED
  BY <1>1 DEF RequestsAfter

LEMMA BuildsStay ==
    ASSUME BuildsOnIdentification,
           \A r \in Builds : request'[r] = "open" => request[r] = "open",
           "conditional" \in wanted => "conditional" \in wanted',
           "mojeid" \in raced => "mojeid" \in raced'
    PROVE  BuildsOnIdentification'
  BY DEF BuildsOnIdentification

(* A step that only opens or closes requests.                              *)
LEMMA RequestStep ==
    ASSUME IInv, NEW u, NEW closed, NEW opened,
           UNCHANGED <<sponsor, wanted, performed, wasIdentified, stale, tx, storage, raced, disturbed>>,
           calls' \in 0..MaxCalls,
           misaddressed' \subseteq LetterPairs,
           request' = RequestsAfter(u, closed, opened),
           opened \cap Builds = {}
    PROVE  IInv'
<1>1. TypeOK'
  <2>1. request' \in [RequestTypes -> RequestStatuses]
    BY RequestsAfterType DEF IInv, TypeOK, ContactTypeOK, RequestStatuses
  <2>2. ContactTypeOK'
    BY <2>1 DEF IInv, TypeOK, ContactTypeOK, RequestStatuses
  <2>3. QED
    BY <2>2, ContactStepType DEF IInv, TypeOK
<1>2. \A r \in Builds : request'[r] = "open" => request[r] = "open"
  BY OpenRequests
<1>3. BuildsOnIdentification'
  BY <1>2, BuildsStay DEF IInv
<1>4. /\ WantedInForce' /\ AccountsAreProtected' /\ ValidatedContactsAreAccounts'
      /\ VerifiedDataAreCurrent'
  BY DEF IInv, WantedInForce, AccountsAreProtected, ValidatedContactsAreAccounts,
     VerifiedDataAreCurrent
<1>5. ASSUME NEW t \in Trans
      PROVE  /\ KnowsWhileReading(tx[t], wanted', performed', raced')
             /\ KnowsWhilePrepared(tx[t], wanted', raced')
  BY DEF IInv, CallsKnow
<1>6. QED
  BY <1>1, <1>3, <1>4, <1>5, ContactStep

LEMMA CreateValidationKeepsIInv == ASSUME IInv, CreateValidationRequest PROVE IInv'
<1>1. request' = RequestsAfter(FALSE, {}, {"VAL"}) /\ {"VAL"} \cap Builds = {}
  BY DEF CreateValidationRequest, Builds
<1>2. UNCHANGED <<sponsor, wanted, performed, wasIdentified, stale, tx, storage, raced, disturbed>>
      /\ calls' \in 0..MaxCalls /\ misaddressed' \subseteq LetterPairs
  BY CalledBound DEF CreateValidationRequest, historyVars, IInv, TypeOK, LetterPairs
<1>3. QED
  BY <1>1, <1>2, RequestStep

LEMMA SendNewPin3KeepsIInv == ASSUME IInv, SendNewPin3 PROVE IInv'
<1>1. PICK letter \in {"CI", "RI"} : request' = RequestsAfter(FALSE, {"CI", "RI"}, {letter})
  BY DEF SendNewPin3
<1>2. {letter} \cap Builds = {}
  BY DEF Builds
<1>3. UNCHANGED <<sponsor, wanted, performed, wasIdentified, stale, tx, storage, raced, disturbed>>
      /\ calls' \in 0..MaxCalls /\ misaddressed' \subseteq LetterPairs
  BY CalledBound DEF SendNewPin3
<1>4. QED
  BY <1>1, <1>2, <1>3, RequestStep

(* The states in force become the requested ones and nothing else changes. *)
LEMMA PerformStep ==
    ASSUME IInv, Perform(wanted), TypeOK',
           UNCHANGED <<sponsor, wanted, request, stale, raced>>,
           \A t \in Trans : tx'[t] = tx[t] \/ tx'[t].at = "idle"
    PROVE  IInv'
<1>1. performed' = wanted
  BY DEF Perform
<1>2. /\ WantedInForce' /\ AccountsAreProtected' /\ ValidatedContactsAreAccounts'
      /\ VerifiedDataAreCurrent' /\ BuildsOnIdentification'
  BY <1>1 DEF IInv, WantedInForce, AccountsAreProtected, ValidatedContactsAreAccounts,
     VerifiedDataAreCurrent, BuildsOnIdentification
<1>3. ASSUME NEW t \in Trans
      PROVE  /\ KnowsWhileReading(tx[t], wanted', performed', raced')
             /\ KnowsWhilePrepared(tx[t], wanted', raced')
  BY <1>1, KnowledgeStays DEF IInv, WantedInForce
<1>4. QED
  BY <1>2, <1>3, ContactStep

LEMMA NightlyKeepsIInv == ASSUME IInv, Nightly PROVE IInv'
<1>1. Perform(wanted) /\ UNCHANGED <<sponsor, wanted, request, stale, tx, calls, storage, historyVars>>
  BY DEF Nightly, UpdateObjectStates
<1>2. TypeOK'
  <2>1. ContactTypeOK'
    BY <1>1 DEF IInv, TypeOK, ContactTypeOK, Perform
  <2>2. QED
    BY <1>1, <2>1, ContactStepType DEF IInv, TypeOK, historyVars
<1>3. QED
  BY <1>1, <1>2, PerformStep DEF historyVars

LEMMA PerformCommittedKeepsIInv == ASSUME IInv, NEW t \in Trans, PerformCommitted(t) PROVE IInv'
<1>1. /\ tx' = [tx EXCEPT ![t] = NoTrans]
      /\ UNCHANGED <<sponsor, wanted, request, stale, calls, historyVars>>
  BY DEF PerformCommitted
<1>2. CASE UNCHANGED <<performed, wasIdentified, storage>>
  BY <1>1, <1>2, EndStep DEF contactVars
<1>3. CASE Perform(wanted) /\ storage' = storage \ {t}
  <2>1. tx'[t] = NoTrans /\ \A u \in Trans \ {t} : tx'[u] = tx[u]
    BY <1>1 DEF IInv, TypeOK
  <2>2. TypeOK'
    <3>1. ContactTypeOK'
      BY <1>1, <1>3 DEF IInv, TypeOK, ContactTypeOK, Perform
    <3>2. tx' \in [Trans -> CallType]
      BY <1>1, NoTransType DEF IInv, TypeOK, CallType
    <3>3. storage' \subseteq Trans /\ \A u \in Trans : tx'[u].at = "committed" => u \in storage'
      BY <1>3, <2>1 DEF IInv, TypeOK, NoTrans
    <3>4. QED
      BY <1>1, <3>1, <3>2, <3>3 DEF IInv, TypeOK, CallType, historyVars
  <2>3. \A u \in Trans : tx'[u] = tx[u] \/ tx'[u].at = "idle"
    BY <2>1 DEF NoTrans
  <2>4. QED
    BY <1>1, <1>3, <2>2, <2>3, PerformStep DEF historyVars
<1>4. QED
  BY <1>2, <1>3 DEF PerformCommitted

(* The contact is deleted, and the calls with it.                          *)
LEMMA GoneKeepsIInv ==
    ASSUME IInv, ContactIsGone, CallsLoseContact, misaddressed' = {},
           raced' = raced, calls' \in 0..MaxCalls, disturbed' \in BOOLEAN
    PROVE  IInv'
<1>1. /\ sponsor' = "none" /\ wanted' = {} /\ performed' = {} /\ wasIdentified' = FALSE
      /\ stale' = {} /\ request' = [r \in RequestTypes |-> "closed"]
  BY DEF ContactIsGone
<1>2. \A t \in Trans : tx'[t] = NoTrans
  BY DEF CallsLoseContact
<1>3. TypeOK'
  <2>1. ContactTypeOK'
    BY <1>1 DEF ContactTypeOK
  <2>2. tx' \in [Trans -> CallType]
    BY NoTransType DEF CallsLoseContact
  <2>3. storage' \subseteq Trans
    BY DEF CallsLoseContact, IInv, TypeOK
  <2>4. \A t \in Trans : tx'[t].at # "committed"
    BY <1>2 DEF NoTrans
  <2>5. QED
    BY <2>1, <2>2, <2>3, <2>4 DEF IInv, TypeOK, CallType
<1>4. /\ WantedInForce' /\ AccountsAreProtected' /\ ValidatedContactsAreAccounts'
      /\ VerifiedDataAreCurrent'
  BY <1>1 DEF WantedInForce, AccountsAreProtected, ValidatedContactsAreAccounts,
     VerifiedDataAreCurrent
<1>5. BuildsOnIdentification'
  BY <1>1 DEF BuildsOnIdentification, Builds, RequestTypes, RegistrationTypes
<1>6. QED
  BY <1>2, <1>3, <1>4, <1>5, ContactStep DEF NoTrans

LEMMA OtherDeleteKeepsIInv == ASSUME IInv, OtherDelete PROVE IInv'
<1>1. ContactIsGone /\ CallsLoseContact /\ misaddressed' = {} /\ raced' = raced
      /\ calls' \in 0..MaxCalls /\ disturbed' = disturbed
  BY CalledBound DEF OtherDelete, DeleteContact
<1>2. disturbed' \in BOOLEAN
  BY <1>1 DEF IInv, TypeOK
<1>3. QED
  BY <1>1, <1>2, GoneKeepsIInv
LEMMA CommitKeepsIInv == ASSUME IInv, NEW t \in Trans, Commit(t) PROVE IInv'
<1>1. tx[t].at = "prepared" /\ raced' = raced /\ calls' = calls
      /\ disturbed' = (disturbed \/ tx[t].op = "cancel")
  BY DEF Commit
<1>2. calls' \in 0..MaxCalls /\ disturbed' \in BOOLEAN
  BY <1>1 DEF IInv, TypeOK
<1>3. CASE tx[t].op = "delete"
  <2>1. ContactIsGone /\ CallsLoseContact /\ misaddressed' = {}
    BY <1>3 DEF Commit
  <2>2. QED
    BY <1>1, <1>2, <2>1, GoneKeepsIInv
<1>4. CASE tx[t].op # "delete"
  <2>1. PICK c : c = tx[t]
    OBVIOUS
  <2>2. c \in CallType /\ c.at = "prepared"
    BY <1>1, <2>1 DEF IInv, TypeOK, CallType
  <2>3. PICK u \in BOOLEAN, closed \in SUBSET {"VAL"} :
            /\ u = (c.op \notin {"create", "transfer"})
            /\ request' = RequestsAfter(u, closed, c.opens)
    BY <1>4, <2>1 DEF Commit
  <2>4. c.op \in Changers /\ c.ch \in SUBSET Aspects
    BY <2>2, ChangersType DEF CallType
  <2>5. /\ wanted' = wanted \ c.states
        /\ stale' = StaleAfter(c.op, c.ch, {}, wanted')
        /\ UNCHANGED <<performed, wasIdentified, storage>>
        /\ sponsor' \in {sponsor, "mojeid"}
        /\ misaddressed' = MisaddressedAfter(c.op, c.ch, c.opens)
        /\ tx' = [tx EXCEPT ![t] = IF t \in storage THEN [tx[t] EXCEPT !.at = "committed"]
                                   ELSE NoTrans]
    BY <1>4, <2>1 DEF Commit
  <2>6. KnowsWhilePrepared(c, wanted, raced)
    BY <2>1 DEF IInv, CallsKnow
  <2>7. (t \in storage => tx'[t] = [c EXCEPT !.at = "committed"])
        /\ (t \notin storage => tx'[t] = NoTrans) /\ \A v \in Trans \ {t} : tx'[v] = tx[v]
    BY <2>1, <2>5 DEF IInv, TypeOK
  <2>8. TypeOK'
    <3>1. request' \in [RequestTypes -> RequestStatuses]
      BY <2>3, RequestsAfterType DEF IInv, TypeOK, ContactTypeOK, RequestStatuses
    <3>2. stale' \subseteq StalePairs
      BY <2>4, <2>5, StaleAfterType DEF IInv, TypeOK, ContactTypeOK, StalePairs, Verifications
    <3>3. ContactTypeOK'
      BY <2>5, <3>1, <3>2
         DEF IInv, TypeOK, ContactTypeOK, RequestStatuses, StalePairs, Verifications
    <3>4. [c EXCEPT !.at = "committed"] \in CallType
      BY <2>2 DEF CallType
    <3>5. tx' \in [Trans -> CallType]
      BY <2>1, <2>5, <3>4, NoTransType DEF IInv, TypeOK, CallType
    <3>6. \A v \in Trans : tx'[v].at = "committed" => v \in storage'
      BY <2>5, <2>7 DEF IInv, TypeOK, NoTrans
    <3>7. storage' \subseteq Trans /\ raced' \subseteq {"identified", "validated", "mojeid"}
      BY <1>1, <2>5 DEF IInv, TypeOK
    <3>8. misaddressed' \subseteq LetterPairs
      BY <2>4, <2>5, MisaddressedAfterType DEF IInv, TypeOK, LetterPairs
    <3>9. QED
      BY <1>2, <3>3, <3>5, <3>6, <3>7, <3>8 DEF TypeOK, CallType, LetterPairs
  <2>9. WantedInForce'
    BY <2>5 DEF IInv, WantedInForce
  <2>10. AccountsAreProtected'
    BY <2>2, <2>5, <2>6 DEF IInv, AccountsAreProtected, KnowsWhilePrepared
  <2>11. ValidatedContactsAreAccounts'
    BY <1>1, <2>2, <2>5, <2>6 DEF IInv, ValidatedContactsAreAccounts, KnowsWhilePrepared
  <2>12. VerifiedDataAreCurrent'
    <3>1. ASSUME NEW p \in NewlyStale(c.op, c.ch) \ KeptByRule, p[1] \in wanted'
          PROVE  p[1] \in raced
      <4>1. PICK a \in c.ch : /\ p = <<p[1], c.op, a>>
                              /\ \/ p[1] = "identified" /\ a \in IdentifiedData
                                 \/ p[1] = "validated" /\ a \in ValidatedData
        BY NewlyStaleMembers
      <4>2. p[1] \in Outdates(c.ch) /\ a \in {"name", "mailing", "place"}
        BY <4>1 DEF Outdates, IdentifiedData, ValidatedData
      <4>3. CASE c.op \in {"update", "updateTransfer"}
        BY <2>2, <2>5, <2>6, <3>1, <4>2, <4>3 DEF KnowsWhilePrepared
      <4>4. CASE c.op = "cancel"
        <5>1. a = "mailing" /\ p[1] = "identified"
          BY <2>2, <2>6, <4>1, <4>4 DEF KnowsWhilePrepared, IdentifiedData, ValidatedData
        <5>2. QED
          BY <4>1, <4>4, <5>1 DEF KeptByRule
      <4>5. CASE c.op = "validated"
        <5>1. a \in {"name", "place"}
          BY <2>2, <2>6, <4>1, <4>5 DEF KnowsWhilePrepared
        <5>2. QED
          BY <4>1, <4>5, <5>1 DEF KeptByRule
      <4>6. CASE c.op \in {"none", "create", "transfer"}
        BY <2>2, <2>6, <4>1, <4>6 DEF KnowsWhilePrepared
      <4>7. QED
        BY <1>4, <2>1, <2>2, <4>3, <4>4, <4>5, <4>6 DEF CallType, Operations
    <3>2. VerifiedDataAreCurrent
      BY DEF IInv
    <3>3. QED
      BY <1>1, <2>5, <3>1, <3>2, StaleStaysCurrent
  <2>13. BuildsOnIdentification'
    <3> SUFFICES ASSUME NEW r \in Builds, request'[r] = "open"
                 PROVE  "conditional" \in wanted' \/ "mojeid" \in raced'
      BY DEF BuildsOnIdentification
    <3>1. r \in c.opens \/ (request[r] = "open" /\ ~u)
      BY <2>3, OpenRequests
    <3>2. CASE r \in c.opens
      BY <1>1, <2>2, <2>5, <2>6, <3>2 DEF KnowsWhilePrepared
    <3>3. CASE request[r] = "open" /\ ~u
      BY <1>1, <2>2, <2>3, <2>5, <2>6, <3>3 DEF KnowsWhilePrepared, IInv, BuildsOnIdentification
    <3>4. QED
      BY <3>1, <3>2, <3>3
  <2>14. ASSUME NEW v \in Trans, v # t
         PROVE  /\ KnowsWhileReading(tx[v], wanted', performed', raced')
                /\ KnowsWhilePrepared(tx[v], wanted', raced')
    <3>1. ~HoldsContact(tx[v])
      BY <1>1, <2>14 DEF IInv, OneHoldsContact, HoldsContact
    <3>2. QED
      BY <1>1, <2>5, <3>1, KnowledgeStays DEF IInv
  <2>15. tx'[t].at \in {"idle", "committed"}
    BY <2>2, <2>7 DEF NoTrans, CallType
  <2>16. QED
    BY <2>7, <2>8, <2>9, <2>10, <2>11, <2>12, <2>13, <2>14, <2>15, ContactStep
<1>5. QED
  BY <1>3, <1>4

-----------------------------------------------------------------------------
(* Registrars.                                                             *)
LEMMA UpdateContactKeepsIInv ==
    ASSUME IInv, ~ContactLocked, NEW system \in BOOLEAN, NEW ch \in SUBSET Aspects,
           UpdateContact(system, ch), UNCHANGED <<tx, storage, raced>>,
           misaddressed' \subseteq LetterPairs,
           calls' \in 0..MaxCalls, disturbed' \in BOOLEAN
    PROVE  IInv'
<1>1. PICK w : w = wanted \ (IF CancelsVerification(ch) THEN {"conditional", "identified"} ELSE {})
  OBVIOUS
<1>2. /\ EppPermitted(system) /\ wanted' \in {w, w \ {"manual"}} /\ performed' = w
      /\ wasIdentified' \in BOOLEAN /\ sponsor' = sponsor
      /\ request' = RequestsAfter(TRUE, {}, {})
      /\ stale' = StaleAfter(IF system THEN "system" ELSE "registrar", ch, {}, w)
  BY <1>1 DEF UpdateContact, Perform
<1>3. TypeOK'
  <2>1. request' \in [RequestTypes -> RequestStatuses]
    BY <1>2, RequestsAfterType DEF IInv, TypeOK, ContactTypeOK, RequestStatuses
  <2>2. stale' \subseteq StalePairs
    BY <1>2, ChangersType, StaleAfterType
       DEF IInv, TypeOK, ContactTypeOK, StalePairs, Verifications
  <2>3. ContactTypeOK'
    BY <1>1, <1>2, <2>1, <2>2
       DEF IInv, TypeOK, ContactTypeOK, RequestStatuses, StalePairs, Verifications
  <2>4. QED
    BY <2>3, ContactStepType DEF IInv, TypeOK
<1>4. WantedInForce' /\ AccountsAreProtected' /\ ValidatedContactsAreAccounts'
  BY <1>1, <1>2 DEF IInv, WantedInForce, AccountsAreProtected, ValidatedContactsAreAccounts
<1>5. VerifiedDataAreCurrent'
  <2>1. PICK by \in {"registrar", "system"} :
            /\ (by = "system") <=> system
            /\ stale' = StaleAfter(by, ch, {}, w)
    BY <1>2
  <2>2. ASSUME NEW p \in NewlyStale(by, ch) \ KeptByRule, p[1] \in wanted'
        PROVE  p[1] \in raced
    <3>1. PICK a \in ch : /\ p = <<p[1], by, a>>
                          /\ \/ p[1] = "identified" /\ a \in IdentifiedData
                             \/ p[1] = "validated" /\ a \in ValidatedData
      BY NewlyStaleMembers
    <3>2. CASE p[1] = "identified"
      <4>1. p[1] \in w
        BY <1>2, <2>2
      <4>2. a = "mailing"
        BY <1>1, <3>1, <3>2, <4>1 DEF CancelsVerification, IdentifiedData
      <4>3. QED
        BY <2>2, <3>1, <3>2, <4>2 DEF KeptByRule
    <3>3. CASE p[1] = "validated" /\ system
      BY <2>1, <2>2, <3>1, <3>3 DEF KeptByRule
    <3>4. CASE p[1] = "validated" /\ ~system
      <4>1. "validated" \in wanted
        BY <1>1, <1>2, <2>2, <3>4
      <4>2. QED
        BY <1>2, <3>4, <4>1 DEF EppPermitted, IInv, AccountsAreProtected, ValidatedContactsAreAccounts
    <3>5. QED
      BY <3>1, <3>2, <3>3, <3>4
  <2>3. VerifiedDataAreCurrent /\ wanted' \ {} \subseteq wanted /\ raced \ {} \subseteq raced'
    BY <1>1, <1>2 DEF IInv
  <2>4. QED
    BY <2>1, <2>2, <2>3, StaleStaysCurrent
<1>6. BuildsOnIdentification'
  BY <1>2, OpenRequests DEF BuildsOnIdentification
<1>7. ASSUME NEW t \in Trans
      PROVE  /\ KnowsWhileReading(tx[t], wanted', performed', raced')
             /\ KnowsWhilePrepared(tx[t], wanted', raced')
  <2>1. ~HoldsContact(tx[t])
    BY DEF HoldsContact, ContactLocked
  <2>2. QED
    BY <1>1, <1>2, <2>1, KnowledgeStays DEF IInv, WantedInForce
<1>8. QED
  BY <1>3, <1>4, <1>5, <1>6, <1>7, ContactStep

LEMMA TransferContactKeepsIInv ==
    ASSUME IInv, NEW system \in BOOLEAN,
           TransferContact(system), UNCHANGED <<tx, storage, raced, misaddressed>>,
           calls' \in 0..MaxCalls, disturbed' \in BOOLEAN
    PROVE  IInv'
<1>1. /\ sponsor' = "registrar" /\ UNCHANGED <<wanted, stale>>
      /\ request' = RequestsAfter(TRUE, {}, {})
      /\ performed' \in {performed, wanted} /\ wasIdentified' \in {wasIdentified, TRUE, FALSE}
  BY DEF TransferContact, Perform
<1>2. TypeOK'
  <2>1. request' \in [RequestTypes -> RequestStatuses]
    BY <1>1, RequestsAfterType DEF IInv, TypeOK, ContactTypeOK, RequestStatuses
  <2>2. ContactTypeOK'
    BY <1>1, <2>1 DEF IInv, TypeOK, ContactTypeOK, RequestStatuses
  <2>3. QED
    BY <2>2, ContactStepType DEF IInv, TypeOK
<1>3. /\ WantedInForce' /\ AccountsAreProtected' /\ ValidatedContactsAreAccounts'
      /\ VerifiedDataAreCurrent'
  BY <1>1 DEF IInv, WantedInForce, AccountsAreProtected, ValidatedContactsAreAccounts,
     VerifiedDataAreCurrent
<1>4. BuildsOnIdentification'
  BY <1>1, OpenRequests DEF BuildsOnIdentification
<1>5. ASSUME NEW t \in Trans
      PROVE  /\ KnowsWhileReading(tx[t], wanted', performed', raced')
             /\ KnowsWhilePrepared(tx[t], wanted', raced')
  BY <1>1, KnowledgeStays DEF IInv, WantedInForce
<1>6. QED
  BY <1>2, <1>3, <1>4, <1>5, ContactStep

LEMMA OtherUpdateKeepsIInv == ASSUME IInv, OtherUpdate PROVE IInv'
<1>1. UNCHANGED <<tx, storage, raced>> /\ calls' \in 0..MaxCalls
      /\ disturbed' \in BOOLEAN /\ ~ContactLocked
  BY CalledBound DEF OtherUpdate, IInv, TypeOK
<1>2. CASE CreateContact /\ UNCHANGED misaddressed
  <2>1. UNCHANGED <<wanted, performed, request, wasIdentified, stale>> /\ sponsor' = "registrar"
    BY <1>2 DEF CreateContact
  <2>2. TypeOK'
    <3>1. ContactTypeOK'
      BY <2>1 DEF IInv, TypeOK, ContactTypeOK
    <3>2. QED
      BY <1>1, <1>2, <3>1, ContactStepType DEF IInv, TypeOK, LetterPairs
  <2>3. /\ WantedInForce' /\ AccountsAreProtected' /\ ValidatedContactsAreAccounts'
        /\ VerifiedDataAreCurrent' /\ BuildsOnIdentification'
    BY <1>1, <2>1 DEF IInv, WantedInForce, AccountsAreProtected, ValidatedContactsAreAccounts,
       VerifiedDataAreCurrent, BuildsOnIdentification
  <2>4. ASSUME NEW t \in Trans
        PROVE  /\ KnowsWhileReading(tx[t], wanted', performed', raced')
               /\ KnowsWhilePrepared(tx[t], wanted', raced')
    BY <1>1, <2>1 DEF IInv, CallsKnow
  <2>5. QED
    BY <1>1, <2>2, <2>3, <2>4, ContactStep
<1>3. ASSUME NEW system \in BOOLEAN, NEW ch \in Changes, UpdateContact(system, ch),
             misaddressed' = MisaddressedAfter(
                                 IF system THEN "system" ELSE "registrar", ch, {})
      PROVE  IInv'
  <2>1. misaddressed' \subseteq LetterPairs
    BY <1>3, ChangersType, MisaddressedAfterType DEF IInv, TypeOK, LetterPairs
  <2>2. ch \in SUBSET Aspects
    BY ChangesAssumption
  <2>3. QED
    BY <1>1, <1>3, <2>1, <2>2, UpdateContactKeepsIInv
<1>4. CASE \E system \in BOOLEAN : TransferContact(system) /\ UNCHANGED misaddressed
  BY <1>1, <1>4, TransferContactKeepsIInv
<1>5. QED
  BY <1>2, <1>3, <1>4 DEF OtherUpdate
-----------------------------------------------------------------------------
(* Steps that grant a verification and perform it at once.                 *)
LEMMA GrantStep ==
    ASSUME IInv, ~RequestsLocked, NEW sets \in SUBSET ObjectStates,
           NEW granted \in SUBSET Verifications, NEW ops \in SUBSET Operations,
           granted = sets \cap Verifications,
           wanted' = wanted \cup sets,
           performed' = wanted',
           "mojeid" \in sets => "prohibited" \in sets,
           "validated" \in granted => \/ "mojeid" \in wanted'
                                      \/ "validated" \in raced',
           stale' = StaleAfter("none", {}, sets, wanted'),
           raced' = RacedAfter(granted, ops),
           "update" \in ops,
           \A t \in Trans : tx[t].at = "reading" /\ tx[t].op = "updateTransfer" =>
                                "mojeid" \notin sets /\ "updateTransfer" \in ops,
           \A r \in Builds : request'[r] = "open" => request[r] = "open",
           TypeOK', UNCHANGED tx
    PROVE  IInv'
<1>1. raced \ granted \subseteq raced' /\ "mojeid" \notin granted
      /\ ("mojeid" \in raced => "mojeid" \in raced')
  BY DEF RacedAfter, Verifications
<1>2. WantedInForce' /\ AccountsAreProtected'
  BY DEF IInv, WantedInForce, AccountsAreProtected
<1>3. ValidatedContactsAreAccounts'
  BY <1>1 DEF IInv, ValidatedContactsAreAccounts, Verifications
<1>4. VerifiedDataAreCurrent'
  <2>1. NewlyStale("none", {}) = {}
    BY DEF NewlyStale
  <2>2. VerifiedDataAreCurrent /\ wanted' \ sets \subseteq wanted /\ raced \ sets \subseteq raced'
    BY <1>1 DEF IInv
  <2>3. QED
    BY <2>1, <2>2, StaleStaysCurrent
<1>5. BuildsOnIdentification'
  BY <1>1, BuildsStay DEF IInv
<1>6. ASSUME NEW t \in Trans
      PROVE  /\ KnowsWhileReading(tx[t], wanted', performed', raced')
             /\ KnowsWhilePrepared(tx[t], wanted', raced')
  <2>1. ASSUME tx[t].at = "reading", tx[t].op \in {"update", "updateTransfer"}
        PROVE  granted \subseteq raced' /\ (tx[t].op = "updateTransfer" => "mojeid" \notin performed')
    <3>1. Racing(ops)
      BY <2>1 DEF Racing
    <3>2. tx[t].op = "updateTransfer" => "mojeid" \notin wanted
      BY <2>1 DEF IInv, CallsKnow, KnowsWhileReading, WantedInForce
    <3>3. QED
      BY <2>1, <3>1, <3>2 DEF RacedAfter
  <2>2. wanted' \cap Verifications \subseteq wanted \cup granted /\ wanted \subseteq wanted'
    OBVIOUS
  <2>3. CallsKnow
    BY DEF IInv
  <2>4. QED
    BY <1>1, <2>1, <2>2, <2>3, KnowledgeOfGrants
<1>7. QED
  BY <1>2, <1>3, <1>4, <1>5, <1>6, ContactStep

(* The types after such a step.                                            *)
LEMMA GrantType ==
    ASSUME IInv, NEW sets \in SUBSET ObjectStates, NEW u, NEW closed, NEW opened,
           NEW granted \in SUBSET Verifications, NEW ops,
           wanted' = wanted \cup sets,
           Perform(wanted'),
           stale' = StaleAfter("none", {}, sets, wanted'),
           raced' = RacedAfter(granted, ops),
           request' = RequestsAfter(u, closed, opened),
           sponsor' \in {sponsor, "mojeid"},
           UNCHANGED <<tx, storage, calls, disturbed>>,
           misaddressed' \subseteq misaddressed
    PROVE  TypeOK'
<1>1. request' \in [RequestTypes -> RequestStatuses]
  BY RequestsAfterType DEF IInv, TypeOK, ContactTypeOK, RequestStatuses
<1>2. stale' \subseteq StalePairs
  BY ChangersType, StaleAfterType DEF IInv, TypeOK, ContactTypeOK, StalePairs, Verifications
<1>3. wanted' \subseteq ObjectStates /\ performed' \subseteq ObjectStates
      /\ wasIdentified' \in BOOLEAN
  BY DEF Perform, IInv, TypeOK, ContactTypeOK
<1>4. ContactTypeOK'
  BY <1>1, <1>2, <1>3
     DEF IInv, TypeOK, ContactTypeOK, RequestStatuses, StalePairs, Verifications
<1>5. raced' \subseteq {"identified", "validated", "mojeid"}
  BY DEF RacedAfter, Verifications, IInv, TypeOK
<1>6. QED
  BY <1>4, <1>5, ContactStepType DEF IInv, TypeOK

LEMMA IdentificationKeepsIInv ==
    ASSUME IInv, NEW undisclose \in BOOLEAN, ProcessIdentificationRequest(undisclose)
    PROVE  IInv'
<1>1. PICK letter : letter = LetterInForce
  OBVIOUS
<1>2. /\ ~RequestsLocked /\ "mojeid" \in performed
      /\ wanted' = wanted \cup {"identified"} /\ Perform(wanted')
      /\ request' = RequestsAfter(undisclose, {letter}, {})
      /\ stale' = StaleAfter("none", {}, {"identified"}, wanted')
      /\ raced' = RacedAfter({"identified"}, {"update"})
      /\ misaddressed' \subseteq misaddressed
      /\ UNCHANGED <<sponsor, tx, calls, storage, disturbed>>
  BY <1>1 DEF ProcessIdentificationRequest, MisaddressedAfter
<1>3. {"identified"} \in SUBSET ObjectStates /\ {"identified"} \in SUBSET Verifications
      /\ {"identified"} = {"identified"} \cap Verifications /\ {"update"} \in SUBSET Operations
  BY DEF ObjectStates, Verifications, Operations
<1>4. TypeOK'
  BY <1>2, <1>3, GrantType
<1>5. \A r \in Builds : request'[r] = "open" => request[r] = "open"
  BY <1>2, OpenRequests
<1>6. \A t \in Trans : ~(tx[t].at = "reading" /\ tx[t].op = "updateTransfer")
  BY <1>2 DEF IInv, CallsKnow, KnowsWhileReading
<1>7. performed' = wanted'
  BY <1>2 DEF Perform
<1>8. QED
  BY <1>2, <1>3, <1>4, <1>5, <1>6, <1>7, GrantStep

LEMMA ValidateKeepsIInv ==
    ASSUME IInv, NEW undisclose \in BOOLEAN, ValidateContact(undisclose)
    PROVE  IInv'
<1>1. /\ ~RequestsLocked /\ "mojeid" \in performed
      /\ wanted' = wanted \cup {"validated"} /\ Perform(wanted')
      /\ request' = RequestsAfter(undisclose, {"VAL"}, {})
      /\ stale' = StaleAfter("none", {}, {"validated"}, wanted')
      /\ raced' = RacedAfter({"validated"}, {"update"})
      /\ UNCHANGED <<sponsor, tx, calls, storage, misaddressed, disturbed>>
  BY DEF ValidateContact
<1>2. {"validated"} \in SUBSET ObjectStates /\ {"validated"} \in SUBSET Verifications
      /\ {"validated"} = {"validated"} \cap Verifications /\ {"update"} \in SUBSET Operations
  BY DEF ObjectStates, Verifications, Operations
<1>3. TypeOK'
  BY <1>1, <1>2, GrantType
<1>4. \A r \in Builds : request'[r] = "open" => request[r] = "open"
  BY <1>1, OpenRequests
<1>5. \A t \in Trans : ~(tx[t].at = "reading" /\ tx[t].op = "updateTransfer")
  BY <1>1 DEF IInv, CallsKnow, KnowsWhileReading
<1>6. "mojeid" \in wanted' \/ "validated" \in raced'
  <2>1. CASE performed = wanted
    BY <1>1, <2>1
  <2>2. CASE performed # wanted
    BY <1>1, <2>2 DEF RacedAfter, Racing
  <2>3. QED
    BY <2>1, <2>2
<1>7. performed' = wanted'
  BY <1>1 DEF Perform
<1>8. QED
  BY <1>1, <1>2, <1>3, <1>4, <1>5, <1>6, <1>7, GrantStep

LEMMA RegistrationKeepsIInv ==
    ASSUME IInv, NEW r \in RegistrationTypes, ProcessRegistrationRequest(r)
    PROVE  IInv'
<1>1. CASE request[r] = "outdated"
  <2>1. request' = RequestsAfter(FALSE, {r}, {}) /\ {} \cap Builds = {}
    BY <1>1 DEF ProcessRegistrationRequest
  <2>2. UNCHANGED <<sponsor, wanted, performed, wasIdentified, stale, tx, storage, raced, disturbed>>
        /\ calls' \in 0..MaxCalls /\ misaddressed' \subseteq LetterPairs
    BY <1>1 DEF ProcessRegistrationRequest, historyVars, IInv, TypeOK, LetterPairs
  <2>3. QED
    BY <2>1, <2>2, RequestStep
<1>2. CASE request[r] = "open"
  <2>1. PICK sets, letter, update, closed :
            /\ sets = Grants(r) \cup {"prohibited", "mojeid"}
            /\ letter = IF AutoPin3 /\ "identified" \notin wanted THEN {"CI"} ELSE {}
            /\ closed = CancelOnResolve(r)
            /\ request' = RequestsAfter(update, closed, letter)
    BY <1>2 DEF ProcessRegistrationRequest
  <2>2. /\ ~RequestsLocked /\ ~ContactLocked
        /\ wanted' = wanted \cup sets /\ Perform(wanted')
        /\ request' = RequestsAfter(update, closed, letter)
        /\ stale' = StaleAfter("none", {}, sets, wanted')
        /\ raced' = RacedAfter(sets \cap {"validated"}, {"update"})
        /\ misaddressed' \subseteq misaddressed
        /\ sponsor' = "mojeid"
        /\ UNCHANGED <<tx, calls, storage, disturbed>>
    BY <1>2, <2>1 DEF ProcessRegistrationRequest, MisaddressedAfter
  <2>3. Grants(r) \subseteq {"conditional", "validated"}
    BY DEF Grants
  <2>4. sets \in SUBSET ObjectStates /\ {"prohibited", "mojeid"} \subseteq sets
        /\ sets \cap {"validated"} \in SUBSET Verifications
        /\ sets \cap {"validated"} = sets \cap Verifications /\ {"update"} \in SUBSET Operations
    BY <2>1, <2>3 DEF ObjectStates, Verifications, Operations
  <2>5. TypeOK'
    BY <2>2, <2>4, GrantType
  <2>6. \A q \in Builds : request'[q] = "open" => request[q] = "open"
    <3>1. letter \cap Builds = {}
      BY <2>1 DEF Builds
    <3>2. QED
      BY <2>2, <3>1, OpenRequests
  <2>7. \A t \in Trans : ~(tx[t].at = "reading" /\ tx[t].op = "updateTransfer")
    BY <2>2 DEF ContactLocked
  <2>8. performed' = wanted' /\ "mojeid" \in wanted'
    BY <2>2, <2>4 DEF Perform
  <2>9. QED
    BY <2>2, <2>4, <2>5, <2>6, <2>7, <2>8, GrantStep
<1>3. QED
  BY <1>1, <1>2 DEF ProcessRegistrationRequest

(* A state that nothing here depends on is set and performed.              *)
LEMMA SetStep ==
    ASSUME IInv, NEW s \in {"conditional", "manual"}, TypeOK',
           wanted' = wanted \cup {s}, performed' = wanted',
           \A r \in Builds : request'[r] = "open" => request[r] = "open",
           UNCHANGED <<stale, tx, raced>>
    PROVE  IInv'
<1>1. /\ WantedInForce' /\ AccountsAreProtected' /\ ValidatedContactsAreAccounts'
      /\ VerifiedDataAreCurrent'
  BY DEF IInv, TypeOK, ContactTypeOK, WantedInForce, AccountsAreProtected,
     ValidatedContactsAreAccounts, VerifiedDataAreCurrent
<1>2. BuildsOnIdentification'
  BY BuildsStay DEF IInv
<1>3. ASSUME NEW t \in Trans
      PROVE  /\ KnowsWhileReading(tx[t], wanted', performed', raced')
             /\ KnowsWhilePrepared(tx[t], wanted', raced')
  <2>1. wanted' \cap Verifications \subseteq wanted /\ wanted \subseteq wanted'
        /\ ("mojeid" \in performed' => "mojeid" \in performed)
    BY DEF Verifications, IInv, WantedInForce
  <2>2. QED
    BY <2>1, KnowledgeStays DEF IInv
<1>4. QED
  BY <1>1, <1>2, <1>3, ContactStep

LEMMA ManualCheckKeepsIInv == ASSUME IInv, ManualCheck PROVE IInv'
<1>1. wanted' = wanted \cup {"manual"} /\ Perform(wanted') /\ calls' \in 0..MaxCalls
      /\ UNCHANGED <<sponsor, request, stale, tx, storage, historyVars>>
  BY CalledBound DEF ManualCheck, ResolveCheck
<1>2. TypeOK'
  <2>1. wanted' \subseteq ObjectStates /\ performed' = wanted' /\ wasIdentified' \in BOOLEAN
    BY <1>1 DEF IInv, TypeOK, ContactTypeOK, ObjectStates, Perform
  <2>2. ContactTypeOK'
    BY <1>1, <2>1 DEF IInv, TypeOK, ContactTypeOK
  <2>3. QED
    BY <1>1, <2>2, ContactStepType DEF IInv, TypeOK, historyVars
<1>3. performed' = wanted'
  BY <1>1 DEF Perform
<1>4. QED
  BY <1>1, <1>2, <1>3, SetStep DEF historyVars

LEMMA VerificationKeepsIInv == ASSUME IInv, Verification PROVE IInv'
<1>1. ~RequestsLocked /\ UNCHANGED <<tx, storage, misaddressed, disturbed>>
      /\ misaddressed' \subseteq LetterPairs
  BY DEF Verification, IInv, TypeOK, LetterPairs
<1>2. CASE CreateConditionalIdentification /\ Called /\ UNCHANGED raced
  <2>1. request' = RequestsAfter(FALSE, {"vCCI"}, {"vCCI"}) /\ {"vCCI"} \cap Builds = {}
    BY <1>2 DEF CreateConditionalIdentification, Builds
  <2>2. UNCHANGED <<sponsor, wanted, performed, wasIdentified, stale>> /\ calls' \in 0..MaxCalls
    BY <1>2, CalledBound DEF CreateConditionalIdentification
  <2>3. QED
    BY <1>1, <1>2, <2>1, <2>2, RequestStep
<1>3. CASE ProcessConditionalIdentification /\ UNCHANGED <<calls, raced>>
  <2>1. wanted' = wanted \cup {"conditional"} /\ Perform(wanted')
        /\ request' = RequestsAfter(FALSE, {"vCCI"}, {"vCI"}) /\ UNCHANGED <<sponsor, stale>>
    BY <1>3 DEF ProcessConditionalIdentification
  <2>2. TypeOK'
    <3>1. wanted' \subseteq ObjectStates /\ performed' = wanted' /\ wasIdentified' \in BOOLEAN
      BY <2>1 DEF IInv, TypeOK, ContactTypeOK, ObjectStates, Perform
    <3>2. request' \in [RequestTypes -> RequestStatuses]
      BY <2>1, RequestsAfterType DEF IInv, TypeOK, ContactTypeOK, RequestStatuses
    <3>3. ContactTypeOK'
      BY <2>1, <3>1, <3>2 DEF IInv, TypeOK, ContactTypeOK, RequestStatuses
    <3>4. QED
      BY <1>1, <1>3, <3>3, ContactStepType DEF IInv, TypeOK
  <2>3. \A r \in Builds : request'[r] = "open" => request[r] = "open"
    <3> SUFFICES ASSUME NEW r \in Builds, request'[r] = "open" PROVE request[r] = "open"
      OBVIOUS
    <3>1. r \notin {"vCI"}
      BY DEF Builds
    <3>2. RequestsAfter(FALSE, {"vCCI"}, {"vCI"})[r] = "open"
      BY <2>1
    <3>3. r \in {"vCI"} \/ request[r] = "open"
      BY <3>2, OpenRequests
    <3>4. QED
      BY <3>1, <3>3
  <2>4. performed' = wanted'
    BY <2>1 DEF Perform
  <2>5. QED
    BY <1>1, <1>3, <2>1, <2>2, <2>3, <2>4, SetStep
<1>4. ASSUME ProcessIdentification, calls' = calls,
             raced' = IF wanted' = wanted THEN raced
                      ELSE RacedAfter({"identified"}, {"update", "updateTransfer"})
      PROVE  IInv'
  <2>1. CASE "conditional" \notin performed
    <3>1. request' = RequestsAfter(FALSE, {"vCI"}, {}) /\ {} \cap Builds = {}
      BY <1>4, <2>1 DEF ProcessIdentification
    <3>2. UNCHANGED <<sponsor, wanted, performed, wasIdentified, stale>> /\ raced' = raced
          /\ calls' \in 0..MaxCalls
      BY <1>4, <2>1 DEF ProcessIdentification, IInv, TypeOK
    <3>3. QED
      BY <1>1, <3>1, <3>2, RequestStep
  <2>2. CASE "conditional" \in performed
    <3>1. /\ "identified" \notin performed
          /\ wanted' = wanted \cup {"identified"} /\ Perform(wanted')
          /\ request' = RequestsAfter(FALSE, {"vCI"}, {"hide"})
          /\ stale' = StaleAfter("none", {}, {"identified"}, wanted') /\ sponsor' = sponsor
      BY <1>4, <2>2 DEF ProcessIdentification
    <3>2. raced' = RacedAfter({"identified"}, {"update", "updateTransfer"})
      BY <1>4, <3>1 DEF IInv, WantedInForce
    <3>3. {"identified"} \in SUBSET ObjectStates /\ {"identified"} \in SUBSET Verifications
          /\ {"identified"} = {"identified"} \cap Verifications
          /\ {"update", "updateTransfer"} \in SUBSET Operations
      BY DEF ObjectStates, Verifications, Operations
    <3>4. TypeOK'
      BY <1>1, <1>4, <3>1, <3>2, <3>3, GrantType
    <3>5. \A r \in Builds : request'[r] = "open" => request[r] = "open"
      <4>1. {"hide"} \cap Builds = {}
        BY DEF Builds
      <4>2. ASSUME NEW r \in Builds, request'[r] = "open" PROVE request[r] = "open"
        <5>1. RequestsAfter(FALSE, {"vCI"}, {"hide"})[r] = "open"
          BY <3>1, <4>2
        <5>2. r \notin {"hide"}
          BY <4>1
        <5>3. r \in {"hide"} \/ (request[r] = "open" /\ ~FALSE)
          BY ONLY <5>1, OpenRequests
        <5>4. QED
          BY <5>2, <5>3
      <4>3. QED
        BY <4>2
    <3>6. performed' = wanted'
      BY <3>1 DEF Perform
    <3>7. /\ "mojeid" \notin {"identified"} /\ "validated" \notin {"identified"}
          /\ "update" \in {"update", "updateTransfer"}
          /\ "updateTransfer" \in {"update", "updateTransfer"}
      OBVIOUS
    <3>8. QED
      BY <1>1, <3>1, <3>2, <3>3, <3>4, <3>5, <3>6, <3>7, GrantStep
  <2>3. QED
    BY <2>1, <2>2
<1>5. QED
  BY <1>2, <1>3, <1>4 DEF Verification

LEMMA HideAddressKeepsIInv ==
    ASSUME IInv, NEW update \in BOOLEAN, HideAddress(update)
    PROVE  IInv'
<1>1. request' = RequestsAfter(update, {"hide"}, {}) /\ {} \cap Builds = {}
  BY DEF HideAddress, UndiscloseAddress
<1>2. UNCHANGED <<sponsor, wanted, performed, wasIdentified, stale, tx, storage, raced, disturbed>>
      /\ calls' \in 0..MaxCalls /\ misaddressed' \subseteq LetterPairs
  BY DEF HideAddress, UndiscloseAddress, historyVars, IInv, TypeOK, LetterPairs
<1>3. QED
  BY <1>1, <1>2, RequestStep

-----------------------------------------------------------------------------
LEMMA NextPreserves == IInv /\ [Next]_vars => IInv'
<1> SUFFICES ASSUME IInv, [Next]_vars PROVE IInv'
  OBVIOUS
<1>1. CASE UNCHANGED vars
  BY <1>1 DEF vars, contactVars, historyVars, IInv, TypeOK, ContactTypeOK, WantedInForce,
     AccountsAreProtected, ValidatedContactsAreAccounts, VerifiedDataAreCurrent,
     OneHoldsContact, HoldsContact, CallsKnow, KnowsWhileReading, KnowsWhilePrepared,
     BuildsOnIdentification
<1>2. ASSUME NEW t \in Trans,
             \/ CreateContactPrepare(t)
             \/ TransferContactPrepare(t)
             \/ UpdateContactPrepare(t)
             \/ UpdateValidatedContactPrepare(t)
             \/ UpdateTransferContactPrepare(t)
             \/ CancelAccountPrepare(t)
      PROVE  IInv'
  BY <1>2, CreateKeepsIInv, TransferKeepsIInv, UpdateKeepsIInv, UpdateValidatedKeepsIInv,
     UpdateTransferKeepsIInv, CancelKeepsIInv
<1>3. ASSUME NEW t \in Trans,
             \/ \E ch \in Changes : StartUpdate(t, "update", ch)
             \/ StartUpdate(t, "validated", {"name", "place"})
             \/ \E ch \in Changes : StartUpdateTransfer(t, ch)
      PROVE  IInv'
  <2>1. {"name", "place"} \in SUBSET Aspects /\ Changes \subseteq SUBSET Aspects
    BY ChangesAssumption DEF Aspects
  <2>2. QED
    BY <1>3, <2>1, StartUpdateKeepsIInv, StartUpdateTransferKeepsIInv
<1>4. ASSUME NEW t \in Trans, Fail(t) \/ Commit(t) \/ PerformCommitted(t) \/ Rollback(t)
      PROVE  IInv'
  BY <1>4, FailKeepsIInv, CommitKeepsIInv, PerformCommittedKeepsIInv, RollbackKeepsIInv
<1>5. CASE \/ Restart
           \/ \E r \in RegistrationTypes : ProcessRegistrationRequest(r)
           \/ \E undisclose \in BOOLEAN : ProcessIdentificationRequest(undisclose)
           \/ CreateValidationRequest
           \/ \E undisclose \in BOOLEAN : ValidateContact(undisclose)
           \/ SendNewPin3
  BY <1>5, RestartKeepsIInv, RegistrationKeepsIInv, IdentificationKeepsIInv,
     CreateValidationKeepsIInv, ValidateKeepsIInv, SendNewPin3KeepsIInv
<1>6. CASE \/ OtherUpdate \/ OtherDelete \/ Verification \/ ManualCheck \/ Nightly
           \/ \E update \in BOOLEAN : HideAddress(update)
  BY <1>6, OtherUpdateKeepsIInv, OtherDeleteKeepsIInv, VerificationKeepsIInv,
     ManualCheckKeepsIInv, NightlyKeepsIInv, HideAddressKeepsIInv
<1>7. QED
  BY <1>1, <1>2, <1>3, <1>4, <1>5, <1>6 DEF Next

LEMMA IInvHolds == Spec => []IInv
  BY InitEstablishes, NextPreserves, PTL DEF Spec

(* The mark of a mojeID account and the three prohibitions come and go     *)
(* together (process_registration_request, cancel_account_prepare), also   *)
(* while commits wait to be performed; the map of prepared transactions    *)
(* holds every one of those.                                               *)
THEOREM AccountsStaySound == Spec => []AccountsAreSound
<1>1. IInv => AccountsAreSound
  BY DEF IInv, AccountsAreSound
<1>2. QED
  BY <1>1, IInvHolds, PTL

(* cancel_account_prepare leaves no validated contact without an account,  *)
(* but for a validation between its commit and PerformObjectStateRequest.  *)
THEOREM ValidatedStayAccounts == Spec => []ValidatedContactsAreAccounts
<1>1. IInv => ValidatedContactsAreAccounts
  BY DEF IInv
<1>2. QED
  BY <1>1, IInvHolds, PTL

(* Whatever updates, transfers, cancellations and verifications interleave,*)
(* identifiedContact and validatedContact vouch for present data, but for  *)
(* the changes under which the code keeps them (KeptByRule) and for states *)
(* granted between the read and the lock of an update.                     *)
THEOREM VerifiedStayCurrent == Spec => []VerifiedDataAreCurrent
<1>1. IInv => VerifiedDataAreCurrent
  BY DEF IInv
<1>2. QED
  BY <1>1, IInvHolds, PTL

(* States come into force in the transaction that requests them: only a    *)
(* cancellation can be late, never a grant.                                *)
THEOREM GrantsAreNeverLate == Spec => []WantedInForce
<1>1. IInv => WantedInForce
  BY DEF IInv
<1>2. QED
  BY <1>1, IInvHolds, PTL
(* Only process_registration_request gives a contact an account.           *)
LEMMA OthersGiveNoAccount ==
    ASSUME [Next]_vars, "mojeid" \notin wanted, "mojeid" \in wanted'
    PROVE  \E r \in RegistrationTypes : ProcessRegistrationRequest(r)
<1>1. ~UNCHANGED vars
  BY DEF vars, contactVars
<1>2. ASSUME NEW t \in Trans,
             \/ CreateContactPrepare(t)
             \/ TransferContactPrepare(t)
             \/ UpdateContactPrepare(t)
             \/ UpdateValidatedContactPrepare(t)
             \/ UpdateTransferContactPrepare(t)
             \/ CancelAccountPrepare(t)
      PROVE  FALSE
  BY <1>2 DEF CreateContactPrepare, TransferContactPrepare, UpdateContactPrepare,
     UpdateValidatedContactPrepare, UpdateTransferContactPrepare, CancelAccountPrepare,
     Prepare, contactVars
<1>3. ASSUME NEW t \in Trans,
             \/ \E ch \in Changes : StartUpdate(t, "update", ch)
             \/ StartUpdate(t, "validated", {"name", "place"})
             \/ \E ch \in Changes : StartUpdateTransfer(t, ch)
      PROVE  FALSE
  BY <1>3 DEF StartUpdate, StartUpdateTransfer, contactVars
<1>4. ASSUME NEW t \in Trans, Fail(t) \/ Commit(t) \/ PerformCommitted(t) \/ Rollback(t)
      PROVE  FALSE
  BY <1>4 DEF Fail, Commit, PerformCommitted, Rollback, ContactIsGone, contactVars
<1>5. CASE \/ Restart
           \/ \E undisclose \in BOOLEAN : ProcessIdentificationRequest(undisclose)
           \/ CreateValidationRequest
           \/ \E undisclose \in BOOLEAN : ValidateContact(undisclose)
           \/ SendNewPin3
  BY <1>5 DEF Restart, ProcessIdentificationRequest, CreateValidationRequest,
     ValidateContact, SendNewPin3, contactVars
<1>6. CASE OtherUpdate
  BY <1>6 DEF OtherUpdate, CreateContact, UpdateContact, TransferContact
<1>7. CASE OtherDelete \/ ManualCheck \/ Nightly \/ \E update \in BOOLEAN : HideAddress(update)
  BY <1>7 DEF OtherDelete, DeleteContact, ContactIsGone, ManualCheck, ResolveCheck, Nightly,
     UpdateObjectStates, HideAddress, UndiscloseAddress
<1>8. CASE Verification
  <2>1. wanted' \subseteq wanted \cup {"conditional", "identified"}
    <3>1. ASSUME ProcessIdentification
          PROVE  wanted' \subseteq wanted \cup {"identified"}
      BY <3>1 DEF ProcessIdentification
    <3>2. CASE CreateConditionalIdentification \/ ProcessConditionalIdentification
      BY <3>2 DEF CreateConditionalIdentification, ProcessConditionalIdentification
    <3>3. QED
      BY <1>8, <3>1, <3>2 DEF Verification
  <2>2. QED
    BY <2>1
<1>9. QED
  BY <1>1, <1>2, <1>3, <1>4, <1>5, <1>6, <1>7, <1>8 DEF Next

LEMMA NewAccountsAreIdentified ==
    ASSUME IInv, [Next]_vars, "mojeid" \notin wanted, "mojeid" \in wanted'
    PROVE  "conditional" \in wanted' \/ "mojeid" \in raced
<1>1. PICK r \in RegistrationTypes : ProcessRegistrationRequest(r)
  BY OthersGiveNoAccount
<1>2. request[r] = "open" /\ wanted' = wanted \cup (Grants(r) \cup {"prohibited", "mojeid"})
  BY <1>1 DEF ProcessRegistrationRequest
<1>3. CASE r \in {"CCI", "PUCT"}
  BY <1>2, <1>3 DEF Grants
<1>4. CASE r \in Builds
  BY <1>2, <1>4 DEF IInv, BuildsOnIdentification
<1>5. QED
  BY <1>3, <1>4 DEF RegistrationTypes, Builds

(* process_registration_request gives an account only to a contact that is *)
(* conditionally identified, by the request itself or before it, but for a *)
(* transfer prepared on states whose cancellation was not in force yet.    *)
THEOREM AccountsStayIdentified == Spec => AccountsAreIdentified
<1>1. IInv /\ [Next]_vars =>
        [("mojeid" \notin wanted /\ "mojeid" \in wanted')
            => "conditional" \in wanted' \/ "mojeid" \in raced]_vars
  BY NewAccountsAreIdentified
<1>2. QED
  BY <1>1, IInvHolds, PTL DEF Spec, AccountsAreIdentified
-----------------------------------------------------------------------------
(* Letters.  With auto_pin3_sending, and until an account is cancelled or  *)
(* changed by the system registrar, there is one open letter at a time,    *)
(* and only update_validated_contact_prepare changes the data it went to:  *)
(* CI for an account never identified, RI for one that was.  The kind is chosen when an update is prepared and    *)
(* must still be right when it is committed.                               *)
Excused == ~AutoPin3 \/ disturbed \/ "mojeid" \in raced

AccountsKeepTheirMark ==
    /\ "mojeid" \in performed => "mojeid" \in wanted
    /\ "mojeid" \in wanted => "conditional" \in wanted

IdentificationIsKnown ==
    /\ wasIdentified => "mojeid" \in wanted
    /\ {"mojeid", "identified"} \subseteq performed => wasIdentified

OnlyValidatedUpdates == \A m \in misaddressed : m[2] = "validated"

OneLetterIsOpen ==
    /\ request["CI"] # "closed" =>
         "mojeid" \in wanted /\ ~wasIdentified /\ request["vCI"] = "closed"
    /\ request["RI"] # "closed" => wasIdentified
    /\ wasIdentified /\ "identified" \notin wanted => request["RI"] # "closed"
    /\ OnlyValidatedUpdates

\* What a call knows of the requested states w and of was, whether the account
\* was ever identified.
KnowsLetters(c, w, was) ==
    /\ c.at \in {"reading", "prepared"} =>
         /\ c.op = "update" => "mojeid" \in w
         /\ c.op = "updateTransfer" => "mojeid" \notin w
    /\ c.at = "reading" /\ c.op = "update" /\ "identified" \in c.states => was
    /\ c.at = "prepared" =>
         IF c.op = "update"
         THEN /\ c.opens = IF c.ch \cap IdentifiedData = {} THEN {}
                           ELSE IF was THEN {"RI"} ELSE {"CI"}
              /\ "identified" \in c.states => c.opens = {"RI"}
         ELSE /\ c.opens \cap {"CI", "RI", "vCI"} = {}
              /\ c.op # "updateTransfer" => "identified" \notin c.states

Letters ==
    /\ AccountsKeepTheirMark
    /\ IdentificationIsKnown
    /\ OneLetterIsOpen
    /\ \A t \in Trans : KnowsLetters(tx[t], wanted, wasIdentified)

LInv == Excused \/ Letters

LEMMA InitLetters == Init => LInv
<1> SUFFICES ASSUME Init PROVE Letters
  BY DEF LInv
<1>1. \A t \in Trans : tx[t].at = "idle"
  BY DEF Init, NoTrans
<1>2. \A t \in Trans : KnowsLetters(tx[t], wanted, wasIdentified)
  BY <1>1 DEF KnowsLetters
<1>3. QED
  BY <1>2 DEF Init, NoContact, Letters, AccountsKeepTheirMark, IdentificationIsKnown,
     OneLetterIsOpen, OnlyValidatedUpdates, RequestTypes

(* Letters that a step leaves open keep their addressee.                   *)
LEMMA LettersKeepAddressee ==
    ASSUME OnlyValidatedUpdates, NEW by, NEW ch, NEW letters,
           misaddressed' = MisaddressedAfter(by, ch, letters),
           \/ by = "validated" \/ ch \cap IdentifiedData = {}
           \/ \A r \in {"CI", "RI"} : request[r] # "closed" => r \in letters
    PROVE  OnlyValidatedUpdates'
  BY DEF OnlyValidatedUpdates, MisaddressedAfter

LEMMA NoMisaddressed == ASSUME misaddressed' = {} PROVE OnlyValidatedUpdates'
  BY DEF OnlyValidatedUpdates

LEMMA EndedKnowsLetters ==
    ASSUME NEW c, c.at \in {"idle", "committed"}, NEW w, NEW was
    PROVE  KnowsLetters(c, w, was)
  BY DEF KnowsLetters

(* A step of one call that leaves the contact alone.                       *)
LEMMA LettersCallStep ==
    ASSUME Letters, NEW t \in Trans,
           UNCHANGED contactVars, misaddressed' = misaddressed,
           \A u \in Trans \ {t} : tx'[u] = tx[u],
           KnowsLetters(tx'[t], wanted, wasIdentified)
    PROVE  Letters'
<1>1. ASSUME NEW u \in Trans PROVE KnowsLetters(tx'[u], wanted', wasIdentified')
  <2>1. wanted' = wanted /\ wasIdentified' = wasIdentified
    BY DEF contactVars
  <2>2. CASE u = t
    BY <2>1, <2>2
  <2>3. CASE u # t
    BY <2>1, <2>3 DEF Letters
  <2>4. QED
    BY <2>2, <2>3
<1>2. AccountsKeepTheirMark' /\ IdentificationIsKnown' /\ OneLetterIsOpen'
  BY DEF Letters, AccountsKeepTheirMark, IdentificationIsKnown, OneLetterIsOpen,
     OnlyValidatedUpdates, contactVars
<1>3. QED
  BY <1>1, <1>2 DEF Letters

LEMMA LettersEndStep ==
    ASSUME IInv, Letters, NEW t \in Trans, tx' = [tx EXCEPT ![t] = NoTrans],
           UNCHANGED contactVars, misaddressed' = misaddressed
    PROVE  Letters'
<1>1. tx'[t] = NoTrans /\ \A u \in Trans \ {t} : tx'[u] = tx[u]
  BY DEF IInv, TypeOK
<1>2. KnowsLetters(tx'[t], wanted, wasIdentified)
  BY <1>1, EndedKnowsLetters DEF NoTrans
<1>3. QED
  BY <1>1, <1>2, LettersCallStep

LEMMA LettersPrepareStep ==
    ASSUME IInv, Letters, NEW t \in Trans, NEW op, NEW ch, NEW cancels, NEW opens,
           NEW store, Prepare(t, op, ch, cancels, opens, store),
           KnowsLetters([at |-> "prepared", op |-> op, ch |-> ch, states |-> cancels,
                         opens |-> opens], wanted, wasIdentified)
    PROVE  Letters'
<1>1. PICK call : call = [at |-> "prepared", op |-> op, ch |-> ch, states |-> cancels,
                          opens |-> opens]
  OBVIOUS
<1>2. UNCHANGED contactVars /\ misaddressed' = misaddressed
      /\ (tx' = [tx EXCEPT ![t] = call] \/ tx' = [tx EXCEPT ![t] = NoTrans])
  BY <1>1 DEF Prepare
<1>3. CASE tx' = [tx EXCEPT ![t] = NoTrans]
  BY <1>2, <1>3, LettersEndStep
<1>4. CASE tx' = [tx EXCEPT ![t] = call]
  <2>1. tx'[t] = call /\ \A u \in Trans \ {t} : tx'[u] = tx[u]
    BY <1>4 DEF IInv, TypeOK
  <2>2. KnowsLetters(tx'[t], wanted, wasIdentified)
    BY <1>1, <2>1
  <2>3. QED
    BY <1>2, <2>1, <2>2, LettersCallStep
<1>5. QED
  BY <1>2, <1>3, <1>4

LEMMA PreparesKeepLetters ==
    ASSUME IInv, Letters, ~Excused, NEW t \in Trans,
           \/ CreateContactPrepare(t)
           \/ TransferContactPrepare(t)
           \/ UpdateContactPrepare(t)
           \/ UpdateValidatedContactPrepare(t)
           \/ UpdateTransferContactPrepare(t)
           \/ CancelAccountPrepare(t)
    PROVE  Letters'
<1>1. CASE CreateContactPrepare(t)
  <2>1. Prepare(t, "create", {}, {}, {"CCI"}, TRUE)
    BY <1>1 DEF CreateContactPrepare
  <2>2. KnowsLetters([at |-> "prepared", op |-> "create", ch |-> {}, states |-> {},
                      opens |-> {"CCI"}], wanted, wasIdentified)
    BY DEF KnowsLetters
  <2>3. QED
    BY <2>1, <2>2, LettersPrepareStep
<1>2. CASE TransferContactPrepare(t)
  <2>1. PICK opens : opens = TransferRequest(performed)
    OBVIOUS
  <2>2. Prepare(t, "transfer", {}, {}, opens, opens # {})
    BY <1>2, <2>1 DEF TransferContactPrepare
  <2>3. opens \cap {"CI", "RI", "vCI"} = {}
    BY <2>1 DEF TransferRequest
  <2>4. KnowsLetters([at |-> "prepared", op |-> "transfer", ch |-> {}, states |-> {},
                      opens |-> opens], wanted, wasIdentified)
    BY <2>3 DEF KnowsLetters
  <2>5. QED
    BY <2>2, <2>4, LettersPrepareStep
<1>3. CASE UpdateContactPrepare(t)
  <2>1. PICK ch, states : ch = tx[t].ch /\ states = tx[t].states
    OBVIOUS
  <2>2. PICK cancels, opens :
            cancels = UpdateCancels(states, ch) /\ opens = LetterRequest(states, ch)
    OBVIOUS
  <2>3. Prepare(t, "update", ch, cancels, opens, cancels # {})
        /\ tx[t].at = "reading" /\ tx[t].op = "update"
    BY <1>3, <2>1, <2>2 DEF UpdateContactPrepare
  <2>4. "mojeid" \in wanted /\ ("identified" \in states => wasIdentified)
    BY <2>1, <2>3 DEF Letters, KnowsLetters
  <2>5. opens = IF ch \cap IdentifiedData = {} THEN {}
                ELSE IF wasIdentified THEN {"RI"} ELSE {"CI"}
    BY <2>2, <2>4 DEF LetterRequest, Excused
  <2>6. "identified" \in cancels => opens = {"RI"}
    BY <2>2, <2>4, <2>5 DEF UpdateCancels
  <2>7. KnowsLetters([at |-> "prepared", op |-> "update", ch |-> ch, states |-> cancels,
                      opens |-> opens], wanted, wasIdentified)
    BY <2>4, <2>5, <2>6 DEF KnowsLetters
  <2>8. QED
    BY <2>3, <2>7, LettersPrepareStep
<1>4. CASE UpdateValidatedContactPrepare(t)
  <2>1. PICK ch, cancels : ch = tx[t].ch /\ cancels = tx[t].states \cap {"manual"}
    OBVIOUS
  <2>2. Prepare(t, "validated", ch, cancels, {}, cancels # {})
    BY <1>4, <2>1 DEF UpdateValidatedContactPrepare
  <2>3. KnowsLetters([at |-> "prepared", op |-> "validated", ch |-> ch, states |-> cancels,
                      opens |-> {}], wanted, wasIdentified)
    BY <2>1 DEF KnowsLetters
  <2>4. QED
    BY <2>2, <2>3, LettersPrepareStep
<1>5. CASE UpdateTransferContactPrepare(t)
  <2>1. PICK ch, cancels, opens :
            /\ ch = tx[t].ch
            /\ cancels = UpdateTransferCancels(tx[t].states, ch)
            /\ opens = IF "conditional" \in tx[t].states /\ "email" \notin ch
                       THEN {"PCT"} ELSE {"PUCT"}
    OBVIOUS
  <2>2. Prepare(t, "updateTransfer", ch, cancels, opens, TRUE)
        /\ tx[t].at = "reading" /\ tx[t].op = "updateTransfer"
    BY <1>5, <2>1 DEF UpdateTransferContactPrepare
  <2>3. "mojeid" \notin wanted
    BY <2>2 DEF Letters, KnowsLetters
  <2>4. KnowsLetters([at |-> "prepared", op |-> "updateTransfer", ch |-> ch,
                      states |-> cancels, opens |-> opens], wanted, wasIdentified)
    BY <2>1, <2>3 DEF KnowsLetters
  <2>5. QED
    BY <2>2, <2>4, LettersPrepareStep
<1>6. CASE CancelAccountPrepare(t)
  <2>1. PICK cancels : cancels = performed \cap {"mojeid", "prohibited", "validated"}
    OBVIOUS
  <2>2. \/ Prepare(t, "delete", {}, {}, {}, FALSE)
        \/ Prepare(t, "cancel", {"mailing"}, cancels, {}, TRUE)
    BY <1>6, <2>1 DEF CancelAccountPrepare
  <2>3. KnowsLetters([at |-> "prepared", op |-> "delete", ch |-> {}, states |-> {},
                      opens |-> {}], wanted, wasIdentified)
    BY DEF KnowsLetters
  <2>4. KnowsLetters([at |-> "prepared", op |-> "cancel", ch |-> {"mailing"},
                      states |-> cancels, opens |-> {}], wanted, wasIdentified)
    BY <2>1 DEF KnowsLetters
  <2>5. QED
    BY <2>2, <2>3, <2>4, LettersPrepareStep
<1>7. QED
  BY <1>1, <1>2, <1>3, <1>4, <1>5, <1>6

LEMMA StartsKeepLetters ==
    ASSUME IInv, Letters, NEW t \in Trans, NEW op \in {"update", "validated"}, NEW ch,
           StartUpdate(t, op, ch) \/ StartUpdateTransfer(t, ch)
    PROVE  Letters'
<1>1. UNCHANGED contactVars /\ misaddressed' = misaddressed
  BY DEF StartUpdate, StartUpdateTransfer, historyVars
<1>2. PICK k \in {op, "updateTransfer"} :
          /\ tx' = [tx EXCEPT ![t] = [at |-> "reading", op |-> k, ch |-> ch,
                                      states |-> performed, opens |-> {}]]
          /\ IF k = "updateTransfer" THEN "mojeid" \notin performed ELSE "mojeid" \in performed
  <2>1. CASE StartUpdate(t, op, ch)
    BY <2>1 DEF StartUpdate
  <2>2. CASE StartUpdateTransfer(t, ch)
    BY <2>2 DEF StartUpdateTransfer, TransferPermitted
  <2>3. QED
    BY <2>1, <2>2
<1>3. PICK c : c = [at |-> "reading", op |-> k, ch |-> ch, states |-> performed, opens |-> {}]
  OBVIOUS
<1>4. tx'[t] = c /\ \A u \in Trans \ {t} : tx'[u] = tx[u]
  BY <1>2, <1>3 DEF IInv, TypeOK
<1>5. KnowsLetters(c, wanted, wasIdentified)
  BY <1>2, <1>3 DEF Letters, AccountsKeepTheirMark, IdentificationIsKnown, KnowsLetters, IInv,
     WantedInForce
<1>6. QED
  BY <1>1, <1>4, <1>5, LettersCallStep

-----------------------------------------------------------------------------
(* What becomes of the requests for letters.                               *)
LEMMA LetterRequests ==
    ASSUME NEW u, NEW closed, NEW opened, NEW r \in {"CI", "RI", "vCI"}
    PROVE  /\ r \in opened => RequestsAfter(u, closed, opened)[r] = "open"
           /\ r \notin opened =>
                RequestsAfter(u, closed, opened)[r] \in {request[r], "closed"}
           /\ r \in closed \ opened => RequestsAfter(u, closed, opened)[r] = "closed"
<1>1. r \in RequestTypes /\ r \notin ComparedWithUpdate
  BY DEF RequestTypes, ComparedWithUpdate, RegistrationTypes
<1>2. QED
  BY <1>1 DEF RequestsAfter

LEMMA HidingKeepsLetters ==
    ASSUME NEW r \in {"CI", "RI"}
    PROVE  RequestsAfter(FALSE, {"vCI"}, {"hide"})[r] \in {request[r], "closed"}
<1>1. r \in RequestTypes /\ r \notin {"hide"}
  BY DEF RequestTypes
<1>2. RequestsAfter(FALSE, {"vCI"}, {"hide"})[r] =
        IF r \in {"vCI"} \/ \E n \in {"hide"} : r \in CancelOnCreate(n)
        THEN "closed" ELSE request[r]
  BY <1>1 DEF RequestsAfter
<1>3. QED
  BY <1>2

LEMMA LettersStayOpen ==
    ASSUME NEW u, NEW closed, NEW opened, "RI" \notin closed
    PROVE  request["RI"] # "closed" => RequestsAfter(u, closed, opened)["RI"] # "closed"
<1>1. "RI" \in RequestTypes
  BY DEF RequestTypes
<1>2. \A n : "RI" \in CancelOnCreate(n) => n = "RI"
  BY DEF CancelOnCreate
<1>3. QED
  BY <1>1, <1>2 DEF RequestsAfter

LEMMA NewLetterClosesOther ==
    ASSUME NEW u, NEW closed, NEW opened, "CI" \in opened, "vCI" \notin opened
    PROVE  RequestsAfter(u, closed, opened)["vCI"] = "closed"
<1>1. "vCI" \in RequestTypes /\ "vCI" \in CancelOnCreate("CI")
  BY DEF RequestTypes, CancelOnCreate
<1>2. QED
  BY <1>1 DEF RequestsAfter

(* Steps that leave the account, its identification and its letters.       *)
LEMMA LettersStay ==
    ASSUME Letters,
           "mojeid" \in wanted' <=> "mojeid" \in wanted,
           "identified" \in wanted' <=> "identified" \in wanted,
           "mojeid" \in wanted /\ "conditional" \in wanted => "conditional" \in wanted',
           \/ performed' = performed /\ wasIdentified' = wasIdentified
           \/ performed' \cap {"mojeid", "identified"} = wanted \cap {"mojeid", "identified"}
                /\ wasIdentified' = ("mojeid" \in wanted /\ (wasIdentified \/ "identified" \in wanted)),
           wanted \subseteq performed, wasIdentified \in BOOLEAN,
           request'["CI"] \in {request["CI"], "closed"},
           request'["RI"] = request["RI"],
           "mojeid" \in wanted => request'["vCI"] \in {request["vCI"], "closed"},
           OnlyValidatedUpdates',
           \A t \in Trans : tx'[t] = tx[t] \/ tx'[t].at \in {"idle", "committed"}
    PROVE  Letters'
<1>1. wasIdentified' = wasIdentified
  BY DEF Letters, IdentificationIsKnown
<1>2. AccountsKeepTheirMark'
  BY DEF Letters, AccountsKeepTheirMark
<1>3. IdentificationIsKnown'
  BY <1>1 DEF Letters, IdentificationIsKnown
<1>4. OneLetterIsOpen'
  BY <1>1 DEF Letters, OneLetterIsOpen
<1>5. ASSUME NEW t \in Trans PROVE KnowsLetters(tx'[t], wanted', wasIdentified')
  <2>1. CASE tx'[t].at \in {"idle", "committed"}
    BY <2>1, EndedKnowsLetters
  <2>2. CASE tx'[t] = tx[t]
    <3>1. KnowsLetters(tx[t], wanted, wasIdentified)
      BY DEF Letters
    <3>2. QED
      BY <1>1, <2>2, <3>1 DEF KnowsLetters
  <2>3. QED
    BY <2>1, <2>2
<1>6. QED
  BY <1>2, <1>3, <1>4, <1>5 DEF Letters

(* Steps on a contact without an account.                                  *)
LEMMA LettersWithoutAccount ==
    ASSUME Letters, "mojeid" \notin wanted \/ (\A t \in Trans : tx'[t].at = "idle"),
           "mojeid" \notin wanted', "mojeid" \notin performed', wasIdentified' = FALSE,
           request'["CI"] = "closed", request'["RI"] = "closed", OnlyValidatedUpdates',
           \A t \in Trans : tx'[t] = tx[t] \/ tx'[t].at \in {"idle", "committed"}
    PROVE  Letters'
<1>1. AccountsKeepTheirMark' /\ IdentificationIsKnown' /\ OneLetterIsOpen'
  BY DEF AccountsKeepTheirMark, IdentificationIsKnown, OneLetterIsOpen
<1>2. ASSUME NEW t \in Trans PROVE KnowsLetters(tx'[t], wanted', wasIdentified')
  <2>1. CASE tx'[t].at \in {"idle", "committed"}
    BY <2>1, EndedKnowsLetters
  <2>2. CASE tx'[t] = tx[t] /\ tx'[t].at \notin {"idle", "committed"}
    <3>1. KnowsLetters(tx[t], wanted, wasIdentified) /\ "mojeid" \notin wanted
      BY <2>2 DEF Letters
    <3>2. QED
      BY <2>2, <3>1 DEF KnowsLetters
  <2>3. QED
    BY <2>1, <2>2
<1>3. QED
  BY <1>1, <1>2 DEF Letters

(* An account is identified, and no letter for a new one is open any more. *)
LEMMA LettersOfIdentified ==
    ASSUME Letters, ~RequestsLocked, "mojeid" \in wanted,
           wanted' = wanted \cup {"identified"}, performed' = wanted', wasIdentified' = TRUE,
           request'["CI"] = "closed", OnlyValidatedUpdates', tx' = tx
    PROVE  Letters'
<1>1. AccountsKeepTheirMark' /\ IdentificationIsKnown' /\ OneLetterIsOpen'
  BY DEF Letters, AccountsKeepTheirMark, IdentificationIsKnown, OneLetterIsOpen
<1>2. ASSUME NEW t \in Trans PROVE KnowsLetters(tx'[t], wanted', wasIdentified')
  BY DEF Letters, KnowsLetters, RequestsLocked
<1>3. QED
  BY <1>1, <1>2 DEF Letters

-----------------------------------------------------------------------------
(* The steps that change the contact.                                      *)
LEMMA CommitKeepsLetters ==
    ASSUME IInv, Letters, ~Excused', NEW t \in Trans, Commit(t) PROVE Letters'
<1>1. PICK c : c = tx[t]
  OBVIOUS
<1>2. c.at = "prepared" /\ c.op # "cancel"
  BY <1>1 DEF Commit, Excused
<1>3. CASE c.op = "delete"
  <2>1. ContactIsGone /\ CallsLoseContact /\ misaddressed' = {}
    BY <1>1, <1>3 DEF Commit
  <2>2. request'["CI"] = "closed" /\ request'["RI"] = "closed"
    BY <2>1 DEF ContactIsGone, RequestTypes
  <2>3. \A u \in Trans : tx'[u].at = "idle"
    BY <2>1 DEF CallsLoseContact, NoTrans
  <2>4. QED
    BY <2>1, <2>2, <2>3, NoMisaddressed, LettersWithoutAccount DEF ContactIsGone
<1>4. CASE c.op # "delete"
  <2>1. PICK update : update = (c.op \notin {"create", "transfer"})
    OBVIOUS
  <2>2. /\ wanted' = wanted \ c.states
        /\ request' = RequestsAfter(update, {}, c.opens)
        /\ misaddressed' = MisaddressedAfter(c.op, c.ch, c.opens)
        /\ performed' = performed /\ wasIdentified' = wasIdentified
    BY <1>1, <1>2, <1>4, <2>1 DEF Commit
  <2>3. \A u \in Trans : tx'[u] = tx[u] \/ tx'[u].at \in {"idle", "committed"}
    <3>1. \/ tx' = [tx EXCEPT ![t] = [tx[t] EXCEPT !.at = "committed"]]
          \/ tx' = [tx EXCEPT ![t] = NoTrans]
      BY <1>1, <1>4 DEF Commit
    <3>2. tx[t] \in CallType /\ tx = [u \in Trans |-> tx[u]]
      BY DEF IInv, TypeOK, CallType
    <3>3. [tx[t] EXCEPT !.at = "committed"].at = "committed" /\ NoTrans.at = "idle"
      BY <3>2 DEF CallType, NoTrans
    <3>4. QED
      BY <3>1, <3>2, <3>3
  <2>4. KnowsLetters(c, wanted, wasIdentified) /\ KnowsWhilePrepared(c, wanted, raced)
    BY <1>1 DEF Letters, IInv, CallsKnow
  <2>5. "mojeid" \in wanted' <=> "mojeid" \in wanted
    BY <1>2, <2>2, <2>4 DEF KnowsWhilePrepared
  <2>6. "mojeid" \in wanted /\ "conditional" \in wanted => "conditional" \in wanted'
    BY <1>2, <2>2, <2>4 DEF KnowsWhilePrepared, KnowsLetters
  <2>7. wanted \subseteq performed /\ wasIdentified \in BOOLEAN
    BY DEF IInv, WantedInForce, TypeOK, ContactTypeOK
  <2>8. OnlyValidatedUpdates
    BY DEF Letters, OneLetterIsOpen
  <2>9. CASE c.op = "update" /\ c.ch \cap IdentifiedData # {}
    <3>1. /\ "mojeid" \in wanted
          /\ wasIdentified => c.opens = {"RI"}
          /\ ~wasIdentified => c.opens = {"CI"} /\ "identified" \notin c.states
      <4>1. /\ c.opens = IF c.ch \cap IdentifiedData = {} THEN {}
                         ELSE IF wasIdentified THEN {"RI"} ELSE {"CI"}
            /\ "identified" \in c.states => c.opens = {"RI"}
            /\ "mojeid" \in wanted
        BY <1>2, <2>4, <2>9 DEF KnowsLetters
      <4>2. {"RI"} # {"CI"}
        OBVIOUS
      <4>3. QED
        BY <2>9, <4>1, <4>2
    <3>2. AccountsKeepTheirMark' /\ IdentificationIsKnown'
      BY <2>2, <2>5, <2>6, <3>1 DEF Letters, AccountsKeepTheirMark, IdentificationIsKnown
    <3>3. ASSUME wasIdentified PROVE OneLetterIsOpen'
      <4>1. request["CI"] = "closed" /\ c.opens = {"RI"}
        BY <3>1, <3>3 DEF Letters, OneLetterIsOpen
      <4>2. request'["RI"] = "open" /\ request'["CI"] = "closed"
        BY <2>2, <4>1, LetterRequests
      <4>3. OnlyValidatedUpdates'
        BY <2>2, <2>8, <4>1, LettersKeepAddressee
      <4>4. QED
        BY <2>2, <3>3, <4>2, <4>3 DEF OneLetterIsOpen
    <3>4. ASSUME ~wasIdentified PROVE OneLetterIsOpen'
      <4>1. request["RI"] = "closed" /\ c.opens = {"CI"}
        BY <3>1, <3>4 DEF Letters, OneLetterIsOpen
      <4>2. request'["RI"] = "closed"
        BY <2>2, <4>1, LetterRequests
      <4>3. OnlyValidatedUpdates'
        BY <2>2, <2>8, <4>1, LettersKeepAddressee
      <4>4. request'["vCI"] = "closed"
        BY <2>2, <4>1, NewLetterClosesOther
      <4>5. QED
        BY <2>2, <2>5, <3>1, <3>4, <4>2, <4>3, <4>4 DEF OneLetterIsOpen
    <3>5. OneLetterIsOpen'
      BY <3>3, <3>4
    <3>6. ASSUME NEW u \in Trans PROVE KnowsLetters(tx'[u], wanted', wasIdentified')
      <4>1. CASE tx'[u].at \in {"idle", "committed"}
        BY <4>1, EndedKnowsLetters
      <4>2. CASE tx'[u] = tx[u]
        <5>1. KnowsLetters(tx[u], wanted, wasIdentified)
          BY DEF Letters
        <5>2. QED
          BY <2>2, <2>5, <4>2, <5>1 DEF KnowsLetters
      <4>3. QED
        BY <2>3, <4>1, <4>2
    <3>7. QED
      BY <3>2, <3>5, <3>6 DEF Letters
  <2>10. CASE ~(c.op = "update" /\ c.ch \cap IdentifiedData # {})
    <3>1. c.opens \cap {"CI", "RI", "vCI"} = {}
          /\ (c.op # "updateTransfer" => "identified" \notin c.states)
          /\ (c.op = "updateTransfer" => "mojeid" \notin wanted)
      BY <1>2, <2>4, <2>10 DEF KnowsLetters
    <3>2. /\ request'["CI"] \in {request["CI"], "closed"}
          /\ request'["RI"] \in {request["RI"], "closed"}
          /\ request'["vCI"] \in {request["vCI"], "closed"}
      BY <2>2, <3>1, LetterRequests
    <3>3. request["RI"] # "closed" => request'["RI"] # "closed"
      BY <2>2, LettersStayOpen
    <3>4. OnlyValidatedUpdates'
      <4>1. CASE c.op = "updateTransfer"
        <5>1. request["CI"] = "closed" /\ request["RI"] = "closed"
          BY <3>1, <4>1 DEF Letters, OneLetterIsOpen, IdentificationIsKnown
        <5>2. QED
          BY <2>2, <2>8, <5>1, LettersKeepAddressee
      <4>2. CASE c.op # "updateTransfer"
        <5>1. c.op = "validated" \/ c.ch \cap IdentifiedData = {}
          BY <1>2, <2>4, <2>10, <4>2 DEF KnowsWhilePrepared
        <5>2. QED
          BY <2>2, <2>8, <5>1, LettersKeepAddressee
      <4>3. QED
        BY <4>1, <4>2
    <3>5. CASE c.op # "updateTransfer"
      <4>1. "identified" \in wanted' <=> "identified" \in wanted
        BY <2>2, <3>1, <3>5
      <4>2. request'["RI"] = request["RI"]
        BY <3>2, <3>3
      <4>3. QED
        BY <2>2, <2>3, <2>5, <2>6, <2>7, <3>2, <3>4, <4>1, <4>2, LettersStay
    <3>6. CASE c.op = "updateTransfer"
      <4>1. "mojeid" \notin wanted /\ "mojeid" \notin wanted' /\ "mojeid" \notin performed'
            /\ wasIdentified' = FALSE
        BY <2>2, <2>5, <2>7, <3>1, <3>6 DEF Letters, AccountsKeepTheirMark,
           IdentificationIsKnown
      <4>2. request["CI"] = "closed" /\ request["RI"] = "closed"
        BY <2>2, <4>1 DEF Letters, OneLetterIsOpen
      <4>3. request'["CI"] = "closed" /\ request'["RI"] = "closed"
        BY <3>2, <4>2
      <4>4. QED
        BY <2>3, <3>4, <4>1, <4>3, LettersWithoutAccount
    <3>7. QED
      BY <3>5, <3>6
  <2>11. QED
    BY <2>9, <2>10
<1>5. QED
  BY <1>3, <1>4

LEMMA PerformKeepsLetters ==
    ASSUME IInv, Letters,
           \/ \E t \in Trans : PerformCommitted(t)
           \/ Nightly
           \/ Restart
    PROVE  Letters'
<1>1. UNCHANGED <<wanted, request, misaddressed>>
  BY DEF PerformCommitted, Nightly, UpdateObjectStates, Restart, contactVars, historyVars
<1>2. \/ performed' = performed /\ wasIdentified' = wasIdentified
      \/ Perform(wanted)
  BY DEF PerformCommitted, Nightly, UpdateObjectStates, Restart, contactVars
<1>3. \A t \in Trans : tx'[t] = tx[t] \/ tx'[t].at \in {"idle", "committed"}
  <2>1. NoTrans.at = "idle" /\ tx = [t \in Trans |-> tx[t]]
    BY DEF NoTrans, IInv, TypeOK
  <2>2. CASE \E t \in Trans : PerformCommitted(t)
    BY <2>1, <2>2 DEF PerformCommitted
  <2>3. CASE Nightly \/ Restart
    BY <2>1, <2>3 DEF Nightly, Restart
  <2>4. QED
    BY <2>2, <2>3
<1>4. wanted \subseteq performed /\ wasIdentified \in BOOLEAN /\ OnlyValidatedUpdates'
  BY <1>1 DEF IInv, WantedInForce, TypeOK, ContactTypeOK, Letters, OneLetterIsOpen,
     OnlyValidatedUpdates
<1>5. QED
  BY <1>1, <1>2, <1>3, <1>4, LettersStay DEF Perform

(* Requests of other kinds are created or closed.                          *)
LEMMA OtherRequestsKeepLetters ==
    ASSUME IInv, Letters, NEW u, NEW closed, NEW opened,
           UNCHANGED <<wanted, performed, wasIdentified, tx, misaddressed>>,
           request' = RequestsAfter(u, closed, opened),
           opened \cap {"CI", "RI", "vCI"} = {}, "RI" \notin closed
    PROVE  Letters'
<1>1. /\ request'["CI"] \in {request["CI"], "closed"}
      /\ request'["RI"] \in {request["RI"], "closed"}
      /\ request'["vCI"] \in {request["vCI"], "closed"}
  BY LetterRequests
<1>2. request["RI"] # "closed" => request'["RI"] # "closed"
  BY LettersStayOpen
<1>3. wanted \subseteq performed /\ wasIdentified \in BOOLEAN /\ OnlyValidatedUpdates'
  BY DEF IInv, WantedInForce, TypeOK, ContactTypeOK, Letters, OneLetterIsOpen,
     OnlyValidatedUpdates
<1>4. request'["RI"] = request["RI"]
  BY <1>1, <1>2
<1>5. QED
  BY <1>1, <1>3, <1>4, LettersStay

LEMMA IdentificationKeepsLetters ==
    ASSUME IInv, Letters, NEW undisclose \in BOOLEAN, ProcessIdentificationRequest(undisclose)
    PROVE  Letters'
<1>1. PICK letter \in {"CI", "RI"} : letter = LetterInForce
  BY DEF LetterInForce
<1>2. /\ ~RequestsLocked /\ "mojeid" \in performed /\ Perform(wanted')
      /\ wanted' = wanted \cup {"identified"}
      /\ request' = RequestsAfter(undisclose, {letter}, {})
      /\ misaddressed' = MisaddressedAfter("none", {}, {letter}) /\ tx' = tx
  BY <1>1 DEF ProcessIdentificationRequest
<1>3. "mojeid" \in wanted /\ OnlyValidatedUpdates'
  BY <1>2, LettersKeepAddressee DEF Letters, AccountsKeepTheirMark, OneLetterIsOpen
<1>4. performed' = wanted' /\ wasIdentified' = TRUE
  BY <1>2, <1>3 DEF Perform
<1>5. request'["CI"] = "closed"
  <2>1. CASE letter = "CI"
    BY <1>2, <2>1, LetterRequests
  <2>2. CASE letter = "RI"
    <3>1. request["CI"] = "closed"
      BY <1>1, <2>2 DEF LetterInForce
    <3>2. QED
      BY <1>2, <3>1, LetterRequests
  <2>3. QED
    BY <2>1, <2>2
<1>6. QED
  BY <1>2, <1>3, <1>4, <1>5, LettersOfIdentified

LEMMA SendNewPin3KeepsLetters == ASSUME IInv, Letters, SendNewPin3 PROVE Letters'
<1>1. PICK letter : letter = IF request["RI"] # "closed" THEN "RI" ELSE "CI"
  OBVIOUS
<1>2. /\ request' = RequestsAfter(FALSE, {"CI", "RI"}, {letter}) /\ misaddressed' = {}
      /\ "mojeid" \in performed /\ "identified" \notin performed
      /\ UNCHANGED <<wanted, performed, wasIdentified, tx>>
  BY <1>1 DEF SendNewPin3
<1>3. "mojeid" \in wanted /\ "identified" \notin wanted
  BY <1>2 DEF Letters, AccountsKeepTheirMark, IInv, WantedInForce
<1>4. AccountsKeepTheirMark' /\ IdentificationIsKnown'
      /\ \A t \in Trans : KnowsLetters(tx'[t], wanted', wasIdentified')
  BY <1>2 DEF Letters, AccountsKeepTheirMark, IdentificationIsKnown
<1>5. OneLetterIsOpen'
  <2>1. CASE letter = "RI"
    <3>1. wasIdentified
      BY <1>1, <2>1 DEF Letters, OneLetterIsOpen
    <3>2. request'["RI"] = "open" /\ request'["CI"] = "closed"
      <4>1. PICK closed, opened : closed = {"CI", "RI"} /\ opened = {letter}
        OBVIOUS
      <4>2. request' = RequestsAfter(FALSE, closed, opened)
        BY <1>2, <4>1
      <4>3. "RI" \in opened /\ "CI" \in closed \ opened
        BY <2>1, <4>1
      <4>4. QED
        BY <4>2, <4>3, LetterRequests
    <3>3. QED
      BY <1>2, <3>1, <3>2, NoMisaddressed DEF OneLetterIsOpen
  <2>2. CASE letter = "CI"
    <3>1. ~wasIdentified
      BY <1>1, <1>3, <2>2 DEF Letters, OneLetterIsOpen
    <3>2. request'["RI"] = "closed"
      <4>1. request' = RequestsAfter(FALSE, {"CI", "RI"}, {"CI"})
        BY <1>2, <2>2
      <4>2. "RI" \in {"CI", "RI"} \ {"CI"}
        OBVIOUS
      <4>3. QED
        BY <4>1, <4>2, LetterRequests
    <3>3. request'["vCI"] = "closed"
      BY <1>2, <2>2, NewLetterClosesOther
    <3>4. QED
      BY <1>2, <1>3, <3>1, <3>2, <3>3, NoMisaddressed DEF OneLetterIsOpen
  <2>3. QED
    BY <1>1, <2>1, <2>2
<1>6. QED
  BY <1>4, <1>5 DEF Letters

LEMMA RegistrationKeepsLetters ==
    ASSUME IInv, Letters, ~Excused, NEW r \in RegistrationTypes,
           ProcessRegistrationRequest(r)
    PROVE  Letters'
<1>1. CASE request[r] = "outdated"
  <2>1. /\ request' = RequestsAfter(FALSE, {r}, {})
        /\ UNCHANGED <<wanted, performed, wasIdentified, tx, misaddressed>>
    BY <1>1 DEF ProcessRegistrationRequest, historyVars
  <2>2. "RI" \notin {r} /\ {} \cap {"CI", "RI", "vCI"} = {}
    BY DEF RegistrationTypes
  <2>3. QED
    BY <2>1, <2>2, OtherRequestsKeepLetters
<1>2. CASE request[r] = "open"
  <2>1. PICK sets, letter, update, closed :
            /\ sets = Grants(r) \cup {"prohibited", "mojeid"}
            /\ letter = IF AutoPin3 /\ "identified" \notin wanted THEN {"CI"} ELSE {}
            /\ closed = CancelOnResolve(r)
            /\ request' = RequestsAfter(update, closed, letter)
    BY <1>2 DEF ProcessRegistrationRequest
  <2>2. /\ ~RequestsLocked /\ ~ContactLocked /\ sets \cap wanted = {}
        /\ wanted' = wanted \cup sets /\ Perform(wanted')
        /\ request' = RequestsAfter(update, closed, letter)
        /\ misaddressed' = MisaddressedAfter("none", {}, letter) /\ tx' = tx
    BY <1>2, <2>1 DEF ProcessRegistrationRequest
  <2>3. "mojeid" \in sets /\ "identified" \notin sets
    BY <2>1 DEF Grants
  <2>4. "mojeid" \notin wanted /\ "mojeid" \in wanted'
        /\ ("identified" \in wanted' <=> "identified" \in wanted)
    BY <2>2, <2>3
  <2>5. "conditional" \in wanted'
    <3>1. [Next]_vars
      BY DEF Next
    <3>2. QED
      BY <2>4, <3>1, NewAccountsAreIdentified DEF Excused
  <2>6. ~wasIdentified /\ request["CI"] = "closed" /\ request["RI"] = "closed"
        /\ OnlyValidatedUpdates
    BY <2>4 DEF Letters, IdentificationIsKnown, OneLetterIsOpen
  <2>7. performed' = wanted' /\ (wasIdentified' <=> "identified" \in wanted)
    BY <2>2, <2>4, <2>6 DEF Perform
  <2>8. AccountsKeepTheirMark' /\ IdentificationIsKnown'
    BY <2>4, <2>5, <2>7 DEF AccountsKeepTheirMark, IdentificationIsKnown
  <2>9. OnlyValidatedUpdates'
    BY <2>2, <2>6, LettersKeepAddressee
  <2>10. "RI" \notin letter /\ "vCI" \notin letter
         /\ ("identified" \in wanted => letter = {})
         /\ ("identified" \notin wanted => letter = {"CI"})
    BY <2>1 DEF Excused
  <2>11. request'["RI"] = "closed"
    BY <2>2, <2>6, <2>10, LetterRequests
  <2>12. ASSUME "identified" \in wanted PROVE OneLetterIsOpen'
    <3>1. request'["CI"] = "closed"
      BY <2>2, <2>6, <2>10, <2>12, LetterRequests
    <3>2. QED
      BY <2>4, <2>7, <2>9, <2>11, <2>12, <3>1 DEF OneLetterIsOpen
  <2>13. ASSUME "identified" \notin wanted PROVE OneLetterIsOpen'
    <3>1. request'["vCI"] = "closed"
      BY <2>2, <2>10, <2>13, NewLetterClosesOther
    <3>2. QED
      BY <2>4, <2>7, <2>9, <2>11, <2>13, <3>1 DEF OneLetterIsOpen
  <2>14. ASSUME NEW t \in Trans PROVE KnowsLetters(tx'[t], wanted', wasIdentified')
    <3>1. KnowsLetters(tx[t], wanted, wasIdentified)
      BY DEF Letters
    <3>2. QED
      BY <2>2, <2>4, <3>1 DEF KnowsLetters, ContactLocked
  <2>15. QED
    BY <2>8, <2>12, <2>13, <2>14 DEF Letters
<1>3. QED
  BY <1>1, <1>2 DEF ProcessRegistrationRequest

(* A state that has to do with neither account nor identification is set.  *)
LEMMA SetKeepsLetters ==
    ASSUME IInv, Letters, NEW s \in {"conditional", "validated", "manual"},
           NEW u, NEW closed, NEW opened,
           wanted' = wanted \cup {s}, Perform(wanted'),
           request' = request \/ request' = RequestsAfter(u, closed, opened),
           opened \cap {"CI", "RI"} = {}, "RI" \notin closed,
           "mojeid" \in wanted => "vCI" \notin opened,
           UNCHANGED <<tx, misaddressed>>
    PROVE  Letters'
<1>1. /\ request'["CI"] \in {request["CI"], "closed"}
      /\ request'["RI"] \in {request["RI"], "closed"}
      /\ "mojeid" \in wanted => request'["vCI"] \in {request["vCI"], "closed"}
  BY LetterRequests
<1>2. request["RI"] # "closed" => request'["RI"] # "closed"
  BY LettersStayOpen
<1>3. wanted \subseteq performed /\ wasIdentified \in BOOLEAN /\ OnlyValidatedUpdates'
  BY DEF IInv, WantedInForce, TypeOK, ContactTypeOK, Letters, OneLetterIsOpen,
     OnlyValidatedUpdates
<1>4. request'["RI"] = request["RI"]
  BY <1>1, <1>2
<1>5. /\ "mojeid" \in wanted' <=> "mojeid" \in wanted
      /\ "identified" \in wanted' <=> "identified" \in wanted
      /\ "conditional" \in wanted => "conditional" \in wanted'
  OBVIOUS
<1>6. /\ performed' \cap {"mojeid", "identified"} = wanted \cap {"mojeid", "identified"}
      /\ wasIdentified' = ("mojeid" \in wanted /\ (wasIdentified \/ "identified" \in wanted))
  BY <1>5 DEF Perform
<1>7. QED
  BY <1>1, <1>3, <1>4, <1>5, <1>6, LettersStay

LEMMA OtherStatesKeepLetters ==
    ASSUME IInv, Letters,
           \/ CreateValidationRequest
           \/ \E undisclose \in BOOLEAN : ValidateContact(undisclose)
           \/ ManualCheck
           \/ \E update \in BOOLEAN : HideAddress(update)
    PROVE  Letters'
<1>1. CASE CreateValidationRequest
  <2>1. /\ request' = RequestsAfter(FALSE, {}, {"VAL"})
        /\ UNCHANGED <<wanted, performed, wasIdentified, tx, misaddressed>>
    BY <1>1 DEF CreateValidationRequest, historyVars
  <2>2. {"VAL"} \cap {"CI", "RI", "vCI"} = {} /\ "RI" \notin {}
    OBVIOUS
  <2>3. QED
    BY <2>1, <2>2, OtherRequestsKeepLetters
<1>2. ASSUME NEW undisclose \in BOOLEAN, ValidateContact(undisclose) PROVE Letters'
  <2>1. /\ wanted' = wanted \cup {"validated"} /\ Perform(wanted')
        /\ request' = RequestsAfter(undisclose, {"VAL"}, {})
        /\ UNCHANGED <<tx, misaddressed>>
    BY <1>2 DEF ValidateContact
  <2>2. {} \cap {"CI", "RI"} = {} /\ "RI" \notin {"VAL"} /\ "vCI" \notin {}
    OBVIOUS
  <2>3. QED
    BY <2>1, <2>2, SetKeepsLetters
<1>3. CASE ManualCheck
  <2>1. /\ wanted' = wanted \cup {"manual"} /\ Perform(wanted') /\ request' = request
        /\ UNCHANGED <<tx, misaddressed>>
    BY <1>3 DEF ManualCheck, ResolveCheck, historyVars
  <2>2. {} \cap {"CI", "RI"} = {} /\ "RI" \notin {} /\ "vCI" \notin {}
    OBVIOUS
  <2>3. QED
    BY <2>1, <2>2, SetKeepsLetters
<1>4. ASSUME NEW update \in BOOLEAN, HideAddress(update) PROVE Letters'
  <2>1. /\ request' = RequestsAfter(update, {"hide"}, {})
        /\ UNCHANGED <<wanted, performed, wasIdentified, tx, misaddressed>>
    BY <1>4 DEF HideAddress, UndiscloseAddress, historyVars
  <2>2. {} \cap {"CI", "RI", "vCI"} = {} /\ "RI" \notin {"hide"}
    OBVIOUS
  <2>3. QED
    BY <2>1, <2>2, OtherRequestsKeepLetters
<1>5. QED
  BY <1>1, <1>2, <1>3, <1>4

(* An account is conditionally identified, so the verification service has *)
(* no identification to offer it but one that it offered before.           *)
LEMMA VerificationKeepsLetters == ASSUME IInv, Letters, Verification PROVE Letters'
<1>1. ~RequestsLocked /\ UNCHANGED <<tx, misaddressed>>
  BY DEF Verification
<1>2. CASE CreateConditionalIdentification
  <2>1. /\ request' = RequestsAfter(FALSE, {"vCCI"}, {"vCCI"})
        /\ UNCHANGED <<wanted, performed, wasIdentified>>
    BY <1>2 DEF CreateConditionalIdentification
  <2>2. {"vCCI"} \cap {"CI", "RI", "vCI"} = {} /\ "RI" \notin {"vCCI"}
    OBVIOUS
  <2>3. QED
    BY <1>1, <2>1, <2>2, OtherRequestsKeepLetters
<1>3. CASE ProcessConditionalIdentification
  <2>1. /\ wanted' = wanted \cup {"conditional"} /\ Perform(wanted')
        /\ request' = RequestsAfter(FALSE, {"vCCI"}, {"vCI"})
        /\ "conditional" \notin performed
    BY <1>3 DEF ProcessConditionalIdentification
  <2>2. "mojeid" \notin wanted
    BY <2>1 DEF IInv, WantedInForce, Letters, AccountsKeepTheirMark
  <2>3. {"vCI"} \cap {"CI", "RI"} = {} /\ "RI" \notin {"vCCI"}
    OBVIOUS
  <2>4. QED
    BY <1>1, <2>1, <2>2, <2>3, SetKeepsLetters
<1>4. ASSUME ProcessIdentification PROVE Letters'
  <2>1. CASE "conditional" \notin performed
    <3>1. /\ request' = RequestsAfter(FALSE, {"vCI"}, {})
          /\ UNCHANGED <<wanted, performed, wasIdentified>>
      BY <1>4, <2>1 DEF ProcessIdentification
    <3>2. {} \cap {"CI", "RI", "vCI"} = {} /\ "RI" \notin {"vCI"}
      OBVIOUS
    <3>3. QED
      BY <1>1, <3>1, <3>2, OtherRequestsKeepLetters
  <2>2. CASE "conditional" \in performed
    <3>1. /\ wanted' = wanted \cup {"identified"} /\ Perform(wanted')
          /\ request' = RequestsAfter(FALSE, {"vCI"}, {"hide"}) /\ request["vCI"] # "closed"
      BY <1>4, <2>2 DEF ProcessIdentification
    <3>2. OnlyValidatedUpdates' /\ request["CI"] = "closed"
      <4>1. OneLetterIsOpen
        BY DEF Letters
      <4>2. request["CI"] = "closed"
        BY <3>1, <4>1 DEF OneLetterIsOpen
      <4>3. OnlyValidatedUpdates
        BY <4>1 DEF OneLetterIsOpen
      <4>4. misaddressed' = misaddressed
        BY <1>1
      <4>5. OnlyValidatedUpdates'
        BY <4>3, <4>4 DEF OnlyValidatedUpdates
      <4>6. QED
        BY <4>2, <4>5
    <3>3. /\ request'["CI"] \in {request["CI"], "closed"}
          /\ request'["RI"] \in {request["RI"], "closed"}
      <4>1. \A l \in {"CI", "RI"} :
              RequestsAfter(FALSE, {"vCI"}, {"hide"})[l] \in {request[l], "closed"}
        BY HidingKeepsLetters
      <4>2. QED
        BY <3>1, <4>1
    <3>4. CASE "mojeid" \in wanted
      <4>1. performed' = wanted' /\ wasIdentified' = TRUE
        BY <3>1, <3>4 DEF Perform
      <4>2. QED
        BY <1>1, <3>1, <3>2, <3>3, <3>4, <4>1, LettersOfIdentified
    <3>5. CASE "mojeid" \notin wanted
      <4>1. "mojeid" \notin wanted' /\ "mojeid" \notin performed' /\ wasIdentified' = FALSE
        BY <3>1, <3>5 DEF Perform
      <4>2. request["RI"] = "closed"
        BY <3>5 DEF Letters, OneLetterIsOpen, IdentificationIsKnown
      <4>3. QED
        BY <1>1, <3>2, <3>3, <3>5, <4>1, <4>2, LettersWithoutAccount
    <3>6. QED
      BY <3>4, <3>5
  <2>3. QED
    BY <2>1, <2>2
<1>5. QED
  BY <1>2, <1>3, <1>4 DEF Verification

(* Registrars reach a contact without an account only, unless the system   *)
(* registrar disturbs it.                                                  *)
LEMMA OthersKeepLetters ==
    ASSUME IInv, Letters, ~Excused', OtherUpdate \/ OtherDelete PROVE Letters'
<1>1. CASE OtherDelete
  <2>1. ContactIsGone /\ CallsLoseContact /\ misaddressed' = {}
    BY <1>1 DEF OtherDelete, DeleteContact
  <2>2. request'["CI"] = "closed" /\ request'["RI"] = "closed"
    BY <2>1 DEF ContactIsGone, RequestTypes
  <2>3. \A u \in Trans : tx'[u].at = "idle"
    BY <2>1 DEF CallsLoseContact, NoTrans
  <2>4. QED
    BY <2>1, <2>2, <2>3, NoMisaddressed, LettersWithoutAccount DEF ContactIsGone
<1>2. CASE OtherUpdate
  <2>1. "prohibited" \notin wanted /\ tx' = tx /\ OnlyValidatedUpdates
    BY <1>2 DEF OtherUpdate, Excused, Letters, OneLetterIsOpen
  <2>2. "mojeid" \notin wanted
    BY <2>1 DEF IInv, AccountsAreProtected
  <2>3. "mojeid" \notin performed /\ ~wasIdentified /\ request["CI"] = "closed"
        /\ request["RI"] = "closed"
    BY <2>2 DEF Letters, AccountsKeepTheirMark, IdentificationIsKnown, OneLetterIsOpen
  <2>4. wanted' \subseteq wanted
    BY <1>2 DEF OtherUpdate, CreateContact, UpdateContact, TransferContact
  <2>5. \/ performed' = performed /\ wasIdentified' = wasIdentified
        \/ \E w \in SUBSET wanted : Perform(w)
    <3>1. CASE CreateContact \/ \E system \in BOOLEAN : TransferContact(system)
      BY <3>1 DEF CreateContact, TransferContact
    <3>2. ASSUME NEW system \in BOOLEAN, NEW ch \in Changes, UpdateContact(system, ch)
          PROVE  \E w \in SUBSET wanted : Perform(w)
      BY <3>2 DEF UpdateContact
    <3>3. QED
      BY <1>2, <3>1, <3>2 DEF OtherUpdate
  <2>6. "mojeid" \notin performed' /\ wasIdentified' = FALSE
    <3>1. CASE performed' = performed /\ wasIdentified' = wasIdentified
      BY <2>3, <3>1 DEF IInv, TypeOK, ContactTypeOK
    <3>2. ASSUME NEW w \in SUBSET wanted, Perform(w)
          PROVE  "mojeid" \notin performed' /\ wasIdentified' = FALSE
      BY <2>2, <3>2 DEF Perform
    <3>3. QED
      BY <2>5, <3>1, <3>2
  <2>7. request' = request \/ request' = RequestsAfter(TRUE, {}, {})
    BY <1>2 DEF OtherUpdate, CreateContact, UpdateContact, TransferContact
  <2>8. request'["CI"] = "closed" /\ request'["RI"] = "closed"
    <3>1. /\ RequestsAfter(TRUE, {}, {})["CI"] \in {request["CI"], "closed"}
          /\ RequestsAfter(TRUE, {}, {})["RI"] \in {request["RI"], "closed"}
      BY LetterRequests
    <3>2. QED
      BY <2>3, <2>7, <3>1
  <2>9. OnlyValidatedUpdates'
    <3>1. CASE UNCHANGED misaddressed
      BY <2>1, <3>1 DEF OnlyValidatedUpdates
    <3>2. CASE \E by, ch : misaddressed' = MisaddressedAfter(by, ch, {})
      BY <2>1, <2>3, <3>2, LettersKeepAddressee
    <3>3. QED
      BY <1>2, <3>1, <3>2 DEF OtherUpdate
  <2>10. QED
    BY <2>1, <2>2, <2>4, <2>6, <2>8, <2>9, LettersWithoutAccount
<1>3. QED
  BY <1>1, <1>2

(* Once excused, always excused: histories only grow.                      *)
LEMMA ExcusesStay == ASSUME [Next]_vars, Excused PROVE Excused'
<1> SUFFICES ("mojeid" \in raced => "mojeid" \in raced') /\ (disturbed => disturbed')
  BY DEF Excused
<1>1. CASE UNCHANGED vars
  BY <1>1 DEF vars, historyVars
<1>2. ASSUME NEW t \in Trans,
             \/ CreateContactPrepare(t)
             \/ TransferContactPrepare(t)
             \/ UpdateContactPrepare(t)
             \/ UpdateValidatedContactPrepare(t)
             \/ UpdateTransferContactPrepare(t)
             \/ CancelAccountPrepare(t)
      PROVE  ("mojeid" \in raced => "mojeid" \in raced') /\ (disturbed => disturbed')
  BY <1>2 DEF CreateContactPrepare, TransferContactPrepare, UpdateContactPrepare,
     UpdateValidatedContactPrepare, UpdateTransferContactPrepare, CancelAccountPrepare,
     Prepare, TransferReadsStates
<1>3. ASSUME NEW t \in Trans,
             \/ \E ch \in Changes : StartUpdate(t, "update", ch)
             \/ StartUpdate(t, "validated", {"name", "place"})
             \/ \E ch \in Changes : StartUpdateTransfer(t, ch)
      PROVE  ("mojeid" \in raced => "mojeid" \in raced') /\ (disturbed => disturbed')
  BY <1>3 DEF StartUpdate, StartUpdateTransfer, TransferReadsStates, historyVars
<1>4. ASSUME NEW t \in Trans, Fail(t) \/ Commit(t) \/ PerformCommitted(t) \/ Rollback(t)
      PROVE  ("mojeid" \in raced => "mojeid" \in raced') /\ (disturbed => disturbed')
  <2>1. CASE Fail(t) \/ PerformCommitted(t) \/ Rollback(t)
    BY <2>1 DEF Fail, PerformCommitted, Rollback, historyVars
  <2>2. CASE Commit(t)
    <3>1. raced' = raced /\ disturbed' = (disturbed \/ tx[t].op = "cancel")
      BY <2>2 DEF Commit
    <3>2. QED
      BY <3>1
  <2>3. QED
    BY <1>4, <2>1, <2>2
<1>5. ASSUME NEW granted, NEW op, "mojeid" \notin granted, raced' = RacedAfter(granted, op)
      PROVE  "mojeid" \in raced => "mojeid" \in raced'
  BY <1>5 DEF RacedAfter
<1>6. ASSUME NEW r \in RegistrationTypes, ProcessRegistrationRequest(r)
      PROVE  ("mojeid" \in raced => "mojeid" \in raced') /\ (disturbed => disturbed')
  <2>1. CASE UNCHANGED historyVars
    BY <2>1 DEF historyVars
  <2>2. PICK granted : granted = (Grants(r) \cup {"prohibited", "mojeid"}) \cap {"validated"}
    OBVIOUS
  <2>3. "mojeid" \notin granted
    BY <2>2
  <2>4. CASE raced' = RacedAfter(granted, {"update"}) /\ UNCHANGED disturbed
    BY <1>5, <2>3, <2>4
  <2>5. QED
    BY <1>6, <2>1, <2>2, <2>4 DEF ProcessRegistrationRequest
<1>7. ASSUME NEW undisclose \in BOOLEAN,
             ProcessIdentificationRequest(undisclose) \/ ValidateContact(undisclose)
      PROVE  ("mojeid" \in raced => "mojeid" \in raced') /\ (disturbed => disturbed')
  BY <1>5, <1>7 DEF ProcessIdentificationRequest, ValidateContact
<1>8. CASE \/ Restart \/ CreateValidationRequest \/ SendNewPin3
           \/ OtherDelete \/ ManualCheck \/ Nightly
           \/ \E update \in BOOLEAN : HideAddress(update)
  <2>1. UNCHANGED <<raced, disturbed>>
    BY <1>8 DEF Restart, CreateValidationRequest, SendNewPin3, OtherDelete, ManualCheck,
       Nightly, HideAddress, historyVars
  <2>2. QED
    BY <2>1
<1>9. CASE OtherUpdate
  <2>1. raced' = raced /\ disturbed' = (disturbed \/ "prohibited" \in wanted)
    BY <1>9 DEF OtherUpdate
  <2>2. QED
    BY <2>1
<1>10. CASE Verification
  <2>1. disturbed' = disturbed
    BY <1>10 DEF Verification
  <2>2. \/ raced' = raced
        \/ raced' = RacedAfter({"identified"}, {"update", "updateTransfer"})
    BY <1>10 DEF Verification
  <2>3. QED
    BY <1>5, <2>1, <2>2
<1>11. QED
  BY <1>1, <1>2, <1>3, <1>4, <1>6, <1>7, <1>8, <1>9, <1>10 DEF Next

LEMMA NextKeepsLetters == IInv /\ LInv /\ [Next]_vars => LInv'
<1> SUFFICES ASSUME IInv, LInv, [Next]_vars, ~Excused' PROVE Letters'
  BY DEF LInv
<1>1. ~Excused /\ Letters
  BY ExcusesStay DEF LInv
<1>2. CASE UNCHANGED vars
  BY <1>1, <1>2 DEF vars, contactVars, historyVars, Letters, AccountsKeepTheirMark,
     IdentificationIsKnown, OneLetterIsOpen, OnlyValidatedUpdates, KnowsLetters
<1>3. ASSUME NEW t \in Trans,
             \/ CreateContactPrepare(t)
             \/ TransferContactPrepare(t)
             \/ UpdateContactPrepare(t)
             \/ UpdateValidatedContactPrepare(t)
             \/ UpdateTransferContactPrepare(t)
             \/ CancelAccountPrepare(t)
      PROVE  Letters'
  BY <1>1, <1>3, PreparesKeepLetters
<1>4. ASSUME NEW t \in Trans,
             \/ \E ch \in Changes : StartUpdate(t, "update", ch)
             \/ StartUpdate(t, "validated", {"name", "place"})
             \/ \E ch \in Changes : StartUpdateTransfer(t, ch)
      PROVE  Letters'
  BY <1>1, <1>4, StartsKeepLetters
<1>5. ASSUME NEW t \in Trans, Fail(t) \/ Rollback(t) PROVE Letters'
  BY <1>1, <1>5, LettersEndStep DEF Fail, Rollback, historyVars
<1>6. ASSUME NEW t \in Trans, Commit(t) \/ PerformCommitted(t) PROVE Letters'
  BY <1>1, <1>6, CommitKeepsLetters, PerformKeepsLetters
<1>7. CASE \/ Restart
           \/ \E r \in RegistrationTypes : ProcessRegistrationRequest(r)
           \/ \E undisclose \in BOOLEAN : ProcessIdentificationRequest(undisclose)
           \/ CreateValidationRequest
           \/ \E undisclose \in BOOLEAN : ValidateContact(undisclose)
           \/ SendNewPin3
  BY <1>1, <1>7, PerformKeepsLetters, RegistrationKeepsLetters, IdentificationKeepsLetters,
     OtherStatesKeepLetters, SendNewPin3KeepsLetters
<1>8. CASE \/ OtherUpdate \/ OtherDelete \/ Verification \/ ManualCheck \/ Nightly
           \/ \E update \in BOOLEAN : HideAddress(update)
  BY <1>1, <1>8, OthersKeepLetters, VerificationKeepsLetters, OtherStatesKeepLetters,
     PerformKeepsLetters
<1>9. QED
  BY <1>2, <1>3, <1>4, <1>5, <1>6, <1>7, <1>8 DEF Next

LEMMA LInvHolds == Spec => []LInv
<1>1. Init => LInv
  BY InitLetters
<1>2. QED
  BY <1>1, NextKeepsLetters, IInvHolds, PTL DEF Spec

(* With auto_pin3_sending, the PIN3 that process_identification_request    *)
(* accepts went to the name and address the contact has now, or had before *)
(* update_validated_contact_prepare changed them, whatever updates,        *)
(* letters sent again, rollbacks and restarts come between; but for a      *)
(* contact whose account was cancelled before, one the system registrar    *)
(* changed, and one whose transfer was prepared on former states.          *)
THEOREM LettersStayAddressed == Spec => LetterMatchesAddress
<1>1. LInv => Excused \/ OnlyValidatedUpdates
  BY DEF LInv, Letters, OneLetterIsOpen
<1>2. LInv =>
        [(/\ "identified" \notin wanted /\ "identified" \in wanted'
          /\ request[LetterInForce] # "closed" /\ request'[LetterInForce] = "closed")
            => \/ ~AutoPin3 \/ disturbed \/ "mojeid" \in raced
               \/ \A m \in misaddressed :
                     m[1] = LetterInForce => m[2] = "validated"]_vars
  BY <1>1 DEF Excused, OnlyValidatedUpdates
<1>3. QED
  BY <1>2, LInvHolds, PTL DEF LetterMatchesAddress
=============================================================================

----------------------- MODULE RegistrarBlocking_proofs -----------------------
(***************************************************************************)
(* The table registrar_disconnect, read and written by any number of       *)
(* callers of blockRegistrar and unblockRegistrar, implements              *)
(* BlockedRegistrars, on which EppLogin builds: seen from outside, a       *)
(* registrar becomes blocked by a commit of a block only, and each commit  *)
(* leaves one eviction due.                                                *)
(*                                                                         *)
(* The step that needs an invariant is the passing of time: a record that  *)
(* begins in the future would block a registrar without a commit.  now()   *)
(* is the start of the transaction, so no record and no transaction begins *)
(* after the present (NothingFromTheFuture).                               *)
(***************************************************************************)
EXTENDS RegistrarBlocking, TLAPS

DisconnectRecords == [blocked_from : Nat, blocked_to : Int]

Types ==
    /\ registrar_disconnect \in [Registrars -> Seq(DisconnectRecords)]
    /\ clock \in Nat
    /\ caller \in [Callers -> [pc : {"idle", "locked", "committed"},
                               registrar : Registrars \cup {NoRegistrar},
                               now : Nat]]

(* A call under way is about a registrar that exists.                      *)
CallsNameRegistrars ==
    \A c \in Callers : caller[c].pc # "idle" => caller[c].registrar \in Registrars

NothingFromTheFuture ==
    /\ \A c \in Callers : caller[c].now <= clock
    /\ \A r \in Registrars : \A i \in DOMAIN Records(r) :
           Records(r)[i].blocked_from <= clock

BInv == Types /\ CallsNameRegistrars /\ NothingFromTheFuture

LEMMA MonthEndIsInt == ASSUME NEW t \in Nat PROVE MonthEnd(t) \in Int
  BY BlockingAssumption DEF MonthEnd, Month

LEMMA BInvInitially == Init => BInv
<1> SUFFICES ASSUME Init PROVE BInv
  OBVIOUS
<1>1. Types
  BY DEF Init, Types, Idle
<1>2. CallsNameRegistrars
  BY DEF Init, CallsNameRegistrars, Idle
<1>3. NothingFromTheFuture
  BY DEF Init, NothingFromTheFuture, Records, Idle
<1>4. QED
  BY <1>1, <1>2, <1>3 DEF BInv

(* What the insert writes: the table gains one record of the caller's      *)
(* registrar at its end.                                                   *)
LEMMA InsertAppends ==
    ASSUME BInv, NEW c \in Callers, blockRegistrar_insert(c)
    PROVE  \E r \in Registrars, rec \in DisconnectRecords :
               /\ r = caller[c].registrar
               /\ rec.blocked_from = caller[c].now
               /\ registrar_disconnect' \in [Registrars -> Seq(DisconnectRecords)]
               /\ registrar_disconnect'[r] = Append(registrar_disconnect[r], rec)
               /\ \A s \in Registrars \ {r} :
                      registrar_disconnect'[s] = registrar_disconnect[s]
<1>1. PICK r \in Registrars : r = caller[c].registrar
  BY DEF BInv, CallsNameRegistrars, blockRegistrar_insert, OnlyShareLock, HoldsShareLock
<1>2. [blocked_from |-> caller[c].now, blocked_to |-> MonthEnd(caller[c].now)]
        \in DisconnectRecords
  BY MonthEndIsInt DEF BInv, Types, DisconnectRecords
<1>3. PICK rec \in DisconnectRecords :
         rec = [blocked_from |-> caller[c].now, blocked_to |-> MonthEnd(caller[c].now)]
  BY <1>2
<1>4. registrar_disconnect' = [registrar_disconnect EXCEPT ![r] = Append(@, rec)]
  BY <1>1, <1>3 DEF blockRegistrar_insert, InsertRecord
<1>5. /\ registrar_disconnect' \in [Registrars -> Seq(DisconnectRecords)]
      /\ registrar_disconnect'[r] = Append(registrar_disconnect[r], rec)
      /\ \A s \in Registrars \ {r} : registrar_disconnect'[s] = registrar_disconnect[s]
  BY <1>4 DEF BInv, Types
<1>6. rec.blocked_from = caller[c].now
  BY <1>3
<1>7. QED
  BY <1>1, <1>5, <1>6

(* What the update of unblockRegistrar writes: one record of the registrar *)
(* ends now.                                                               *)
LEMMA UnblockEndsARecord ==
    ASSUME BInv, NEW r \in Registrars, unblockRegistrar(r)
    PROVE  /\ registrar_disconnect' \in [Registrars -> Seq(DisconnectRecords)]
           /\ \A s \in Registrars \ {r} : registrar_disconnect'[s] = Records(s)
           /\ DOMAIN (registrar_disconnect'[r]) = DOMAIN Records(r)
           /\ \A j \in DOMAIN Records(r) :
                  /\ registrar_disconnect'[r][j].blocked_from = Records(r)[j].blocked_from
                  /\ \/ registrar_disconnect'[r][j].blocked_to = clock
                     \/ registrar_disconnect'[r][j].blocked_to = Records(r)[j].blocked_to
<1>1. PICK i \in Oldest(r) :
         registrar_disconnect' = [registrar_disconnect EXCEPT ![r][i].blocked_to = clock]
  BY DEF unblockRegistrar
<1> DEFINE rs == registrar_disconnect[r]
<1>2. i \in DOMAIN rs /\ rs \in Seq(DisconnectRecords) /\ clock \in Int
  BY DEF Oldest, BInv, Types, Records
<1> DEFINE ended == [rs EXCEPT ![i] = [blocked_from |-> rs[i].blocked_from, blocked_to |-> clock]]
<1>3. rs[i] \in DisconnectRecords
  BY <1>2
<1>4. [rs[i] EXCEPT !.blocked_to = clock]
        = [blocked_from |-> rs[i].blocked_from, blocked_to |-> clock]
  BY <1>3 DEF DisconnectRecords
<1>5. registrar_disconnect' = [registrar_disconnect EXCEPT ![r] = ended]
  BY <1>1, <1>4
<1>6. ended \in Seq(DisconnectRecords) /\ DOMAIN ended = DOMAIN rs
  <2>1. [blocked_from |-> rs[i].blocked_from, blocked_to |-> clock] \in DisconnectRecords
    BY <1>2, <1>3 DEF DisconnectRecords
  <2>2. QED
    BY <1>2, <2>1
<1>7. \A j \in DOMAIN rs :
         /\ ended[j].blocked_from = rs[j].blocked_from
         /\ ended[j].blocked_to = clock \/ ended[j].blocked_to = rs[j].blocked_to
  BY <1>2
<1> HIDE DEF ended
<1>8. QED
  BY <1>5, <1>6, <1>7 DEF BInv, Types, Records

LEMMA BInvPreserved == BInv /\ [Next]_vars => BInv'
<1> SUFFICES ASSUME BInv, [Next]_vars PROVE BInv'
  OBVIOUS
<1>1. ASSUME NEW c \in Callers, NEW r \in Registrars, blockRegistrar_read(c, r)
      PROVE  BInv'
  BY <1>1 DEF BInv, Types, CallsNameRegistrars, NothingFromTheFuture, Records,
              blockRegistrar_read
<1>2. ASSUME NEW c \in Callers, blockRegistrar_insert(c)
      PROVE  BInv'
  <2>1. PICK r \in Registrars, rec \in DisconnectRecords :
           /\ r = caller[c].registrar
           /\ rec.blocked_from = caller[c].now
           /\ registrar_disconnect' \in [Registrars -> Seq(DisconnectRecords)]
           /\ registrar_disconnect'[r] = Append(registrar_disconnect[r], rec)
           /\ \A s \in Registrars \ {r} :
                  registrar_disconnect'[s] = registrar_disconnect[s]
    BY <1>2, InsertAppends
  <2>2. rec.blocked_from <= clock
    BY <2>1 DEF BInv, NothingFromTheFuture
  <2>3. /\ clock' = clock
        /\ caller' = [caller EXCEPT ![c].pc = "committed"]
    BY <1>2 DEF blockRegistrar_insert, Committed
  <2>4. Types' /\ CallsNameRegistrars'
    BY <2>1, <2>3 DEF BInv, Types, CallsNameRegistrars
  <2>5. NothingFromTheFuture'
    <3>1. \A d \in Callers : caller'[d].now <= clock'
      BY <2>3 DEF BInv, Types, NothingFromTheFuture
    <3>2. ASSUME NEW s \in Registrars, NEW i \in DOMAIN registrar_disconnect'[s]
          PROVE  registrar_disconnect'[s][i].blocked_from <= clock
      <4>1. CASE s # r
        BY <4>1, <2>1 DEF BInv, NothingFromTheFuture, Records
      <4>2. CASE s = r
        BY <4>2, <2>1, <2>2 DEF BInv, Types, NothingFromTheFuture, Records
      <4>3. QED
        BY <4>1, <4>2
    <3>3. QED
      BY <3>1, <3>2, <2>3 DEF NothingFromTheFuture, Records
  <2>6. QED
    BY <2>4, <2>5 DEF BInv
<1>3. ASSUME NEW c \in Callers, blockRegistrar_abort(c) \/ blockRegistrar_evict(c)
      PROVE  BInv'
  <2>1. /\ caller' = [caller EXCEPT ![c] = Idle]
        /\ UNCHANGED <<registrar_disconnect, clock>>
    BY <1>3 DEF blockRegistrar_abort, blockRegistrar_evict
  <2>2. Types' /\ CallsNameRegistrars'
    BY <2>1 DEF BInv, Types, CallsNameRegistrars, Idle
  <2>3. NothingFromTheFuture'
    BY <2>1 DEF BInv, Types, NothingFromTheFuture, Records, Idle
  <2>4. QED
    BY <2>2, <2>3 DEF BInv
<1>4. ASSUME NEW r \in Registrars, unblockRegistrar(r)
      PROVE  BInv'
  <2>1. UNCHANGED <<clock, caller>>
    BY <1>4 DEF unblockRegistrar
  <2>2. Types' /\ CallsNameRegistrars'
    BY <1>4, <2>1, UnblockEndsARecord DEF BInv, Types, CallsNameRegistrars
  <2>3. \A s \in Registrars : \A i \in DOMAIN registrar_disconnect'[s] :
            registrar_disconnect'[s][i].blocked_from <= clock
    BY <1>4, UnblockEndsARecord DEF BInv, NothingFromTheFuture, Records
  <2>4. NothingFromTheFuture'
    BY <2>1, <2>3 DEF BInv, NothingFromTheFuture, Records
  <2>5. QED
    BY <2>2, <2>4 DEF BInv
<1>5. CASE Tick
  <2>1. Types' /\ CallsNameRegistrars'
    BY <1>5 DEF BInv, Types, CallsNameRegistrars, Tick
  <2>2. NothingFromTheFuture'
    <3>1. \A c \in Callers : caller[c].now \in Nat /\ caller[c].now <= clock
      BY DEF BInv, Types, NothingFromTheFuture
    <3>2. \A r \in Registrars : \A i \in DOMAIN registrar_disconnect[r] :
             /\ registrar_disconnect[r][i] \in DisconnectRecords
             /\ registrar_disconnect[r][i].blocked_from <= clock
      BY DEF BInv, Types, NothingFromTheFuture, Records
    <3>3. clock \in Nat /\ clock' = clock + 1 /\ UNCHANGED <<registrar_disconnect, caller>>
      BY <1>5 DEF Tick, BInv, Types
    <3>4. \A c \in Callers : caller'[c].now <= clock'
      BY <3>1, <3>3
    <3>5. \A r \in Registrars : \A i \in DOMAIN registrar_disconnect'[r] :
             registrar_disconnect'[r][i].blocked_from <= clock'
      BY <3>2, <3>3 DEF DisconnectRecords
    <3>6. QED
      BY <3>4, <3>5 DEF NothingFromTheFuture, Records
  <2>3. QED
    BY <2>1, <2>2 DEF BInv
<1>6. CASE UNCHANGED vars
  BY <1>6 DEF BInv, Types, CallsNameRegistrars, NothingFromTheFuture, Records, vars
<1>7. QED
  BY <1>1, <1>2, <1>3, <1>4, <1>5, <1>6
     DEF Next, blockRegistrar_refused, unblockRegistrar_throws

(* No record and no transaction comes from the future, so the passing of   *)
(* time only ends blocks (now() of the insert, registrar.cc:1552).         *)
THEOREM RecordsAreOfThePast == Spec => []NothingFromTheFuture
<1>1. BInv => NothingFromTheFuture
  BY DEF BInv
<1>2. QED
  BY <1>1, BInvInitially, BInvPreserved, PTL DEF Spec

-----------------------------------------------------------------------------
(* The refinement.  BlockedNow and Due are the two variables of            *)
(* BlockedRegistrars.                                                      *)
BlockedNow == {r \in Registrars : isRegistrarBlocked(r)}

Due == {caller[c].registrar : c \in {d \in Callers : caller[d].pc = "committed"}}

LEMMA InitImplements == Init => Promise!BlockInit
  BY DEF Init, Promise!BlockInit, isRegistrarBlocked, Records, Idle

(* The commit of a block blocks nobody but the caller's registrar.         *)
LEMMA InsertIsBlock ==
    ASSUME BInv, NEW c \in Callers, blockRegistrar_insert(c)
    PROVE  Promise!BlockNext
<1>1. PICK r \in Registrars, rec \in DisconnectRecords :
         /\ r = caller[c].registrar
         /\ registrar_disconnect'[r] = Append(registrar_disconnect[r], rec)
         /\ \A s \in Registrars \ {r} : registrar_disconnect'[s] = registrar_disconnect[s]
  BY InsertAppends
<1>2. /\ clock' = clock
      /\ caller' = [caller EXCEPT ![c].pc = "committed"]
  BY DEF blockRegistrar_insert, Committed
<1>3. Due' = Due \cup {r}
  <2>1. \A d \in Callers : /\ caller'[d].registrar = caller[d].registrar
                           /\ caller'[d].pc = IF d = c THEN "committed" ELSE caller[d].pc
    BY <1>2 DEF BInv, Types
  <2>2. QED
    BY <1>1, <2>1 DEF Due
<1>4. BlockedNow' \in {BlockedNow, BlockedNow \cup {r}}
  <2>1. \A s \in Registrars \ {r} : isRegistrarBlocked(s)' <=> isRegistrarBlocked(s)
    BY <1>1, <1>2 DEF isRegistrarBlocked, Records
  <2>2. isRegistrarBlocked(r) => isRegistrarBlocked(r)'
    <3>1. \A i \in DOMAIN registrar_disconnect[r] :
             /\ i \in DOMAIN registrar_disconnect'[r]
             /\ registrar_disconnect'[r][i] = registrar_disconnect[r][i]
      BY <1>1 DEF BInv, Types
    <3>2. QED
      BY <3>1, <1>2 DEF isRegistrarBlocked, Records
  <2>3. QED
    BY <2>1, <2>2, <1>1 DEF BlockedNow
<1>5. Promise!Block(r)
  BY <1>3, <1>4 DEF Promise!Block, BlockedNow, Due
<1>6. QED
  BY <1>1, <1>5 DEF Promise!BlockNext

(* When no registrar becomes blocked and no eviction falls due, some       *)
(* registrars are released or nothing happens.                             *)
LEMMA FewerBlockedIsRelease ==
    ASSUME BlockedNow' \subseteq BlockedNow, Due' = Due
    PROVE  [Promise!BlockNext]_(Promise!blockVars)
<1> DEFINE S == BlockedNow \ BlockedNow'
<1>1. CASE S = {}
  <2>1. BlockedNow' = BlockedNow
    BY <1>1
  <2>2. QED
    BY <2>1 DEF BlockedNow, Due, Promise!blockVars
<1>2. CASE S # {}
  <2>1. BlockedNow' = BlockedNow \ S /\ S \in SUBSET BlockedNow
    OBVIOUS
  <2> HIDE DEF S
  <2>2. Promise!Release(S)
    BY <1>2, <2>1 DEF Promise!Release, BlockedNow, Due
  <2>3. QED
    BY <2>1, <2>2 DEF Promise!BlockNext, BlockedNow
<1>3. QED
  BY <1>1, <1>2

LEMMA EvictIsEvict ==
    ASSUME BInv, NEW c \in Callers, blockRegistrar_evict(c)
    PROVE  Promise!BlockNext
<1>1. PICK r \in Registrars : r = caller[c].registrar /\ r \in Due
  BY DEF BInv, CallsNameRegistrars, blockRegistrar_evict, Due
<1>2. BlockedNow' = BlockedNow
  BY DEF blockRegistrar_evict, BlockedNow, isRegistrarBlocked, Records
<1>3. Due' \in {Due, Due \ {r}}
  <2>1. \A d \in Callers : caller'[d] = IF d = c THEN Idle ELSE caller[d]
    BY DEF blockRegistrar_evict, BInv, Types
  <2>2. Due' \subseteq Due /\ Due \ {r} \subseteq Due'
    BY <1>1, <2>1 DEF Due, Idle
  <2>3. QED
    BY <2>2
<1>4. Promise!Evict(r)
  BY <1>1, <1>2, <1>3 DEF Promise!Evict, BlockedNow, Due
<1>5. QED
  BY <1>1, <1>4 DEF Promise!BlockNext

LEMMA StepImplements ==
    BInv /\ [Next]_vars => [Promise!BlockNext]_(Promise!blockVars)
<1> SUFFICES ASSUME BInv, [Next]_vars
             PROVE  [Promise!BlockNext]_(Promise!blockVars)
  OBVIOUS
<1>1. ASSUME NEW c \in Callers, NEW r \in Registrars, blockRegistrar_read(c, r)
      PROVE  BlockedNow' = BlockedNow /\ Due' = Due
  <2>1. \A d \in Callers : caller'[d] = IF d = c THEN [pc |-> "locked", registrar |-> r, now |-> clock]
                                                 ELSE caller[d]
    BY <1>1 DEF blockRegistrar_read, BInv, Types
  <2>2. caller[c].pc = "idle"
    BY <1>1 DEF blockRegistrar_read, Idle
  <2>3. QED
    BY <1>1, <2>1, <2>2 DEF blockRegistrar_read, BlockedNow, Due, isRegistrarBlocked, Records
<1>2. ASSUME NEW c \in Callers, blockRegistrar_abort(c)
      PROVE  BlockedNow' = BlockedNow /\ Due' = Due
  <2>1. \A d \in Callers : caller'[d] = IF d = c THEN Idle ELSE caller[d]
    BY <1>2 DEF blockRegistrar_abort, BInv, Types
  <2>2. caller[c].pc = "locked"
    BY <1>2 DEF blockRegistrar_abort, HoldsShareLock
  <2>3. QED
    BY <1>2, <2>1, <2>2 DEF blockRegistrar_abort, BlockedNow, Due, isRegistrarBlocked, Records, Idle
<1>3. ASSUME NEW r \in Registrars, unblockRegistrar(r)
      PROVE  BlockedNow' \subseteq BlockedNow /\ Due' = Due
  <2>1. UNCHANGED <<clock, caller>>
    BY <1>3 DEF unblockRegistrar
  <2>2. \A s \in Registrars : isRegistrarBlocked(s)' => isRegistrarBlocked(s)
    <3>1. ASSUME NEW s \in Registrars, isRegistrarBlocked(s)'
          PROVE  isRegistrarBlocked(s)
      <4>1. PICK i \in DOMAIN registrar_disconnect'[s] :
               Active(registrar_disconnect'[s][i], clock)
        BY <3>1, <2>1 DEF isRegistrarBlocked, Records
      <4>2. CASE s # r
        BY <4>1, <4>2, <1>3, UnblockEndsARecord DEF isRegistrarBlocked, Records
      <4>3. CASE s = r
        <5>1. /\ i \in DOMAIN registrar_disconnect[r]
              /\ registrar_disconnect'[r][i].blocked_from
                   = registrar_disconnect[r][i].blocked_from
              /\ \/ registrar_disconnect'[r][i].blocked_to = clock
                 \/ registrar_disconnect'[r][i].blocked_to
                      = registrar_disconnect[r][i].blocked_to
          BY <4>1, <4>3, <1>3, UnblockEndsARecord DEF Records
        <5>2. Active(registrar_disconnect[r][i], clock)
          BY <4>1, <4>3, <5>1 DEF Active, BInv, Types
        <5>3. QED
          BY <4>3, <5>1, <5>2 DEF isRegistrarBlocked, Records
      <4>4. QED
        BY <4>2, <4>3
    <3>2. QED
      BY <3>1
  <2>3. QED
    BY <2>1, <2>2 DEF BlockedNow, Due
<1>4. CASE Tick
  <2>1. ASSUME NEW r \in Registrars, isRegistrarBlocked(r)'
        PROVE  isRegistrarBlocked(r)
    <3>1. PICK i \in DOMAIN registrar_disconnect[r] : Active(registrar_disconnect[r][i], clock + 1)
      BY <1>4, <2>1 DEF Tick, isRegistrarBlocked, Records
    <3>2. registrar_disconnect[r][i] \in DisconnectRecords
      BY DEF BInv, Types
    <3>3. registrar_disconnect[r][i].blocked_from <= clock
      BY DEF BInv, NothingFromTheFuture, Records
    <3>4. Active(registrar_disconnect[r][i], clock)
      BY <3>1, <3>2, <3>3 DEF Active, BInv, Types, DisconnectRecords
    <3>5. QED
      BY <3>4 DEF isRegistrarBlocked, Records
  <2>2. QED
    BY <1>4, <2>1, FewerBlockedIsRelease DEF BlockedNow, Due, Tick
<1>5. CASE UNCHANGED vars
  BY <1>5 DEF vars, Promise!blockVars, isRegistrarBlocked, Records
<1>6. QED
  BY <1>1, <1>2, <1>3, <1>4, <1>5, FewerBlockedIsRelease, InsertIsBlock, EvictIsEvict
     DEF Next, blockRegistrar_refused, unblockRegistrar_throws

(* However blockRegistrar, unblockRegistrar, deadlock aborts and the       *)
(* passing of time interleave, the rest of the system sees the behaviour   *)
(* of BlockedRegistrars.                                                   *)
THEOREM BlockingKeepsThePromise == Spec => BlockingImplementsPromise
  BY BInvInitially, BInvPreserved, InitImplements, StepImplements, PTL
     DEF Spec, BlockingImplementsPromise, Promise!BlockSpec
=============================================================================

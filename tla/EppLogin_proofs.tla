--------------------------- MODULE EppLogin_proofs ---------------------------
(***************************************************************************)
(* Proofs about the session container (EppSession) and about logins,       *)
(* eviction and restarts around it (EppLogin), for every set of            *)
(* registrars, every limit and timeout and any number of logins.           *)
(*                                                                         *)
(* The container's inductive invariant is TypeOK /\ CountConsistent.       *)
(* TypeOK alone is inductive.  LimitsRespected is not: login_session       *)
(* compares the counter, not the table, with max_reg_sessions, so the      *)
(* limit on the table follows only because the counter is exact.           *)
(*                                                                         *)
(* The concurrent login procedure, together with eviction from another     *)
(* process and restarts of rifd, drives the container only through the     *)
(* container's own operations.  What the first part shows of the container *)
(* therefore holds in the composed system.                                 *)
(***************************************************************************)
EXTENDS EppLogin, FiniteSetTheorems, TLAPS

-----------------------------------------------------------------------------
(* The session container.                                                  *)

(* There are finitely many sessions: their ids lie between 1 and the last  *)
(* value of the sequence.                                                  *)
LEMMA FinitelyManySessions ==
    ASSUME TypeOK
    PROVE  /\ IsFiniteSet(DOMAIN sessions)
           /\ \A ids \in SUBSET (DOMAIN sessions) :
                  IsFiniteSet(ids) /\ Cardinality(ids) \in Nat
<1>1. IsFiniteSet(1..epp_login_id_seq)
  <2>1. epp_login_id_seq \in Int
    BY DEF TypeOK
  <2>2. QED
    BY <2>1, FS_Interval
<1>2. IsFiniteSet(DOMAIN sessions)
  BY <1>1, FS_Subset DEF TypeOK
<1>3. ASSUME NEW ids \in SUBSET (DOMAIN sessions)
      PROVE  IsFiniteSet(ids) /\ Cardinality(ids) \in Nat
  BY <1>2, FS_Subset, FS_CardinalityType
<1>4. QED
  BY <1>2, <1>3

(* Erasing the sessions ids takes exactly the registrar's sessions among   *)
(* ids away from the registrar.                                            *)
LEMMA CardinalityWithout ==
    ASSUME TypeOK, NEW ids \in SUBSET (DOMAIN sessions), NEW r \in Registrars
    PROVE  /\ OfRegistrar(DOMAIN sessions \ ids, r)
                  = OfRegistrar(DOMAIN sessions, r) \ OfRegistrar(ids, r)
           /\ Cardinality(OfRegistrar(DOMAIN sessions \ ids, r))
                  = Cardinality(OfRegistrar(DOMAIN sessions, r))
                        - Cardinality(OfRegistrar(ids, r))
           /\ Cardinality(OfRegistrar(DOMAIN sessions, r)) \in Nat
           /\ Cardinality(OfRegistrar(ids, r)) \in Nat
<1> DEFINE A == OfRegistrar(DOMAIN sessions, r)
           B == OfRegistrar(ids, r)
           C == OfRegistrar(DOMAIN sessions \ ids, r)
<1>1. C = A \ B /\ A \cap B = B
  BY DEF OfRegistrar
<1>2. A \in SUBSET (DOMAIN sessions) /\ B \in SUBSET (DOMAIN sessions)
  BY DEF OfRegistrar
<1>3. IsFiniteSet(A) /\ Cardinality(A) \in Nat /\ Cardinality(B) \in Nat
  BY <1>2, FinitelyManySessions
<1>4. Cardinality(A \ B) = Cardinality(A) - Cardinality(A \cap B)
  BY <1>3, FS_Difference
<1>5. QED
  BY <1>1, <1>3, <1>4

(* What logout_session_worker leaves behind is well typed.                 *)
LEMMA WithoutType ==
    ASSUME TypeOK, NEW ids \in SUBSET (DOMAIN sessions)
    PROVE  /\ DOMAIN SessionsWithout(ids) = DOMAIN sessions \ ids
           /\ SessionsWithout(ids) \in [DOMAIN sessions \ ids -> Session]
           /\ \A id \in DOMAIN sessions \ ids : SessionsWithout(ids)[id] = sessions[id]
           /\ CountWithout(ids) \in [Registrars -> Int]
<1>1. ASSUME NEW r \in Registrars
      PROVE  registrar_session_count[r] - Cardinality(OfRegistrar(ids, r)) \in Int
  <2>1. Cardinality(OfRegistrar(ids, r)) \in Nat
    BY CardinalityWithout
  <2>2. registrar_session_count[r] \in Int
    BY DEF TypeOK
  <2>3. QED
    BY <2>1, <2>2
<1>2. CountWithout(ids) \in [Registrars -> Int]
  BY <1>1 DEF CountWithout
<1>3. QED
  BY <1>2 DEF SessionsWithout, TypeOK

LEMMA ExpiredAreSessions == Expired \in SUBSET (DOMAIN sessions)
  BY DEF Expired

(* Erasing any set of sessions keeps the type invariant and the counter.   *)
LEMMA WorkerPreserves ==
    ASSUME TypeOK, NEW ids \in SUBSET (DOMAIN sessions),
           logout_session_worker(ids), UNCHANGED <<epp_login_id_seq, clock>>
    PROVE  /\ TypeOK'
           /\ CountConsistent => CountConsistent'
<1> USE DEF logout_session_worker
<1>1. DOMAIN sessions' = DOMAIN sessions \ ids
  BY WithoutType
<1>2. TypeOK'
  BY <1>1, WithoutType DEF TypeOK
<1>3. ASSUME CountConsistent, NEW r \in Registrars
      PROVE  registrar_session_count'[r]
                 = Cardinality(OfRegistrar(DOMAIN sessions, r)')
  <2>1. OfRegistrar(DOMAIN sessions, r)' = OfRegistrar(DOMAIN sessions \ ids, r)
    BY <1>1, WithoutType DEF OfRegistrar
  <2>2. registrar_session_count'[r]
            = registrar_session_count[r] - Cardinality(OfRegistrar(ids, r))
    BY DEF CountWithout
  <2>3. registrar_session_count[r] = Cardinality(OfRegistrar(DOMAIN sessions, r))
    BY <1>3 DEF CountConsistent
  <2>4. QED
    BY <2>1, <2>2, <2>3, CardinalityWithout
<1>4. QED
  BY <1>2, <1>3 DEF CountConsistent

-----------------------------------------------------------------------------
(* A successful login_session, taken apart: the collected table plus one.  *)
LEMMA AdmissionPreserves ==
    ASSUME TypeOK, NEW r \in Registrars, NEW lang \in Languages,
           login_session_admitted(r, lang)
    PROVE  /\ TypeOK'
           /\ CountConsistent => CountConsistent'
<1> DEFINE kept == DOMAIN sessions \ Expired
           new == epp_login_id_seq + 1
<1> USE DEF login_session_admitted
<1>1. /\ DOMAIN sessions' = kept \cup {new}
      /\ new \notin DOMAIN sessions
      /\ sessions'[new] = NewSession(r, lang)
      /\ \A id \in kept : sessions'[id] = sessions[id]
  BY DEF TypeOK
<1>2. NewSession(r, lang) \in Session
  BY DEF NewSession, Session, TypeOK
<1>3. CountWithout(Expired) \in [Registrars -> Int]
  BY WithoutType, ExpiredAreSessions
<1>4. TypeOK'
  <2>1. epp_login_id_seq' \in Nat /\ clock' \in Nat
    BY DEF TypeOK
  <2>2. DOMAIN sessions' \subseteq 1..epp_login_id_seq'
    BY <1>1 DEF TypeOK
  <2>3. sessions' \in [DOMAIN sessions' -> Session]
    BY <1>1, <1>2 DEF TypeOK
  <2>4. \A id \in DOMAIN sessions' : sessions'[id].timestamp <= clock'
    BY <1>1 DEF TypeOK, NewSession
  <2>5. registrar_session_count' \in [Registrars -> Int]
    BY <1>3
  <2>6. QED
    BY <2>1, <2>2, <2>3, <2>4, <2>5 DEF TypeOK
<1>5. ASSUME CountConsistent, NEW q \in Registrars
      PROVE  registrar_session_count'[q]
                 = Cardinality(OfRegistrar(DOMAIN sessions, q)')
  <2>1. registrar_session_count[q] = Cardinality(OfRegistrar(DOMAIN sessions, q))
    BY <1>5 DEF CountConsistent
  <2>2. CountWithout(Expired)[q] = Cardinality(OfRegistrar(kept, q))
    BY <2>1, CardinalityWithout, ExpiredAreSessions DEF CountWithout
  <2>3. OfRegistrar(DOMAIN sessions, q)' =
            IF q = r THEN OfRegistrar(kept, q) \cup {new} ELSE OfRegistrar(kept, q)
    BY <1>1 DEF OfRegistrar, NewSession
  <2>4. /\ IsFiniteSet(OfRegistrar(kept, q))
        /\ new \notin OfRegistrar(kept, q)
    BY <1>1, FinitelyManySessions DEF OfRegistrar
  <2>5. Cardinality(OfRegistrar(kept, q) \cup {new})
            = Cardinality(OfRegistrar(kept, q)) + 1
    BY <2>4, FS_AddElement
  <2>6. registrar_session_count'[q] =
            IF q = r THEN CountWithout(Expired)[q] + 1 ELSE CountWithout(Expired)[q]
    BY <1>3
  <2>7. QED
    BY <2>2, <2>3, <2>5, <2>6
<1>6. QED
  BY <1>4, <1>5 DEF CountConsistent

IInv == TypeOK /\ CountConsistent

LEMMA InitEstablishes == Init => IInv
<1> SUFFICES ASSUME Init
             PROVE  IInv
  OBVIOUS
<1> USE DEF Init
<1>1. DOMAIN sessions = {}
  OBVIOUS
<1>2. TypeOK
  BY <1>1 DEF TypeOK
<1>3. ASSUME NEW r \in Registrars
      PROVE  registrar_session_count[r] = Cardinality(OfRegistrar(DOMAIN sessions, r))
  <2>1. OfRegistrar(DOMAIN sessions, r) = {}
    BY <1>1 DEF OfRegistrar
  <2>2. QED
    BY <2>1, FS_EmptySet
<1>4. QED
  BY <1>2, <1>3 DEF IInv, CountConsistent

LEMMA NextPreserves == IInv /\ [Next]_sessionVars => IInv'
<1> SUFFICES ASSUME IInv, [Next]_sessionVars
             PROVE  IInv'
  OBVIOUS
<1> USE DEF IInv
<1>1. ASSUME NEW r \in Registrars, NEW lang \in Languages, login_session(r, lang)
      PROVE  IInv'
  <2>1. CASE login_session_refused(r)
    BY <2>1, WorkerPreserves, ExpiredAreSessions DEF login_session_refused
  <2>2. CASE login_session_admitted(r, lang)
    BY <2>2, AdmissionPreserves
  <2>3. CASE login_session_throws(r)
    BY <2>3, WorkerPreserves, ExpiredAreSessions DEF login_session_throws
  <2>4. QED
    BY <1>1, <2>1, <2>2, <2>3 DEF login_session
<1>2. ASSUME NEW id \in 1..epp_login_id_seq, logout_session(id)
      PROVE  IInv'
  BY <1>2, WorkerPreserves DEF logout_session
<1>3. ASSUME NEW r \in Registrars, destroy_all_registrar_sessions(r)
      PROVE  IInv'
  <2>1. OfRegistrar(DOMAIN sessions, r) \in SUBSET (DOMAIN sessions)
    BY DEF OfRegistrar
  <2>2. QED
    BY <1>3, <2>1, WorkerPreserves DEF destroy_all_registrar_sessions
<1>4. ASSUME NEW id \in 1..epp_login_id_seq, get_registrar_id(id)
      PROVE  IInv'
  <2> USE <1>4 DEF get_registrar_id
  <2>1. /\ DOMAIN sessions' = DOMAIN sessions
        /\ \A i \in DOMAIN sessions :
               /\ sessions'[i] \in Session
               /\ sessions'[i].registrarID = sessions[i].registrarID
               /\ sessions'[i].timestamp <= clock
    BY DEF TypeOK, Session
  <2>2. TypeOK'
    BY <2>1 DEF TypeOK
  <2>3. \A r \in Registrars :
            OfRegistrar(DOMAIN sessions, r)' = OfRegistrar(DOMAIN sessions, r)
    BY <2>1 DEF OfRegistrar
  <2>4. QED
    BY <2>2, <2>3 DEF CountConsistent
<1>5. ASSUME Restart
      PROVE  IInv'
  <2>1. DOMAIN sessions' = {}
    BY <1>5 DEF Restart
  <2>2. TypeOK'
    BY <1>5, <2>1 DEF Restart, TypeOK
  <2>3. \A r \in Registrars : OfRegistrar(DOMAIN sessions, r)' = {}
    BY <2>1 DEF OfRegistrar
  <2>4. Cardinality({}) = 0
    BY FS_EmptySet
  <2>5. QED
    BY <1>5, <2>2, <2>3, <2>4 DEF Restart, CountConsistent
<1>6. ASSUME Tick
      PROVE  IInv'
  <2>1. TypeOK'
    BY <1>6 DEF Tick, TypeOK, Session
  <2>2. QED
    BY <1>6, <2>1 DEF Tick, CountConsistent, OfRegistrar
<1>7. CASE UNCHANGED sessionVars
  BY <1>7 DEF sessionVars, TypeOK, CountConsistent, OfRegistrar
<1>8. QED
  BY <1>1, <1>2, <1>3, <1>4, <1>5, <1>6, <1>7 DEF Next

(* Type correctness of the session container.                              *)
THEOREM TypeCorrect == Spec => []TypeOK
<1>1. IInv => TypeOK
  BY DEF IInv
<1>2. QED
  BY <1>1, InitEstablishes, NextPreserves, PTL DEF Spec

(* The session counter that login_session trusts is exact: it equals the   *)
(* number of sessions in the table after any sequence of calls.            *)
THEOREM CountCorrect == Spec => []CountConsistent
<1>1. IInv => CountConsistent
  BY DEF IInv
<1>2. QED
  BY <1>1, InitEstablishes, NextPreserves, PTL DEF Spec

(* The internal-error exceptions of login_session and                      *)
(* logout_session_worker cannot be raised.                                 *)
THEOREM ThrowsAreUnreachable == Spec => []ThrowsUnreachable
<1>1. ASSUME IInv
      PROVE  ThrowsUnreachable
  <2>1. epp_login_id_seq + 1 \notin DOMAIN sessions
    BY <1>1 DEF IInv, TypeOK
  <2>2. ASSUME NEW id \in DOMAIN sessions
        PROVE  registrar_session_count[sessions[id].registrarID] > 0
    <3> DEFINE r == sessions[id].registrarID
    <3>1. r \in Registrars
      BY <1>1 DEF IInv, TypeOK, Session
    <3>2. id \in OfRegistrar(DOMAIN sessions, r)
      BY DEF OfRegistrar
    <3>3. OfRegistrar(DOMAIN sessions, r) \in SUBSET (DOMAIN sessions)
      BY DEF OfRegistrar
    <3>4. /\ IsFiniteSet(OfRegistrar(DOMAIN sessions, r))
          /\ Cardinality(OfRegistrar(DOMAIN sessions, r)) \in Nat
      BY <1>1, <3>3, FinitelyManySessions DEF IInv
    <3>5. Cardinality(OfRegistrar(DOMAIN sessions, r)) # 0
      BY <3>2, <3>4, FS_EmptySet
    <3>6. registrar_session_count[r] = Cardinality(OfRegistrar(DOMAIN sessions, r))
      BY <1>1, <3>1 DEF IInv, CountConsistent
    <3>7. QED
      BY <3>4, <3>5, <3>6
  <2>3. QED
    BY <2>1, <2>2 DEF ThrowsUnreachable
<1>2. QED
  BY <1>1, InitEstablishes, NextPreserves, PTL DEF Spec

-----------------------------------------------------------------------------
(* A step that only erases sessions, or leaves the table alone, cannot     *)
(* break a limit.                                                          *)
LEMMA ShrinkingKeepsLimits ==
    ASSUME TypeOK, LimitsRespected,
           DOMAIN sessions' \subseteq DOMAIN sessions,
           \A id \in DOMAIN sessions' :
               sessions'[id].registrarID = sessions[id].registrarID
    PROVE  LimitsRespected'
<1>1. IsFiniteSet(DOMAIN sessions)
  BY FinitelyManySessions
<1>2. /\ Cardinality(DOMAIN sessions') <= Cardinality(DOMAIN sessions)
      /\ Cardinality(DOMAIN sessions') \in Nat
      /\ Cardinality(DOMAIN sessions) \in Nat
  BY <1>1, FS_Subset, FS_CardinalityType
<1>3. Cardinality(DOMAIN sessions') <= max_total_sessions
  BY <1>2, SessionAssumption DEF LimitsRespected
<1>4. ASSUME NEW r \in Registrars
      PROVE  Cardinality(OfRegistrar(DOMAIN sessions, r)') <= max_reg_sessions
  <2> DEFINE A == OfRegistrar(DOMAIN sessions, r)
             B == OfRegistrar(DOMAIN sessions, r)'
  <2>1. B \in SUBSET A /\ A \in SUBSET (DOMAIN sessions)
    BY DEF OfRegistrar
  <2>2. IsFiniteSet(A) /\ Cardinality(A) \in Nat
    BY <2>1, FinitelyManySessions
  <2>3. Cardinality(B) <= Cardinality(A) /\ Cardinality(B) \in Nat
    BY <2>1, <2>2, FS_Subset, FS_CardinalityType
  <2>4. Cardinality(A) <= max_reg_sessions
    BY DEF LimitsRespected
  <2>5. QED
    BY <2>2, <2>3, <2>4, SessionAssumption
<1>5. QED
  BY <1>3, <1>4 DEF LimitsRespected

(* An admitted login stays within both limits: login_session compared the  *)
(* size of the collected table and the registrar's exact count.            *)
LEMMA AdmissionKeepsLimits ==
    ASSUME IInv, LimitsRespected, NEW r \in Registrars, NEW lang \in Languages,
           login_session_admitted(r, lang)
    PROVE  LimitsRespected'
<1> DEFINE kept == DOMAIN sessions \ Expired
           new == epp_login_id_seq + 1
<1> USE DEF login_session_admitted
<1>1. TypeOK /\ CountConsistent
  BY DEF IInv
<1>2. /\ DOMAIN sessions' = kept \cup {new}
      /\ new \notin DOMAIN sessions
      /\ sessions'[new] = NewSession(r, lang)
      /\ \A id \in kept : sessions'[id] = sessions[id]
  BY <1>1 DEF TypeOK
<1>3. IsFiniteSet(kept) /\ Cardinality(kept) \in Nat
  BY <1>1, FinitelyManySessions
<1>4. Cardinality(DOMAIN sessions') = Cardinality(kept) + 1
  BY <1>2, <1>3, FS_AddElement
<1>5. DOMAIN SessionsWithout(Expired) = kept
  BY <1>1, WithoutType, ExpiredAreSessions
<1>6. /\ ~(Cardinality(kept) >= max_total_sessions)
      /\ ~(CountWithout(Expired)[r] >= max_reg_sessions)
  BY <1>5 DEF LimitReached
<1>7. Cardinality(DOMAIN sessions') <= max_total_sessions
  BY <1>3, <1>4, <1>6, SessionAssumption
<1>8. ASSUME NEW q \in Registrars
      PROVE  Cardinality(OfRegistrar(DOMAIN sessions, q)') <= max_reg_sessions
  <2>1. registrar_session_count[q] = Cardinality(OfRegistrar(DOMAIN sessions, q))
    BY <1>1 DEF CountConsistent
  <2>2. /\ CountWithout(Expired)[q] = Cardinality(OfRegistrar(kept, q))
        /\ Cardinality(OfRegistrar(kept, q)) <= Cardinality(OfRegistrar(DOMAIN sessions, q))
        /\ Cardinality(OfRegistrar(DOMAIN sessions, q)) \in Nat
    <3>1. /\ Cardinality(OfRegistrar(kept, q))
                 = Cardinality(OfRegistrar(DOMAIN sessions, q))
                       - Cardinality(OfRegistrar(Expired, q))
          /\ Cardinality(OfRegistrar(DOMAIN sessions, q)) \in Nat
          /\ Cardinality(OfRegistrar(Expired, q)) \in Nat
      BY <1>1, CardinalityWithout, ExpiredAreSessions
    <3>2. CountWithout(Expired)[q]
              = registrar_session_count[q] - Cardinality(OfRegistrar(Expired, q))
      BY DEF CountWithout
    <3>3. QED
      BY <2>1, <3>1, <3>2
  <2>3. OfRegistrar(DOMAIN sessions, q)' =
            IF q = r THEN OfRegistrar(kept, q) \cup {new} ELSE OfRegistrar(kept, q)
    BY <1>2 DEF OfRegistrar, NewSession
  <2>4. /\ OfRegistrar(kept, q) \in SUBSET (DOMAIN sessions)
        /\ new \notin OfRegistrar(kept, q)
    BY <1>2 DEF OfRegistrar
  <2>5. /\ IsFiniteSet(OfRegistrar(kept, q))
        /\ Cardinality(OfRegistrar(kept, q)) \in Nat
    BY <1>1, <2>4, FinitelyManySessions
  <2>6. Cardinality(OfRegistrar(kept, q) \cup {new})
            = Cardinality(OfRegistrar(kept, q)) + 1
    BY <2>4, <2>5, FS_AddElement
  <2>7. Cardinality(OfRegistrar(DOMAIN sessions, q)) <= max_reg_sessions
    BY DEF LimitsRespected
  <2>8. CASE q = r
    <3>1. ~(Cardinality(OfRegistrar(kept, q)) >= max_reg_sessions)
      BY <1>6, <2>2, <2>8
    <3>2. Cardinality(OfRegistrar(DOMAIN sessions, q)')
              = Cardinality(OfRegistrar(kept, q)) + 1
      BY <2>3, <2>6, <2>8
    <3>3. QED
      BY <2>5, <3>1, <3>2, SessionAssumption
  <2>9. CASE q # r
    <3>1. OfRegistrar(DOMAIN sessions, q)' = OfRegistrar(kept, q)
      BY <2>3, <2>9
    <3>2. QED
      BY <2>2, <2>5, <2>7, <3>1, SessionAssumption
  <2>10. QED
    BY <2>8, <2>9
<1>9. QED
  BY <1>7, <1>8 DEF LimitsRespected

(* Neither the total nor a registrar's number of sessions ever exceeds its *)
(* configured limit.                                                       *)
THEOREM LimitsHold == Spec => []LimitsRespected
<1>1. Init => LimitsRespected
  <2> SUFFICES ASSUME Init
               PROVE  LimitsRespected
    OBVIOUS
  <2>1. /\ DOMAIN sessions = {}
        /\ \A r \in Registrars : OfRegistrar(DOMAIN sessions, r) = {}
    BY DEF Init, OfRegistrar
  <2>2. Cardinality({}) = 0
    BY FS_EmptySet
  <2>3. QED
    BY <2>1, <2>2, SessionAssumption DEF LimitsRespected
<1>2. IInv /\ LimitsRespected /\ [Next]_sessionVars => LimitsRespected'
  <2> SUFFICES ASSUME IInv, LimitsRespected, [Next]_sessionVars
               PROVE  LimitsRespected'
    OBVIOUS
  <2>1. TypeOK
    BY DEF IInv
  <2>2. ASSUME NEW ids \in SUBSET (DOMAIN sessions), logout_session_worker(ids)
        PROVE  LimitsRespected'
    <3>1. /\ DOMAIN sessions' = DOMAIN sessions \ ids
          /\ \A id \in DOMAIN sessions \ ids : sessions'[id] = sessions[id]
      BY <2>1, <2>2, WithoutType DEF logout_session_worker
    <3>2. QED
      BY <2>1, <3>1, ShrinkingKeepsLimits
  <2>3. ASSUME NEW r \in Registrars, NEW lang \in Languages, login_session(r, lang)
        PROVE  LimitsRespected'
    BY <2>2, <2>3, AdmissionKeepsLimits, ExpiredAreSessions
       DEF login_session, login_session_refused, login_session_throws
  <2>4. ASSUME NEW id \in 1..epp_login_id_seq, logout_session(id)
        PROVE  LimitsRespected'
    BY <2>2, <2>4 DEF logout_session
  <2>5. ASSUME NEW r \in Registrars, destroy_all_registrar_sessions(r)
        PROVE  LimitsRespected'
    <3>1. OfRegistrar(DOMAIN sessions, r) \in SUBSET (DOMAIN sessions)
      BY DEF OfRegistrar
    <3>2. QED
      BY <2>2, <2>5, <3>1 DEF destroy_all_registrar_sessions
  <2>6. ASSUME NEW id \in 1..epp_login_id_seq, get_registrar_id(id)
        PROVE  LimitsRespected'
    <3>1. /\ DOMAIN sessions' = DOMAIN sessions
          /\ \A i \in DOMAIN sessions :
                 sessions'[i].registrarID = sessions[i].registrarID
      BY <2>1, <2>6 DEF get_registrar_id, TypeOK, Session
    <3>2. QED
      BY <2>1, <3>1, ShrinkingKeepsLimits
  <2>7. CASE Restart
    <3>1. DOMAIN sessions' = {}
      BY <2>7 DEF Restart
    <3>2. QED
      BY <2>1, <3>1, ShrinkingKeepsLimits
  <2>8. CASE Tick \/ UNCHANGED sessionVars
    <3>1. sessions' = sessions
      BY <2>8 DEF Tick, sessionVars
    <3>2. QED
      BY <2>1, <3>1, ShrinkingKeepsLimits
  <2>9. QED
    BY <2>3, <2>4, <2>5, <2>6, <2>7, <2>8 DEF Next
<1>3. QED
  BY <1>1, <1>2, InitEstablishes, NextPreserves, PTL DEF Spec

(* An admitted login leaves no session behind that had been silent longer  *)
(* than the timeout.                                                       *)
THEOREM AdmissionAlwaysCollects == Spec => AdmissionCollects
<1>1. TypeOK /\ [Next]_sessionVars =>
          [epp_login_id_seq' # epp_login_id_seq =>
               DOMAIN sessions' \cap Expired = {}]_sessionVars
  <2> SUFFICES ASSUME TypeOK, Next, epp_login_id_seq' # epp_login_id_seq
               PROVE  DOMAIN sessions' \cap Expired = {}
    BY DEF sessionVars
  <2>1. PICK r \in Registrars, lang \in Languages : login_session_admitted(r, lang)
    BY DEF Next, login_session, login_session_refused, login_session_throws, logout_session,
           destroy_all_registrar_sessions, get_registrar_id, Restart, Tick
  <2>2. DOMAIN sessions' = (DOMAIN sessions \ Expired) \cup {epp_login_id_seq + 1}
    BY <2>1 DEF login_session_admitted
  <2>3. epp_login_id_seq + 1 \notin Expired
    BY DEF TypeOK, Expired
  <2>4. QED
    BY <2>2, <2>3
<1>2. QED
  BY <1>1, TypeCorrect, PTL DEF Spec, AdmissionCollects

(* A login id is handed out once, restarts included.                       *)
THEOREM LoginIdsAreUsedOnce == Spec => LoginIdNeverReused
<1> DEFINE A == /\ epp_login_id_seq' >= epp_login_id_seq
                /\ \A id \in DOMAIN sessions' \ DOMAIN sessions : id > epp_login_id_seq
<1>1. TypeOK /\ [Next]_sessionVars => [A]_sessionVars
  <2> SUFFICES ASSUME TypeOK, Next
               PROVE  A
    BY DEF sessionVars
  <2>1. epp_login_id_seq \in Int
    BY DEF TypeOK
  <2>2. ASSUME NEW ids, logout_session_worker(ids), UNCHANGED epp_login_id_seq
        PROVE  A
    BY <2>1, <2>2 DEF logout_session_worker, SessionsWithout
  <2>3. ASSUME NEW r \in Registrars, NEW lang \in Languages, login_session(r, lang)
        PROVE  A
    <3>1. CASE login_session_refused(r)
      BY <2>2, <3>1 DEF login_session_refused
    <3>4. CASE login_session_throws(r)
      BY <2>2, <3>4 DEF login_session_throws
    <3>2. CASE login_session_admitted(r, lang)
      <4>1. DOMAIN sessions' = (DOMAIN sessions \ Expired) \cup {epp_login_id_seq + 1}
        BY <3>2 DEF login_session_admitted
      <4>2. epp_login_id_seq' = epp_login_id_seq + 1
        BY <3>2 DEF login_session_admitted
      <4>3. QED
        BY <2>1, <4>1, <4>2
    <3>3. QED
      BY <2>3, <3>1, <3>2, <3>4 DEF login_session
  <2>4. CASE \E id \in 1..epp_login_id_seq : logout_session(id)
    BY <2>2, <2>4 DEF logout_session
  <2>5. CASE \E r \in Registrars : destroy_all_registrar_sessions(r)
    BY <2>2, <2>5 DEF destroy_all_registrar_sessions
  <2>6. CASE \E id \in 1..epp_login_id_seq : get_registrar_id(id)
    BY <2>1, <2>6 DEF get_registrar_id
  <2>7. CASE Restart
    BY <2>1, <2>7 DEF Restart
  <2>8. CASE Tick
    BY <2>1, <2>8 DEF Tick
  <2>9. QED
    BY <2>3, <2>4, <2>5, <2>6, <2>7, <2>8 DEF Next
<1>2. QED
  BY <1>1, TypeCorrect, PTL DEF Spec, LoginIdNeverReused

-----------------------------------------------------------------------------
(* Logins around the container.                                            *)

LEMMA LoginInitImplementsInit == LoginInit => Init
  BY DEF LoginInit

(* One step of the composed system is a step of the container or leaves it *)
(* alone.  LoginNeedsType: a thread inside LoginSession works for a        *)
(* registrar that exists.                                                  *)
LoginNeedsType ==
    \A t \in Threads : thread[t].pc # "idle" => thread[t].registrar \in Registrars

ThreadShape ==
    /\ thread \in [Threads -> [pc : {"idle", "checked", "authenticated", "answered"},
                               registrar : Registrars \cup {0},
                               passwd : Passwords \cup {NoPassword},
                               newpass : Passwords \cup {NoPassword},
                               code : {"none", "COMMAND_OK", "COMMAND_MAX_SESSION_LIMIT"},
                               clientID : Nat]]
    /\ LoginNeedsType

LEMMA LoginNextImplementsNext ==
    ASSUME ThreadShape, LoginNext
    PROVE  Next \/ UNCHANGED sessionVars
<1>1. CASE \E t \in Threads, r \in Registrars, p \in Passwords,
              n \in Passwords \cup {NoPassword} : LoginStart(t, r, p, n)
  BY <1>1 DEF LoginStart
<1>2. CASE \E t \in Threads : Authenticate(t) \/ LoginEnd(t) \/ LoginFails(t)
  BY <1>2 DEF Authenticate, LoginEnd, LoginFails
<1>3. ASSUME NEW t \in Threads, NEW lang \in Languages, LoginSession(t, lang)
      PROVE  Next
  <2>1. thread[t].registrar \in Registrars
    BY <1>3 DEF LoginSession, ThreadShape, LoginNeedsType
  <2>2. login_session(thread[t].registrar, lang)
    BY <1>3 DEF LoginSession, login_session
  <2>3. QED
    BY <2>1, <2>2 DEF Next
<1>4. CASE BlockStep
  BY <1>4 DEF BlockStep
<1>5. CASE \E r \in Registrars : destroyAllRegistrarSessions(r) \/ EvictionFails(r)
  BY <1>5 DEF destroyAllRegistrarSessions, EvictionFails, Next
<1>6. CASE ClientCall
  BY <1>6 DEF ClientCall, Next
<1>7. CASE RifdRestart
  BY <1>7 DEF RifdRestart, Next
<1>8. CASE TimePasses
  BY <1>8 DEF TimePasses, Next
<1>9. QED
  BY <1>1, <1>2, <1>3, <1>4, <1>5, <1>6, <1>7, <1>8 DEF LoginNext

(* The shape of the threads' records is kept by every step.                *)
LEMMA ThreadShapePreserved ==
    ASSUME ThreadShape, TypeOK, [LoginNext]_loginVars
    PROVE  ThreadShape'
<1> USE DEF ThreadShape, LoginNeedsType
<1>1. ASSUME NEW t \in Threads, NEW r \in Registrars, NEW p \in Passwords,
             NEW n \in Passwords \cup {NoPassword}, LoginStart(t, r, p, n)
      PROVE  ThreadShape'
  BY <1>1 DEF LoginStart
<1>2. ASSUME NEW t \in Threads, Authenticate(t) \/ LoginEnd(t) \/ LoginFails(t)
      PROVE  ThreadShape'
  BY <1>2 DEF Authenticate, LoginEnd, LoginFails, IdleThread
<1>3. ASSUME NEW t \in Threads, NEW lang \in Languages, LoginSession(t, lang)
      PROVE  ThreadShape'
  <2>1. epp_login_id_seq \in Nat
    BY DEF TypeOK
  <2>2. CASE login_session_admitted(thread[t].registrar, lang) /\
             thread' = [thread EXCEPT ![t].pc = "answered",
                                      ![t].code = "COMMAND_OK",
                                      ![t].clientID = epp_login_id_seq']
    <3>1. epp_login_id_seq' \in Nat
      BY <2>1, <2>2 DEF login_session_admitted
    <3>2. QED
      BY <1>3, <2>2, <3>1 DEF LoginSession
  <2>3. CASE thread' = [thread EXCEPT ![t].pc = "answered",
                                      ![t].code = "COMMAND_MAX_SESSION_LIMIT"]
    BY <1>3, <2>3 DEF LoginSession
  <2>4. CASE thread' = [thread EXCEPT ![t] = IdleThread]
    BY <1>3, <2>4 DEF LoginSession, IdleThread
  <2>5. QED
    BY <1>3, <2>2, <2>3, <2>4 DEF LoginSession
<1>4. CASE BlockStep
  BY <1>4 DEF BlockStep
<1>5. CASE \E r \in Registrars : destroyAllRegistrarSessions(r) \/ EvictionFails(r)
  BY <1>5 DEF destroyAllRegistrarSessions, EvictionFails
<1>6. CASE ClientCall
  BY <1>6 DEF ClientCall
<1>7. CASE RifdRestart
  BY <1>7 DEF RifdRestart, IdleThread
<1>8. CASE TimePasses
  BY <1>8 DEF TimePasses
<1>9. CASE UNCHANGED loginVars
  BY <1>9 DEF loginVars
<1>10. QED
  BY <1>1, <1>2, <1>3, <1>4, <1>5, <1>6, <1>7, <1>8, <1>9 DEF LoginNext

LEMMA ThreadShapeInitially == LoginInit => ThreadShape
  BY DEF LoginInit, ThreadShape, LoginNeedsType, IdleThread

LEMMA StepIsContainerStep ==
    ThreadShape /\ [LoginNext]_loginVars => [Next]_sessionVars
<1>1. UNCHANGED loginVars => UNCHANGED sessionVars
  BY DEF loginVars
<1>2. QED
  BY <1>1, LoginNextImplementsNext

LEMMA InvariantsTogether ==
    IInv /\ ThreadShape /\ [LoginNext]_loginVars => IInv' /\ ThreadShape'
<1>1. IInv => TypeOK
  BY DEF IInv
<1>2. QED
  BY <1>1, StepIsContainerStep, NextPreserves, ThreadShapePreserved

(* Every step of the composed login system is one of the container's, so   *)
(* what holds of the container holds of it.                                *)
LEMMA LoginImplementsContainer == LoginSpec => Spec
<1>1. LoginInit => IInv
  BY LoginInitImplementsInit, InitEstablishes
<1>2. QED
  BY <1>1, LoginInitImplementsInit, ThreadShapeInitially, InvariantsTogether,
     StepIsContainerStep, PTL
     DEF LoginSpec, Spec

(* Hence concurrent logins never exceed the limits, the counter stays      *)
(* exact and the internal errors stay unreachable.                         *)
THEOREM ConcurrentLoginsRespectLimits ==
    LoginSpec => [](CountConsistent /\ LimitsRespected /\ ThrowsUnreachable)
  BY LoginImplementsContainer, CountCorrect, LimitsHold, ThrowsAreUnreachable, PTL

(* A login is refused only while live sessions fill a limit: what          *)
(* login_session compares is the table without the expired sessions and a  *)
(* counter that is exact, so neither a session nobody holds nor a count    *)
(* left behind keeps a registrar out beyond the timeout.                   *)
LiveFill(r) ==
    LET live == {id \in DOMAIN sessions :
                    clock - sessions[id].timestamp <= session_timeout_sec}
    IN  \/ Cardinality(live) >= max_total_sessions
        \/ Cardinality(OfRegistrar(live, r)) >= max_reg_sessions

LEMMA RefusedByLive ==
    ASSUME IInv, NEW r \in Registrars, LimitReached(r)
    PROVE  LiveFill(r)
<1>1. TypeOK /\ CountConsistent
  BY DEF IInv
<1> DEFINE live == {id \in DOMAIN sessions :
                       clock - sessions[id].timestamp <= session_timeout_sec}
<1>2. live = DOMAIN sessions \ Expired
  <2>1. \A id \in DOMAIN sessions : sessions[id].timestamp \in Nat
    BY <1>1 DEF TypeOK, Session
  <2>2. clock \in Nat
    BY <1>1 DEF TypeOK
  <2>3. QED
    BY <2>1, <2>2, SessionAssumption DEF Expired
<1>3. DOMAIN SessionsWithout(Expired) = live
  BY <1>1, <1>2, WithoutType, ExpiredAreSessions
<1>4. CountWithout(Expired)[r] = Cardinality(OfRegistrar(live, r))
  <2>1. registrar_session_count[r] = Cardinality(OfRegistrar(DOMAIN sessions, r))
    BY <1>1 DEF CountConsistent
  <2>2. CountWithout(Expired)[r]
            = registrar_session_count[r] - Cardinality(OfRegistrar(Expired, r))
    BY DEF CountWithout
  <2>3. Cardinality(OfRegistrar(live, r))
            = Cardinality(OfRegistrar(DOMAIN sessions, r))
                  - Cardinality(OfRegistrar(Expired, r))
    BY <1>1, <1>2, CardinalityWithout, ExpiredAreSessions
  <2>4. QED
    BY <2>1, <2>2, <2>3
<1>5. QED
  BY <1>3, <1>4 DEF LimitReached, LiveFill

(* A login has no result code before login_session has answered.           *)
RefusalInv == \A t \in Threads : thread[t].pc # "answered" => thread[t].code = "none"

LEMMA RefusalInvPreserved ==
    ASSUME ThreadShape, RefusalInv, [LoginNext]_loginVars
    PROVE  RefusalInv'
<1> USE DEF RefusalInv
<1>1. CASE \E t \in Threads, r \in Registrars, p \in Passwords,
              n \in Passwords \cup {NoPassword} : LoginStart(t, r, p, n)
  BY <1>1 DEF LoginStart, ThreadShape
<1>2. CASE \E t \in Threads : Authenticate(t) \/ LoginEnd(t) \/ LoginFails(t)
  BY <1>2 DEF Authenticate, LoginEnd, LoginFails, IdleThread, ThreadShape
<1>3. CASE \E t \in Threads, lang \in Languages : LoginSession(t, lang)
  BY <1>3 DEF LoginSession, IdleThread, ThreadShape
<1>4. CASE RifdRestart
  BY <1>4 DEF RifdRestart, IdleThread
<1>5. CASE \/ BlockStep \/ ClientCall \/ TimePasses \/ UNCHANGED loginVars
           \/ \E r \in Registrars : destroyAllRegistrarSessions(r) \/ EvictionFails(r)
  BY <1>5 DEF BlockStep, ClientCall, TimePasses, loginVars,
     destroyAllRegistrarSessions, EvictionFails
<1>6. QED
  BY <1>1, <1>2, <1>3, <1>4, <1>5 DEF LoginNext

THEOREM RefusalsFindLiveSessions == LoginSpec => RefusalsAreByLiveSessions
<1> DEFINE A == \A t \in Threads :
                   /\ thread[t].pc = "authenticated"
                   /\ thread'[t].code = "COMMAND_MAX_SESSION_LIMIT"
                   => LiveFill(thread[t].registrar)
<1>1. ASSUME IInv, ThreadShape, RefusalInv, LoginNext PROVE A
  <2>1. SUFFICES ASSUME NEW t \in Threads, thread[t].pc = "authenticated",
                        thread'[t].code = "COMMAND_MAX_SESSION_LIMIT"
                 PROVE  LiveFill(thread[t].registrar)
    OBVIOUS
  <2>2. thread[t].registrar \in Registrars /\ thread[t].code = "none"
    BY <1>1, <2>1 DEF ThreadShape, LoginNeedsType, RefusalInv
  <2>3. LimitReached(thread[t].registrar)
    <3>1. CASE \E lang \in Languages : LoginSession(t, lang)
      BY <1>1, <2>1, <2>2, <3>1 DEF LoginSession, login_session_refused, ThreadShape, IdleThread
    <3>2. CASE \E u \in Threads \ {t}, lang \in Languages : LoginSession(u, lang)
      BY <1>1, <2>1, <2>2, <3>2 DEF LoginSession, ThreadShape, IdleThread
    <3>3. CASE \/ \E u \in Threads : Authenticate(u) \/ LoginEnd(u) \/ LoginFails(u)
               \/ \E u \in Threads, r \in Registrars, p \in Passwords,
                     n \in Passwords \cup {NoPassword} : LoginStart(u, r, p, n)
      BY <1>1, <2>1, <2>2, <3>3
         DEF Authenticate, LoginEnd, LoginFails, LoginStart, ThreadShape, IdleThread
    <3>4. CASE RifdRestart
      BY <2>1, <3>4 DEF RifdRestart, IdleThread
    <3>5. CASE \/ BlockStep \/ ClientCall \/ TimePasses
               \/ \E r \in Registrars : destroyAllRegistrarSessions(r) \/ EvictionFails(r)
      BY <2>1, <2>2, <3>5 DEF BlockStep, ClientCall, TimePasses,
         destroyAllRegistrarSessions, EvictionFails
    <3>6. QED
      BY <1>1, <3>1, <3>2, <3>3, <3>4, <3>5 DEF LoginNext
  <2>4. QED
    BY <1>1, <2>2, <2>3, RefusedByLive
<1>2. IInv /\ ThreadShape /\ RefusalInv /\ [LoginNext]_loginVars => [A]_loginVars
  BY <1>1
<1>3. LoginInit => IInv /\ ThreadShape /\ RefusalInv
  <2>1. LoginInit => RefusalInv
    BY DEF LoginInit, IdleThread, RefusalInv
  <2>2. QED
    BY <2>1, LoginInitImplementsInit, InitEstablishes, ThreadShapeInitially
<1>4. IInv /\ ThreadShape /\ RefusalInv /\ [LoginNext]_loginVars
          => IInv' /\ ThreadShape' /\ RefusalInv'
  BY InvariantsTogether, RefusalInvPreserved
<1>5. QED
  BY <1>2, <1>3, <1>4, PTL DEF LoginSpec, RefusalsAreByLiveSessions, LiveFill

-----------------------------------------------------------------------------
(* Registrars that were shut out.  The eviction alone does not keep them   *)
(* out: a login under way could still open a session.  So the invariant    *)
(* also says that none is under way, and that the registrar is blocked,    *)
(* which keeps new ones from starting.                                     *)
NoLoginUnderWay(r) ==
    \A t \in Threads : thread[t].pc # "idle" => thread[t].registrar # r

NoSession(r) == \A id \in DOMAIN sessions : sessions[id].registrarID # r

ShutOutInv ==
    \A r \in shutOut : r \in blocked /\ NoLoginUnderWay(r) /\ NoSession(r)

(* Steps that only remove or refresh sessions open none.                   *)
LEMMA RemovalOpensNoSession ==
    ASSUME NEW r, NEW ids, NoSession(r), logout_session_worker(ids)
    PROVE  NoSession(r)'
  BY DEF NoSession, logout_session_worker, SessionsWithout

LEMMA ShutOutPreserved ==
    ASSUME TypeOK, ThreadShape, ShutOutInv, [LoginNext]_loginVars
    PROVE  ShutOutInv'
<1> USE DEF ShutOutInv
<1>1. CASE \E t \in Threads, r \in Registrars, p \in Passwords,
              n \in Passwords \cup {NoPassword} : LoginStart(t, r, p, n)
  <2>1. PICK t \in Threads, r \in Registrars, p \in Passwords,
             n \in Passwords \cup {NoPassword} : LoginStart(t, r, p, n)
    BY <1>1
  <2>2. r \notin shutOut
    BY <2>1 DEF LoginStart
  <2>3. UNCHANGED <<sessions, blocked, shutOut>>
    BY <2>1 DEF LoginStart, sessionVars, blockingVars
  <2>4. thread'[t].registrar = r /\ \A u \in Threads \ {t} : thread'[u] = thread[u]
    BY <2>1 DEF LoginStart, ThreadShape
  <2>5. QED
    BY <2>2, <2>3, <2>4 DEF NoLoginUnderWay, NoSession
<1>2. CASE \E t \in Threads : Authenticate(t) \/ LoginEnd(t) \/ LoginFails(t)
  <2>1. PICK t \in Threads : Authenticate(t) \/ LoginEnd(t) \/ LoginFails(t)
    BY <1>2
  <2>2. UNCHANGED <<sessions, blocked, shutOut>>
    BY <2>1 DEF Authenticate, LoginEnd, LoginFails, sessionVars, blockingVars
  <2>3. /\ \/ thread'[t].pc = "idle"
           \/ /\ thread[t].pc # "idle"
              /\ thread'[t].registrar = thread[t].registrar
        /\ \A u \in Threads \ {t} : thread'[u] = thread[u]
    BY <2>1 DEF Authenticate, LoginEnd, LoginFails, IdleThread, ThreadShape
  <2>4. QED
    BY <2>2, <2>3 DEF NoLoginUnderWay, NoSession
<1>3. CASE \E t \in Threads, lang \in Languages : LoginSession(t, lang)
  <2>1. PICK t \in Threads, lang \in Languages : LoginSession(t, lang)
    BY <1>3
  <2>2. UNCHANGED <<blocked, shutOut>>
    BY <2>1 DEF LoginSession, blockingVars
  <2>3. /\ thread[t].pc = "authenticated"
        /\ thread'[t].registrar = thread[t].registrar \/ thread'[t].pc = "idle"
        /\ \A u \in Threads \ {t} : thread'[u] = thread[u]
    BY <2>1 DEF LoginSession, ThreadShape, IdleThread
  <2>4. ASSUME NEW r \in shutOut
        PROVE  NoSession(r)'
    <3>1. thread[t].registrar # r /\ NoSession(r)
      BY <2>3 DEF NoLoginUnderWay
    <3>2. CASE login_session_admitted(thread[t].registrar, lang)
      BY <3>1, <3>2 DEF login_session_admitted, NewSession, NoSession
    <3>3. CASE login_session_refused(thread[t].registrar)
      BY <3>1, <3>3, RemovalOpensNoSession DEF login_session_refused
    <3>4. CASE login_session_throws(thread[t].registrar)
      BY <3>1, <3>4, RemovalOpensNoSession DEF login_session_throws
    <3>5. QED
      BY <2>1, <3>2, <3>3, <3>4 DEF LoginSession
  <2>5. QED
    BY <2>2, <2>3, <2>4 DEF NoLoginUnderWay
<1>4. CASE BlockStep
  <2>1. UNCHANGED <<sessions, thread>> /\ shutOut' = shutOut \cap blocked'
    BY <1>4 DEF BlockStep, sessionVars
  <2>2. QED
    BY <2>1 DEF NoLoginUnderWay, NoSession
<1>5. CASE \E r \in Registrars : destroyAllRegistrarSessions(r)
  <2>1. PICK r \in Registrars : destroyAllRegistrarSessions(r)
    BY <1>5
  <2>2. UNCHANGED <<blocked, thread>>
    BY <2>1 DEF destroyAllRegistrarSessions, Evict
  <2>3. logout_session_worker(OfRegistrar(DOMAIN sessions, r))
    BY <2>1 DEF destroyAllRegistrarSessions, destroy_all_registrar_sessions
  <2>4. NoSession(r)'
    BY <2>3 DEF NoSession, logout_session_worker, SessionsWithout, OfRegistrar
  <2>5. ASSUME NEW q \in shutOut'
        PROVE  q \in blocked /\ NoLoginUnderWay(q) /\ NoSession(q)'
    <3>1. CASE q \in shutOut
      BY <2>3, <3>1, RemovalOpensNoSession
    <3>2. CASE q \notin shutOut
      <4>1. q = r /\ r \in blocked /\ ~ \E t \in Threads : thread[t].registrar = r
        BY <2>1, <3>2 DEF destroyAllRegistrarSessions
      <4>2. QED
        BY <2>4, <4>1 DEF NoLoginUnderWay
    <3>3. QED
      BY <3>1, <3>2
  <2>6. QED
    BY <2>2, <2>5 DEF NoLoginUnderWay
<1>6. CASE \E r \in Registrars : EvictionFails(r)
  <2>1. UNCHANGED <<sessions, blocked, shutOut, thread>>
    BY <1>6 DEF EvictionFails, Evict, sessionVars
  <2>2. QED
    BY <2>1 DEF NoLoginUnderWay, NoSession
<1>7. CASE ClientCall
  <2>1. UNCHANGED <<blocked, shutOut, thread>>
    BY <1>7 DEF ClientCall, blockingVars
  <2>2. ASSUME NEW id, get_registrar_id(id), NEW r \in shutOut
        PROVE  NoSession(r)'
    BY <2>2 DEF get_registrar_id, NoSession, TypeOK, Session
  <2>3. ASSUME NEW id, logout_session(id), NEW r \in shutOut
        PROVE  NoSession(r)'
    BY <2>3, RemovalOpensNoSession DEF logout_session
  <2>4. QED
    BY <1>7, <2>1, <2>2, <2>3 DEF ClientCall, NoLoginUnderWay
<1>8. CASE RifdRestart
  <2>1. UNCHANGED <<blocked, shutOut>>
    BY <1>8 DEF RifdRestart, blockingVars
  <2>2. \A r : NoSession(r)'
    BY <1>8 DEF RifdRestart, Restart, NoSession
  <2>3. \A r : NoLoginUnderWay(r)'
    BY <1>8 DEF RifdRestart, IdleThread, NoLoginUnderWay
  <2>4. QED
    BY <2>1, <2>2, <2>3
<1>9. CASE TimePasses \/ UNCHANGED loginVars
  <2>1. UNCHANGED <<sessions, blocked, shutOut, thread>>
    BY <1>9 DEF TimePasses, Tick, loginVars, sessionVars, blockingVars
  <2>2. QED
    BY <2>1 DEF NoLoginUnderWay, NoSession
<1>10. QED
  BY <1>1, <1>2, <1>3, <1>4, <1>5, <1>6, <1>7, <1>8, <1>9 DEF LoginNext

(* A blocked registrar whose eviction met no login under way stays without *)
(* a session until it is unblocked, however many logins it attempts.       *)
THEOREM ShutOutStaysOut == LoginSpec => []ShutOutRegistrarsHaveNoSession
<1>1. LoginInit => IInv /\ ThreadShape /\ ShutOutInv
  <2>1. LoginInit => ShutOutInv
    BY DEF LoginInit, ShutOutInv
  <2>2. QED
    BY <2>1, LoginInitImplementsInit, InitEstablishes, ThreadShapeInitially
<1>2. IInv /\ ThreadShape /\ ShutOutInv /\ [LoginNext]_loginVars
          => IInv' /\ ThreadShape' /\ ShutOutInv'
  <2>1. IInv => TypeOK
    BY DEF IInv
  <2>2. QED
    BY <2>1, InvariantsTogether, ShutOutPreserved
<1>3. ShutOutInv => ShutOutRegistrarsHaveNoSession
  BY DEF ShutOutInv, NoSession, ShutOutRegistrarsHaveNoSession, OfRegistrar
<1>4. QED
  BY <1>1, <1>2, <1>3, PTL DEF LoginSpec

-----------------------------------------------------------------------------
(* The password a login was checked against.  That it is still the         *)
(* committed one when the session opens rests on the row lock: no two      *)
(* logins of a registrar are past Authenticate, so none can commit another *)
(* password in between.                                                    *)
RowLockExclusive ==
    \A r \in Registrars, t, u \in Threads : LocksAcl(t, r) /\ LocksAcl(u, r) => t = u

AclShape == registraracl \in [Registrars -> [password : Passwords, preferred : BOOLEAN]]

PasswordInv ==
    /\ AclShape
    /\ RowLockExclusive
    /\ \A t \in Threads : thread[t].pc # "idle" => thread[t].passwd \in Passwords
    /\ \A t \in Threads : thread[t].pc = "authenticated" =>
           thread[t].passwd = registraracl[thread[t].registrar].password

LEMMA PasswordInitially == LoginInit => PasswordInv
<1> SUFFICES ASSUME LoginInit PROVE PasswordInv
  OBVIOUS
<1>1. AclShape
  <2>1. registraracl \in [Registrars -> [password : Passwords, preferred : {FALSE}]]
    BY DEF LoginInit
  <2>2. [password : Passwords, preferred : {FALSE}]
            \subseteq [password : Passwords, preferred : BOOLEAN]
    OBVIOUS
  <2>3. QED
    BY <2>1, <2>2 DEF AclShape
<1>2. \A t \in Threads : thread[t].pc = "idle"
  BY DEF LoginInit, IdleThread
<1>3. QED
  BY <1>1, <1>2 DEF PasswordInv, RowLockExclusive, LocksAcl

LEMMA PasswordPreserved ==
    ASSUME TypeOK, ThreadShape, PasswordInv, [LoginNext]_loginVars
    PROVE  PasswordInv'
<1> USE DEF PasswordInv, RowLockExclusive, LocksAcl
<1>1. ASSUME NEW t \in Threads, NEW r \in Registrars, NEW p \in Passwords,
             NEW n \in Passwords \cup {NoPassword}, LoginStart(t, r, p, n)
      PROVE  PasswordInv'
  <2>1. /\ thread'[t].pc = "checked" /\ thread'[t].passwd = p
        /\ \A u \in Threads \ {t} : thread'[u] = thread[u]
        /\ UNCHANGED registraracl
    BY <1>1 DEF LoginStart, ThreadShape
  <2>2. QED
    BY <2>1 DEF AclShape
<1>2. ASSUME NEW t \in Threads, Authenticate(t)
      PROVE  PasswordInv'
  <2>1. /\ \A u \in Threads \ {t} : thread'[u] = thread[u]
        /\ UNCHANGED registraracl
        /\ thread[t].pc = "checked"
        /\ \A u \in Threads \ {t} : ~LocksAcl(u, thread[t].registrar)
        /\ \/ /\ thread'[t].pc = "authenticated"
              /\ thread'[t].passwd = thread[t].passwd
              /\ thread'[t].registrar = thread[t].registrar
              /\ thread[t].passwd = registraracl[thread[t].registrar].password
           \/ thread'[t].pc = "idle"
    BY <1>2 DEF Authenticate, IdleThread, ThreadShape
  <2>2. QED
    BY <2>1 DEF AclShape
<1>3. ASSUME NEW t \in Threads, NEW lang \in Languages, LoginSession(t, lang)
      PROVE  PasswordInv'
  <2>1. /\ \A u \in Threads \ {t} : thread'[u] = thread[u]
        /\ UNCHANGED registraracl
        /\ thread[t].pc = "authenticated"
        /\ \/ /\ thread'[t].pc = "answered"
              /\ thread'[t].passwd = thread[t].passwd
              /\ thread'[t].registrar = thread[t].registrar
           \/ thread'[t].pc = "idle"
    BY <1>3 DEF LoginSession, ThreadShape, IdleThread
  <2>2. QED
    BY <2>1 DEF AclShape
<1>4. ASSUME NEW t \in Threads, LoginEnd(t)
      PROVE  PasswordInv'
  <2>1. /\ \A u \in Threads \ {t} : thread'[u] = thread[u]
        /\ thread[t].pc = "answered" /\ thread'[t].pc = "idle"
        /\ thread[t].registrar \in Registrars
        /\ registraracl' = registraracl \/
             registraracl' = [registraracl EXCEPT ![thread[t].registrar] = AclAfter(t)]
    BY <1>4 DEF LoginEnd, IdleThread, ThreadShape, LoginNeedsType
  <2>2. AclAfter(t) \in [password : Passwords, preferred : BOOLEAN]
    <3>1. thread[t].passwd \in Passwords /\ thread[t].newpass \in Passwords \cup {NoPassword}
      BY <2>1 DEF ThreadShape
    <3>2. QED
      BY <3>1 DEF AclAfter
  <2>3. AclShape'
    BY <2>1, <2>2 DEF AclShape
  <2>4. ASSUME NEW u \in Threads, thread'[u].pc = "authenticated"
        PROVE  thread'[u].passwd = registraracl'[thread'[u].registrar].password
    <3>1. u # t /\ thread'[u] = thread[u] /\ thread[u].registrar \in Registrars
      BY <2>1, <2>4 DEF ThreadShape, LoginNeedsType
    <3>2. thread[u].registrar # thread[t].registrar
      BY <2>1, <2>4, <3>1
    <3>3. registraracl'[thread[u].registrar] = registraracl[thread[u].registrar]
      BY <2>1, <3>1, <3>2 DEF AclShape
    <3>4. QED
      BY <2>4, <3>1, <3>3
  <2>5. RowLockExclusive'
    BY <2>1
  <2>6. \A u \in Threads : thread'[u].pc # "idle" => thread'[u].passwd \in Passwords
    BY <2>1
  <2>7. QED
    BY <2>3, <2>4, <2>5, <2>6
<1>5. ASSUME NEW t \in Threads, LoginFails(t)
      PROVE  PasswordInv'
  <2>1. /\ \A u \in Threads \ {t} : thread'[u] = thread[u]
        /\ UNCHANGED registraracl /\ thread'[t].pc = "idle"
    BY <1>5 DEF LoginFails, IdleThread, ThreadShape
  <2>2. QED
    BY <2>1 DEF AclShape
<1>6. CASE RifdRestart
  <2>1. UNCHANGED registraracl /\ \A u \in Threads : thread'[u].pc = "idle"
    BY <1>6 DEF RifdRestart, IdleThread
  <2>2. QED
    BY <2>1 DEF AclShape
<1>7. CASE \/ BlockStep \/ ClientCall \/ TimePasses \/ UNCHANGED loginVars
           \/ \E r \in Registrars : destroyAllRegistrarSessions(r) \/ EvictionFails(r)
  <2>1. UNCHANGED <<thread, registraracl>>
    BY <1>7 DEF BlockStep, ClientCall, TimePasses, loginVars,
       destroyAllRegistrarSessions, EvictionFails
  <2>2. QED
    BY <2>1 DEF AclShape
<1>8. QED
  BY <1>1, <1>2, <1>3, <1>4, <1>5, <1>6, <1>7 DEF LoginNext

LEMMA PasswordInvHolds == LoginSpec => [](IInv /\ ThreadShape /\ PasswordInv)
<1>1. LoginInit => IInv /\ ThreadShape /\ PasswordInv
  BY LoginInitImplementsInit, InitEstablishes, ThreadShapeInitially, PasswordInitially
<1>2. IInv /\ ThreadShape /\ PasswordInv /\ [LoginNext]_loginVars
          => IInv' /\ ThreadShape' /\ PasswordInv'
  <2>1. IInv => TypeOK
    BY DEF IInv
  <2>2. QED
    BY <2>1, InvariantsTogether, PasswordPreserved
<1>3. QED
  BY <1>1, <1>2, PTL DEF LoginSpec

(* Only login_session opens sessions, under the id it hands to its thread. *)
LEMMA OnlyLoginsOpenSessions ==
    ASSUME TypeOK, ThreadShape, LoginNext,
           NEW id \in DOMAIN sessions' \ DOMAIN sessions
    PROVE  \E t \in Threads : /\ thread[t].pc = "authenticated"
                              /\ thread'[t].clientID = id
                              /\ sessions'[id].registrarID = thread[t].registrar
<1>1. ASSUME NEW t \in Threads, NEW lang \in Languages, LoginSession(t, lang)
      PROVE  /\ thread[t].pc = "authenticated"
             /\ thread'[t].clientID = id
             /\ sessions'[id].registrarID = thread[t].registrar
  <2>1. /\ ~login_session_refused(thread[t].registrar)
        /\ ~login_session_throws(thread[t].registrar)
    BY DEF login_session_refused, login_session_throws, logout_session_worker,
           SessionsWithout
  <2>2. /\ login_session_admitted(thread[t].registrar, lang)
        /\ thread'[t].clientID = epp_login_id_seq'
        /\ thread[t].pc = "authenticated"
    BY <1>1, <2>1 DEF LoginSession, ThreadShape
  <2>3. id = epp_login_id_seq'
    BY <2>2 DEF login_session_admitted
  <2>4. sessions'[id] = NewSession(thread[t].registrar, lang)
    BY <2>2, <2>3 DEF login_session_admitted
  <2>5. QED
    BY <2>2, <2>3, <2>4 DEF NewSession
<1>2. CASE \/ BlockStep
           \/ \E t \in Threads, r \in Registrars, p \in Passwords,
                 n \in Passwords \cup {NoPassword} : LoginStart(t, r, p, n)
           \/ \E t \in Threads : Authenticate(t) \/ LoginEnd(t) \/ LoginFails(t)
           \/ \E r \in Registrars : EvictionFails(r)
           \/ TimePasses
  <2>1. UNCHANGED sessions
    BY <1>2 DEF BlockStep, LoginStart, Authenticate, LoginEnd, LoginFails, EvictionFails,
       TimePasses, Tick, sessionVars
  <2>2. QED
    BY <2>1
<1>3. CASE \/ ClientCall \/ RifdRestart
           \/ \E r \in Registrars : destroyAllRegistrarSessions(r)
  <2>1. DOMAIN sessions' \subseteq DOMAIN sessions
    BY <1>3 DEF ClientCall, RifdRestart, Restart, destroyAllRegistrarSessions,
       destroy_all_registrar_sessions, get_registrar_id, logout_session,
       logout_session_worker, SessionsWithout
  <2>2. QED
    BY <2>1
<1>4. QED
  BY <1>1, <1>2, <1>3 DEF LoginNext

(* A session opens only for the password that is committed at that moment, *)
(* whatever other logins of the registrar change, because ClientLogin      *)
(* holds the registraracl row from its check to its commit.                *)
THEOREM PasswordIsCurrent == LoginSpec => SessionsOpenWithCurrentPassword
<1> DEFINE A == \A id \in DOMAIN sessions' \ DOMAIN sessions :
                   \E t \in Threads :
                       /\ thread'[t].clientID = id
                       /\ thread[t].passwd = registraracl[sessions'[id].registrarID].password
<1>1. ASSUME IInv, ThreadShape, PasswordInv, LoginNext PROVE A
  <2>1. TypeOK
    BY <1>1 DEF IInv
  <2>2. SUFFICES ASSUME NEW id \in DOMAIN sessions' \ DOMAIN sessions
                 PROVE  \E t \in Threads :
                          /\ thread'[t].clientID = id
                          /\ thread[t].passwd = registraracl[sessions'[id].registrarID].password
    OBVIOUS
  <2>3. QED
    BY <1>1, <2>1, OnlyLoginsOpenSessions DEF PasswordInv
<1>2. IInv /\ ThreadShape /\ PasswordInv /\ [LoginNext]_loginVars => [A]_loginVars
  BY <1>1
<1>3. QED
  BY <1>2, PasswordInvHolds, PTL DEF LoginSpec, SessionsOpenWithCurrentPassword

(* At most one login of a registrar works on its registraracl row.         *)
THEOREM OneLoginHoldsTheRow == LoginSpec => []RowLockExclusive
<1>1. PasswordInv => RowLockExclusive
  BY DEF PasswordInv
<1>2. QED
  BY <1>1, PasswordInvHolds, PTL
=============================================================================

----------------------------- MODULE EppSession -----------------------------
(***************************************************************************)
(* EppSessionContainer: the in-memory table of EPP sessions that the rifd  *)
(* server keeps (src/src/bin/corba/epp/epp_session.cc).  Every public      *)
(* method holds session_mutex from its first to its last line, so one      *)
(* method call is one action.                                              *)
(*                                                                         *)
(* A session is created by login_session and ends by logout_session (an    *)
(* EPP logout, or the front end reporting a closed connection), by         *)
(* destroy_all_registrar_sessions, by the garbage collection at the start  *)
(* of a later login_session, or with the process.  Login ids come from the *)
(* database sequence epp_login_id_seq, which survives a restart of rifd.   *)
(*                                                                         *)
(* The two "internal error" throws of the code (a login id that is already *)
(* in use, a session whose registrar has session count 0) have no action   *)
(* here: ThrowsUnreachable states that their conditions never hold.        *)
(***************************************************************************)
EXTENDS Integers, FiniteSets

CONSTANTS
    Registrars,           \* registrar ids
    Languages,            \* what ClientLogin passes on as the language
    max_total_sessions,   \* rifd_session_max
    max_reg_sessions,     \* rifd_session_registrar_max
    session_timeout_sec,  \* rifd_session_timeout, in clock ticks
    MaxClock,             \* bound on the clock
    MaxLoginId            \* bound on the sequence epp_login_id_seq

ASSUME SessionAssumption ==
    /\ IsFiniteSet(Registrars)
    /\ max_total_sessions \in Nat
    /\ max_reg_sessions \in Nat
    /\ session_timeout_sec \in Nat
    /\ MaxClock \in Nat
    /\ MaxLoginId \in Nat

VARIABLES
    sessions,                 \* loginId -> [registrarID, language, timestamp]
    registrar_session_count,  \* registrar -> number of its sessions
    epp_login_id_seq,         \* the last login id the database handed out
    clock                     \* time(NULL)

sessionVars == <<sessions, registrar_session_count, epp_login_id_seq, clock>>

Session == [registrarID : Registrars, language : Languages, timestamp : Nat]

(* An entry missing from the C++ map registrar_session_count reads as 0.   *)
Init ==
    /\ sessions = [id \in {} |-> {}]
    /\ registrar_session_count = [r \in Registrars |-> 0]
    /\ epp_login_id_seq = 0
    /\ clock = 0

-----------------------------------------------------------------------------
(* The sessions of registrar r among the login ids in ids.                 *)
OfRegistrar(ids, r) == {id \in ids : sessions[id].registrarID = r}

(* logout_session_worker on every id of ids: the session is erased and its *)
(* registrar's count goes down by one.                                     *)
SessionsWithout(ids) == [id \in DOMAIN sessions \ ids |-> sessions[id]]

CountWithout(ids) ==
    [r \in Registrars |->
        registrar_session_count[r] - Cardinality(OfRegistrar(ids, r))]

logout_session_worker(ids) ==
    /\ sessions' = SessionsWithout(ids)
    /\ registrar_session_count' = CountWithout(ids)

(* The sessions garbage_session_internal erases: the comparison is strict, *)
(* a session exactly session_timeout_sec old stays.                        *)
Expired ==
    {id \in DOMAIN sessions :
        sessions[id].timestamp + session_timeout_sec < clock}

(* login_session: the limits are compared after the garbage collection.    *)
MutLimitReachedStale(r) ==
    \/ Cardinality(DOMAIN sessions) >= max_total_sessions
    \/ registrar_session_count[r] >= max_reg_sessions

MutLimitReachedOffByOne(r) ==
    \/ Cardinality(DOMAIN SessionsWithout(Expired)) > max_total_sessions
    \/ CountWithout(Expired)[r] > max_reg_sessions

LimitReached(r) ==
    \/ Cardinality(DOMAIN SessionsWithout(Expired)) >= max_total_sessions
    \/ CountWithout(Expired)[r] >= max_reg_sessions

(* login_session throws NumberSessionLimit; the garbage is gone anyway.    *)
login_session_refused(r) ==
    /\ LimitReached(r)
    /\ logout_session_worker(Expired)
    /\ UNCHANGED <<epp_login_id_seq, clock>>

(* nextval('epp_login_id_seq') fails: the exception leaves the garbage     *)
(* collected and opens no session.                                         *)
login_session_throws(r) ==
    /\ ~LimitReached(r)
    /\ logout_session_worker(Expired)
    /\ UNCHANGED <<epp_login_id_seq, clock>>

(* login_session returns a new login id.                                   *)
NewSession(r, lang) ==
    [registrarID |-> r, language |-> lang, timestamp |-> clock]

login_session_admitted(r, lang) ==
    /\ ~LimitReached(r)
    /\ epp_login_id_seq' = epp_login_id_seq + 1
    /\ sessions' =
           [id \in (DOMAIN sessions \ Expired) \cup {epp_login_id_seq'} |->
               IF id = epp_login_id_seq' THEN NewSession(r, lang) ELSE sessions[id]]
    /\ registrar_session_count' =
           [CountWithout(Expired) EXCEPT ![r] = CountWithout(Expired)[r] + 1]
    /\ UNCHANGED clock

(* An unknown login id is logged and ignored: logout is idempotent.        *)
logout_session(id) ==
    /\ logout_session_worker({id} \cap DOMAIN sessions)
    /\ UNCHANGED <<epp_login_id_seq, clock>>

MutDestroyAll(r) ==
    /\ sessions' = SessionsWithout(OfRegistrar(DOMAIN sessions, r))
    /\ UNCHANGED <<registrar_session_count, epp_login_id_seq, clock>>

destroy_all_registrar_sessions(r) ==
    /\ logout_session_worker(OfRegistrar(DOMAIN sessions, r))
    /\ UNCHANGED <<epp_login_id_seq, clock>>

(* Every EPP command asks for the registrar of its session, which counts   *)
(* as activity.  An expired session that no login has collected yet still  *)
(* answers, and is fresh again.                                            *)
get_registrar_id(id) ==
    /\ id \in DOMAIN sessions
    /\ sessions' = [sessions EXCEPT ![id].timestamp = clock]
    /\ UNCHANGED <<registrar_session_count, epp_login_id_seq, clock>>

(* rifd stops and starts again: only the database sequence survives.       *)
MutRestart ==
    /\ sessions' = [id \in {} |-> {}]
    /\ registrar_session_count' = [r \in Registrars |-> 0]
    /\ epp_login_id_seq' = 0
    /\ UNCHANGED clock

Restart ==
    /\ sessions' = [id \in {} |-> {}]
    /\ registrar_session_count' = [r \in Registrars |-> 0]
    /\ UNCHANGED <<epp_login_id_seq, clock>>

Tick ==
    /\ clock < MaxClock
    /\ clock' = clock + 1
    /\ UNCHANGED <<sessions, registrar_session_count, epp_login_id_seq>>

login_session(r, lang) ==
    \/ login_session_refused(r)
    \/ login_session_throws(r)
    \/ epp_login_id_seq < MaxLoginId /\ login_session_admitted(r, lang)

Next ==
    \/ \E r \in Registrars, lang \in Languages : login_session(r, lang)
    \/ \E id \in 1..epp_login_id_seq : logout_session(id)
    \/ \E r \in Registrars : destroy_all_registrar_sessions(r)
    \/ \E id \in 1..epp_login_id_seq : get_registrar_id(id)
    \/ Restart
    \/ Tick

Spec == Init /\ [][Next]_sessionVars

-----------------------------------------------------------------------------
(* Every variable has its type; the login ids in use are ids the sequence  *)
(* has handed out, and no session is stamped in the future.                *)
TypeOK ==
    /\ epp_login_id_seq \in Nat
    /\ clock \in Nat
    /\ DOMAIN sessions \subseteq 1..epp_login_id_seq
    /\ sessions \in [DOMAIN sessions -> Session]
    /\ \A id \in DOMAIN sessions : sessions[id].timestamp <= clock
    /\ registrar_session_count \in [Registrars -> Int]

(* registrar_session_count, which login_session trusts for its limit,      *)
(* equals the number of sessions the registrar really has, whatever mix of *)
(* logins, logouts, evictions and collections happened.                    *)
CountConsistent ==
    \A r \in Registrars :
        registrar_session_count[r] = Cardinality(OfRegistrar(DOMAIN sessions, r))

(* The configured limits are never exceeded.                               *)
LimitsRespected ==
    /\ Cardinality(DOMAIN sessions) <= max_total_sessions
    /\ \A r \in Registrars :
           Cardinality(OfRegistrar(DOMAIN sessions, r)) <= max_reg_sessions

(* The conditions of the two internal-error exceptions never hold: nextval *)
(* yields an unused id, and every session's registrar has a positive count *)
(* (so logout_session_worker never aborts half way through a collection).  *)
ThrowsUnreachable ==
    /\ epp_login_id_seq + 1 \notin DOMAIN sessions
    /\ \A id \in DOMAIN sessions :
           registrar_session_count[sessions[id].registrarID] > 0

-----------------------------------------------------------------------------
(* A session that has been silent longer than the timeout never survives   *)
(* another registrar's or its own registrar's successful login.            *)
AdmissionCollects ==
    [][epp_login_id_seq' # epp_login_id_seq =>
           DOMAIN sessions' \cap Expired = {}]_sessionVars

(* A login id, once its session has ended, is never the id of a session    *)
(* again, restarts included, so a client that kept an old id cannot end up *)
(* in another registrar's session: the sequence never goes back, and a     *)
(* session that a step opens has an id the sequence had not reached.       *)
LoginIdNeverReused ==
    [][/\ epp_login_id_seq' >= epp_login_id_seq
       /\ \A id \in DOMAIN sessions' \ DOMAIN sessions : id > epp_login_id_seq
      ]_sessionVars
=============================================================================

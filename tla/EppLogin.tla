------------------------------- MODULE EppLogin -------------------------------
(***************************************************************************)
(* EPP login: ccReg_EPP_i::ClientLogin (src/src/bin/corba/epp/epp_impl.cc),*)
(* the password record it authenticates against                            *)
(* (backend/epp/impl/registraracl/authentic_registrar.cc), the session     *)
(* container it opens the session in, and the blocking of registrars by    *)
(* another process (module BlockedRegistrars).                             *)
(*                                                                         *)
(* ClientLogin is one database transaction and one call into the container *)
(* in between.  The transaction is not the container's: it can roll back   *)
(* after the session exists.  Threads interleave at                        *)
(*     LoginStart       read registrar and registrar_disconnect            *)
(*     Authenticate     lock the registraracl row, check the password      *)
(*     LoginSession     login_session of the container                     *)
(*     LoginEnd         write the action record, commit or roll back       *)
(***************************************************************************)
EXTENDS EppSession

CONSTANTS
    Threads,     \* CORBA worker threads of rifd
    Passwords,
    NoPassword   \* an absent or empty new password

ASSUME LoginAssumption == NoPassword \notin Passwords

VARIABLES
    blocked,       \* registrars isRegistrarBlocked answers true for
    evicting,      \* registrars whose eviction call is due
    registraracl,  \* registrar -> [password, preferred]: the committed row
    thread,        \* the login each thread is working on
    shutOut        \* history: blocked registrars evicted with no login under way

INSTANCE BlockedRegistrars

blockingVars == <<blocked, evicting, shutOut>>

loginVars == <<sessionVars, blockingVars, registraracl, thread>>

IdleThread ==
    [pc |-> "idle", registrar |-> 0, passwd |-> NoPassword,
     newpass |-> NoPassword, code |-> "none", clientID |-> 0]

LoginInit ==
    /\ Init
    /\ BlockInit
    /\ shutOut = {}
    /\ registraracl \in [Registrars -> [password : Passwords, preferred : {FALSE}]]
    /\ thread = [t \in Threads |-> IdleThread]

-----------------------------------------------------------------------------
(* The row lock of SELECT ... FROM registraracl ... FOR UPDATE lasts until *)
(* the transaction ends.                                                   *)
LocksAcl(t, r) ==
    thread[t].registrar = r /\ thread[t].pc \in {"authenticated", "answered"}

(* A blocked registrar is turned away with COMMAND_AUTOR_ERROR.            *)
MutLoginStart(t, r, passwd, newpass) ==
    /\ thread[t].pc = "idle"
    /\ thread' = [thread EXCEPT ![t] =
           [pc |-> "checked", registrar |-> r, passwd |-> passwd,
            newpass |-> newpass, code |-> "none", clientID |-> 0]]
    /\ UNCHANGED <<sessionVars, blockingVars, registraracl>>

LoginStart(t, r, passwd, newpass) ==
    /\ thread[t].pc = "idle"
    /\ r \notin blocked
    /\ thread' = [thread EXCEPT ![t] =
           [pc |-> "checked", registrar |-> r, passwd |-> passwd,
            newpass |-> newpass, code |-> "none", clientID |-> 0]]
    /\ UNCHANGED <<sessionVars, blockingVars, registraracl>>

(* AuthenticRegistrar: COMMAND_AUTH_ERROR on a wrong password.             *)
MutAuthenticate(t) ==
    /\ thread[t].pc = "checked"
    /\ thread' =
           IF thread[t].passwd = registraracl[thread[t].registrar].password
           THEN [thread EXCEPT ![t].pc = "authenticated"]
           ELSE [thread EXCEPT ![t] = IdleThread]
    /\ UNCHANGED <<sessionVars, blockingVars, registraracl>>

Authenticate(t) ==
    /\ thread[t].pc = "checked"
    /\ \A u \in Threads \ {t} : ~LocksAcl(u, thread[t].registrar)
    /\ thread' =
           IF thread[t].passwd = registraracl[thread[t].registrar].password
           THEN [thread EXCEPT ![t].pc = "authenticated"]
           ELSE [thread EXCEPT ![t] = IdleThread]
    /\ UNCHANGED <<sessionVars, blockingVars, registraracl>>

(* The row as the transaction leaves it: a new password, or the old one    *)
(* hashed again when it was not hashed by the preferred method.            *)
AclAfter(t) ==
    [password |-> IF thread[t].newpass # NoPassword
                  THEN thread[t].newpass ELSE thread[t].passwd,
     preferred |-> TRUE]

(* The container is locked only for this call.                             *)
LoginSession(t, lang) ==
    /\ thread[t].pc = "authenticated"
    /\ \/ /\ epp_login_id_seq < MaxLoginId
          /\ login_session_admitted(thread[t].registrar, lang)
          /\ thread' = [thread EXCEPT ![t].pc = "answered",
                                      ![t].code = "COMMAND_OK",
                                      ![t].clientID = epp_login_id_seq']
       \/ /\ login_session_refused(thread[t].registrar)
          /\ thread' = [thread EXCEPT ![t].pc = "answered",
                                      ![t].code = "COMMAND_MAX_SESSION_LIMIT"]
       \/ /\ login_session_throws(thread[t].registrar)
          /\ thread' = [thread EXCEPT ![t] = IdleThread]
    /\ UNCHANGED <<blockingVars, registraracl>>

(* The transaction commits only when the login succeeded.                  *)
LoginEnd(t) ==
    /\ thread[t].pc = "answered"
    /\ registraracl' =
           IF thread[t].code = "COMMAND_OK"
           THEN [registraracl EXCEPT ![thread[t].registrar] = AclAfter(t)]
           ELSE registraracl
    /\ thread' = [thread EXCEPT ![t] = IdleThread]
    /\ UNCHANGED <<sessionVars, blockingVars>>

(* Any statement of the transaction, or its commit, fails: the client gets *)
(* an error and no session id, the transaction is rolled back, and the     *)
(* session that login_session may already have opened stays.               *)
LoginFails(t) ==
    /\ thread[t].pc # "idle"
    /\ thread' = [thread EXCEPT ![t] = IdleThread]
    /\ UNCHANGED <<sessionVars, blockingVars, registraracl>>

-----------------------------------------------------------------------------
(* blockRegistrar and unblockRegistrar, in another process.                *)
BlockStep ==
    /\ \/ \E r \in Registrars : Block(r)
       \/ \E S \in SUBSET blocked : Release(S)
    /\ shutOut' = shutOut \cap blocked'
    /\ UNCHANGED <<sessionVars, registraracl, thread>>

(* ccReg_EPP_i::destroyAllRegistrarSessions, called after the commit.      *)
destroyAllRegistrarSessions(r) ==
    /\ Evict(r)
    /\ destroy_all_registrar_sessions(r)
    /\ shutOut' = IF \E t \in Threads : thread[t].registrar = r
                  THEN shutOut ELSE shutOut \cup ({r} \cap blocked)
    /\ UNCHANGED <<registraracl, thread>>

(* The CORBA call throws: the block stands, the sessions too.              *)
EvictionFails(r) ==
    /\ Evict(r)
    /\ UNCHANGED <<sessionVars, shutOut, registraracl, thread>>

(* EPP commands, ClientLogout and sessionClosed, by their container calls. *)
ClientCall ==
    /\ \E id \in 1..epp_login_id_seq : get_registrar_id(id) \/ logout_session(id)
    /\ UNCHANGED <<blockingVars, registraracl, thread>>

(* rifd restarts: open transactions are rolled back by the database.       *)
RifdRestart ==
    /\ Restart
    /\ thread' = [t \in Threads |-> IdleThread]
    /\ UNCHANGED <<blockingVars, registraracl>>

TimePasses == Tick /\ UNCHANGED <<blockingVars, registraracl, thread>>

LoginNext ==
    \/ \E t \in Threads, r \in Registrars, p \in Passwords,
          n \in Passwords \cup {NoPassword} : LoginStart(t, r, p, n)
    \/ \E t \in Threads : Authenticate(t) \/ LoginEnd(t) \/ LoginFails(t)
    \/ \E t \in Threads, lang \in Languages : LoginSession(t, lang)
    \/ BlockStep
    \/ \E r \in Registrars : destroyAllRegistrarSessions(r) \/ EvictionFails(r)
    \/ ClientCall
    \/ RifdRestart
    \/ TimePasses

LoginSpec == LoginInit /\ [][LoginNext]_loginVars

-----------------------------------------------------------------------------
(* A login is turned away for a session limit only while sessions that     *)
(* were used within the timeout fill that limit.  So a session nobody      *)
(* holds, left by a login whose transaction failed after login_session or  *)
(* by a client that vanished, keeps the registrar out for the timeout at   *)
(* most, and no eviction, logout or restart leaves a count behind that     *)
(* keeps it out longer.                                                    *)
RefusalsAreByLiveSessions ==
    [][\A t \in Threads :
           /\ thread[t].pc = "authenticated"
           /\ thread'[t].code = "COMMAND_MAX_SESSION_LIMIT"
           => LET live == {id \in DOMAIN sessions :
                              clock - sessions[id].timestamp <= session_timeout_sec}
              IN  \/ Cardinality(live) >= max_total_sessions
                  \/ Cardinality(OfRegistrar(live, thread[t].registrar))
                         >= max_reg_sessions
      ]_loginVars

(* A registrar that is blocked and was evicted at a moment when no login   *)
(* of it was under way has no session for as long as it stays blocked.     *)
(* (A login that had passed the blocked check before the block may still   *)
(* open a session: ClientLogin does not look again after login_session.)   *)
ShutOutRegistrarsHaveNoSession ==
    \A r \in shutOut : OfRegistrar(DOMAIN sessions, r) = {}

(* A session is opened only by a login whose password is, at that moment,  *)
(* the committed one: a password change by a concurrent login cannot slip  *)
(* in between the check and login_session (the row lock).                  *)
SessionsOpenWithCurrentPassword ==
    [][\A id \in DOMAIN sessions' \ DOMAIN sessions :
           \E t \in Threads :
               /\ thread'[t].clientID = id
               /\ thread[t].passwd = registraracl[sessions'[id].registrarID].password
      ]_loginVars
=============================================================================

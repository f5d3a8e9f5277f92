--------------------------- MODULE RegistrarBlocking ---------------------------
(***************************************************************************)
(* Blocking of registrars: blockRegistrar, unblockRegistrar,               *)
(* blockRegistrarsOverLimit and isRegistrarBlocked of                      *)
(* src/src/deprecated/libfred/registrar.cc, over the database table        *)
(* registrar_disconnect.                                                   *)
(*                                                                         *)
(* Callers (the administration daemon and fred-admin runs from cron) are   *)
(* separate processes.  blockRegistrar is three steps: its transaction     *)
(* takes a SHARE lock on the table and reads, then inserts (an insert      *)
(* waits for every other SHARE lock to go) and commits, then calls rifd    *)
(* to destroy the registrar's sessions.  Two callers that both hold the    *)
(* SHARE lock and both want to insert wait for each other; PostgreSQL      *)
(* aborts one of them.                                                     *)
(*                                                                         *)
(* Both functions look at one record only: the OLDEST of the registrar     *)
(* (ORDER BY blocked_from ASC LIMIT 1).  Time is a tick counter, a month   *)
(* is MonthLength ticks.                                                   *)
(***************************************************************************)
EXTENDS Integers, Sequences, FiniteSets

CONSTANTS
    Registrars,
    Callers,       \* processes that call blockRegistrar
    NoRegistrar,   \* the registrar of a caller that is idle
    MonthLength,   \* ticks in a month
    MaxClock,      \* bound on the clock
    MaxRecords     \* bound on the records of a registrar

ASSUME BlockingAssumption ==
    /\ NoRegistrar \notin Registrars
    /\ MonthLength \in Nat \ {0}
    /\ MaxClock \in Nat

VARIABLES
    registrar_disconnect,  \* registrar -> its records, in order of insertion
    clock,                 \* now()
    caller                 \* what each caller is doing

vars == <<registrar_disconnect, clock, caller>>

Idle == [pc |-> "idle", registrar |-> NoRegistrar, now |-> 0]

Init ==
    /\ registrar_disconnect = [r \in Registrars |-> << >>]
    /\ clock = 0
    /\ caller = [c \in Callers |-> Idle]

-----------------------------------------------------------------------------
Month(t) == t \div MonthLength
MonthEnd(t) == (Month(t) + 1) * MonthLength

Records(r) == registrar_disconnect[r]

(* SELECT ... ORDER BY blocked_from ASC LIMIT 1                            *)
Oldest(r) ==
    {i \in DOMAIN Records(r) :
        \A j \in DOMAIN Records(r) :
            Records(r)[i].blocked_from <= Records(r)[j].blocked_from}

Active(rec, t) == rec.blocked_from <= t /\ t < rec.blocked_to

isRegistrarBlocked(r) == \E i \in DOMAIN Records(r) : Active(Records(r)[i], clock)

(* blockRegistrar gives up: the record it looks at is not over, or it was  *)
(* opened this month (the registrar has already been unblocked once).      *)
Refuses(rec) ==
    \/ rec.blocked_to > clock
    \/ Month(rec.blocked_from) = Month(clock)

HoldsShareLock(c) == caller[c].pc = "locked"

(* LOCK TABLE registrar_disconnect IN SHARE MODE, then the SELECT.         *)
blockRegistrar_read(c, r) ==
    /\ caller[c] = Idle
    /\ \/ Records(r) = << >>
       \/ \E i \in Oldest(r) : ~Refuses(Records(r)[i])
    /\ caller' = [caller EXCEPT ![c] = [pc |-> "locked", registrar |-> r, now |-> clock]]
    /\ UNCHANGED <<registrar_disconnect, clock>>

(* The record forbids a new block: rollback, blockRegistrar returns false. *)
blockRegistrar_refused(c, r) ==
    /\ caller[c] = Idle
    /\ \E i \in Oldest(r) : Refuses(Records(r)[i])
    /\ UNCHANGED vars

InsertRecord(c, from, to) ==
    registrar_disconnect' =
        [registrar_disconnect EXCEPT ![caller[c].registrar] =
            Append(@, [blocked_from |-> from, blocked_to |-> to])]

(* The INSERT needs a lock that conflicts with the SHARE lock of others.   *)
OnlyShareLock(c) == HoldsShareLock(c) /\ \A d \in Callers \ {c} : ~HoldsShareLock(d)

Committed(c) == caller' = [caller EXCEPT ![c].pc = "committed"]

MutInsertNoEviction(c) ==
    /\ OnlyShareLock(c)
    /\ InsertRecord(c, caller[c].now, MonthEnd(caller[c].now))
    /\ caller' = [caller EXCEPT ![c] = Idle]
    /\ UNCHANGED clock

(* INSERT and commit.  now() is the start of the transaction, and the      *)
(* record ends with the month in which the transaction started.            *)
blockRegistrar_insert(c) ==
    /\ OnlyShareLock(c)
    /\ InsertRecord(c, caller[c].now, MonthEnd(caller[c].now))
    /\ Committed(c)
    /\ UNCHANGED clock

(* The deadlock detector of PostgreSQL, or a failed statement, aborts the  *)
(* transaction: exception, nothing written, no eviction.                   *)
blockRegistrar_abort(c) ==
    /\ HoldsShareLock(c)
    /\ caller' = [caller EXCEPT ![c] = Idle]
    /\ UNCHANGED <<registrar_disconnect, clock>>

(* callDestroyAllRegistrarSessions after the commit.  Whether the CORBA    *)
(* call succeeds or throws, it is not repeated.                            *)
blockRegistrar_evict(c) ==
    /\ caller[c].pc = "committed"
    /\ caller' = [caller EXCEPT ![c] = Idle]
    /\ UNCHANGED <<registrar_disconnect, clock>>

(* unblockRegistrar throws NOT_BLOCKED when there is no record or the one  *)
(* it looks at is over.                                                    *)
ThrowsNotBlocked(r) ==
    \/ Records(r) = << >>
    \/ \E i \in Oldest(r) : Records(r)[i].blocked_to < clock

unblockRegistrar_throws(r) ==
    /\ ThrowsNotBlocked(r)
    /\ UNCHANGED vars

(* The UPDATE waits for the SHARE locks.                                   *)
unblockRegistrar(r) ==
    /\ \A c \in Callers : ~HoldsShareLock(c)
    /\ \E i \in Oldest(r) :
           /\ ~(Records(r)[i].blocked_to < clock)
           /\ registrar_disconnect' =
                  [registrar_disconnect EXCEPT ![r][i].blocked_to = clock]
    /\ UNCHANGED <<clock, caller>>

Tick ==
    /\ clock < MaxClock
    /\ clock' = clock + 1
    /\ UNCHANGED <<registrar_disconnect, caller>>

Next ==
    \/ \E c \in Callers, r \in Registrars :
           Len(Records(r)) < MaxRecords /\ blockRegistrar_read(c, r)
    \/ \E c \in Callers :
           blockRegistrar_insert(c) \/ blockRegistrar_abort(c) \/ blockRegistrar_evict(c)
    \/ \E c \in Callers, r \in Registrars : blockRegistrar_refused(c, r)
    \/ \E r \in Registrars : unblockRegistrar(r) \/ unblockRegistrar_throws(r)
    \/ Tick

Spec == Init /\ [][Next]_vars

-----------------------------------------------------------------------------
(* What other processes see of the table is the behaviour BlockedRegistrars*)
(* describes: in particular every commit of a block is followed by an      *)
(* eviction attempt and nothing but a block makes a registrar blocked.     *)
Promise == INSTANCE BlockedRegistrars WITH
    blocked <- {r \in Registrars : isRegistrarBlocked(r)},
    evicting <- {caller[c].registrar : c \in {d \in Callers : caller[d].pc = "committed"}}

BlockingImplementsPromise == Promise!BlockSpec

-----------------------------------------------------------------------------
(* "this method relies that records in registrar_disconnect table don't    *)
(* overlap" (registrar.cc:1505): two records of a registrar are never      *)
(* active at the same time.                                                *)
RecordsDontOverlap ==
    \A r \in Registrars : \A i, j \in DOMAIN Records(r) :
        Active(Records(r)[i], clock) /\ Active(Records(r)[j], clock) => i = j
=============================================================================

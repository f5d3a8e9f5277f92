--------------------------- MODULE BlockedRegistrars ---------------------------
(***************************************************************************)
(* What the rest of the system may rely on when a registrar is blocked     *)
(* (LibFred::Registrar::Manager in src/src/deprecated/libfred/registrar.cc)*)
(* as seen from outside the table registrar_disconnect:                    *)
(*                                                                         *)
(*   - a registrar becomes blocked only by a committed blockRegistrar, and *)
(*     every such commit is followed by one attempt to evict the           *)
(*     registrar's EPP sessions;                                           *)
(*   - a registrar stops being blocked by unblockRegistrar or because the  *)
(*     month is over.                                                      *)
(*                                                                         *)
(* RegistrarBlocking implements this specification, EppLogin uses it.      *)
(***************************************************************************)
CONSTANT Registrars

VARIABLES
    blocked,   \* registrars for which isRegistrarBlocked answers true
    evicting   \* registrars whose block is committed, eviction call due

blockVars == <<blocked, evicting>>

BlockTypeOK == blocked \in SUBSET Registrars /\ evicting \in SUBSET Registrars

BlockInit == blocked = {} /\ evicting = {}

(* The commit of blockRegistrar.  A transaction that started in the last   *)
(* month and commits in this one leaves a record that is already over.     *)
Block(r) ==
    /\ blocked' \in {blocked, blocked \cup {r}}
    /\ evicting' = evicting \cup {r}

(* The eviction call is made; another one may be due for a second block of *)
(* the same registrar.                                                     *)
Evict(r) ==
    /\ r \in evicting
    /\ evicting' \in {evicting, evicting \ {r}}
    /\ UNCHANGED blocked

(* unblockRegistrar, or the clock passes blocked_to.                       *)
Release(S) ==
    /\ S # {}
    /\ blocked' = blocked \ S
    /\ UNCHANGED evicting

BlockNext ==
    \/ \E r \in Registrars : Block(r) \/ Evict(r)
    \/ \E S \in SUBSET blocked : Release(S)

BlockSpec == BlockInit /\ [][BlockNext]_blockVars
=============================================================================

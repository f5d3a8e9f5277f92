----------------------------- MODULE ObjectLocks -----------------------------
(***************************************************************************)
(* The prohibitions a holder puts on a domain, and the ones an             *)
(* administrative block puts over them.  Two ways lead to the first:       *)
(*                                                                         *)
(*   public requests   backend/public_request creates a request to block   *)
(*       or unblock, an operator resolves or invalidates it (deprecated/   *)
(*       libfred/public_request, called from admin_impl.cc), a run of      *)
(*       fred-admin (bin/cli/public_request_method.cc) lists the scheduled *)
(*       ones and then processes them one by one;                          *)
(*   domain browser    setObjectBlockStatus of backend/domain_browser      *)
(*       reads the states, then requests or cancels what is missing.       *)
(*                                                                         *)
(* Requests about contacts, nssets and keysets take the same path; only    *)
(* those about domains are here.  Delivery of the e-mail that announces    *)
(* the result is left out: its failure is caught and changes nothing.      *)
(***************************************************************************)
EXTENDS Naturals, Sequences, FiniteSets

CONSTANTS
    Domains,      \* names of domains
    MaxRequests,  \* bound on the public requests of a behaviour
    MaxOps,       \* bound on the calls made by people
    Runs          \* runs of fred-admin --process_public_requests

ASSUME ObjectLocksAssumption ==
    /\ IsFiniteSet(Domains)
    /\ MaxRequests \in Nat /\ MaxOps \in Nat

(* Manual states: serverTransferProhibited, serverUpdateProhibited, and    *)
(* serverOutzoneManual for those that only a domain can have.              *)
Statuses == {"transfer", "update", "outzone"}

NotBlocked == 0

(* What the register keeps of an object's manual states.  until is the day *)
(* on which serverBlocked ends.  Two histories: own, what the holder asked *)
(* for since the locks were last cleared by an administrator or by expiry; *)
(* raced, whether the states changed between the reads and the writes of a *)
(* call of the domain browser.                                             *)
Unlocked == [locks |-> {}, before |-> {}, until |-> NotBlocked,
             own |-> {}, raced |-> FALSE]

IsBlocked(s) == s.until # NotBlocked

(* CreateAdminObjectBlockRequestId: the states in force are cancelled and  *)
(* the listed ones requested, with serverBlocked.                          *)
Blocked(s, statuses, until) ==
    [s EXCEPT !.locks = statuses, !.before = s.locks, !.until = until]

(* CreateAdminObjectStateRestoreRequestId: back to the states before.      *)
Restored(s) ==
    [s EXCEPT !.locks = s.before, !.before = {}, !.until = NotBlocked]

(* ClearAdminObjectStateRequestId, and the end of a limited block.         *)
Cleared(s) == Unlocked

VARIABLES
    holder,    \* existing domain -> handle of its registrant
    domain,    \* existing domain -> its manual states
    requests,  \* public_request: all requests, in order of creation
    run,       \* run of fred-admin -> listed requests not processed yet
    browser,   \* the call of setObjectBlockStatus in progress
    ops        \* calls made so far

Kinds == {"block_transfer", "block_transfer_and_update",
          "unblock_transfer", "unblock_transfer_and_update"}

Asked(kind) ==
    IF kind \in {"block_transfer", "unblock_transfer"}
    THEN {"transfer"} ELSE {"transfer", "update"}

Blocking(kind) == kind \in {"block_transfer", "block_transfer_and_update"}

Idle == [on |-> "none", kind |-> "none", seen |-> {}]

Call == ops < MaxOps /\ ops' = ops + 1

(* The outer transaction of setObjectBlockStatus holds the row of the      *)
(* domain FOR SHARE until the end of the call.                             *)
RowIsFree(d) == browser.on # d

(* The holder gains and gives up locks.                                    *)
Granted(s, gained, lost) ==
    [s EXCEPT !.locks = (@ \cup gained) \ lost,
              !.own   = (@ \cup gained) \ lost]

-----------------------------------------------------------------------------
(* The conditions of create_block_unblock_request on the states in force.  *)
MayBeRequested(kind, locks) ==
    CASE kind = "block_transfer"            -> "transfer" \notin locks
      [] kind = "block_transfer_and_update" -> ~ Asked(kind) \subseteq locks
      [] kind = "unblock_transfer"          -> "update" \notin locks
                                               /\ "transfer" \in locks
      [] kind = "unblock_transfer_and_update" -> "update" \in locks

(* CreatePublicRequest: a new request closes the opened requests of all    *)
(* twelve types of the object.                                             *)
CreateBlockUnblockRequest(d, kind) ==
    /\ Call
    /\ Len(requests) < MaxRequests
    /\ ~ IsBlocked(domain[d])
    /\ MayBeRequested(kind, domain[d].locks)
    /\ requests' = Append(
            [i \in DOMAIN requests |->
                IF requests[i].on = d /\ requests[i].status = "opened"
                THEN [requests[i] EXCEPT !.status = "invalidated",
                                         !.action = "processed"]
                ELSE requests[i]],
            [on |-> d, kind |-> kind, status |-> "opened", action |-> "processed"])
    /\ UNCHANGED <<holder, domain, run, browser>>

(* PublicRequestManagerImpl::processRequest: the operator resolves or      *)
(* invalidates a request, whatever its status is, and                      *)
(* BlockUnblockRequestImpl::save schedules it in either case.              *)
ProcessRequest(i, invalidated) ==
    /\ Call
    /\ requests' = [requests EXCEPT
            ![i].status = IF invalidated THEN "invalidated" ELSE "resolved",
            ![i].action = "scheduled"]
    /\ UNCHANGED <<holder, domain, run, browser>>

(* PublicRequestProcedure::exec starts: the scheduled requests are listed  *)
(* together with their status; only the resolved ones will be processed.   *)
StartRun(r) ==
    /\ run[r] = {}
    /\ run' = [run EXCEPT ![r] =
            {i \in DOMAIN requests : requests[i].action = "scheduled"
                                  /\ requests[i].status = "resolved"}]
    /\ run'[r] # {}
    /\ UNCHANGED <<holder, domain, requests, browser, ops>>

(* The process ends before its list does: what it did is committed.        *)
StopRun(r) ==
    /\ run[r] # {}
    /\ run' = [run EXCEPT ![r] = {}]
    /\ UNCHANGED <<holder, domain, requests, browser, ops>>

(* subprocess<>, in the order of its checks: the states in force are       *)
(* already as asked, or differ in a way the request may not change.        *)
NoActionNeeded(kind, locks) ==
    IF Blocking(kind)
    THEN Asked(kind) \subseteq locks
    ELSE {"transfer", "update"} \cap locks = {}

HasDifferentBlock(kind, locks) ==
    \/ kind = "block_transfer"   /\ "update" \in locks
    \/ kind = "unblock_transfer" /\ "update" \in locks
    \/ kind = "unblock_transfer_and_update"
       /\ "update" \notin locks /\ "transfer" \in locks

MutMayBeProcessed(kind, s) == ~ HasDifferentBlock(kind, s.locks)

(* process<>: serverBlocked is checked under the lock of the states.       *)
MayBeProcessed(kind, s) == ~ IsBlocked(s) /\ ~ HasDifferentBlock(kind, s.locks)

MutOnFailure == "scheduled"

(* The last catch block: a request that cannot be processed is closed.     *)
OnFailure == "failed"

(* process_public_request_block_unblock_resolved reads neither the status  *)
(* nor the action again.  A request whose domain is gone fails or has      *)
(* nothing to do; requesting a state that is in force may be an error of   *)
(* the library.                                                            *)
ProcessResolved(r, i) ==
    LET d    == requests[i].on
        kind == requests[i].kind
        Ends(action) == requests' = [requests EXCEPT ![i].action = action]
    IN  /\ i \in run[r]
        /\ run' = [run EXCEPT ![r] = @ \ {i}]
        /\ UNCHANGED <<holder, browser, ops>>
        /\ \/ /\ d \notin DOMAIN domain
              /\ Ends("processed") \/ Ends(OnFailure)
              /\ UNCHANGED domain
           \/ /\ d \in DOMAIN domain
              /\ ~ IsBlocked(domain[d])
              /\ NoActionNeeded(kind, domain[d].locks)
              /\ Ends("processed")
              /\ UNCHANGED domain
           \/ /\ d \in DOMAIN domain
              /\ ~ NoActionNeeded(kind, domain[d].locks)
              /\ MayBeProcessed(kind, domain[d])
              /\ Ends("processed")
              /\ domain' = [domain EXCEPT ![d] =
                    IF Blocking(kind) THEN Granted(@, Asked(kind), {})
                                      ELSE Granted(@, {}, Asked(kind))]
           \/ /\ d \in DOMAIN domain
              /\ \/ ~ MayBeProcessed(kind, domain[d])
                 \/ Blocking(kind) /\ Asked(kind) \cap domain[d].locks # {}
              /\ ~ NoActionNeeded(kind, domain[d].locks) \/ IsBlocked(domain[d])
              /\ Ends(OnFailure)
              /\ UNCHANGED domain

(* The update of the request, or the commit, fails after the processing:   *)
(* the exception is swallowed and nothing of the transaction remains.  The *)
(* request stays scheduled, and the run goes on with the next one.         *)
CommitFails(r, i) ==
    /\ i \in run[r]
    /\ run' = [run EXCEPT ![r] = @ \ {i}]
    /\ UNCHANGED <<holder, domain, requests, browser, ops>>

-----------------------------------------------------------------------------
MutBrowserReads(d, kind) ==
    /\ Call
    /\ browser = Idle
    /\ ~ IsBlocked(domain[d])
    /\ browser' = [on |-> d, kind |-> kind, seen |-> domain[d].locks]
    /\ UNCHANGED <<holder, domain, requests, run>>

(* setObjectBlockStatus, one object: the reads.  An administrative block   *)
(* and a partial unblocking are refused.                                   *)
BrowserReads(d, kind) ==
    /\ Call
    /\ browser = Idle
    /\ ~ IsBlocked(domain[d])
    /\ kind = "unblock_transfer" => "update" \notin domain[d].locks
    /\ browser' = [on |-> d, kind |-> kind, seen |-> domain[d].locks]
    /\ UNCHANGED <<holder, domain, requests, run>>

(* The writes: only what the reads found missing, or found in force.  The  *)
(* read of a state may also come after a change by others.                 *)
BrowserWrites ==
    LET d    == browser.on
        kind == browser.kind
        now  == domain[d].locks
    IN  /\ browser # Idle
        /\ browser' = Idle
        /\ \E read \in {browser.seen, now,
                        (browser.seen \cap {"transfer"}) \cup (now \ {"transfer"})} :
              \/ /\ Blocking(kind) /\ (Asked(kind) \ read) \cap now # {}
                 /\ UNCHANGED domain          \* the library refuses
              \/ domain' = [domain EXCEPT ![d] =
                    [IF Blocking(kind) THEN Granted(domain[d], Asked(kind) \ read, {})
                                       ELSE Granted(domain[d], {}, Asked(kind) \cap read)
                     EXCEPT !.raced = @ \/ browser.seen # now]]
        /\ UNCHANGED <<holder, requests, run, ops>>

=============================================================================

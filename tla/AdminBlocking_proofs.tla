------------------------- MODULE AdminBlocking_proofs -------------------------
(***************************************************************************)
(* Proofs about AdminBlocking and ObjectLocks: holders' own locks survive  *)
(* administrative blocks, and every domain keeps a holder that exists, for *)
(* any domains, contacts, lists of states and numbers of calls.            *)
(*                                                                         *)
(* The properties rest on what a call of the domain browser may count on   *)
(* between its reads and its writes: the row it holds FOR SHARE keeps      *)
(* administrators and registrars away, so the domain is still there and    *)
(* still not blocked.                                                      *)
(*                                                                         *)
(* That the copy of a contact gets a new name rests on the order of names: *)
(* it is a strict total order, and there are finitely many copies, so one  *)
(* of them is the last; the next index follows it, but for the one that    *)
(* needs a digit more.  Copies are made one after another, and that each   *)
(* is a name goes by the first that would not be one.                      *)
(***************************************************************************)
EXTENDS AdminBlocking, FiniteSetTheorems, SequenceTheorems, TLAPS

\* OwnLocksSurvive and NoUpdateLockAlone, for the states of one object.
Tidy(s) == s.own = IF IsBlocked(s) THEN s.before ELSE s.locks

Whole(s) == s.raced \/ s.own # {"update"}

Shapes ==
    /\ domain \in [DOMAIN domain -> States]
    /\ contact \in [DOMAIN contact -> States]
    /\ today \in 0 .. MaxDay

\* Every domain has a holder, and that contact exists.
HoldersExist == holder \in [DOMAIN domain -> DOMAIN contact]

DomainsAreTidy == \A d \in DOMAIN domain : Tidy(domain[d]) /\ Whole(domain[d])

ContactsAreTidy == \A h \in DOMAIN contact : Tidy(contact[h])

\* What setObjectBlockStatus knows when it comes to write.
BrowserKnows ==
    browser # Idle =>
        /\ browser.on \in DOMAIN domain
        /\ ~ IsBlocked(domain[browser.on])
        /\ browser.kind = "unblock_transfer" => "update" \notin browser.seen

IInv == Shapes /\ HoldersExist /\ DomainsAreTidy /\ ContactsAreTidy /\ BrowserKnows

-----------------------------------------------------------------------------
(* The states of one object.                                               *)
LEMMA UnlockedIsTidy == Unlocked \in States /\ Tidy(Unlocked) /\ Whole(Unlocked) /\ ~IsBlocked(Unlocked)
  BY AdminBlockingAssumption DEF Unlocked, States, Tidy, Whole, IsBlocked, NotBlocked, Never

LEMMA BlockedIsTidy ==
    ASSUME NEW s \in States, Tidy(s), ~IsBlocked(s),
           NEW l \in SUBSET Statuses, NEW u \in 1 .. Never
    PROVE  /\ Blocked(s, l, u) \in States /\ Tidy(Blocked(s, l, u))
           /\ Whole(s) => Whole(Blocked(s, l, u))
           /\ IsBlocked(Blocked(s, l, u))
<1>1. PICK n : n = Blocked(s, l, u)
  OBVIOUS
<1>2. u \in 0 .. Never /\ u # 0
  BY AdminBlockingAssumption DEF Never
<1>3. n \in States
  BY <1>1, <1>2 DEF Blocked, States
<1>4. n.before = s.locks /\ n.own = s.own /\ n.until = u /\ n.raced = s.raced
  BY <1>1 DEF Blocked, States
<1>5. QED
  BY <1>1, <1>2, <1>3, <1>4 DEF Tidy, Whole, IsBlocked, NotBlocked

LEMMA RestoredIsTidy ==
    ASSUME NEW s \in States, Tidy(s), IsBlocked(s)
    PROVE  /\ Restored(s) \in States /\ Tidy(Restored(s))
           /\ Whole(s) => Whole(Restored(s))
           /\ ~IsBlocked(Restored(s))
<1>1. PICK n : n = Restored(s)
  OBVIOUS
<1>2. 0 \in 0 .. Never
  BY AdminBlockingAssumption DEF Never
<1>3. n \in States
  BY <1>1, <1>2 DEF Restored, States, NotBlocked
<1>4. n.locks = s.before /\ n.own = s.own /\ n.until = 0 /\ n.raced = s.raced
  BY <1>1 DEF Restored, States, NotBlocked
<1>5. QED
  BY <1>1, <1>3, <1>4 DEF Tidy, Whole, IsBlocked, NotBlocked

LEMMA GrantedIsTidy ==
    ASSUME NEW s \in States, Tidy(s), ~IsBlocked(s),
           NEW gained \in SUBSET Statuses, NEW lost
    PROVE  /\ Granted(s, gained, lost) \in States /\ Tidy(Granted(s, gained, lost))
           /\ ~IsBlocked(Granted(s, gained, lost))
           /\ Granted(s, gained, lost).own = (s.locks \cup gained) \ lost
           /\ Granted(s, gained, lost).raced = s.raced
  BY DEF Granted, States, Tidy, IsBlocked, NotBlocked

LEMMA AskedStatuses ==
    ASSUME NEW kind
    PROVE  Asked(kind) \in SUBSET Statuses /\ "transfer" \in Asked(kind)
           /\ (kind # "block_transfer" /\ kind # "unblock_transfer" => "update" \in Asked(kind))
  BY DEF Asked, Statuses

-----------------------------------------------------------------------------
LEMMA InitEstablishes == Init => IInv
<1> SUFFICES ASSUME Init PROVE IInv
  OBVIOUS
<1>1. PICK own \in {{}, {"transfer", "update"}} :
          domain = [d \in Domains |-> [Unlocked EXCEPT !.locks = own, !.own = own]]
  BY DEF Init
<1>2. [Unlocked EXCEPT !.locks = own, !.own = own] \in States
      /\ Tidy([Unlocked EXCEPT !.locks = own, !.own = own])
      /\ Whole([Unlocked EXCEPT !.locks = own, !.own = own])
  <2>1. own \in SUBSET Statuses /\ own # {"update"}
    BY DEF Statuses
  <2>2. PICK n : n = [Unlocked EXCEPT !.locks = own, !.own = own]
    OBVIOUS
  <2>3. n = [locks |-> own, before |-> {}, until |-> 0, own |-> own, raced |-> FALSE]
    BY <2>2 DEF Unlocked, NotBlocked
  <2>4. 0 \in 0 .. Never
    BY AdminBlockingAssumption DEF Never
  <2>5. n \in States
    BY <2>1, <2>3, <2>4 DEF States
  <2>6. n.own = own /\ n.locks = own /\ n.until = 0
    BY <2>3
  <2>7. QED
    BY <2>1, <2>2, <2>5, <2>6 DEF Tidy, Whole, IsBlocked, NotBlocked
<1>3. Shapes
  BY <1>1, <1>2, UnlockedIsTidy, AdminBlockingAssumption DEF Init, Shapes
<1>4. DomainsAreTidy /\ ContactsAreTidy
  BY <1>1, <1>2, UnlockedIsTidy DEF Init, DomainsAreTidy, ContactsAreTidy
<1>5. HoldersExist /\ BrowserKnows
  BY <1>1 DEF Init, HoldersExist, BrowserKnows
<1>6. QED
  BY <1>3, <1>4, <1>5 DEF IInv

-----------------------------------------------------------------------------
(* Steps on holders' locks (module ObjectLocks).                           *)
LEMMA DomainStep ==
    ASSUME IInv, NEW d \in DOMAIN domain, NEW s \in States,
           ~IsBlocked(domain[d]), Tidy(s), Whole(s), ~IsBlocked(s),
           domain' = [domain EXCEPT ![d] = s],
           UNCHANGED <<holder, contact, today>>,
           browser' = browser \/ browser' = Idle
    PROVE  IInv'
<1>1. DOMAIN domain' = DOMAIN domain /\ domain'[d] = s
      /\ \A e \in DOMAIN domain \ {d} : domain'[e] = domain[e]
  BY DEF IInv, Shapes
<1>2. Shapes' /\ HoldersExist'
  BY <1>1 DEF IInv, Shapes, HoldersExist
<1>3. DomainsAreTidy' /\ ContactsAreTidy'
  BY <1>1 DEF IInv, DomainsAreTidy, ContactsAreTidy, Tidy, Whole, IsBlocked
<1>4. BrowserKnows'
  <2>1. CASE browser' = Idle
    BY <2>1 DEF BrowserKnows, Idle
  <2>2. CASE browser' = browser
    BY <1>1, <2>2 DEF IInv, BrowserKnows, Idle, IsBlocked
  <2>3. QED
    BY <2>1, <2>2
<1>5. QED
  BY <1>2, <1>3, <1>4 DEF IInv

(* Nothing but the requests, the runs and the browser change.              *)
LEMMA OtherStep ==
    ASSUME IInv, UNCHANGED <<holder, domain, contact, today>>, BrowserKnows'
    PROVE  IInv'
  BY DEF IInv, Shapes, HoldersExist, DomainsAreTidy, ContactsAreTidy, Tidy, Whole, IsBlocked

LEMMA BrowserStays == ASSUME IInv, UNCHANGED <<domain, browser>> PROVE BrowserKnows'
  BY DEF IInv, BrowserKnows, Idle, IsBlocked

(* The checks of subprocess<> leave no update lock alone.                  *)
LEMMA ProcessedIsWhole ==
    ASSUME NEW s \in States, NEW kind, Tidy(s), Whole(s), MayBeProcessed(kind, s)
    PROVE  LET n == IF Blocking(kind) THEN Granted(s, Asked(kind), {})
                                      ELSE Granted(s, {}, Asked(kind))
           IN  n \in States /\ Tidy(n) /\ Whole(n) /\ ~IsBlocked(n)
<1>1. ~IsBlocked(s) /\ ~HasDifferentBlock(kind, s.locks)
  BY DEF MayBeProcessed
<1>2. Asked(kind) \in SUBSET Statuses /\ {} \in SUBSET Statuses /\ "transfer" \in Asked(kind)
      /\ (kind # "block_transfer" /\ kind # "unblock_transfer" => "update" \in Asked(kind))
  BY AskedStatuses
<1>3. CASE Blocking(kind)
  <2>1. PICK n, asked : asked = Asked(kind) /\ n = Granted(s, asked, {})
    OBVIOUS
  <2>0. asked \in SUBSET Statuses
    BY <1>2, <2>1
  <2>2. n \in States /\ Tidy(n) /\ ~IsBlocked(n) /\ n.own = (s.locks \cup Asked(kind)) \ {}
    BY <1>1, <2>0, <2>1, GrantedIsTidy, SMTT(40)
  <2>3. Whole(n)
    BY <1>2, <2>2 DEF Whole
  <2>4. QED
    BY <1>3, <2>1, <2>2, <2>3
<1>4. CASE ~Blocking(kind)
  <2>1. PICK n, none, asked : none = {} /\ asked = Asked(kind) /\ n = Granted(s, none, asked)
    OBVIOUS
  <2>0. none \in SUBSET Statuses
    BY <2>1
  <2>2. /\ Granted(s, none, asked) \in States /\ Tidy(Granted(s, none, asked))
        /\ ~IsBlocked(Granted(s, none, asked))
        /\ Granted(s, none, asked).own = (s.locks \cup none) \ asked
    BY <1>1, <2>0, GrantedIsTidy, SMTT(40)
  <2>3. "update" \notin n.own
    <3>1. CASE kind = "unblock_transfer"
      BY <1>1, <2>1, <2>2, <3>1 DEF HasDifferentBlock
    <3>2. CASE kind # "unblock_transfer"
      BY <1>2, <1>4, <2>1, <2>2, <3>2 DEF Blocking
    <3>3. QED
      BY <3>1, <3>2
  <2>4. QED
    BY <1>4, <2>1, <2>2, <2>3 DEF Whole
<1>5. QED
  BY <1>3, <1>4

LEMMA ProcessKeepsIInv ==
    ASSUME IInv, UNCHANGED Others, NEW r \in Runs, NEW i \in DOMAIN requests, ProcessResolved(r, i)
    PROVE  IInv'
<1>1. UNCHANGED <<holder, contact, today, browser>>
  BY DEF ProcessResolved, Others
<1>2. CASE UNCHANGED domain
  BY <1>1, <1>2, OtherStep, BrowserStays
<1>3. PICK d, kind : d = requests[i].on /\ kind = requests[i].kind
  OBVIOUS
<1>4. CASE /\ d \in DOMAIN domain
           /\ MayBeProcessed(kind, domain[d])
           /\ domain' = [domain EXCEPT ![d] =
                 IF Blocking(kind) THEN Granted(@, Asked(kind), {})
                                   ELSE Granted(@, {}, Asked(kind))]
  <2>1. PICK n : n = IF Blocking(kind) THEN Granted(domain[d], Asked(kind), {})
                                       ELSE Granted(domain[d], {}, Asked(kind))
    OBVIOUS
  <2>2. domain[d] \in States /\ Tidy(domain[d]) /\ Whole(domain[d]) /\ ~IsBlocked(domain[d])
    BY <1>4 DEF IInv, Shapes, DomainsAreTidy, MayBeProcessed
  <2>3. n \in States /\ Tidy(n) /\ Whole(n) /\ ~IsBlocked(n)
    BY <1>4, <2>1, <2>2, ProcessedIsWhole
  <2>4. domain' = [domain EXCEPT ![d] = n]
    BY <1>4, <2>1
  <2>5. QED
    BY <1>1, <1>4, <2>2, <2>3, <2>4, DomainStep
<1>5. QED
  BY <1>2, <1>3, <1>4 DEF ProcessResolved

(* A call of the domain browser: raced marks the changes made between.     *)
LEMMA BrowserReadsKeepsIInv ==
    ASSUME IInv, UNCHANGED Others, NEW d \in DOMAIN domain, NEW kind \in Kinds, BrowserReads(d, kind)
    PROVE  IInv'
<1>1. BrowserKnows'
  BY DEF BrowserReads, BrowserKnows, Idle, IsBlocked
<1>2. QED
  BY <1>1, OtherStep DEF BrowserReads, Others

\* What the writes make of an object's states.
Written(s, kind, seen, read) ==
    [IF Blocking(kind) THEN Granted(s, Asked(kind) \ read, {})
                       ELSE Granted(s, {}, Asked(kind) \cap read)
     EXCEPT !.raced = @ \/ seen # s.locks]

LEMMA WrittenIsWhole ==
    ASSUME NEW s \in States, NEW kind, NEW seen, Tidy(s), Whole(s), ~IsBlocked(s),
           kind = "unblock_transfer" => "update" \notin seen,
           NEW read \in {seen, s.locks, (seen \cap {"transfer"}) \cup (s.locks \ {"transfer"})}
    PROVE  /\ Written(s, kind, seen, read) \in States
           /\ Tidy(Written(s, kind, seen, read)) /\ Whole(Written(s, kind, seen, read))
           /\ ~IsBlocked(Written(s, kind, seen, read))
<1>1. PICK gained, lost :
        /\ gained = IF Blocking(kind) THEN Asked(kind) \ read ELSE {}
        /\ lost = IF Blocking(kind) THEN {} ELSE Asked(kind) \cap read
  OBVIOUS
<1>2. Asked(kind) \in SUBSET Statuses /\ "transfer" \in Asked(kind)
      /\ (kind # "block_transfer" /\ kind # "unblock_transfer" => "update" \in Asked(kind))
  BY AskedStatuses
<1>3. gained \in SUBSET Statuses
  BY <1>1, <1>2
<1>4. PICK g : g = Granted(s, gained, lost)
  OBVIOUS
<1>5. g \in States /\ Tidy(g) /\ ~IsBlocked(g)
      /\ g.own = (s.locks \cup gained) \ lost /\ g.raced = s.raced
  <2>1. /\ Granted(s, gained, lost) \in States /\ Tidy(Granted(s, gained, lost))
        /\ ~IsBlocked(Granted(s, gained, lost))
        /\ Granted(s, gained, lost).own = (s.locks \cup gained) \ lost
        /\ Granted(s, gained, lost).raced = s.raced
    BY <1>3, GrantedIsTidy, Zenon
  <2>2. QED
    BY <1>4, <2>1
<1>6. PICK n : n = [g EXCEPT !.raced = @ \/ seen # s.locks]
  OBVIOUS
<1>7. n \in States /\ n.locks = g.locks /\ n.before = g.before /\ n.until = g.until
      /\ n.own = g.own /\ n.raced = (g.raced \/ seen # s.locks)
  BY <1>5, <1>6 DEF States
<1>8. Tidy(n) /\ ~IsBlocked(n)
  BY <1>5, <1>7 DEF Tidy, IsBlocked
<1>9. Whole(n)
  <2>1. CASE seen # s.locks
    BY <1>7, <2>1 DEF Whole
  <2>2. CASE seen = s.locks
    <3>1. \A x : x \in read <=> x \in s.locks
      BY <2>2
    <3>2. CASE Blocking(kind)
      BY <1>1, <1>2, <1>5, <1>7, <3>1, <3>2 DEF Whole
    <3>3. CASE ~Blocking(kind)
      <4>1. "update" \notin g.own
        BY <1>1, <1>2, <1>5, <2>2, <3>1, <3>3 DEF Blocking
      <4>2. QED
        BY <1>7, <4>1 DEF Whole
    <3>4. QED
      BY <3>2, <3>3
  <2>3. QED
    BY <2>1, <2>2
<1>10. n = Written(s, kind, seen, read)
  <2>1. CASE Blocking(kind)
    BY <1>1, <1>4, <1>6, <2>1 DEF Written
  <2>2. CASE ~Blocking(kind)
    BY <1>1, <1>4, <1>6, <2>2 DEF Written
  <2>3. QED
    BY <2>1, <2>2
<1>11. QED
  BY <1>7, <1>8, <1>9, <1>10

LEMMA BrowserWritesKeepsIInv ==
    ASSUME IInv, UNCHANGED Others, BrowserWrites
    PROVE  IInv'
<1>1. PICK d, kind, seen : d = browser.on /\ kind = browser.kind /\ seen = browser.seen
  OBVIOUS
<1>2. browser # Idle /\ browser' = Idle /\ UNCHANGED <<holder, contact, today>>
  BY DEF BrowserWrites, Others
<1>3. d \in DOMAIN domain /\ ~IsBlocked(domain[d])
      /\ (kind = "unblock_transfer" => "update" \notin seen)
  BY <1>1, <1>2 DEF IInv, BrowserKnows
<1>4. domain[d] \in States /\ Tidy(domain[d]) /\ Whole(domain[d])
  BY <1>3 DEF IInv, Shapes, DomainsAreTidy
<1>5. BrowserKnows'
  BY <1>2 DEF BrowserKnows, Idle
<1>6. CASE UNCHANGED domain
  BY <1>2, <1>5, <1>6, OtherStep
<1>7. CASE \E read \in {seen, domain[d].locks,
                        (seen \cap {"transfer"}) \cup (domain[d].locks \ {"transfer"})} :
              domain' = [domain EXCEPT ![d] = Written(domain[d], kind, seen, read)]
  <2>1. PICK read \in {seen, domain[d].locks,
                        (seen \cap {"transfer"}) \cup (domain[d].locks \ {"transfer"})} :
              domain' = [domain EXCEPT ![d] = Written(domain[d], kind, seen, read)]
    BY <1>7
  <2>2. PICK s, n : s = domain[d] /\ n = Written(s, kind, seen, read)
    OBVIOUS
  <2>3. s \in States /\ Tidy(s) /\ Whole(s) /\ ~IsBlocked(s)
        /\ read \in {seen, s.locks, (seen \cap {"transfer"}) \cup (s.locks \ {"transfer"})}
    BY <1>3, <1>4, <2>1, <2>2
  <2>4. /\ Written(s, kind, seen, read) \in States
        /\ Tidy(Written(s, kind, seen, read)) /\ Whole(Written(s, kind, seen, read))
        /\ ~IsBlocked(Written(s, kind, seen, read))
    BY <1>3, <2>3, WrittenIsWhole
  <2>5. n \in States /\ Tidy(n) /\ Whole(n) /\ ~IsBlocked(n)
    BY <2>2, <2>4
  <2>6. domain' = [domain EXCEPT ![d] = n]
    BY <2>1, <2>2
  <2>7. QED
    BY <1>2, <1>3, <2>5, <2>6, DomainStep
<1>8. QED
  BY <1>1, <1>6, <1>7 DEF BrowserWrites, Written

LEMMA HolderKeepsIInv ==
    ASSUME IInv, HolderStep \/ \E r \in Runs : RunStep(r)
    PROVE  IInv'
<1>1. UNCHANGED Others
  BY DEF HolderStep, RunStep
<1>2. ASSUME NEW d \in DOMAIN domain, NEW kind \in Kinds, CreateBlockUnblockRequest(d, kind)
      PROVE  IInv'
  BY <1>1, <1>2, OtherStep, BrowserStays DEF CreateBlockUnblockRequest, Others
<1>3. ASSUME NEW i \in DOMAIN requests, NEW invalidated \in BOOLEAN, ProcessRequest(i, invalidated)
      PROVE  IInv'
  BY <1>1, <1>3, OtherStep, BrowserStays DEF ProcessRequest, Others
<1>4. ASSUME NEW r \in Runs,
             StartRun(r) \/ StopRun(r) \/ \E i \in DOMAIN requests : CommitFails(r, i)
      PROVE  IInv'
  BY <1>1, <1>4, OtherStep, BrowserStays DEF StartRun, StopRun, CommitFails, Others
<1>5. QED
  BY <1>1, <1>2, <1>3, <1>4, BrowserReadsKeepsIInv, BrowserWritesKeepsIInv, ProcessKeepsIInv
     DEF HolderStep, RunStep

-----------------------------------------------------------------------------
(* Steps of administrators and registrars.                                 *)
LEMMA BlockDomainsIsSound ==
    ASSUME IInv, NEW ds \in SUBSET DOMAIN domain, NEW statuses \in StatusLists,
           NEW until \in Dates, \A d \in ds : RowIsFree(d) /\ ~IsBlocked(domain[d]),
           domain' = BlockedDomains(ds, statuses, until), UNCHANGED browser
    PROVE  /\ DOMAIN domain' = DOMAIN domain
           /\ domain' \in [DOMAIN domain' -> States]
           /\ DomainsAreTidy' /\ BrowserKnows'
<1>1. statuses \in SUBSET Statuses /\ until \in 1 .. Never
  BY AdminBlockingAssumption DEF IInv, Shapes, Dates, Never
<1>2. DOMAIN domain' = DOMAIN domain
  BY DEF BlockedDomains
<1>3. ASSUME NEW d \in ds
      PROVE  domain'[d] \in States /\ Tidy(domain'[d]) /\ Whole(domain'[d])
  <2>1. domain[d] \in States /\ Tidy(domain[d]) /\ Whole(domain[d]) /\ ~IsBlocked(domain[d])
    BY <1>3 DEF IInv, Shapes, DomainsAreTidy
  <2>2. domain'[d] = Blocked(domain[d], statuses, until)
    BY <1>3 DEF BlockedDomains
  <2>3. QED
    BY <1>1, <2>1, <2>2, BlockedIsTidy
<1>4. ASSUME NEW d \in DOMAIN domain \ ds
      PROVE  domain'[d] = domain[d] /\ domain'[d] \in States /\ Tidy(domain'[d]) /\ Whole(domain'[d])
  BY <1>4 DEF BlockedDomains, IInv, Shapes, DomainsAreTidy
<1>5. domain' \in [DOMAIN domain' -> States]
  BY <1>2, <1>3, <1>4 DEF BlockedDomains
<1>6. DomainsAreTidy'
  BY <1>2, <1>3, <1>4 DEF DomainsAreTidy, Tidy, Whole, IsBlocked
<1>7. BrowserKnows'
  BY <1>2, <1>4 DEF IInv, BrowserKnows, RowIsFree, IsBlocked, Idle
<1>8. QED
  BY <1>2, <1>5, <1>6, <1>7

LEMMA BlockKeepOwnerKeepsIInv ==
    ASSUME IInv, NEW ds, NEW statuses \in StatusLists, NEW until \in Dates,
           BlockKeepOwner(ds, statuses, until)
    PROVE  IInv'
<1>1. /\ DOMAIN domain' = DOMAIN domain /\ domain' \in [DOMAIN domain' -> States]
      /\ DomainsAreTidy' /\ BrowserKnows'
  BY BlockDomainsIsSound DEF BlockKeepOwner, Locked, lockVars
<1>2. UNCHANGED <<holder, contact, today>>
  BY DEF BlockKeepOwner
<1>3. Shapes' /\ HoldersExist' /\ ContactsAreTidy'
  BY <1>1, <1>2 DEF IInv, Shapes, HoldersExist, ContactsAreTidy, Tidy, IsBlocked
<1>4. QED
  BY <1>1, <1>3 DEF IInv

LEMMA BlockOwnerKeepsIInv ==
    ASSUME IInv, NEW ds, NEW statuses \in StatusLists, NEW until \in Dates,
           BlockOwner(ds, statuses, until)
    PROVE  IInv'
<1>1. /\ DOMAIN domain' = DOMAIN domain /\ domain' \in [DOMAIN domain' -> States]
      /\ DomainsAreTidy' /\ BrowserKnows'
  BY BlockDomainsIsSound DEF BlockOwner, Locked, lockVars
<1>2. UNCHANGED <<holder, today>>
  BY DEF BlockOwner
<1>3. PICK list, owners : list = ContactStatuses(statuses) /\ owners = Holders(ds)
  OBVIOUS
<1>4. list \in SUBSET Statuses /\ until \in 1 .. Never
  BY <1>3, AdminBlockingAssumption DEF ContactStatuses, IInv, Shapes, Dates, Never
<1>5. /\ list # {} => \A h \in owners : ~IsBlocked(contact[h])
      /\ contact' = [h \in DOMAIN contact |->
             IF h \in owners /\ list # {} THEN Blocked(contact[h], list, until) ELSE contact[h]]
  BY <1>3 DEF BlockOwner
<1>6. ASSUME NEW h \in DOMAIN contact
      PROVE  contact'[h] \in States /\ Tidy(contact'[h])
  <2>1. contact[h] \in States /\ Tidy(contact[h])
    BY <1>6 DEF IInv, Shapes, ContactsAreTidy
  <2>2. CASE h \in owners /\ list # {}
    <3>1. contact'[h] = Blocked(contact[h], list, until) /\ ~IsBlocked(contact[h])
      BY <1>5, <1>6, <2>2
    <3>2. QED
      BY <1>4, <2>1, <3>1, BlockedIsTidy
  <2>3. CASE ~(h \in owners /\ list # {})
    BY <1>5, <1>6, <2>1, <2>3
  <2>4. QED
    BY <2>2, <2>3
<1>7. DOMAIN contact' = DOMAIN contact /\ contact' \in [DOMAIN contact' -> States]
  BY <1>5, <1>6
<1>8. ContactsAreTidy'
  BY <1>6, <1>7 DEF ContactsAreTidy, Tidy, IsBlocked
<1>9. Shapes' /\ HoldersExist'
  BY <1>1, <1>2, <1>7 DEF IInv, Shapes, HoldersExist
<1>10. QED
  BY <1>1, <1>8, <1>9 DEF IInv

LEMMA BlockOwnerCopyKeepsIInv ==
    ASSUME IInv, NEW ds, NEW statuses \in StatusLists, NEW until \in Dates,
           BlockOwnerCopy(ds, statuses, until)
    PROVE  IInv'
<1>1. /\ DOMAIN domain' = DOMAIN domain /\ domain' \in [DOMAIN domain' -> States]
      /\ DomainsAreTidy' /\ BrowserKnows'
  BY BlockDomainsIsSound DEF BlockOwnerCopy, Locked, lockVars
<1>2. today' = today /\ ds \subseteq DOMAIN domain
  BY DEF BlockOwnerCopy, Locked
<1>3. PICK list : list = ContactStatuses(statuses)
  OBVIOUS
<1>4. list \in SUBSET Statuses /\ until \in 1 .. Never
  BY <1>3, AdminBlockingAssumption DEF ContactStatuses, IInv, Shapes, Dates, Never
<1> DEFINE copies(f) == {f[h] : h \in Holders(ds)}
<1>14. PICK copyOf :
        /\ contact' = [h \in DOMAIN contact \cup copies(copyOf) |->
               IF h \in copies(copyOf) THEN Blocked(Unlocked, list, until) ELSE contact[h]]
        /\ holder' = [d \in DOMAIN holder |->
               IF d \in ds /\ list # {} THEN copyOf[holder[d]] ELSE holder[d]]
  BY <1>3 DEF BlockOwnerCopy
<1>15. PICK made : made = copies(copyOf)
  OBVIOUS
<1>5. /\ made = {copyOf[h] : h \in Holders(ds)}
      /\ contact' = [h \in DOMAIN contact \cup made |->
             IF h \in made THEN Blocked(Unlocked, list, until) ELSE contact[h]]
      /\ holder' = [d \in DOMAIN holder |->
             IF d \in ds /\ list # {} THEN copyOf[holder[d]] ELSE holder[d]]
  BY <1>14, <1>15
<1> HIDE DEF copies
<1>6. Blocked(Unlocked, list, until) \in States /\ Tidy(Blocked(Unlocked, list, until))
  BY <1>4, UnlockedIsTidy, BlockedIsTidy
<1>7. ASSUME NEW h \in DOMAIN contact \cup made
      PROVE  contact'[h] \in States /\ Tidy(contact'[h])
  <2>1. CASE h \in made
    BY <1>5, <1>6, <2>1
  <2>2. CASE h \notin made
    BY <1>5, <1>7, <2>2 DEF IInv, Shapes, ContactsAreTidy
  <2>3. QED
    BY <2>1, <2>2
<1>8. DOMAIN contact' = DOMAIN contact \cup made /\ contact' \in [DOMAIN contact' -> States]
  BY <1>5, <1>7
<1>9. ContactsAreTidy'
  BY <1>7, <1>8 DEF ContactsAreTidy, Tidy, IsBlocked
<1>10. HoldersExist'
  <2>1. holder \in [DOMAIN domain -> DOMAIN contact]
    BY DEF IInv, HoldersExist
  <2>2. \A d \in ds : copyOf[holder[d]] \in made
    BY <1>5 DEF Holders
  <2>3. holder' \in [DOMAIN domain' -> DOMAIN contact']
    BY <1>1, <1>5, <1>8, <2>1, <2>2
  <2>4. QED
    BY <2>3 DEF HoldersExist
<1>11. Shapes'
  BY <1>1, <1>2, <1>8 DEF IInv, Shapes
<1>12. QED
  BY <1>1, <1>9, <1>10, <1>11 DEF IInv

LEMMA UpdateBlockKeepsIInv ==
    ASSUME IInv, NEW ds, NEW statuses \in StatusLists, NEW until \in Dates,
           UpdateBlock(ds, statuses, until)
    PROVE  IInv'
<1>1. statuses \in SUBSET Statuses /\ until \in 1 .. Never
  BY AdminBlockingAssumption DEF IInv, Shapes, Dates, Never
<1>2. /\ ds \subseteq DOMAIN domain /\ \A d \in ds : IsBlocked(domain[d])
      /\ domain' = [d \in DOMAIN domain |->
             IF d \in ds THEN Blocked(Restored(domain[d]), statuses, until) ELSE domain[d]]
      /\ UNCHANGED <<browser, holder, contact, today>>
  BY DEF UpdateBlock, lockVars
<1>3. DOMAIN domain' = DOMAIN domain
  BY <1>2
<1>4. ASSUME NEW d \in ds
      PROVE  domain'[d] \in States /\ Tidy(domain'[d]) /\ Whole(domain'[d])
  <2>1. domain[d] \in States /\ Tidy(domain[d]) /\ Whole(domain[d]) /\ IsBlocked(domain[d])
    BY <1>2, <1>4 DEF IInv, Shapes, DomainsAreTidy
  <2>2. Restored(domain[d]) \in States /\ Tidy(Restored(domain[d]))
        /\ Whole(Restored(domain[d])) /\ ~IsBlocked(Restored(domain[d]))
    BY <2>1, RestoredIsTidy
  <2>3. domain'[d] = Blocked(Restored(domain[d]), statuses, until)
    BY <1>2, <1>4
  <2>4. QED
    BY <1>1, <2>2, <2>3, BlockedIsTidy
<1>5. ASSUME NEW d \in DOMAIN domain \ ds
      PROVE  domain'[d] = domain[d] /\ domain'[d] \in States /\ Tidy(domain'[d]) /\ Whole(domain'[d])
  BY <1>2, <1>5 DEF IInv, Shapes, DomainsAreTidy
<1>6. Shapes' /\ HoldersExist'
  <2>1. domain' \in [DOMAIN domain' -> States]
    BY <1>2, <1>3, <1>4, <1>5
  <2>2. QED
    BY <1>2, <1>3, <2>1 DEF IInv, Shapes, HoldersExist
<1>7. DomainsAreTidy' /\ ContactsAreTidy'
  BY <1>2, <1>3, <1>4, <1>5 DEF IInv, DomainsAreTidy, ContactsAreTidy, Tidy, Whole, IsBlocked
<1>8. BrowserKnows'
  BY <1>2, <1>3, <1>5 DEF IInv, BrowserKnows, IsBlocked, Idle
<1>9. QED
  BY <1>6, <1>7, <1>8 DEF IInv

(* The domains are restored or cleared; the holders that were blocked are  *)
(* restored, stay blocked, or are restored beside a blocked copy.          *)
LEMMA UnblockKeepsIInv ==
    ASSUME IInv, NEW ds, NEW restore \in BOOLEAN,
           NEW newOwner \in DOMAIN contact \cup {<<>>}, Unblock(ds, restore, newOwner)
    PROVE  IInv'
<1> DEFINE domain1 == [d \in DOMAIN domain |->
                          IF d \notin ds THEN domain[d]
                          ELSE IF restore THEN Restored(domain[d]) ELSE Cleared(domain[d])]
           holder1 == [d \in DOMAIN holder |->
                          IF d \in ds /\ newOwner # <<>> THEN newOwner ELSE holder[d]]
           owners  == FormerOwners(ds, holder1)
           keeping == {h \in owners : Held(h, holder1, domain1) # {}}
           copied  == CopiedOwners(keeping, newOwner)
           freed   == (owners \ keeping) \cup copied
<1>0. PICK copyOf \in CopyDomainOwners(copied) :
        /\ holder' = [d \in DOMAIN holder |->
               IF holder1[d] \in copied /\ IsBlocked(domain1[d])
               THEN copyOf[holder1[d]] ELSE holder1[d]]
        /\ contact' = [n \in DOMAIN contact \cup {copyOf[h] : h \in copied} |->
               IF n \in freed THEN Restored(contact[n])
               ELSE IF n \in DOMAIN contact THEN contact[n]
               ELSE Blocked(Unlocked, contact[CHOOSE h \in copied : copyOf[h] = n].locks, Never)]
  BY DEF Unblock
<1> DEFINE copies == {copyOf[h] : h \in copied}
           original(n) == CHOOSE h \in copied : copyOf[h] = n
<1>1. /\ Locked(ds) /\ \A d \in ds : IsBlocked(domain[d])
      /\ domain' = domain1
      /\ holder' = [d \in DOMAIN holder |->
             IF holder1[d] \in copied /\ IsBlocked(domain1[d])
             THEN copyOf[holder1[d]] ELSE holder1[d]]
      /\ contact' = [n \in DOMAIN contact \cup copies |->
             IF n \in freed THEN Restored(contact[n])
             ELSE IF n \in DOMAIN contact THEN contact[n]
             ELSE Blocked(Unlocked, contact[original(n)].locks, Never)]
      /\ UNCHANGED <<browser, today>>
  BY <1>0 DEF Unblock, lockVars
<1>2. ds \subseteq DOMAIN domain /\ \A d \in ds : RowIsFree(d)
  BY <1>1 DEF Locked
<1>3. holder \in [DOMAIN domain -> DOMAIN contact]
  BY DEF IInv, HoldersExist
<1>4. holder1 \in [DOMAIN domain -> DOMAIN contact]
  BY <1>3
<1>5. owners \subseteq DOMAIN contact /\ \A h \in owners : IsBlocked(contact[h])
  BY <1>2, <1>3 DEF FormerOwners, Holders
<1>6. copied \subseteq owners
  BY DEF CopiedOwners
<1>7. ASSUME NEW d \in ds
      PROVE  domain'[d] \in States /\ Tidy(domain'[d]) /\ Whole(domain'[d])
  <2>1. domain[d] \in States /\ Tidy(domain[d]) /\ Whole(domain[d]) /\ IsBlocked(domain[d])
    BY <1>1, <1>2, <1>7 DEF IInv, Shapes, DomainsAreTidy
  <2>2. CASE restore
    <3>1. domain'[d] = Restored(domain[d])
      BY <1>1, <1>2, <1>7, <2>2
    <3>2. QED
      BY <2>1, <3>1, RestoredIsTidy
  <2>3. CASE ~restore
    <3>1. domain'[d] = Unlocked
      BY <1>1, <1>2, <1>7, <2>3 DEF Cleared
    <3>2. QED
      BY <3>1, UnlockedIsTidy
  <2>4. QED
    BY <2>2, <2>3
<1>8. ASSUME NEW d \in DOMAIN domain \ ds
      PROVE  domain'[d] = domain[d] /\ domain'[d] \in States /\ Tidy(domain'[d]) /\ Whole(domain'[d])
  BY <1>1, <1>8 DEF IInv, Shapes, DomainsAreTidy
<1>9. DOMAIN domain' = DOMAIN domain /\ domain' \in [DOMAIN domain' -> States]
  <2>1. DOMAIN domain' = DOMAIN domain
    BY <1>1
  <2>2. domain' = [d \in DOMAIN domain |-> domain'[d]]
    BY <1>1
  <2>3. \A d \in DOMAIN domain : domain'[d] \in States
    BY <1>7, <1>8
  <2>4. QED
    BY <2>1, <2>2, <2>3
<1>10. DomainsAreTidy'
  BY <1>7, <1>8, <1>9 DEF DomainsAreTidy, Tidy, Whole, IsBlocked
<1>11. BrowserKnows'
  BY <1>1, <1>2, <1>8, <1>9 DEF IInv, BrowserKnows, RowIsFree, IsBlocked, Idle
<1>12. ASSUME NEW n \in DOMAIN contact \cup copies
       PROVE  contact'[n] \in States /\ Tidy(contact'[n])
  <2>1. CASE n \in freed
    <3>1. n \in DOMAIN contact /\ IsBlocked(contact[n])
      BY <1>5, <1>6, <2>1
    <3>2. contact[n] \in States /\ Tidy(contact[n])
      BY <3>1 DEF IInv, Shapes, ContactsAreTidy
    <3>3. contact'[n] = Restored(contact[n])
      BY <1>1, <1>12, <2>1
    <3>4. QED
      BY <3>1, <3>2, <3>3, RestoredIsTidy
  <2>2. CASE n \notin freed /\ n \in DOMAIN contact
    <3>1. contact'[n] = contact[n]
      BY <1>1, <1>12, <2>2
    <3>2. QED
      BY <2>2, <3>1 DEF IInv, Shapes, ContactsAreTidy
  <2>3. CASE n \notin freed /\ n \notin DOMAIN contact
    <3>1. PICK h : h = original(n)
      OBVIOUS
    <3>2. \E c \in copied : copyOf[c] = n
      BY <1>12, <2>3
    <3>3. h \in copied
      BY <3>1, <3>2
    <3>4. contact[h] \in States
      BY <1>5, <1>6, <3>3 DEF IInv, Shapes
    <3>5. contact[h].locks \in SUBSET Statuses
      BY <3>4 DEF States
    <3>6. Never \in 1 .. Never
      BY AdminBlockingAssumption DEF Never
    <3>7. contact'[n] = Blocked(Unlocked, contact[h].locks, Never)
      BY <1>1, <1>12, <2>3, <3>1
    <3>8. QED
      BY <3>5, <3>6, <3>7, UnlockedIsTidy, BlockedIsTidy
  <2>4. QED
    BY <2>1, <2>2, <2>3
<1>13. DOMAIN contact' = DOMAIN contact \cup copies /\ contact' \in [DOMAIN contact' -> States]
  <2> HIDE DEF copies, freed, original
  <2>1. DOMAIN contact' = DOMAIN contact \cup copies
        /\ contact' = [n \in DOMAIN contact \cup copies |-> contact'[n]]
    BY <1>1
  <2>2. QED
    BY <1>12, <2>1
<1>14. ContactsAreTidy'
  BY <1>12, <1>13 DEF ContactsAreTidy, Tidy, IsBlocked
<1>15. HoldersExist'
  <2>1. ASSUME NEW d \in DOMAIN holder
        PROVE  holder'[d] \in DOMAIN contact \cup copies
    <3>1. CASE holder1[d] \in copied /\ IsBlocked(domain1[d])
      BY <1>1, <2>1, <3>1
    <3>2. CASE ~(holder1[d] \in copied /\ IsBlocked(domain1[d]))
      <4>1. holder'[d] = holder1[d] /\ d \in DOMAIN domain
        BY <1>1, <1>3, <2>1, <3>2
      <4>2. QED
        BY <1>4, <4>1
    <3>3. QED
      BY <3>1, <3>2
  <2>2. DOMAIN holder = DOMAIN domain /\ holder' = [d \in DOMAIN holder |-> holder'[d]]
    BY <1>1, <1>3
  <2>3. holder' \in [DOMAIN domain' -> DOMAIN contact']
    BY <1>9, <1>13, <2>1, <2>2
  <2>4. QED
    BY <2>3 DEF HoldersExist
<1>16. Shapes'
  BY <1>1, <1>9, <1>13 DEF IInv, Shapes
<1>17. QED
  BY <1>10, <1>11, <1>14, <1>15, <1>16 DEF IInv

LEMMA ForgetKeepsIInv ==
    ASSUME IInv, NEW ds, \A d \in ds : RowIsFree(d), Forget(ds),
           UNCHANGED <<browser, contact, today>>
    PROVE  IInv'
<1>1. /\ domain' = [d \in DOMAIN domain \ ds |-> domain[d]]
      /\ holder' = [d \in DOMAIN holder \ ds |-> holder[d]]
  BY DEF Forget
<1>2. DOMAIN domain' = DOMAIN domain \ ds /\ \A d \in DOMAIN domain' : domain'[d] = domain[d]
  BY <1>1
<1>3. Shapes'
  BY <1>1 DEF IInv, Shapes
<1>4. HoldersExist'
  BY <1>1, <1>2 DEF IInv, HoldersExist
<1>5. DomainsAreTidy' /\ ContactsAreTidy'
  BY <1>2 DEF IInv, DomainsAreTidy, ContactsAreTidy, Tidy, Whole, IsBlocked
<1>6. BrowserKnows'
  BY <1>2 DEF IInv, BrowserKnows, RowIsFree, IsBlocked, Idle
<1>7. QED
  BY <1>3, <1>4, <1>5, <1>6 DEF IInv

LEMMA AdminKeepsIInv == ASSUME IInv, AdminStep PROVE IInv'
<1>1. ASSUME NEW ds \in SUBSET Domains, NEW newOwner \in DOMAIN contact \cup {<<>>},
             UnblockDomains(ds, newOwner) \/ RestorePreBlockStates(ds, newOwner)
      PROVE  IInv'
  BY <1>1, UnblockKeepsIInv DEF UnblockDomains, RestorePreBlockStates
<1>2. ASSUME NEW ds \in SUBSET Domains, BlacklistAndDelete(ds)
      PROVE  IInv'
  BY <1>2, ForgetKeepsIInv DEF BlacklistAndDelete, Locked
<1>3. ASSUME NEW ds \in SUBSET Domains, Blacklist(ds)
      PROVE  IInv'
  BY <1>3, OtherStep, BrowserStays DEF Blacklist, lockVars
<1>4. QED
  BY <1>1, <1>2, <1>3, BlockKeepOwnerKeepsIInv, BlockOwnerKeepsIInv, BlockOwnerCopyKeepsIInv,
     UpdateBlockKeepsIInv DEF AdminStep

LEMMA CreateDomainKeepsIInv ==
    ASSUME IInv, NEW d \in Domains, NEW h \in DOMAIN contact, CreateDomain(d, h)
    PROVE  IInv'
<1>1. /\ d \notin DOMAIN domain
      /\ domain' = [n \in DOMAIN domain \cup {d} |-> IF n = d THEN Unlocked ELSE domain[n]]
      /\ holder' = [n \in DOMAIN holder \cup {d} |-> IF n = d THEN h ELSE holder[n]]
      /\ UNCHANGED <<browser, contact, today>>
  BY DEF CreateDomain, lockVars
<1>2. /\ DOMAIN domain' = DOMAIN domain \cup {d} /\ domain'[d] = Unlocked
      /\ \A n \in DOMAIN domain : domain'[n] = domain[n]
  BY <1>1
<1>3. domain' \in [DOMAIN domain' -> States]
  BY <1>1, <1>2, UnlockedIsTidy DEF IInv, Shapes
<1>4. Shapes' /\ HoldersExist'
  BY <1>1, <1>2, <1>3 DEF IInv, Shapes, HoldersExist
<1>5. DomainsAreTidy'
  <2>1. ASSUME NEW n \in DOMAIN domain' PROVE Tidy(domain'[n]) /\ Whole(domain'[n])
    BY <1>2, <2>1, UnlockedIsTidy DEF IInv, DomainsAreTidy
  <2>2. QED
    BY <2>1 DEF DomainsAreTidy, Tidy, Whole, IsBlocked
<1>6. ContactsAreTidy'
  BY <1>1 DEF IInv, ContactsAreTidy, Tidy, IsBlocked
<1>7. BrowserKnows'
  BY <1>1, <1>2 DEF IInv, BrowserKnows, IsBlocked, Idle
<1>8. QED
  BY <1>4, <1>5, <1>6, <1>7 DEF IInv

LEMMA RegistrarKeepsIInv == ASSUME IInv, RegistrarStep PROVE IInv'
<1>1. ASSUME NEW d \in DOMAIN domain, NEW h \in DOMAIN contact, UpdateRegistrant(d, h)
      PROVE  IInv'
  <2>1. holder' = [holder EXCEPT ![d] = h] /\ UNCHANGED <<domain, browser, contact, today>>
    BY <1>1 DEF UpdateRegistrant, lockVars
  <2>2. HoldersExist'
    BY <1>1, <2>1 DEF IInv, HoldersExist
  <2>3. QED
    BY <2>1, <2>2, BrowserStays
       DEF IInv, Shapes, DomainsAreTidy, ContactsAreTidy, Tidy, Whole, IsBlocked
<1>2. ASSUME NEW d \in DOMAIN domain, DeleteDomain(d)
      PROVE  IInv'
  BY <1>2, ForgetKeepsIInv DEF DeleteDomain
<1>3. ASSUME NEW h \in DOMAIN contact, DeleteContact(h)
      PROVE  IInv'
  <2>1. /\ h \notin Holders(DOMAIN domain)
        /\ contact' = [n \in DOMAIN contact \ {h} |-> contact[n]]
        /\ UNCHANGED <<domain, browser, holder, today>>
    BY <1>3 DEF DeleteContact, lockVars
  <2>2. HoldersExist'
    BY <2>1 DEF IInv, HoldersExist, Holders
  <2>3. Shapes'
    BY <2>1 DEF IInv, Shapes
  <2>4. DomainsAreTidy' /\ ContactsAreTidy'
    BY <2>1 DEF IInv, DomainsAreTidy, ContactsAreTidy, Tidy, Whole, IsBlocked
  <2>5. QED
    BY <2>1, <2>2, <2>3, <2>4, BrowserStays DEF IInv
<1>4. ASSUME NEW src \in DOMAIN contact, NEW dst \in DOMAIN contact, MergeContacts(src, dst)
      PROVE  IInv'
  <2>1. PICK moved : moved = {d \in DOMAIN domain : holder[d] = src}
    OBVIOUS
  <2>2. /\ src # dst
        /\ holder' = [d \in DOMAIN holder |-> IF d \in moved THEN dst ELSE holder[d]]
        /\ contact' = [n \in DOMAIN contact \ {src} |-> contact[n]]
        /\ UNCHANGED <<domain, browser, today>>
    BY <1>4, <2>1 DEF MergeContacts, lockVars
  <2>3. HoldersExist'
    BY <1>4, <2>1, <2>2 DEF IInv, HoldersExist
  <2>4. Shapes'
    BY <2>2 DEF IInv, Shapes
  <2>5. DomainsAreTidy' /\ ContactsAreTidy'
    BY <2>2 DEF IInv, DomainsAreTidy, ContactsAreTidy, Tidy, Whole, IsBlocked
  <2>6. QED
    BY <2>2, <2>3, <2>4, <2>5, BrowserStays DEF IInv
<1>5. QED
  BY <1>1, <1>2, <1>3, <1>4, CreateDomainKeepsIInv DEF RegistrarStep

(* A limited block ends; what is not blocked has no day to end on.         *)
LEMMA NightKeepsIInv == ASSUME IInv, Night PROVE IInv'
<1> DEFINE Ends(s) == IF s.until = today + 1 THEN Cleared(s) ELSE s
<1>1. /\ today < MaxDay /\ today' = today + 1
      /\ domain' = [d \in DOMAIN domain |-> Ends(domain[d])]
      /\ contact' = [h \in DOMAIN contact |-> Ends(contact[h])]
      /\ UNCHANGED <<browser, holder>>
  BY DEF Night, lockVars
<1>2. today \in Nat /\ today' \in 0 .. MaxDay
  BY <1>1, AdminBlockingAssumption DEF IInv, Shapes
<1>3. ASSUME NEW s \in States, Tidy(s)
      PROVE  Ends(s) \in States /\ Tidy(Ends(s)) /\ (Whole(s) => Whole(Ends(s)))
  BY <1>3, UnlockedIsTidy DEF Cleared
<1>4. ASSUME NEW d \in DOMAIN domain
      PROVE  domain'[d] \in States /\ Tidy(domain'[d]) /\ Whole(domain'[d])
             /\ (~IsBlocked(domain[d]) => ~IsBlocked(domain'[d]))
  <2> HIDE DEF Ends
  <2>1. domain[d] \in States /\ Tidy(domain[d]) /\ Whole(domain[d])
    BY DEF IInv, Shapes, DomainsAreTidy
  <2>2. domain'[d] = Ends(domain[d])
    BY <1>1
  <2>3. domain'[d] \in States /\ Tidy(domain'[d]) /\ Whole(domain'[d])
    BY <1>3, <2>1, <2>2
  <2>4. ~IsBlocked(domain[d]) => ~IsBlocked(domain'[d])
    BY <1>2, <2>2 DEF Ends, IsBlocked, NotBlocked
  <2>5. QED
    BY <2>3, <2>4
<1>5. ASSUME NEW h \in DOMAIN contact
      PROVE  contact'[h] \in States /\ Tidy(contact'[h])
  <2> HIDE DEF Ends
  <2>1. contact[h] \in States /\ Tidy(contact[h])
    BY DEF IInv, Shapes, ContactsAreTidy
  <2>2. contact'[h] = Ends(contact[h])
    BY <1>1
  <2>3. QED
    BY <1>3, <2>1, <2>2
<1>6. DOMAIN domain' = DOMAIN domain /\ DOMAIN contact' = DOMAIN contact
  BY <1>1
<1>7. domain' \in [DOMAIN domain' -> States] /\ contact' \in [DOMAIN contact' -> States]
  <2> HIDE DEF Ends
  <2>1. domain' = [d \in DOMAIN domain |-> domain'[d]]
        /\ contact' = [h \in DOMAIN contact |-> contact'[h]]
    BY <1>1
  <2>2. QED
    BY <1>4, <1>5, <1>6, <2>1
<1>8. Shapes' /\ HoldersExist'
  BY <1>1, <1>2, <1>6, <1>7 DEF IInv, Shapes, HoldersExist
<1>9. DomainsAreTidy' /\ ContactsAreTidy'
  BY <1>4, <1>5, <1>6 DEF DomainsAreTidy, ContactsAreTidy, Tidy, Whole, IsBlocked
<1>10. BrowserKnows'
  <2> HIDE DEF Ends
  <2>1. browser' = browser
    BY <1>1
  <2>2. QED
    BY <1>4, <1>6, <2>1 DEF IInv, BrowserKnows, IsBlocked, Idle
<1>11. QED
  BY <1>8, <1>9, <1>10 DEF IInv

LEMMA NextPreserves == ASSUME IInv, [Next]_vars PROVE IInv'
<1>1. CASE Next
  BY <1>1, AdminKeepsIInv, RegistrarKeepsIInv, NightKeepsIInv, HolderKeepsIInv DEF Next
<1>2. CASE UNCHANGED vars
  BY <1>2, OtherStep, BrowserStays DEF vars
<1>3. QED
  BY <1>1, <1>2

-----------------------------------------------------------------------------
(* Handles and their copies.  Before is a strict total order, so the set   *)
(* of copies of a handle has a last one.                                   *)
LEMMA PrefixAgrees ==
    ASSUME NEW h \in Seq(Nat), NEW n \in Seq(Nat)
    PROVE  IsProperPrefix(h, n) <=>
               Len(h) < Len(n) /\ \A i \in 1 .. Len(h) : h[i] = n[i]
<1>1. SUFFICES ASSUME Len(h) < Len(n)
               PROVE  SubSeq(n, 1, Len(h)) = h <=> \A i \in 1 .. Len(h) : h[i] = n[i]
  BY DEF IsProperPrefix
<1> DEFINE s == SubSeq(n, 1, Len(h))
<1>2. \A i \in 1 .. Len(h) : n[i] \in Nat
  BY <1>1
<1>3. s \in Seq(Nat) /\ Len(s) = Len(h) /\ \A i \in 1 .. Len(h) : s[i] = n[i]
  BY <1>1, <1>2
<1> HIDE DEF s
<1>4. (\A i \in 1 .. Len(h) : h[i] = s[i]) => s = h
  <2>1. Len(s) = Len(h) /\ s \in Seq(Nat)
    BY <1>3
  <2>2. QED
    BY <2>1, SeqEqual
<1>5. QED
  BY <1>3, <1>4 DEF s

(* The order of the texts of indices.                                      *)
LEMMA ScaledIsNat == \A m \in Nat : Scaled(m) \in Nat
<1>1. ASSUME NEW m \in Nat PROVE Scaled(m) \in Nat
  <2>1. m * Base \in Nat
    BY AdminBlockingAssumption
  <2>2. QED
    BY <2>1 DEF Scaled
<1>2. QED
  BY <1>1

LEMMA TextBeforeIsTotal ==
    \A m, n \in Nat : m # n => TextBefore(m, n) \/ TextBefore(n, m)
<1>1. ASSUME NEW m \in Nat, NEW n \in Nat, m # n PROVE TextBefore(m, n) \/ TextBefore(n, m)
  <2>1. Scaled(m) \in Nat /\ Scaled(n) \in Nat
    BY ScaledIsNat
  <2>2. QED
    BY <1>1, <2>1 DEF TextBefore
<1>2. QED
  BY <1>1

LEMMA TextBeforeIsTransitive ==
    \A k, m, n \in Nat : TextBefore(k, m) /\ TextBefore(m, n) => TextBefore(k, n)
<1>1. ASSUME NEW k \in Nat, NEW m \in Nat, NEW n \in Nat, TextBefore(k, m), TextBefore(m, n)
      PROVE  TextBefore(k, n)
  <2>1. Scaled(k) \in Nat /\ Scaled(m) \in Nat /\ Scaled(n) \in Nat
    BY ScaledIsNat
  <2>2. QED
    BY <1>1, <2>1 DEF TextBefore
<1>2. QED
  BY <1>1

LEMMA TextBeforeIsStrict == \A m \in Nat : ~TextBefore(m, m)
  BY ScaledIsNat DEF TextBefore

(* The next index comes later, unless it is the first of one digit more.   *)
LEMMA NextIsLater ==
    ASSUME NEW k \in Nat, TextBefore(k + 1, k)
    PROVE  k + 1 = CopyIndexLimit
<1>0. CopyIndexLimit \in Nat /\ Base \in Nat /\ Base > 1
  BY AdminBlockingAssumption
<1>1. CASE k >= CopyIndexLimit
  <2>1. Scaled(k) = k /\ Scaled(k + 1) = k + 1
    BY <1>0, <1>1 DEF Scaled
  <2>2. QED
    BY <2>1 DEF TextBefore
<1>2. CASE k + 1 < CopyIndexLimit
  <2>1. Scaled(k) = k * Base /\ Scaled(k + 1) = (k + 1) * Base
    BY <1>0, <1>2 DEF Scaled
  <2>2. k * Base \in Nat /\ (k + 1) * Base = k * Base + Base
    BY <1>0
  <2>3. PICK a \in Nat : a = k * Base
    BY <2>2
  <2>4. Scaled(k) = a /\ Scaled(k + 1) = a + Base
    BY <2>1, <2>2, <2>3
  <2>5. QED
    BY <1>0, <2>4 DEF TextBefore
<1>3. QED
  BY <1>0, <1>1, <1>2

(* The first difference of two handles is at i.                            *)
FirstLess(h, n, i) ==
    /\ i \in 1 .. Len(h) /\ i \in 1 .. Len(n) /\ TextBefore(h[i], n[i])
    /\ \A j \in 1 .. i - 1 : h[j] = n[j]

LEMMA BeforeMeans ==
    ASSUME NEW h \in Seq(Nat), NEW n \in Seq(Nat)
    PROVE  Before(h, n) <=>
               \/ Len(h) < Len(n) /\ \A i \in 1 .. Len(h) : h[i] = n[i]
               \/ \E i \in Nat : FirstLess(h, n, i)
<1>1. DOMAIN h = 1 .. Len(h) /\ DOMAIN n = 1 .. Len(n)
  OBVIOUS
<1>2. (\E i \in DOMAIN h \cap DOMAIN n : TextBefore(h[i], n[i]) /\ \A j \in 1 .. i - 1 : h[j] = n[j])
      <=> \E i \in Nat : FirstLess(h, n, i)
  <2>1. ASSUME NEW i \in DOMAIN h \cap DOMAIN n, TextBefore(h[i], n[i]),
               \A j \in 1 .. i - 1 : h[j] = n[j]
        PROVE  i \in Nat /\ FirstLess(h, n, i)
    BY <1>1, <2>1 DEF FirstLess
  <2>2. ASSUME NEW i \in Nat, FirstLess(h, n, i)
        PROVE  /\ i \in DOMAIN h \cap DOMAIN n /\ TextBefore(h[i], n[i])
               /\ \A j \in 1 .. i - 1 : h[j] = n[j]
    BY <1>1, <2>2 DEF FirstLess
  <2>3. QED
    BY <2>1, <2>2
<1>3. QED
  BY <1>2, PrefixAgrees DEF Before

LEMMA SmallestSubset ==
    ASSUME NEW S, IsFiniteSet(S), NEW Bad, Bad \subseteq SUBSET S, Bad # {}
    PROVE  \E s \in Bad : \A t \in Bad : ~(t \subseteq s /\ t # s)
<1> DEFINE R == StrictSubsetOrdering(S)
<1>1. \A s, t \in SUBSET S : t \subseteq s /\ t # s => <<t, s>> \in R
  BY DEF StrictSubsetOrdering
<1>2. IsWellFoundedOn(R, SUBSET S)
  BY FS_StrictSubsetOrderingWellFounded, FS_FiniteSubsetsOfFinite
<1> HIDE DEF R
<1>3. PICK s \in Bad : \A t \in Bad : ~(<<t, s>> \in R)
  BY <1>2, WFMin
<1>4. QED
  BY <1>1, <1>3

LEMMA SmallestNumber ==
    ASSUME NEW Bad, Bad \subseteq Nat, Bad # {}
    PROVE  \E k \in Bad : \A m \in Bad : k <= m
<1>1. PICK n \in Bad : TRUE
  OBVIOUS
<1> DEFINE S == 1 .. n
           Below == {s \in SUBSET S : \E k \in Bad : s = 1 .. k}
<1>2. IsFiniteSet(S)
  BY <1>1, FS_Interval
<1>3. Below \subseteq SUBSET S /\ S \in Below
  BY <1>1
<1> HIDE DEF Below, S
<1>4. PICK s \in Below : \A t \in Below : ~(t \subseteq s /\ t # s)
  BY <1>2, <1>3, SmallestSubset
<1>5. PICK k \in Bad : s = 1 .. k /\ k <= n
  BY <1>1, <1>4 DEF Below, S
<1>6. ASSUME NEW m \in Bad, m < k PROVE FALSE
  <2>1. 1 .. m \in Below
    BY <1>1, <1>5, <1>6 DEF Below, S
  <2>2. 1 .. m \subseteq s /\ 1 .. m # s
    BY <1>5, <1>6
  <2>3. QED
    BY <1>4, <2>1, <2>2
<1>7. QED
  BY <1>5, <1>6

LEMMA BeforeIsTotal ==
    ASSUME NEW h \in Seq(Nat), NEW n \in Seq(Nat), h # n
    PROVE  Before(h, n) \/ Before(n, h)
<1> DEFINE Bad == {i \in Nat : i \in 1 .. Len(h) /\ i \in 1 .. Len(n) /\ h[i] # n[i]}
<1>1. CASE Bad = {}
  <2>1. \A i \in 1 .. Len(h) : i \in 1 .. Len(n) => h[i] = n[i]
    BY <1>1
  <2>2. Len(h) # Len(n)
    BY <2>1
  <2>3. QED
    BY <2>1, <2>2, BeforeMeans
<1>2. CASE Bad # {}
  <2>1. PICK i \in Bad : \A j \in Bad : i <= j
    <3>1. Bad \subseteq Nat
      OBVIOUS
    <3> HIDE DEF Bad
    <3>2. QED
      BY <1>2, <3>1, SmallestNumber
  <2>2. ASSUME NEW j \in 1 .. i - 1 PROVE h[j] = n[j]
    <3>1. j \in Nat /\ j \in 1 .. Len(h) /\ j \in 1 .. Len(n) /\ j < i
      OBVIOUS
    <3>2. j \notin Bad
      BY <2>1, <3>1
    <3>3. QED
      BY <3>1, <3>2
  <2>3. h[i] \in Nat /\ n[i] \in Nat /\ h[i] # n[i]
    OBVIOUS
  <2>4. FirstLess(h, n, i) \/ FirstLess(n, h, i)
    <3>1. TextBefore(h[i], n[i]) \/ TextBefore(n[i], h[i])
      BY <2>3, TextBeforeIsTotal
    <3>2. QED
      BY <2>2, <3>1 DEF FirstLess
  <2>5. QED
    BY <2>4, BeforeMeans
<1>3. QED
  BY <1>1, <1>2

LEMMA BeforeIsTransitive ==
    ASSUME NEW a \in Seq(Nat), NEW b \in Seq(Nat), NEW c \in Seq(Nat),
           Before(a, b), Before(b, c)
    PROVE  Before(a, c)
<1>1. /\ \A i \in 1 .. Len(a) : a[i] \in Nat
      /\ \A i \in 1 .. Len(b) : b[i] \in Nat
      /\ \A i \in 1 .. Len(c) : c[i] \in Nat
      /\ Len(a) \in Nat /\ Len(b) \in Nat /\ Len(c) \in Nat
  OBVIOUS
<1>2. CASE /\ Len(a) < Len(b) /\ \A i \in 1 .. Len(a) : a[i] = b[i]
           /\ Len(b) < Len(c) /\ \A i \in 1 .. Len(b) : b[i] = c[i]
  <2>1. Len(a) < Len(c) /\ \A i \in 1 .. Len(a) : a[i] = c[i]
    BY <1>1, <1>2
  <2>2. QED
    BY <2>1, BeforeMeans
<1>3. ASSUME Len(a) < Len(b), \A i \in 1 .. Len(a) : a[i] = b[i],
             NEW k \in Nat, FirstLess(b, c, k)
      PROVE  Before(a, c)
  <2>1. CASE k <= Len(a)
    <3>1. FirstLess(a, c, k)
      BY <1>1, <1>3, <2>1 DEF FirstLess
    <3>2. QED
      BY <3>1, BeforeMeans
  <2>2. CASE ~(k <= Len(a))
    <3>1. Len(a) < Len(c) /\ \A i \in 1 .. Len(a) : a[i] = c[i]
      BY <1>1, <1>3, <2>2 DEF FirstLess
    <3>2. QED
      BY <3>1, BeforeMeans
  <2>3. QED
    BY <2>1, <2>2
<1>4. ASSUME Len(b) < Len(c), \A i \in 1 .. Len(b) : b[i] = c[i],
             NEW k \in Nat, FirstLess(a, b, k)
      PROVE  Before(a, c)
  <2>1. FirstLess(a, c, k)
    BY <1>1, <1>4 DEF FirstLess
  <2>2. QED
    BY <2>1, BeforeMeans
<1>5. ASSUME NEW i \in Nat, FirstLess(a, b, i), NEW k \in Nat, FirstLess(b, c, k)
      PROVE  Before(a, c)
  <2>0. /\ i \in 1 .. Len(a) /\ i \in 1 .. Len(b) /\ TextBefore(a[i], b[i])
        /\ \A j \in 1 .. i - 1 : a[j] = b[j]
        /\ k \in 1 .. Len(b) /\ k \in 1 .. Len(c) /\ TextBefore(b[k], c[k])
        /\ \A j \in 1 .. k - 1 : b[j] = c[j]
    BY <1>5 DEF FirstLess
  <2>1. CASE i <= k
    <3>1. i \in 1 .. Len(c)
      BY <1>1, <2>0, <2>1
    <3>2. TextBefore(a[i], c[i])
      <4>1. a[i] \in Nat /\ b[i] \in Nat /\ c[i] \in Nat
        BY <1>1, <2>0, <3>1
      <4>2. CASE i = k
        BY <2>0, <4>1, <4>2, TextBeforeIsTransitive
      <4>3. CASE i # k
        <5>1. b[i] = c[i]
          BY <2>0, <2>1, <4>3
        <5>2. QED
          BY <2>0, <5>1
      <4>4. QED
        BY <4>2, <4>3
    <3>3. ASSUME NEW j \in 1 .. i - 1 PROVE a[j] = c[j]
      <4>1. j \in 1 .. k - 1
        BY <2>0, <2>1
      <4>2. QED
        BY <2>0, <4>1
    <3>4. FirstLess(a, c, i)
      BY <2>0, <3>1, <3>2, <3>3 DEF FirstLess
    <3>5. QED
      BY <3>4, BeforeMeans
  <2>2. CASE k < i
    <3>0. k \in 1 .. Len(a) /\ a[k] = b[k]
      BY <1>1, <2>0, <2>2
    <3>1. FirstLess(a, c, k)
      BY <1>1, <2>0, <2>2, <3>0 DEF FirstLess
    <3>2. QED
      BY <3>1, BeforeMeans
  <2>3. QED
    BY <2>1, <2>2
<1>6. QED
  BY <1>2, <1>3, <1>4, <1>5, BeforeMeans

LEMMA LastExists ==
    ASSUME NEW C, C \subseteq Seq(Nat), IsFiniteSet(C), C # {}
    PROVE  \E n \in C : \A m \in C \ {n} : Before(m, n)
<1> DEFINE Bad == {s \in SUBSET C : s # {} /\ ~\E n \in s : \A m \in s \ {n} : Before(m, n)}
<1> SUFFICES ASSUME Bad # {} PROVE FALSE
  OBVIOUS
<1>1. PICK s \in Bad : \A t \in Bad : ~(t \subseteq s /\ t # s)
  <2>1. Bad \subseteq SUBSET C
    OBVIOUS
  <2> HIDE DEF Bad
  <2>2. QED
    BY <2>1, SmallestSubset
<1>2. PICK x \in s : TRUE
  OBVIOUS
<1>3. s \ {x} # {}
  OBVIOUS
<1>4. PICK n \in s \ {x} : \A m \in (s \ {x}) \ {n} : Before(m, n)
  <2>1. s \ {x} \notin Bad
    BY <1>1
  <2>2. QED
    BY <1>3, <2>1
<1>5. x \in Seq(Nat) /\ n \in Seq(Nat) /\ x # n /\ \A m \in s : m \in Seq(Nat)
  OBVIOUS
<1>6. CASE Before(x, n)
  BY <1>4, <1>6
<1>7. CASE Before(n, x)
  <2>1. \A m \in s \ {x} : Before(m, x)
    BY <1>4, <1>5, <1>7, BeforeIsTransitive
  <2>2. QED
    BY <2>1
<1>8. QED
  BY <1>5, <1>6, <1>7, BeforeIsTotal

(* What is known of the names of contacts: they are not empty, and there   *)
(* are finitely many copies.                                               *)
AreNames(C) ==
    /\ C \subseteq Seq(Nat)
    /\ \A h \in C : Len(h) > 0
    /\ IsFiniteSet({n \in C : Len(n) > 1})

Names == AreNames(DOMAIN contact)

LEMMA AppendFacts ==
    ASSUME NEW s \in Seq(Nat), NEW x \in Nat
    PROVE  /\ Append(s, x) \in Seq(Nat) /\ Len(Append(s, x)) = Len(s) + 1
           /\ \A i \in 1 .. Len(s) : Append(s, x)[i] = s[i]
           /\ Append(s, x)[Len(s) + 1] = x
  OBVIOUS

(* A name of a copy of h.                                                  *)
IsCopyOf(n, h) == n \in Seq(Nat) /\ Len(n) > 1 /\ Head(n) = Head(h)

LEMMA CopyIsNew ==
    ASSUME NEW C, AreNames(C), NEW h \in C
    PROVE  /\ IsCopyOf(CopyOwnerHandle(h, C), h)
           /\ CopyOwnerHandle(h, C) \in C => CopyOwnerHandle(h, C) = Append(h, CopyIndexLimit)
<1> DEFINE new == CopyOwnerHandle(h, C)
<1>2. C \subseteq Seq(Nat) /\ h \in C /\ h \in Seq(Nat) /\ Len(h) > 0
  BY DEF AreNames
<1> DEFINE copies == {n \in C : IsProperPrefix(h, n)}
           last == CHOOSE n \in copies : \A m \in copies \ {n} : Before(m, n)
<1>3. new = IF copies = {} THEN Append(h, 0)
            ELSE IF Len(last) = Len(h) + 1 THEN Append(h, last[Len(last)] + 1)
            ELSE Append(last, 0)
  BY DEF CopyOwnerHandle
<1> HIDE DEF new
<1>4. \A n \in Seq(Nat) : n \in copies <=>
          n \in C /\ Len(h) < Len(n) /\ \A i \in 1 .. Len(h) : h[i] = n[i]
  BY <1>2, PrefixAgrees
<1>5. SUFFICES /\ new \in Seq(Nat) /\ (new \in C => new = Append(h, CopyIndexLimit))
               /\ Len(h) < Len(new) /\ \A i \in 1 .. Len(h) : h[i] = new[i]
  <2>1. ASSUME new \in Seq(Nat), Len(h) < Len(new), \A i \in 1 .. Len(h) : h[i] = new[i]
        PROVE  Len(new) > 1 /\ Head(new) = Head(h)
    BY <1>2, <2>1
  <2>2. QED
    BY <2>1 DEF new, IsCopyOf
<1>6. CASE copies = {}
  <2>1. new = Append(h, 0)
    BY <1>3, <1>6
  <2>2. /\ new \in Seq(Nat) /\ Len(new) = Len(h) + 1
        /\ \A i \in 1 .. Len(h) : new[i] = h[i]
    BY <1>2, <2>1, AppendFacts
  <2>3. QED
    BY <1>2, <1>4, <1>6, <2>2
<1>7. CASE copies # {}
  <2>1. IsFiniteSet(copies)
    <3>1. copies \subseteq {n \in C : Len(n) > 1}
      BY <1>2, <1>4
    <3>2. IsFiniteSet({n \in C : Len(n) > 1})
      BY DEF AreNames
    <3> HIDE DEF copies
    <3>3. QED
      BY <3>1, <3>2, FS_Subset
  <2>2. copies \subseteq Seq(Nat)
    BY <1>2
  <2>3. last \in copies /\ \A m \in copies \ {last} : Before(m, last)
    <3> HIDE DEF copies
    <3>1. QED
      BY <1>7, <2>1, <2>2, LastExists
  <2> HIDE DEF last
  <2>4. last \in Seq(Nat) /\ last \in C /\ Len(h) < Len(last)
        /\ \A i \in 1 .. Len(h) : h[i] = last[i]
    BY <1>4, <2>2, <2>3
  <2>5. ASSUME new \in Seq(Nat), Len(h) < Len(new), \A i \in 1 .. Len(h) : h[i] = new[i],
               new \in C, new # last
        PROVE  \/ Len(new) < Len(last) /\ \A i \in 1 .. Len(new) : new[i] = last[i]
               \/ \E i \in Nat : FirstLess(new, last, i)
    <3>1. new \in copies
      BY <1>4, <2>5
    <3>2. Before(new, last)
      BY <2>3, <2>5, <3>1
    <3>3. QED
      BY <2>4, <2>5, <3>2, BeforeMeans
  <2>6. CASE Len(last) = Len(h) + 1
    <3> DEFINE next == last[Len(last)] + 1
    <3>1. last[Len(last)] \in Nat /\ next \in Nat /\ Len(last) \in Nat
      BY <2>4
    <3>2. new = Append(h, next)
      BY <1>3, <1>7, <2>6
    <3> HIDE DEF next
    <3>3. /\ new \in Seq(Nat) /\ Len(new) = Len(h) + 1
          /\ \A i \in 1 .. Len(h) : new[i] = h[i] /\ new[Len(h) + 1] = next
      BY <1>2, <3>1, <3>2, AppendFacts
    <3>4. /\ Len(new) = Len(last) /\ last[Len(new)] \in Nat
          /\ new[Len(new)] = last[Len(new)] + 1 /\ new # last
      BY <1>2, <2>6, <3>1, <3>2, <3>3, AppendFacts DEF next
    <3>5. ASSUME NEW i \in Nat, FirstLess(new, last, i) PROVE next = CopyIndexLimit
      <4>1. i \in 1 .. Len(new) /\ TextBefore(new[i], last[i])
        BY <3>5 DEF FirstLess
      <4>2. CASE i = Len(new)
        <5>1. PICK k \in Nat : k = last[Len(new)]
          BY <3>4
        <5>2. TextBefore(k + 1, k) /\ next = k + 1
          BY <2>6, <3>3, <3>4, <4>1, <4>2, <5>1 DEF next
        <5>3. QED
          BY <5>2, NextIsLater
      <4>3. CASE i # Len(new)
        <5>1. i \in 1 .. Len(h)
          BY <1>2, <3>3, <4>1, <4>3
        <5>2. new[i] = last[i] /\ last[i] \in Nat
          BY <2>4, <3>3, <5>1
        <5>3. QED
          BY <4>1, <5>2, TextBeforeIsStrict
      <4>4. QED
        BY <4>2, <4>3
    <3>6. new \in C => new = Append(h, CopyIndexLimit)
      <4>1. ASSUME new \in C PROVE next = CopyIndexLimit
        <5>1. \E i \in Nat : FirstLess(new, last, i)
          BY <1>2, <2>5, <3>3, <3>4, <4>1
        <5>2. QED
          BY <3>5, <5>1
      <4>2. QED
        BY <3>2, <4>1
    <3>7. QED
      BY <1>2, <3>3, <3>6
  <2>7. CASE Len(last) # Len(h) + 1
    <3>1. new = Append(last, 0)
      BY <1>3, <1>7, <2>7
    <3>2. /\ new \in Seq(Nat) /\ Len(new) = Len(last) + 1
          /\ \A i \in 1 .. Len(last) : new[i] = last[i]
      BY <2>4, <3>1, AppendFacts
    <3>3. Len(h) < Len(new) /\ (\A i \in 1 .. Len(h) : h[i] = new[i]) /\ new # last
      BY <1>2, <2>4, <3>2
    <3>4. ASSUME NEW i \in Nat PROVE ~FirstLess(new, last, i)
      <4>1. ASSUME i \in 1 .. Len(last) PROVE ~TextBefore(new[i], last[i])
        BY <2>4, <3>2, <4>1, TextBeforeIsStrict
      <4>2. QED
        BY <4>1 DEF FirstLess
    <3>5. new \notin C
      BY <2>4, <2>5, <3>2, <3>3, <3>4
    <3>6. QED
      BY <3>2, <3>3, <3>5
  <2>8. QED
    BY <2>6, <2>7
<1>8. QED
  BY <1>6, <1>7

LEMMA ImageIsFinite ==
    ASSUME NEW S, IsFiniteSet(S), NEW f, DOMAIN f = S
    PROVE  IsFiniteSet({f[x] : x \in S})
<1> DEFINE T == {f[x] : x \in S}
           g == [x \in S |-> f[x]]
<1>1. g \in Surjection(S, T)
  BY DEF Surjection
<1>2. QED
  BY <1>1, FS_Surjection

LEMMA MoreNames ==
    ASSUME NEW C, AreNames(C), NEW D, IsFiniteSet(D),
           \A n \in D : n \in Seq(Nat) /\ Len(n) > 1
    PROVE  AreNames(C \cup D)
<1>1. IsFiniteSet({n \in C : Len(n) > 1} \cup D)
  BY FS_Union DEF AreNames
<1>2. {n \in C \cup D : Len(n) > 1} \subseteq {n \in C : Len(n) > 1} \cup D
  OBVIOUS
<1>3. IsFiniteSet({n \in C \cup D : Len(n) > 1})
  BY <1>1, <1>2, FS_Subset
<1>4. \A n \in C \cup D : n \in Seq(Nat) /\ Len(n) > 0
  BY DEF AreNames
<1>5. QED
  BY <1>3, <1>4 DEF AreNames

LEMMA FewerNames == ASSUME NEW C, AreNames(C), NEW D, D \subseteq C PROVE AreNames(D)
<1>1. {n \in D : Len(n) > 1} \subseteq {n \in C : Len(n) > 1}
  OBVIOUS
<1>2. IsFiniteSet({n \in D : Len(n) > 1})
  BY <1>1, FS_Subset DEF AreNames
<1>3. QED
  BY <1>2 DEF AreNames

(* The copies of copy_domain_owners are new names: if one were not a name, *)
(* so the first in turn that is not; but it was looked for among names.    *)
LEMMA CopiesAreMade ==
    ASSUME Names, NEW S, S \subseteq DOMAIN contact, IsFiniteSet(S),
           NEW copyOf \in CopyDomainOwners(S)
    PROVE  /\ \A h \in S : IsCopyOf(copyOf[h], h) /\ copyOf[h] \notin DOMAIN contact
           /\ IsFiniteSet({copyOf[h] : h \in S})
<1>1. PICK turn \in Turns(S) : MadeInTurn(copyOf, turn)
  BY DEF CopyDomainOwners
<1>2. DOMAIN turn = S /\ \A h \in S : turn[h] \in Nat
  <2>1. turn \in [S -> 1 .. Cardinality(S)]
    BY DEF Turns
  <2>2. QED
    BY <2>1
<1>3. PICK C : C = DOMAIN contact
  OBVIOUS
<1> DEFINE earlier(h) == {o \in S : turn[o] < turn[h]}
           sofar(h) == C \cup {copyOf[g] : g \in earlier(h)}
<1>4. \A h \in S : copyOf[h] = CopyOwnerHandle(h, sofar(h)) /\ copyOf[h] \notin sofar(h)
  BY <1>1, <1>2, <1>3 DEF MadeInTurn, NamesSoFar
<1>5. AreNames(C) /\ S \subseteq C
  BY <1>3 DEF Names
<1>6. ASSUME NEW h \in S, \A g \in earlier(h) : IsCopyOf(copyOf[g], g)
      PROVE  IsCopyOf(copyOf[h], h)
  <2>1. PICK E, N : E = earlier(h) /\ N = sofar(h)
    OBVIOUS
  <2>2. PICK D : D = {copyOf[g] : g \in E}
    OBVIOUS
  <2>3. N = C \cup D
    BY <2>1, <2>2
  <2>4. IsFiniteSet(D)
    <3>1. IsFiniteSet(E)
      <4>1. E \subseteq S
        BY <2>1
      <4>2. QED
        BY <4>1, FS_Subset
    <3>2. PICK f : f = [g \in E |-> copyOf[g]]
      OBVIOUS
    <3>3. DOMAIN f = E /\ D = {f[g] : g \in E}
      BY <2>2, <3>2
    <3>4. QED
      BY <3>1, <3>3, ImageIsFinite
  <2>5. \A n \in D : n \in Seq(Nat) /\ Len(n) > 1
    BY <1>6, <2>1, <2>2 DEF IsCopyOf
  <2>6. AreNames(N)
    BY <1>5, <2>3, <2>4, <2>5, MoreNames
  <2>7. h \in N
    BY <1>5, <2>3
  <2>8. copyOf[h] = CopyOwnerHandle(h, N)
    BY <1>4, <2>1
  <2>9. QED
    BY <2>6, <2>7, <2>8, CopyIsNew
<1>7. ASSUME NEW x \in S, ~IsCopyOf(copyOf[x], x) PROVE FALSE
  <2> DEFINE Bad == {k \in Nat : \E h \in S : k = turn[h] /\ ~IsCopyOf(copyOf[h], h)}
  <2>1. turn[x] \in Bad
    BY <1>2, <1>7
  <2>2. Bad \subseteq Nat /\ Bad # {}
    BY <2>1
  <2> HIDE DEF Bad
  <2>3. PICK k \in Bad : \A m \in Bad : k <= m
    BY <2>2, SmallestNumber
  <2>4. PICK h \in S : k = turn[h] /\ ~IsCopyOf(copyOf[h], h)
    BY <2>3 DEF Bad
  <2>5. ASSUME NEW g \in earlier(h), ~IsCopyOf(copyOf[g], g) PROVE FALSE
    <3>1. g \in S /\ turn[g] \in Nat /\ turn[g] < turn[h]
      BY <1>2, <2>5
    <3>2. turn[g] \in Bad
      BY <2>5, <3>1 DEF Bad
    <3>3. turn[h] <= turn[g] /\ turn[h] \in Nat
      BY <1>2, <2>3, <2>4, <3>2
    <3>4. QED
      BY <3>1, <3>3
  <2>6. QED
    BY <1>6, <2>4, <2>5
<1>8. \A h \in S : copyOf[h] \notin C
  BY <1>4
<1>9. IsFiniteSet({copyOf[h] : h \in S})
  <2>1. PICK f : f = [h \in S |-> copyOf[h]]
    OBVIOUS
  <2>2. DOMAIN f = S /\ {copyOf[h] : h \in S} = {f[h] : h \in S}
    BY <2>1
  <2>3. QED
    BY <2>2, ImageIsFinite
<1>10. QED
  BY <1>3, <1>7, <1>8, <1>9

(* A step that adds copies of finitely many contacts.                      *)
LEMMA CopiesKeepNames ==
    ASSUME Names, NEW S, S \subseteq DOMAIN contact, IsFiniteSet(S),
           NEW copyOf \in CopyDomainOwners(S),
           DOMAIN contact' = DOMAIN contact \cup {copyOf[h] : h \in S}
    PROVE  Names'
<1>1. PICK C, D : C = DOMAIN contact /\ D = {copyOf[h] : h \in S}
  OBVIOUS
<1>2. AreNames(C) /\ IsFiniteSet(D) /\ \A n \in D : n \in Seq(Nat) /\ Len(n) > 1
  BY <1>1, CopiesAreMade DEF Names, IsCopyOf
<1>3. AreNames(C \cup D)
  BY <1>2, MoreNames
<1>4. QED
  BY <1>1, <1>3 DEF Names, AreNames

LEMMA NoCopiesKeepNames ==
    ASSUME Names, DOMAIN contact' \subseteq DOMAIN contact
    PROVE  Names'
<1>1. PICK C, D : C = DOMAIN contact /\ D = DOMAIN contact'
  OBVIOUS
<1>2. AreNames(D)
  BY <1>1, FewerNames DEF Names
<1>3. QED
  BY <1>1, <1>2 DEF Names, AreNames

LEMMA HoldersAreFinite ==
    ASSUME IInv, NEW ds \in SUBSET Domains, ds \subseteq DOMAIN domain
    PROVE  IsFiniteSet(Holders(ds)) /\ Holders(ds) \subseteq DOMAIN contact
<1>1. IsFiniteSet(ds)
  BY ObjectLocksAssumption, FS_Subset
<1>2. PICK f : f = [d \in ds |-> holder[d]]
  OBVIOUS
<1>3. Holders(ds) = {f[d] : d \in ds} /\ DOMAIN f = ds
  BY <1>2 DEF Holders
<1>4. Holders(ds) \subseteq DOMAIN contact
  BY DEF IInv, HoldersExist, Holders
<1>5. QED
  BY <1>1, <1>3, <1>4, ImageIsFinite

LEMMA BlockOwnerCopyKeepsNames ==
    ASSUME IInv, Names, NEW ds \in SUBSET Domains, NEW statuses \in StatusLists,
           NEW until \in Dates, BlockOwnerCopy(ds, statuses, until)
    PROVE  Names'
<1>1. PICK S : S = Holders(ds)
  OBVIOUS
<1>2. ds \subseteq DOMAIN domain
  BY DEF BlockOwnerCopy, Locked
<1>3. IsFiniteSet(S) /\ S \subseteq DOMAIN contact
  BY <1>1, <1>2, HoldersAreFinite
<1>4. PICK copyOf \in CopyDomainOwners(S) :
          DOMAIN contact' = DOMAIN contact \cup {copyOf[h] : h \in S}
  BY <1>1 DEF BlockOwnerCopy
<1>5. QED
  BY <1>3, <1>4, CopiesKeepNames

LEMMA UnblockKeepsNames ==
    ASSUME IInv, Names, NEW ds \in SUBSET Domains, NEW restore \in BOOLEAN,
           NEW newOwner \in DOMAIN contact \cup {<<>>}, Unblock(ds, restore, newOwner)
    PROVE  Names'
<1> DEFINE domain1 == [d \in DOMAIN domain |->
                          IF d \notin ds THEN domain[d]
                          ELSE IF restore THEN Restored(domain[d]) ELSE Cleared(domain[d])]
           holder1 == [d \in DOMAIN holder |->
                          IF d \in ds /\ newOwner # <<>> THEN newOwner ELSE holder[d]]
           owners  == FormerOwners(ds, holder1)
           keeping == {h \in owners : Held(h, holder1, domain1) # {}}
<1>1. PICK S : S = CopiedOwners(keeping, newOwner)
  OBVIOUS
<1>2. ds \subseteq DOMAIN domain
  BY DEF Unblock, Locked
<1>3. S \subseteq Holders(ds)
  BY <1>1 DEF CopiedOwners, FormerOwners
<1>4. IsFiniteSet(S) /\ S \subseteq DOMAIN contact
  BY <1>2, <1>3, HoldersAreFinite, FS_Subset
<1>5. PICK copyOf \in CopyDomainOwners(S) :
          DOMAIN contact' = DOMAIN contact \cup {copyOf[h] : h \in S}
  BY <1>1 DEF Unblock
<1>6. QED
  BY <1>4, <1>5, CopiesKeepNames

LEMMA NextKeepsNames == ASSUME IInv, Names, [Next]_vars PROVE Names'
<1>1. ASSUME NEW ds \in SUBSET Domains, NEW statuses \in StatusLists, NEW until \in Dates,
             \/ BlockKeepOwner(ds, statuses, until)
             \/ BlockOwner(ds, statuses, until)
             \/ BlockOwnerCopy(ds, statuses, until)
             \/ UpdateBlock(ds, statuses, until)
      PROVE  Names'
  <2>1. CASE \/ BlockKeepOwner(ds, statuses, until)
             \/ BlockOwner(ds, statuses, until)
             \/ UpdateBlock(ds, statuses, until)
    <3>1. DOMAIN contact' \subseteq DOMAIN contact
      BY <2>1 DEF BlockKeepOwner, BlockOwner, UpdateBlock
    <3>2. QED
      BY <3>1, NoCopiesKeepNames
  <2>2. QED
    BY <1>1, <2>1, BlockOwnerCopyKeepsNames
<1>2. ASSUME NEW ds \in SUBSET Domains, NEW newOwner \in DOMAIN contact \cup {<<>>},
             UnblockDomains(ds, newOwner) \/ RestorePreBlockStates(ds, newOwner)
      PROVE  Names'
  BY <1>2, UnblockKeepsNames DEF UnblockDomains, RestorePreBlockStates
<1>3. CASE \/ \E ds \in SUBSET Domains : BlacklistAndDelete(ds) \/ Blacklist(ds)
           \/ RegistrarStep \/ Night \/ UNCHANGED contact
  <2>1. DOMAIN contact' \subseteq DOMAIN contact
    BY <1>3 DEF BlacklistAndDelete, Blacklist, RegistrarStep, CreateDomain, UpdateRegistrant,
                DeleteDomain, DeleteContact, MergeContacts, Night
  <2>2. QED
    BY <2>1, NoCopiesKeepNames
<1>4. QED
  BY <1>1, <1>2, <1>3 DEF Next, AdminStep, HolderStep, RunStep, Others, vars

LEMMA InitNames == Init => Names
<1> SUFFICES ASSUME Init PROVE Names
  OBVIOUS
<1>1. DOMAIN contact = Handles
  BY DEF Init
<1>2. IsFiniteSet(Handles) /\ \A h \in Handles : h \in Seq(Nat) /\ Len(h) > 0
  BY AdminBlockingAssumption
<1>3. {n \in Handles : Len(n) > 1} \subseteq Handles
  OBVIOUS
<1>4. IsFiniteSet({n \in Handles : Len(n) > 1})
  BY <1>2, <1>3, FS_Subset
<1>5. QED
  BY <1>1, <1>2, <1>4 DEF Names, AreNames
-----------------------------------------------------------------------------
(* The other types: requests, runs and the browser.                        *)
Frame ==
    /\ DOMAIN domain \subseteq Domains /\ blacklist \subseteq Domains
    /\ requests \in Seq(RequestsType)
    /\ run \in [Runs -> SUBSET DOMAIN requests]
    /\ browser \in [on : Domains \cup {"none"}, kind : Kinds \cup {"none"},
                    seen : SUBSET Statuses]
    /\ ops \in 0 .. MaxOps

LEMMA RequestsChange ==
    ASSUME requests \in Seq(RequestsType), NEW f,
           f = [i \in DOMAIN requests |-> f[i]],
           \A i \in DOMAIN requests : f[i] \in RequestsType
    PROVE  f \in Seq(RequestsType) /\ DOMAIN f = DOMAIN requests
<1>1. PICK n \in Nat : n = Len(requests) /\ DOMAIN requests = 1 .. n
  OBVIOUS
<1>2. f \in [1 .. n -> RequestsType]
  BY <1>1
<1>3. QED
  BY <1>1, <1>2, SeqDef

LEMMA CallCounts == ASSUME Frame, Call PROVE ops' \in 0 .. MaxOps
  BY ObjectLocksAssumption DEF Frame, Call

(* Steps that leave requests, runs and the browser alone.                  *)
LEMMA FrameStays ==
    ASSUME Frame, UNCHANGED lockVars, ops' \in 0 .. MaxOps,
           DOMAIN domain' \subseteq Domains, blacklist' \subseteq Domains
    PROVE  Frame'
  BY DEF Frame, lockVars

LEMMA ForgetKeepsFrame ==
    ASSUME Frame, NEW ds \in SUBSET Domains, Forget(ds), Call, UNCHANGED <<run, browser>>,
           blacklist' \subseteq Domains
    PROVE  Frame'
<1>1. PICK f : f = requests'
  OBVIOUS
<1>2. f = [i \in DOMAIN requests |->
              IF requests[i].on \in ds THEN [requests[i] EXCEPT !.on = "none"] ELSE requests[i]]
  BY <1>1 DEF Forget
<1>3. ASSUME NEW i \in DOMAIN requests PROVE f[i] \in RequestsType
  <2>1. requests[i] \in RequestsType
    BY DEF Frame
  <2>2. [requests[i] EXCEPT !.on = "none"] \in RequestsType
    BY <2>1 DEF RequestsType
  <2>3. QED
    BY <1>2, <2>1, <2>2
<1>4. f \in Seq(RequestsType) /\ DOMAIN f = DOMAIN requests
  BY <1>2, <1>3, RequestsChange DEF Frame
<1>5. DOMAIN domain' \subseteq Domains
  BY DEF Forget, Frame
<1>6. QED
  BY <1>1, <1>4, <1>5, CallCounts DEF Frame

LEMMA AdminKeepsFrame == ASSUME Frame, AdminStep PROVE Frame'
<1>1. ASSUME NEW ds \in SUBSET Domains, NEW statuses \in StatusLists, NEW until \in Dates,
             \/ BlockKeepOwner(ds, statuses, until)
             \/ BlockOwner(ds, statuses, until)
             \/ BlockOwnerCopy(ds, statuses, until)
             \/ UpdateBlock(ds, statuses, until)
      PROVE  Frame'
  <2>1. DOMAIN domain' = DOMAIN domain /\ Call /\ UNCHANGED <<lockVars, blacklist>>
    BY <1>1 DEF BlockKeepOwner, BlockOwner, BlockOwnerCopy, UpdateBlock, BlockedDomains
  <2>2. QED
    BY <2>1, CallCounts, FrameStays DEF Frame
<1>2. ASSUME NEW ds \in SUBSET Domains, NEW newOwner \in DOMAIN contact \cup {<<>>},
             UnblockDomains(ds, newOwner) \/ RestorePreBlockStates(ds, newOwner)
      PROVE  Frame'
  <2>1. DOMAIN domain' = DOMAIN domain /\ Call /\ UNCHANGED <<lockVars, blacklist>>
    BY <1>2 DEF UnblockDomains, RestorePreBlockStates, Unblock
  <2>2. QED
    BY <2>1, CallCounts, FrameStays DEF Frame
<1>3. ASSUME NEW ds \in SUBSET Domains, BlacklistAndDelete(ds)
      PROVE  Frame'
  <2>1. blacklist' \subseteq Domains
    BY <1>3 DEF BlacklistAndDelete, Frame
  <2>2. QED
    BY <1>3, <2>1, ForgetKeepsFrame DEF BlacklistAndDelete
<1>4. ASSUME NEW ds \in SUBSET Domains, Blacklist(ds)
      PROVE  Frame'
  <2>1. blacklist' \subseteq Domains
    BY <1>4 DEF Blacklist, Frame
  <2>2. QED
    BY <1>4, <2>1, CallCounts, FrameStays DEF Blacklist, Frame
<1>5. QED
  BY <1>1, <1>2, <1>3, <1>4 DEF AdminStep

LEMMA RegistrarKeepsFrame == ASSUME Frame, RegistrarStep PROVE Frame'
<1>1. ASSUME NEW d \in Domains, NEW h, CreateDomain(d, h)
      PROVE  Frame'
  <2>1. DOMAIN domain' = DOMAIN domain \cup {d}
    BY <1>1 DEF CreateDomain
  <2>2. QED
    BY <1>1, <2>1, CallCounts, FrameStays DEF CreateDomain, Frame
<1>2. ASSUME NEW d \in DOMAIN domain, DeleteDomain(d)
      PROVE  Frame'
  <2>1. {d} \in SUBSET Domains
    BY DEF Frame
  <2>2. blacklist' \subseteq Domains
    BY <1>2 DEF DeleteDomain, Frame
  <2>3. QED
    BY <1>2, <2>1, <2>2, ForgetKeepsFrame DEF DeleteDomain
<1>3. CASE \/ \E d \in DOMAIN domain, h \in DOMAIN contact : UpdateRegistrant(d, h)
           \/ \E h \in DOMAIN contact : DeleteContact(h)
           \/ \E src, dst \in DOMAIN contact : MergeContacts(src, dst)
  <2>1. Call /\ UNCHANGED <<lockVars, domain, blacklist>>
    BY <1>3 DEF UpdateRegistrant, DeleteContact, MergeContacts
  <2>2. QED
    BY <2>1, CallCounts, FrameStays DEF Frame
<1>4. QED
  BY <1>1, <1>2, <1>3 DEF RegistrarStep

LEMMA RequestKeepsFrame ==
    ASSUME Frame, NEW d \in DOMAIN domain, NEW kind \in Kinds,
           CreateBlockUnblockRequest(d, kind), UNCHANGED Others
    PROVE  Frame'
<1> DEFINE closed == [i \in DOMAIN requests |->
                IF requests[i].on = d /\ requests[i].status = "opened"
                THEN [requests[i] EXCEPT !.status = "invalidated", !.action = "processed"]
                ELSE requests[i]]
           request == [on |-> d, kind |-> kind, status |-> "opened", action |-> "processed"]
<1>1. requests' = Append(closed, request)
  BY DEF CreateBlockUnblockRequest
<1>2. request \in RequestsType
  BY DEF RequestsType, Frame
<1>3. ASSUME NEW i \in DOMAIN requests PROVE closed[i] \in RequestsType
  <2>1. requests[i] \in RequestsType
    BY DEF Frame
  <2>2. [requests[i] EXCEPT !.status = "invalidated", !.action = "processed"] \in RequestsType
    BY <2>1 DEF RequestsType
  <2>3. QED
    BY <2>1, <2>2
<1>4. closed = [i \in DOMAIN requests |-> closed[i]]
  OBVIOUS
<1> HIDE DEF closed, request
<1>5. closed \in Seq(RequestsType) /\ DOMAIN closed = DOMAIN requests
  BY <1>3, <1>4, RequestsChange DEF Frame
<1>6. requests' \in Seq(RequestsType) /\ DOMAIN requests \subseteq DOMAIN requests'
  BY <1>1, <1>2, <1>5
<1>7. Call /\ UNCHANGED <<domain, run, browser, blacklist>>
  BY DEF CreateBlockUnblockRequest, Others
<1>8. QED
  BY <1>6, <1>7, CallCounts DEF Frame

LEMMA RequestEnds ==
    ASSUME Frame, NEW i \in DOMAIN requests, NEW x \in RequestsType,
           requests' = [requests EXCEPT ![i] = x],
           DOMAIN domain' = DOMAIN domain, UNCHANGED <<browser, blacklist>>,
           ops' \in 0 .. MaxOps, run' \in [Runs -> SUBSET DOMAIN requests]
    PROVE  Frame'
<1>1. requests' \in Seq(RequestsType) /\ DOMAIN requests' = DOMAIN requests
  BY ExceptSeq DEF Frame
<1>2. QED
  BY <1>1 DEF Frame

LEMMA ProcessRequestKeepsFrame ==
    ASSUME Frame, NEW i \in DOMAIN requests, NEW invalidated \in BOOLEAN,
           ProcessRequest(i, invalidated), UNCHANGED Others
    PROVE  Frame'
<1>1. PICK status \in {"resolved", "invalidated"} :
          status = IF invalidated THEN "invalidated" ELSE "resolved"
  OBVIOUS
<1> DEFINE x == [requests[i] EXCEPT !.status = status, !.action = "scheduled"]
<1>2. requests' = [requests EXCEPT ![i] = x]
  BY <1>1 DEF ProcessRequest, Frame
<1>3. x \in RequestsType
  <2>1. requests[i] \in RequestsType
    BY DEF Frame
  <2>2. QED
    BY <2>1 DEF RequestsType
<1> HIDE DEF x
<1>4. Call /\ UNCHANGED <<domain, run, browser, blacklist>>
  BY DEF ProcessRequest, Others
<1>5. QED
  BY <1>2, <1>3, <1>4, CallCounts, RequestEnds DEF Frame

LEMMA ProcessResolvedKeepsFrame ==
    ASSUME IInv, Frame, NEW r \in Runs, NEW i \in DOMAIN requests, ProcessResolved(r, i),
           UNCHANGED Others
    PROVE  Frame'
<1>1. PICK action \in {"processed", OnFailure} :
          requests' = [requests EXCEPT ![i].action = action]
  BY DEF ProcessResolved
<1> DEFINE x == [requests[i] EXCEPT !.action = action]
<1>2. requests' = [requests EXCEPT ![i] = x]
  BY <1>1 DEF Frame
<1>3. x \in RequestsType
  <2>1. requests[i] \in RequestsType
    BY DEF Frame
  <2>2. action \in {"processed", "scheduled", "failed"}
    BY DEF OnFailure
  <2>3. QED
    BY <2>1, <2>2 DEF RequestsType
<1> HIDE DEF x
<1>4. DOMAIN domain' = DOMAIN domain
  <2>1. CASE UNCHANGED domain
    BY <2>1
  <2>2. CASE ~UNCHANGED domain
    BY <2>2 DEF ProcessResolved
  <2>3. QED
    BY <2>1, <2>2
<1>5. run' \in [Runs -> SUBSET DOMAIN requests] /\ UNCHANGED <<browser, ops, blacklist>>
  BY DEF ProcessResolved, Others, Frame
<1>6. QED
  BY <1>2, <1>3, <1>4, <1>5, RequestEnds DEF Frame

LEMMA BrowserKeepsFrame ==
    ASSUME IInv, Frame, UNCHANGED Others,
           \/ \E d \in DOMAIN domain, kind \in Kinds : BrowserReads(d, kind)
           \/ BrowserWrites
    PROVE  Frame'
<1>1. ASSUME NEW d \in DOMAIN domain, NEW kind \in Kinds, BrowserReads(d, kind)
      PROVE  Frame'
  <2>1. domain[d].locks \in SUBSET Statuses
    BY DEF IInv, Shapes, States
  <2>2. browser' = [on |-> d, kind |-> kind, seen |-> domain[d].locks]
        /\ Call /\ UNCHANGED <<holder, domain, requests, run, blacklist>>
    BY <1>1 DEF BrowserReads, Others
  <2>3. QED
    BY <2>1, <2>2, CallCounts DEF Frame
<1>2. ASSUME BrowserWrites PROVE Frame'
  <2>1. browser' = Idle /\ UNCHANGED <<requests, run, ops, blacklist>>
    BY <1>2 DEF BrowserWrites, Others
  <2>2. DOMAIN domain' = DOMAIN domain
    BY <1>2 DEF BrowserWrites
  <2>3. QED
    BY <2>1, <2>2 DEF Frame, Idle
<1>3. QED
  BY <1>1, <1>2

LEMMA NextKeepsFrame == ASSUME IInv, Frame, [Next]_vars PROVE Frame'
<1>1. CASE Night
  <2>1. DOMAIN domain' = DOMAIN domain /\ UNCHANGED <<lockVars, ops, blacklist>>
    BY <1>1 DEF Night
  <2>2. QED
    BY <2>1, FrameStays DEF Frame
<1>2. CASE HolderStep
  BY <1>2, RequestKeepsFrame, ProcessRequestKeepsFrame, BrowserKeepsFrame DEF HolderStep
<1>3. ASSUME NEW r \in Runs, RunStep(r) PROVE Frame'
  <2>1. UNCHANGED Others
    BY <1>3 DEF RunStep
  <2>2. ASSUME StartRun(r) PROVE Frame'
    BY <2>1, <2>2 DEF StartRun, Others, Frame
  <2>3. ASSUME StopRun(r) PROVE Frame'
    BY <2>1, <2>3 DEF StopRun, Others, Frame
  <2>4. ASSUME NEW i \in DOMAIN requests, CommitFails(r, i) PROVE Frame'
    BY <2>1, <2>4 DEF CommitFails, Others, Frame
  <2>5. QED
    BY <1>3, <2>1, <2>2, <2>3, <2>4, ProcessResolvedKeepsFrame DEF RunStep
<1>4. CASE UNCHANGED vars
  BY <1>4 DEF vars, Frame
<1>5. QED
  BY <1>1, <1>2, <1>3, <1>4, AdminKeepsFrame, RegistrarKeepsFrame DEF Next

LEMMA InitFrame == Init => Frame
<1> SUFFICES ASSUME Init PROVE Frame
  OBVIOUS
<1>1. DOMAIN domain = Domains /\ requests = <<>> /\ blacklist = {} /\ ops = 0
      /\ run = [r \in Runs |-> {}] /\ browser = Idle
  BY DEF Init
<1>2. browser \in [on : Domains \cup {"none"}, kind : Kinds \cup {"none"},
                   seen : SUBSET Statuses]
  BY <1>1 DEF Idle
<1>3. QED
  BY <1>1, <1>2, ObjectLocksAssumption DEF Frame
-----------------------------------------------------------------------------
(* The two action properties, step by step.                                *)
HoldersFollow ==
    today' = today =>
        \A d \in DOMAIN domain \cap DOMAIN domain' :
            (IsBlocked(domain[d]) /\ ~ IsBlocked(domain'[d])) =>
                LET h == holder[d]
                IN  h \in DOMAIN contact' =>
                        \/ ~ IsBlocked(contact'[h])
                        \/ Held(h, holder', domain') # {}

ProtectionStays ==
    today' = today =>
        \A d \in DOMAIN domain \cap DOMAIN domain' :
            (/\ IsBlocked(domain[d]) /\ IsBlocked(domain'[d])
             /\ "update" \in domain[d].locks
             /\ IsBlocked(contact[holder[d]])) =>
                /\ IsBlocked(contact'[holder'[d]])
                /\ Head(holder'[d]) = Head(holder[d])

(* Steps after which blocked domains are blocked, and that leave holders   *)
(* and the blocks of contacts alone.                                       *)
LEMMA NothingUnblocked ==
    ASSUME IInv,
           \A d \in DOMAIN domain \cap DOMAIN domain' :
               IsBlocked(domain[d]) => /\ IsBlocked(domain'[d])
                                       /\ "update" \in domain[d].locks => holder'[d] = holder[d],
           \A h \in DOMAIN contact :
               h \in Holders(DOMAIN domain) /\ IsBlocked(contact[h]) => IsBlocked(contact'[h])
    PROVE  HoldersFollow /\ ProtectionStays
<1>1. \A d \in DOMAIN domain : holder[d] \in DOMAIN contact /\ holder[d] \in Holders(DOMAIN domain)
  BY DEF IInv, HoldersExist, Holders
<1>2. QED
  BY <1>1 DEF HoldersFollow, ProtectionStays

LEMMA UnblockProtects ==
    ASSUME IInv, Names, NEW ds \in SUBSET Domains, NEW restore \in BOOLEAN,
           NEW newOwner \in DOMAIN contact \cup {<<>>}, Unblock(ds, restore, newOwner)
    PROVE  HoldersFollow /\ ProtectionStays
<1> DEFINE domain1 == [d \in DOMAIN domain |->
                          IF d \notin ds THEN domain[d]
                          ELSE IF restore THEN Restored(domain[d]) ELSE Cleared(domain[d])]
           holder1 == [d \in DOMAIN holder |->
                          IF d \in ds /\ newOwner # <<>> THEN newOwner ELSE holder[d]]
           owners  == FormerOwners(ds, holder1)
           keeping == {h \in owners : Held(h, holder1, domain1) # {}}
           copied  == CopiedOwners(keeping, newOwner)
           freed   == (owners \ keeping) \cup copied
<1>0. PICK copyOf \in CopyDomainOwners(copied) :
        /\ holder' = [d \in DOMAIN holder |->
               IF holder1[d] \in copied /\ IsBlocked(domain1[d])
               THEN copyOf[holder1[d]] ELSE holder1[d]]
        /\ contact' = [n \in DOMAIN contact \cup {copyOf[h] : h \in copied} |->
               IF n \in freed THEN Restored(contact[n])
               ELSE IF n \in DOMAIN contact THEN contact[n]
               ELSE Blocked(Unlocked, contact[CHOOSE h \in copied : copyOf[h] = n].locks, Never)]
  BY DEF Unblock
<1> DEFINE copies == {copyOf[h] : h \in copied}
           original(n) == CHOOSE h \in copied : copyOf[h] = n
<1>1. /\ Locked(ds) /\ \A d \in ds : IsBlocked(domain[d])
      /\ domain' = domain1
      /\ holder' = [d \in DOMAIN holder |->
             IF holder1[d] \in copied /\ IsBlocked(domain1[d])
             THEN copyOf[holder1[d]] ELSE holder1[d]]
      /\ contact' = [n \in DOMAIN contact \cup copies |->
             IF n \in freed THEN Restored(contact[n])
             ELSE IF n \in DOMAIN contact THEN contact[n]
             ELSE Blocked(Unlocked, contact[original(n)].locks, Never)]
  BY <1>0 DEF Unblock
<1>2. ds \subseteq DOMAIN domain /\ holder \in [DOMAIN domain -> DOMAIN contact]
  BY <1>1 DEF Locked, IInv, HoldersExist
<1>3. \A h : h \in owners <=> h \in Holders(ds) /\ IsBlocked(contact[h])
  BY DEF FormerOwners
<1>4. copied \subseteq keeping /\ keeping \subseteq owners
      /\ (newOwner # <<>> => copied = {}) /\ (newOwner = <<>> => copied = keeping)
  BY DEF CopiedOwners
<1>5. owners \subseteq DOMAIN contact
  BY <1>2, <1>3 DEF Holders
<1>6. \A d \in ds : ~IsBlocked(domain1[d])
  <2>1. ASSUME NEW d \in ds PROVE ~IsBlocked(domain1[d])
    <3>1. domain[d] \in States /\ Tidy(domain[d]) /\ IsBlocked(domain[d])
      BY <1>1, <1>2 DEF IInv, Shapes, DomainsAreTidy
    <3>2. ~IsBlocked(Restored(domain[d])) /\ ~IsBlocked(Cleared(domain[d]))
      BY <3>1, RestoredIsTidy, UnlockedIsTidy DEF Cleared
    <3>3. domain1[d] = Restored(domain[d]) \/ domain1[d] = Cleared(domain[d])
      BY <1>2
    <3>4. QED
      BY <3>2, <3>3
  <2>2. QED
    BY <2>1
<1>7. \A d \in DOMAIN domain \ ds : domain1[d] = domain[d] /\ holder1[d] = holder[d]
  BY <1>2
<1>8. \A h \in freed : h \in DOMAIN contact' /\ ~IsBlocked(contact'[h])
  <2>1. ASSUME NEW h \in freed PROVE h \in DOMAIN contact' /\ ~IsBlocked(contact'[h])
    <3>1. h \in owners /\ h \in DOMAIN contact /\ IsBlocked(contact[h])
      BY <1>3, <1>4, <1>5
    <3>2. contact[h] \in States /\ Tidy(contact[h])
      BY <3>1 DEF IInv, Shapes, ContactsAreTidy
    <3>3. ~IsBlocked(Restored(contact[h]))
      BY <3>1, <3>2, RestoredIsTidy
    <3>4. h \in DOMAIN contact' /\ contact'[h] = Restored(contact[h])
      BY <1>1, <3>1
    <3>5. QED
      BY <3>3, <3>4
  <2>2. QED
    BY <2>1
<1>9. \A h \in DOMAIN contact \ freed : contact'[h] = contact[h]
  BY <1>1
<1>20. \A h \in copied : IsCopyOf(copyOf[h], h) /\ copyOf[h] \notin DOMAIN contact
  <2>1. PICK S : S = copied
    OBVIOUS
  <2>2. S \subseteq Holders(ds) /\ ds \subseteq DOMAIN domain
    BY <1>1, <1>3, <1>4, <2>1 DEF Locked
  <2>3. IsFiniteSet(S) /\ S \subseteq DOMAIN contact
    BY <2>2, HoldersAreFinite, FS_Subset
  <2>4. copyOf \in CopyDomainOwners(S)
    BY <1>0, <2>1
  <2>5. \A h \in S : IsCopyOf(copyOf[h], h) /\ copyOf[h] \notin DOMAIN contact
    BY <2>3, <2>4, CopiesAreMade
  <2>6. QED
    BY <2>1, <2>5
<1>10. \A n \in copies : n \in DOMAIN contact' /\ IsBlocked(contact'[n])
  <2>1. ASSUME NEW c \in copied
        PROVE  copyOf[c] \in DOMAIN contact' /\ IsBlocked(contact'[copyOf[c]])
    <3>1. PICK n : n = copyOf[c]
      OBVIOUS
    <3>2. n \notin DOMAIN contact /\ n \in copies /\ n \notin freed
      BY <1>4, <1>5, <1>20, <3>1
    <3>3. PICK list : list = contact[original(n)].locks
      OBVIOUS
    <3>4. n \in DOMAIN contact' /\ contact'[n] = Blocked(Unlocked, list, Never)
      BY <1>1, <3>2, <3>3
    <3>5. IsBlocked(Blocked(Unlocked, list, Never))
      BY AdminBlockingAssumption DEF IsBlocked, Blocked, Unlocked, NotBlocked, Never
    <3>6. QED
      BY <3>1, <3>4, <3>5
  <2>2. QED
    BY <2>1
<1> HIDE DEF domain1, holder1, owners, keeping, copied, freed, original
<1>11. HoldersFollow
  <2>1. ASSUME NEW d \in DOMAIN domain, IsBlocked(domain[d]), ~IsBlocked(domain'[d]),
               NEW h, h = holder[d], h \in DOMAIN contact', IsBlocked(contact'[h])
        PROVE  Held(h, holder', domain') # {}
    <3>1. d \in ds
      BY <1>1, <1>7, <2>1
    <3>2. h \in DOMAIN contact /\ h \in Holders(ds)
      BY <1>2, <2>1, <3>1 DEF Holders
    <3>3. h \notin freed
      BY <1>8, <2>1
    <3>4. h \in owners
      BY <1>3, <1>9, <2>1, <3>2, <3>3
    <3>5. h \in keeping /\ h \notin copied
      BY <3>3, <3>4 DEF freed
    <3>6. copied = {} /\ holder' = holder1
      <4>1. copied = {}
        BY <1>4, <3>5
      <4>2. holder' = [e \in DOMAIN holder |-> holder1[e]]
        BY <1>1, <4>1
      <4>3. holder1 = [e \in DOMAIN holder |-> holder1[e]]
        BY DEF holder1
      <4>4. QED
        BY <4>1, <4>2, <4>3
    <3>7. Held(h, holder1, domain1) # {}
      BY <3>5 DEF keeping
    <3>8. QED
      BY <1>1, <3>6, <3>7
  <2>2. QED
    BY <2>1 DEF HoldersFollow
<1>12. ProtectionStays
  <2>1. ASSUME NEW d \in DOMAIN domain, IsBlocked(domain'[d]), IsBlocked(contact[holder[d]])
        PROVE  IsBlocked(contact'[holder'[d]]) /\ Head(holder'[d]) = Head(holder[d])
    <3>1. d \in DOMAIN domain \ ds
      BY <1>1, <1>6, <2>1
    <3>2. domain1[d] = domain[d] /\ holder1[d] = holder[d] /\ IsBlocked(domain1[d])
      BY <1>1, <1>7, <2>1, <3>1
    <3>3. holder[d] \in DOMAIN contact
      BY <1>2
    <3>4. CASE holder[d] \in copied
      <4>1. holder'[d] = copyOf[holder[d]]
        BY <1>1, <1>2, <3>2, <3>4
      <4>2. holder'[d] \in copies
        BY <3>4, <4>1
      <4>3. Head(holder'[d]) = Head(holder[d])
        BY <1>20, <3>4, <4>1 DEF IsCopyOf
      <4>4. QED
        BY <1>10, <4>2, <4>3
    <3>5. CASE holder[d] \notin copied
      <4>1. holder'[d] = holder[d]
        BY <1>1, <1>2, <3>2, <3>5
      <4>2. holder[d] \notin owners \ keeping
        <5>1. d \in Held(holder[d], holder1, domain1)
          <6>1. DOMAIN holder1 = DOMAIN domain
            BY <1>2 DEF holder1
          <6>2. QED
            BY <3>2, <6>1 DEF Held
        <5>2. QED
          BY <5>1 DEF keeping
      <4>3. holder[d] \notin freed
        BY <3>5, <4>2 DEF freed
      <4>4. contact'[holder[d]] = contact[holder[d]]
        BY <1>9, <3>3, <4>3
      <4>5. QED
        BY <2>1, <4>1, <4>4
    <3>6. QED
      BY <3>4, <3>5
  <2>2. QED
    BY <2>1 DEF ProtectionStays
<1>13. QED
  BY <1>11, <1>12

(* The requests, the runs and the browser change states only where no      *)
(* administrative block is.                                                *)
LEMMA HolderStepProtects ==
    ASSUME IInv, HolderStep \/ \E r \in Runs : RunStep(r)
    PROVE  HoldersFollow /\ ProtectionStays
<1>1. UNCHANGED <<holder, contact>>
  BY DEF HolderStep, RunStep, Others, CreateBlockUnblockRequest, BrowserReads, BrowserWrites,
         ProcessRequest, StartRun, StopRun, ProcessResolved, CommitFails
<1>2. \A d \in DOMAIN domain \cap DOMAIN domain' :
          IsBlocked(domain[d]) => IsBlocked(domain'[d])
  <2>1. CASE UNCHANGED domain
    BY <2>1 DEF IsBlocked
  <2>2. ASSUME NEW r \in Runs, NEW i \in DOMAIN requests, ProcessResolved(r, i),
               ~UNCHANGED domain,
               NEW d \in DOMAIN domain \cap DOMAIN domain', IsBlocked(domain[d])
        PROVE  IsBlocked(domain'[d])
    <3>1. PICK e, n : /\ e = requests[i].on /\ ~IsBlocked(domain[e])
                      /\ domain' = [domain EXCEPT ![e] = n]
      BY <2>2 DEF ProcessResolved, MayBeProcessed
    <3>2. domain'[d] = domain[d]
      BY <2>2, <3>1
    <3>3. QED
      BY <2>2, <3>2 DEF IsBlocked
  <2>3. ASSUME BrowserWrites, ~UNCHANGED domain,
               NEW d \in DOMAIN domain \cap DOMAIN domain', IsBlocked(domain[d])
        PROVE  IsBlocked(domain'[d])
    <3>1. PICK n : domain' = [domain EXCEPT ![browser.on] = n]
      BY <2>3 DEF BrowserWrites
    <3>2. ~IsBlocked(domain[browser.on])
      BY <2>3 DEF BrowserWrites, IInv, BrowserKnows
    <3>3. domain'[d] = domain[d]
      BY <2>3, <3>1, <3>2
    <3>4. QED
      BY <2>3, <3>3 DEF IsBlocked
  <2>4. QED
    BY <2>1, <2>2, <2>3 DEF HolderStep, RunStep, CreateBlockUnblockRequest, BrowserReads,
       ProcessRequest, StartRun, StopRun, CommitFails
<1>3. \A h \in DOMAIN contact : IsBlocked(contact[h]) => IsBlocked(contact'[h])
  BY <1>1 DEF IsBlocked
<1>4. QED
  BY <1>1, <1>2, <1>3, NothingUnblocked

LEMMA BlockProtects ==
    ASSUME IInv, NEW ds, NEW statuses \in StatusLists, NEW until \in Dates,
           \/ BlockKeepOwner(ds, statuses, until)
           \/ BlockOwner(ds, statuses, until)
           \/ BlockOwnerCopy(ds, statuses, until)
           \/ UpdateBlock(ds, statuses, until)
    PROVE  HoldersFollow /\ ProtectionStays
<1>1. until \in Nat /\ until # 0
  BY AdminBlockingAssumption DEF IInv, Shapes, Dates, Never
<1>2. \A l : \A s \in States : IsBlocked(Blocked(s, l, until))
  BY <1>1 DEF Blocked, States, IsBlocked, NotBlocked
<1>3. /\ \A d \in DOMAIN domain : domain[d] \in States /\ Tidy(domain[d])
      /\ \A h \in DOMAIN contact : contact[h] \in States
      /\ Unlocked \in States
  BY UnlockedIsTidy DEF IInv, Shapes, DomainsAreTidy
<1>4. ASSUME NEW d \in DOMAIN domain \cap DOMAIN domain', IsBlocked(domain[d])
      PROVE  IsBlocked(domain'[d]) /\ holder'[d] = holder[d]
  <2>1. CASE UpdateBlock(ds, statuses, until)
    <3>1. Restored(domain[d]) \in States
      BY <1>3, <1>4, RestoredIsTidy
    <3>2. domain'[d] = domain[d] \/ domain'[d] = Blocked(Restored(domain[d]), statuses, until)
      BY <2>1 DEF UpdateBlock
    <3>3. QED
      BY <1>2, <1>4, <2>1, <3>1, <3>2 DEF UpdateBlock, IsBlocked
  <2>2. CASE ~UpdateBlock(ds, statuses, until)
    <3>1. domain' = BlockedDomains(ds, statuses, until) /\ d \notin ds
      BY <1>4, <2>2 DEF BlockKeepOwner, BlockOwner, BlockOwnerCopy
    <3>2. domain'[d] = domain[d]
      BY <3>1 DEF BlockedDomains
    <3>3. d \in DOMAIN holder
      BY DEF IInv, HoldersExist
    <3>4. holder'[d] = holder[d]
      BY <2>2, <3>1, <3>3 DEF BlockKeepOwner, BlockOwner, BlockOwnerCopy
    <3>5. QED
      BY <1>4, <3>2, <3>4 DEF IsBlocked
  <2>3. QED
    BY <2>1, <2>2
<1>5. ASSUME NEW h \in DOMAIN contact, IsBlocked(contact[h])
      PROVE  IsBlocked(contact'[h])
  <2>1. PICK l : l = ContactStatuses(statuses)
    OBVIOUS
  <2>2. \/ contact'[h] = contact[h]
        \/ contact'[h] = Blocked(contact[h], l, until)
        \/ contact'[h] = Blocked(Unlocked, l, until)
    BY <2>1 DEF BlockKeepOwner, BlockOwner, BlockOwnerCopy, UpdateBlock
  <2>3. QED
    BY <1>2, <1>3, <1>5, <2>2 DEF IsBlocked
<1>6. QED
  BY <1>4, <1>5, NothingUnblocked

LEMMA AdminProtects == ASSUME IInv, Names, AdminStep PROVE HoldersFollow /\ ProtectionStays
<1>1. ASSUME NEW ds \in SUBSET Domains, NEW newOwner \in DOMAIN contact \cup {<<>>},
             UnblockDomains(ds, newOwner) \/ RestorePreBlockStates(ds, newOwner)
      PROVE  HoldersFollow /\ ProtectionStays
  BY <1>1, UnblockProtects DEF UnblockDomains, RestorePreBlockStates
<1>2. ASSUME NEW ds \in SUBSET Domains, BlacklistAndDelete(ds) \/ Blacklist(ds)
      PROVE  HoldersFollow /\ ProtectionStays
  <2>1. UNCHANGED contact
        /\ \A d \in DOMAIN domain \cap DOMAIN domain' :
               domain'[d] = domain[d] /\ holder'[d] = holder[d]
    BY <1>2 DEF BlacklistAndDelete, Blacklist, Forget, IInv, HoldersExist
  <2>2. QED
    BY <2>1, NothingUnblocked DEF IsBlocked
<1>3. QED
  BY <1>1, <1>2, BlockProtects DEF AdminStep

LEMMA RegistrarProtects == ASSUME IInv, RegistrarStep PROVE HoldersFollow /\ ProtectionStays
<1>1. DOMAIN holder = DOMAIN domain
  BY DEF IInv, HoldersExist
<1>2. ASSUME NEW d \in DOMAIN domain \cap DOMAIN domain', IsBlocked(domain[d])
      PROVE  IsBlocked(domain'[d]) /\ ("update" \in domain[d].locks => holder'[d] = holder[d])
  <2>1. domain'[d] = domain[d]
    BY DEF RegistrarStep, CreateDomain, UpdateRegistrant, DeleteDomain, DeleteContact,
           MergeContacts, Forget
  <2>2. "update" \in domain[d].locks => holder'[d] = holder[d]
    <3>1. CASE \E e \in DOMAIN domain, h \in DOMAIN contact : UpdateRegistrant(e, h)
      BY <1>1, <3>1 DEF UpdateRegistrant
    <3>2. CASE \E src, dst \in DOMAIN contact : MergeContacts(src, dst)
      BY <1>1, <1>2, <3>2 DEF MergeContacts
    <3>3. CASE \/ \E e \in Domains, h \in DOMAIN contact : CreateDomain(e, h)
               \/ \E e \in DOMAIN domain : DeleteDomain(e)
               \/ \E h \in DOMAIN contact : DeleteContact(h)
      BY <1>1, <3>3 DEF CreateDomain, DeleteDomain, DeleteContact, Forget
    <3>4. QED
      BY <3>1, <3>2, <3>3 DEF RegistrarStep
  <2>3. QED
    BY <1>2, <2>1, <2>2 DEF IsBlocked
<1>3. ASSUME NEW h \in DOMAIN contact, h \in Holders(DOMAIN domain), IsBlocked(contact[h])
      PROVE  IsBlocked(contact'[h])
  <2>1. contact'[h] = contact[h]
    BY <1>3 DEF RegistrarStep, CreateDomain, UpdateRegistrant, DeleteDomain, DeleteContact,
                MergeContacts
  <2>2. QED
    BY <1>3, <2>1 DEF IsBlocked
<1>4. QED
  BY <1>2, <1>3, NothingUnblocked

LEMMA NextProtects == ASSUME IInv, Names, [Next]_vars PROVE HoldersFollow /\ ProtectionStays
<1>1. CASE Night
  <2>1. today' # today
    BY <1>1, AdminBlockingAssumption DEF Night, IInv, Shapes
  <2>2. QED
    BY <2>1 DEF HoldersFollow, ProtectionStays
<1>2. CASE UNCHANGED vars
  BY <1>2, NothingUnblocked DEF vars, IsBlocked
<1>3. QED
  BY <1>1, <1>2, AdminProtects, RegistrarProtects, HolderStepProtects DEF Next

-----------------------------------------------------------------------------
(* The theorems.                                                           *)

(* What a holder locked is what is restored after an administrative block, *)
(* whatever requests, calls of the domain browser, copies of contacts and  *)
(* merges come between (administrativeblocking.cc, block_unblock.cc).      *)
THEOREM LocksOutliveBlocks == Spec => []OwnLocksSurvive
<1>1. IInv => OwnLocksSurvive
  BY DEF IInv, DomainsAreTidy, ContactsAreTidy, Tidy, OwnLocksSurvive
<1>2. QED
  BY <1>1, InitEstablishes, NextPreserves, PTL DEF Spec

(* Without a race between the domain browser and the processing of         *)
(* requests no domain is locked against updates but free to be transferred *)
(* (setObjectBlockStatus, subprocess<> of block_unblock.cc).               *)
THEOREM UpdateLockIsNeverAlone == Spec => []NoUpdateLockAlone
<1>1. IInv => NoUpdateLockAlone
  BY DEF IInv, DomainsAreTidy, Whole, NoUpdateLockAlone
<1>2. QED
  BY <1>1, InitEstablishes, NextPreserves, PTL DEF Spec

(* Every domain is held by a contact that exists, through copies of        *)
(* holders, changes of holder while unblocking, merges and deletions.      *)
THEOREM DomainsKeepHolders == Spec => []HoldersExist
<1>1. IInv => HoldersExist
  BY DEF IInv
<1>2. QED
  BY <1>1, InitEstablishes, NextPreserves, PTL DEF Spec

(* A call of the domain browser that comes to write finds the domain it    *)
(* read, still there and not blocked: the row it holds FOR SHARE keeps     *)
(* administrators and registrars away (domain_browser.cc).                 *)
THEOREM BrowserFindsWhatItRead == Spec => []BrowserKnows
<1>1. IInv => BrowserKnows
  BY DEF IInv
<1>2. QED
  BY <1>1, InitEstablishes, NextPreserves, PTL DEF Spec
LEMMA InvariantsHold == Spec => [](IInv /\ Names /\ Frame)
<1>1. Init => IInv /\ Names /\ Frame
  BY InitEstablishes, InitNames, InitFrame
<1>2. IInv /\ Names /\ Frame /\ [Next]_vars => (IInv /\ Names /\ Frame)'
  BY NextPreserves, NextKeepsNames, NextKeepsFrame
<1>3. QED
  BY <1>1, <1>2, PTL DEF Spec

(* Every domain has a holder that exists, also when holders were copied,   *)
(* merged or deleted meanwhile, and the lists of runs name requests that   *)
(* exist (administrativeblocking.cc).                                      *)
THEOREM TypesHold == Spec => []TypeOK
<1>1. IInv /\ Names /\ Frame => TypeOK
  <2> SUFFICES ASSUME IInv, Names, Frame PROVE TypeOK
    OBVIOUS
  <2>1. browser \in [on : DOMAIN domain \cup {"none"}, kind : Kinds \cup {"none"},
                     seen : SUBSET Statuses]
    <3>1. browser.on \in DOMAIN domain \cup {"none"}
      BY DEF IInv, BrowserKnows, Idle
    <3>2. QED
      BY <3>1 DEF Frame
  <2>2. QED
    BY <2>1 DEF TypeOK, IInv, Shapes, HoldersExist, Names, AreNames, Frame
<1>2. QED
  BY <1>1, InvariantsHold, PTL

(* get_copy_owner_handle finds a new name for the copy of any contact,     *)
(* whatever was registered, copied, merged or deleted before, unless it    *)
(* proposes the first index with a sixth digit, X-ABC_100000: that name    *)
(* may exist, as its text comes before X-ABC_99999                         *)
(* (administrativeblocking.cc:149-188).                                    *)
THEOREM CopiesGetNewHandles == Spec => []CopiesAreNew
<1>1. IInv /\ Names /\ Frame => CopiesAreNew
  <2> SUFFICES ASSUME Names PROVE CopiesAreNew
    OBVIOUS
  <2>1. PICK C : C = DOMAIN contact
    OBVIOUS
  <2>2. \A h \in C : CopyOwnerHandle(h, C) \in C => CopyOwnerHandle(h, C) = Append(h, CopyIndexLimit)
    BY <2>1, CopyIsNew DEF Names
  <2>3. QED
    BY <2>1, <2>2 DEF CopiesAreNew
<1>2. QED
  BY <1>1, InvariantsHold, PTL

(* Whoever takes the block off a domain takes it off its holder, unless    *)
(* the holder has another blocked domain (administrative_unblock_contact). *)
THEOREM HoldersAreFreed == Spec => HoldersAreUnblocked
<1>1. IInv /\ Names /\ [Next]_vars => [HoldersFollow]_vars
  BY NextProtects
<1>2. QED
  BY <1>1, InvariantsHold, PTL DEF Spec, HoldersAreUnblocked, HoldersFollow

(* What is done to other domains of a blocked holder, and to the holder,   *)
(* leaves a blocked domain with a blocked holder of the same name or a     *)
(* copy of it (_create_copy_contact_allowed, administrativeblocking.cc).   *)
THEOREM SiblingsKeepTheirBlock == Spec => SiblingsStayProtected
<1>1. IInv /\ Names /\ [Next]_vars => [ProtectionStays]_vars
  BY NextProtects
<1>2. QED
  BY <1>1, InvariantsHold, PTL DEF Spec, SiblingsStayProtected, ProtectionStays
===============================================================================

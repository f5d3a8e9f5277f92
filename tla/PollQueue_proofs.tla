---------------------------- MODULE PollQueue_proofs ----------------------------
(***************************************************************************)
(* The safety of the poll queue for any registrars, sessions and number of *)
(* messages.  AcknowledgedOnce is not inductive: an acknowledgement that   *)
(* commits counts a message as read, so its UPDATE must have found the     *)
(* message unseen, and must still be the only one that did.  That is       *)
(* UpdateHoldsRow, which the row lock gives.                               *)
(***************************************************************************)
EXTENDS PollQueue, WellFoundedInduction, TLAPS

\* The row an open UPDATE took is unseen and no other UPDATE has it.
UpdateHoldsRow ==
    \A s \in Sessions : pc[s] = "updated" =>
        /\ ~message[at[s]].seen
        /\ \A u \in Sessions : pc[u] = "updated" /\ at[u] = at[s] => u = s

IInv == TypeOK /\ AcknowledgedOnce /\ OwnMessagesOnly /\ UpdateHoldsRow

----------------------------------------------------------------------------
\* Min of a set of numbers, the id the subquery of poll_request picks, is in it.
LEMMA MinInSet ==
    ASSUME NEW S, S \subseteq Nat, S # {}
    PROVE  Min(S) \in S
<1> DEFINE R == OpToRel(<, Nat)
<1>1. \A x, y \in Nat : y < x => <<y, x>> \in R
  BY DEF OpToRel
<1>2. IsWellFoundedOn(R, Nat)
  BY NatLessThanWellFounded
<1> HIDE DEF R
<1>3. PICK x \in S : \A y \in S : ~(<<y, x>> \in R)
  BY <1>2, WFMin
<1>4. \A y \in S : ~(y < x)
  BY <1>1, <1>3, Zenon
<1>5. \A y \in S : x <= y
  BY <1>4
<1>6. QED
  BY <1>5 DEF Min

\* The ids in use are ids there can be.
LEMMA KnownIds ==
    ASSUME TypeOK
    PROVE  Known \subseteq Ids /\ 0 \notin Known /\ nextMessage \notin Known
  BY PollAssumption DEF TypeOK, Known, Ids

\* What an update of one column of a message does to its row.
LEMMA RowUpdate ==
    ASSUME NEW row \in Row
    PROVE  /\ [row EXCEPT !.committed = TRUE] \in Row
           /\ [row EXCEPT !.committed = TRUE].clid = row.clid
           /\ [row EXCEPT !.committed = TRUE].seen = row.seen
           /\ [row EXCEPT !.committed = TRUE].committed
           /\ [row EXCEPT !.expired = TRUE] \in Row
           /\ [row EXCEPT !.expired = TRUE].clid = row.clid
           /\ [row EXCEPT !.expired = TRUE].seen = row.seen
           /\ [row EXCEPT !.expired = TRUE].committed = row.committed
           /\ [row EXCEPT !.seen = TRUE] \in Row
           /\ [row EXCEPT !.seen = TRUE].clid = row.clid
           /\ [row EXCEPT !.seen = TRUE].committed = row.committed
           /\ [row EXCEPT !.seen = TRUE].seen
  BY DEF Row

LEMMA InitIInv == Init => IInv
<1> SUFFICES ASSUME Init PROVE IInv
  OBVIOUS
<1>1. Known = {}
  BY DEF Init, Known
<1>2. TypeOK
  BY <1>1, PollAssumption DEF Init, TypeOK, Ids
<1>3. AcknowledgedOnce
  BY <1>1 DEF Init, AcknowledgedOnce
<1>4. QED
  BY <1>2, <1>3 DEF Init, IInv, OwnMessagesOnly, UpdateHoldsRow

\* Steps that leave messages and acknowledgements alone and move one session that
\* then deals with a committed message of its own registrar, but not as "updated".
LEMMA SessionStep ==
    ASSUME IInv, NEW s \in Sessions, UNCHANGED <<message, nextMessage, acks>>,
           NEW p \in {"idle", "picked", "got"}, NEW m \in Known \cup {0},
           pc' = [pc EXCEPT ![s] = p], at' = [at EXCEPT ![s] = m],
           p # "idle" => m \in Known /\ message[m].committed,
           m # 0 => message[m].clid = RegistrarOf[s]
    PROVE  IInv'
<1>1. TypeOK /\ AcknowledgedOnce /\ OwnMessagesOnly /\ UpdateHoldsRow
  BY DEF IInv
<1>2. Known' = Known
  BY DEF Known
<1>3. TypeOK'
  BY <1>1, <1>2 DEF TypeOK
<1>4. AcknowledgedOnce'
  BY <1>1, <1>2 DEF AcknowledgedOnce
<1>5. OwnMessagesOnly'
  BY <1>1 DEF OwnMessagesOnly, TypeOK
<1>6. UpdateHoldsRow'
  BY <1>1 DEF UpdateHoldsRow, TypeOK
<1>7. QED
  BY <1>3, <1>4, <1>5, <1>6 DEF IInv

LEMMA NextIInv == IInv /\ [Next]_pollVars => IInv'
<1> SUFFICES ASSUME IInv, [Next]_pollVars PROVE IInv'
  OBVIOUS
<1>0. TypeOK /\ AcknowledgedOnce /\ OwnMessagesOnly /\ UpdateHoldsRow
  BY DEF IInv
<1>k. Known \subseteq Ids /\ 0 \notin Known /\ nextMessage \notin Known
  BY <1>0, KnownIds
<1>at. \A s \in Sessions : pc[s] # "idle" =>
         /\ at[s] \in Known /\ message[at[s]].committed
         /\ message[at[s]].clid = RegistrarOf[s]
  BY <1>0, <1>k DEF TypeOK, OwnMessagesOnly
<1>1. ASSUME NEW r \in Registrars, NEW details \in BOOLEAN, CreatePollMessage(r, details)
      PROVE  IInv'
  <2>1. Known' = Known \cup {nextMessage}
    BY <1>0, <1>1 DEF CreatePollMessage, TypeOK, Known
  <2>2. /\ nextMessage \in Ids
        /\ \A id \in Known : message'[id] = message[id]
        /\ message'[nextMessage] = [clid |-> r, committed |-> FALSE, seen |-> FALSE,
                                    expired |-> FALSE, details |-> details]
    BY <1>0, <1>1, <1>k, PollAssumption DEF CreatePollMessage, TypeOK, Ids
  <2>3. TypeOK'
    <3>1. message' \in [Known' -> Row]
      BY <1>0, <1>1, <2>1, <2>2 DEF CreatePollMessage, TypeOK, Row
    <3>2. nextMessage' \in 1..(MaxMessages + 1)
      BY <1>0, <1>1, PollAssumption DEF CreatePollMessage, TypeOK
    <3>3. QED
      BY <1>0, <1>1, <2>1, <2>2, <3>1, <3>2 DEF CreatePollMessage, TypeOK
  <2>4. AcknowledgedOnce'
    BY <1>0, <1>1, <1>k, <2>1, <2>2 DEF CreatePollMessage, AcknowledgedOnce
  <2>5. OwnMessagesOnly'
    BY <1>0, <1>1, <2>2 DEF CreatePollMessage, OwnMessagesOnly, TypeOK
  <2>6. UpdateHoldsRow'
    BY <1>0, <1>1, <1>at, <2>2 DEF CreatePollMessage, UpdateHoldsRow
  <2>7. QED
    BY <2>3, <2>4, <2>5, <2>6 DEF IInv
<1>2. ASSUME NEW id \in Known, CommitPollMessage(id) \/ Expire(id)
      PROVE  IInv'
  <2>1. Known' = Known
    BY <1>2 DEF CommitPollMessage, Expire, Known
  <2>2. /\ message' \in [Known -> Row]
        /\ \A i \in Known : /\ message'[i].clid = message[i].clid
                            /\ message'[i].seen = message[i].seen
                            /\ message[i].committed => message'[i].committed
    <3>1. message[id] \in Row
      BY <1>0 DEF TypeOK
    <3>2. PICK row \in Row : /\ message' = [message EXCEPT ![id] = row]
                             /\ row.clid = message[id].clid
                             /\ row.seen = message[id].seen
                             /\ message[id].committed => row.committed
      <4>1. CASE CommitPollMessage(id)
        BY <3>1, <4>1, RowUpdate DEF CommitPollMessage
      <4>2. CASE Expire(id)
        BY <3>1, <4>2, RowUpdate DEF Expire
      <4>3. QED
        BY <1>2, <4>1, <4>2
    <3>3. QED
      BY <1>0, <3>2 DEF TypeOK
  <2>3. UNCHANGED <<nextMessage, pc, at, acks>>
    BY <1>2 DEF CommitPollMessage, Expire
  <2>4. TypeOK'
    BY <1>0, <2>1, <2>2, <2>3 DEF TypeOK
  <2>5. AcknowledgedOnce'
    BY <1>0, <2>1, <2>2, <2>3 DEF AcknowledgedOnce
  <2>6. OwnMessagesOnly'
    BY <1>0, <2>2, <2>3 DEF OwnMessagesOnly, TypeOK
  <2>7. UpdateHoldsRow'
    BY <1>0, <1>at, <2>2, <2>3 DEF UpdateHoldsRow
  <2>8. QED
    BY <2>4, <2>5, <2>6, <2>7 DEF IInv
<1>3. ASSUME NEW s \in Sessions, poll_request(s)
      PROVE  IInv'
  <2>1. Oldest(RegistrarOf[s]) \in Unseen(RegistrarOf[s])
    <3>1. Unseen(RegistrarOf[s]) \subseteq Nat
      BY <1>0 DEF Unseen, Known, TypeOK
    <3>2. QED
      BY <1>3, <3>1, MinInSet DEF poll_request, Oldest
  <2>2. QED
    BY <1>3, <2>1, SessionStep DEF poll_request, Unseen
<1>4. ASSUME NEW s \in Sessions, poll_request_answers(s) \/ poll_acknowledgement_fails(s)
      PROVE  IInv'
  <2>1. /\ pc[s] # "idle"
        /\ pc' = [pc EXCEPT ![s] = "got"]
        /\ UNCHANGED <<message, nextMessage, at, acks>>
    BY <1>4 DEF poll_request_answers, poll_acknowledgement_fails
  <2>2. at' = [at EXCEPT ![s] = at[s]]
    BY <1>0, <2>1 DEF TypeOK
  <2>3. QED
    BY <1>at, <2>1, <2>2, SessionStep
<1>5. ASSUME NEW s \in Sessions,
             \/ poll_request_throws(s) \/ ClientForgets(s)
             \/ \E id \in Ids : poll_acknowledgement_throws(s, id)
      PROVE  IInv'
  BY <1>5, SessionStep
     DEF poll_request_throws, ClientForgets, poll_acknowledgement_throws, Forget
<1>6. ASSUME NEW s \in Sessions, NEW id \in Ids, poll_acknowledgement(s, id)
      PROVE  IInv'
  <2>1. Known' = Known
    BY <1>6 DEF poll_acknowledgement, Known
  <2>2. /\ id \in Known /\ message[id].committed /\ ~message[id].seen
        /\ message[id].clid = RegistrarOf[s]
        /\ ~Locked(id)
    BY <1>6 DEF poll_acknowledgement, UpdateTakes, Acknowledgeable
  <2>3. TypeOK' /\ AcknowledgedOnce'
    BY <1>0, <1>6, <2>1, <2>2 DEF poll_acknowledgement, TypeOK, AcknowledgedOnce
  <2>4. OwnMessagesOnly'
    BY <1>0, <1>6, <2>2 DEF poll_acknowledgement, TypeOK, OwnMessagesOnly
  <2>5. UpdateHoldsRow'
    BY <1>0, <1>6, <2>2 DEF poll_acknowledgement, Locked, UpdateHoldsRow, TypeOK
  <2>6. QED
    BY <2>3, <2>4, <2>5 DEF IInv
<1>7. ASSUME NEW s \in Sessions, poll_acknowledgement_commits(s)
      PROVE  IInv'
  <2>1. /\ Known' = Known
        /\ at[s] \in Known
        /\ pc[s] = "updated"
    BY <1>7, <1>at DEF poll_acknowledgement_commits, Known
  <2>2. /\ message' \in [Known -> Row]
        /\ message'[at[s]].seen
        /\ \A i \in Known : /\ message'[i].clid = message[i].clid
                            /\ message'[i].committed = message[i].committed
                            /\ i # at[s] => message'[i].seen = message[i].seen
    <3>1. message[at[s]] \in Row
      BY <1>0, <2>1 DEF TypeOK
    <3>2. PICK row \in Row : /\ message' = [message EXCEPT ![at[s]] = row]
                             /\ row.clid = message[at[s]].clid
                             /\ row.committed = message[at[s]].committed
                             /\ row.seen
      BY <1>7, <3>1, RowUpdate DEF poll_acknowledgement_commits
    <3>3. QED
      BY <1>0, <2>1, <3>2 DEF TypeOK
  <2>3. /\ pc' \in [Sessions -> {"idle", "picked", "got", "updated"}]
        /\ at' \in [Sessions -> Known \cup {0}]
        /\ \A u \in Sessions : u # s => pc'[u] = pc[u] /\ at'[u] = at[u]
        /\ \/ pc'[s] = "idle" /\ at'[s] = 0
           \/ pc'[s] = "got" /\ at'[s] = at[s]
    BY <1>0, <1>7 DEF poll_acknowledgement_commits, Forget, TypeOK
  <2>4. /\ acks' \in [Ids -> Nat]
        /\ acks'[at[s]] = acks[at[s]] + 1
        /\ \A i \in Ids : i # at[s] => acks'[i] = acks[i]
    BY <1>0, <1>7, <1>k, <2>1 DEF poll_acknowledgement_commits, TypeOK
  <2>5. acks[at[s]] = 0
    BY <1>0, <1>k, <2>1 DEF AcknowledgedOnce, UpdateHoldsRow
  <2>6. nextMessage' = nextMessage
    BY <1>7 DEF poll_acknowledgement_commits
  <2>7. TypeOK'
    BY <1>0, <2>1, <2>2, <2>3, <2>4, <2>6 DEF TypeOK
  <2>8. AcknowledgedOnce'
    <3>1. ASSUME NEW i \in Ids
          PROVE  acks'[i] = IF i \in Known /\ message'[i].seen THEN 1 ELSE 0
      <4>1. CASE i = at[s]
        BY <2>1, <2>2, <2>4, <2>5, <4>1
      <4>2. CASE i # at[s]
        BY <1>0, <2>2, <2>4, <4>2 DEF AcknowledgedOnce
      <4>3. QED
        BY <4>1, <4>2
    <3>2. QED
      BY <2>1, <3>1 DEF AcknowledgedOnce
  <2>9. OwnMessagesOnly'
    BY <1>0, <2>2, <2>3 DEF OwnMessagesOnly, TypeOK
  <2>10. UpdateHoldsRow'
    <3>1. ASSUME NEW u \in Sessions, pc'[u] = "updated"
          PROVE  /\ ~message'[at'[u]].seen
                 /\ \A w \in Sessions : pc'[w] = "updated" /\ at'[w] = at'[u] => w = u
      <4>1. u # s /\ pc[u] = "updated" /\ at'[u] = at[u]
        BY <2>3, <3>1
      <4>2. at[u] # at[s] /\ at[u] \in Known
        BY <1>0, <1>at, <2>1, <4>1 DEF UpdateHoldsRow
      <4>3. QED
        BY <1>0, <2>2, <2>3, <4>1, <4>2 DEF UpdateHoldsRow
    <3>2. QED
      BY <3>1 DEF UpdateHoldsRow
  <2>11. QED
    BY <2>7, <2>8, <2>9, <2>10 DEF IInv
<1>8. CASE UNCHANGED pollVars
  <2>1. Known' = Known
    BY <1>8 DEF pollVars, Known
  <2>2. QED
    BY <1>0, <1>8, <2>1
       DEF pollVars, IInv, TypeOK, AcknowledgedOnce, OwnMessagesOnly, UpdateHoldsRow
<1>9. QED
  BY <1>1, <1>2, <1>3, <1>4, <1>5, <1>6, <1>7, <1>8 DEF Next

----------------------------------------------------------------------------
\* IInv is an invariant of every behaviour of the queue.
THEOREM IInvHolds == Spec => []IInv
  BY InitIInv, NextIInv, PTL DEF Spec

\* However many sessions of a registrar acknowledge a message, and however often a
\* client repeats it, poll_acknowledgement takes the message off the queue once.
THEOREM MessagesAcknowledgedOnce == Spec => []AcknowledgedOnce
<1>1. IInv => AcknowledgedOnce
  BY DEF IInv
<1>2. QED
  BY <1>1, IInvHolds, PTL

\* poll_request shows and poll_acknowledgement takes only the registrar's own
\* messages, whatever id a client sends: of an id of another registrar the UPDATE
\* takes no row.
THEOREM SessionsSeeOwnMessages == Spec => []OwnMessagesOnly
<1>1. IInv => OwnMessagesOnly
  BY DEF IInv
<1>2. QED
  BY <1>1, IInvHolds, PTL
=================================================================================

-------------------------------- MODULE PollQueue --------------------------------
(***************************************************************************)
(* The poll messages of the registrars and the two EPP commands that read  *)
(* them: poll_request and poll_acknowledgement (backend/epp/poll).  A      *)
(* registrar may have several sessions, so its commands interleave; every  *)
(* command is a READ COMMITTED transaction, and a row it locks is waited   *)
(* for.  Message ids come from a sequence at INSERT but show at COMMIT, so *)
(* they may appear out of order.                                           *)
(*                                                                         *)
(* The client at the other end of a session asks for a message and         *)
(* acknowledges the one it got, or any other id: an acknowledgement names  *)
(* the next one in its answer, ids can be guessed, and a client may send   *)
(* an id that belongs to another registrar.  Answers may be lost.          *)
(***************************************************************************)
EXTENDS Integers, FiniteSets, FiniteSetsExt

CONSTANTS
    Registrars,
    Sessions,
    RegistrarOf,    \* session -> its registrar
    MaxMessages     \* bound on the message ids

ASSUME PollAssumption ==
    /\ RegistrarOf \in [Sessions -> Registrars]
    /\ MaxMessages \in Nat

VARIABLES
    message,    \* id -> row, for every id the sequence gave out
    nextMessage,
    pc,         \* session -> what it is doing
    at,         \* session -> the message id it is doing that with, 0 for none
    acks        \* history: id -> successful acknowledgements

pollVars == <<message, nextMessage, pc, at, acks>>

Ids == 1..MaxMessages

\* committed: the transaction that inserted the row has committed; details: the
\* rows the message's own query joins exist.
Row == [clid : Registrars, committed : BOOLEAN, seen : BOOLEAN, expired : BOOLEAN,
    details : BOOLEAN]

Known == 1..(nextMessage - 1)

\* A session holds the lock of a row from its UPDATE until its transaction ends.
Locked(id) == \E s \in Sessions : pc[s] = "updated" /\ at[s] = id

Unseen(r) == {id \in Known : /\ message[id].committed /\ message[id].clid = r
                             /\ ~message[id].seen /\ ~message[id].expired}

MutOldest(r) == Max(Unseen(r))

Oldest(r) == Min(Unseen(r))

Init ==
    /\ message = [id \in {} |-> id]
    /\ nextMessage = 1
    /\ pc = [s \in Sessions |-> "idle"]
    /\ at = [s \in Sessions |-> 0]
    /\ acks = [id \in Ids |-> 0]

----------------------------------------------------------------------------
(* Other transactions *)

CreatePollMessage(r, details) ==
    /\ nextMessage <= MaxMessages
    /\ message' = [id \in Known \cup {nextMessage} |->
           IF id \in Known THEN message[id]
           ELSE [clid |-> r, committed |-> FALSE, seen |-> FALSE, expired |-> FALSE,
                 details |-> details]]
    /\ nextMessage' = nextMessage + 1
    /\ UNCHANGED <<pc, at, acks>>

CommitPollMessage(id) ==
    /\ id \in Known
    /\ ~message[id].committed
    /\ message' = [message EXCEPT ![id].committed = TRUE]
    /\ UNCHANGED <<nextMessage, pc, at, acks>>

\* CURRENT_TIMESTAMP passes the exdate of a message.
Expire(id) ==
    /\ id \in Known
    /\ ~message[id].expired
    /\ message' = [message EXCEPT ![id].expired = TRUE]
    /\ UNCHANGED <<nextMessage, pc, at, acks>>

----------------------------------------------------------------------------
(* poll_request *)

\* The subquery picks the oldest unseen message of the registrar; with none of
\* them the answer is an empty queue.
poll_request(s) ==
    LET r == RegistrarOf[s]
    IN
    /\ pc[s] = "idle"
    /\ Unseen(r) # {}
    /\ pc' = [pc EXCEPT ![s] = "picked"]
    /\ at' = [at EXCEPT ![s] = Oldest(r)]
    /\ UNCHANGED <<message, nextMessage, acks>>

\* FOR SHARE OF m waits for an acknowledgement under way.  What is looked at again
\* after that is only the join, not whether the message is still unseen.
poll_request_answers(s) ==
    /\ pc[s] = "picked"
    /\ ~Locked(at[s])
    /\ message[at[s]].details
    /\ pc' = [pc EXCEPT ![s] = "got"]
    /\ UNCHANGED <<message, nextMessage, at, acks>>

Forget(s) ==
    /\ pc' = [pc EXCEPT ![s] = "idle"]
    /\ at' = [at EXCEPT ![s] = 0]

\* The query for the message's own data finds nothing: object_does_not_exist.
\* This answer names no id; the client knows one only when an acknowledgement of
\* an older message told it the next.
poll_request_throws(s) ==
    /\ pc[s] = "picked"
    /\ ~Locked(at[s])
    /\ ~message[at[s]].details
    /\ Forget(s)
    /\ UNCHANGED <<message, nextMessage, acks>>

\* The answer is lost, or the client drops the message without acknowledging it.
ClientForgets(s) ==
    /\ pc[s] = "got"
    /\ Forget(s)
    /\ UNCHANGED <<message, nextMessage, acks>>

----------------------------------------------------------------------------
(* poll_acknowledgement *)

MutAcknowledgeable(s, id) ==
    id \in Known /\ message[id].committed /\ ~message[id].seen

Acknowledgeable(s, id) ==
    /\ id \in Known /\ message[id].committed
    /\ message[id].clid = RegistrarOf[s]
    /\ ~message[id].seen

MutUpdateTakes(s, id) == Acknowledgeable(s, id)

\* The rows the UPDATE takes: it waits for a lock and then tests its condition
\* on the row as the other transaction left it.
UpdateTakes(s, id) == ~Locked(id) /\ Acknowledgeable(s, id)

poll_acknowledgement(s, id) ==
    /\ pc[s] \in {"idle", "got"}
    /\ UpdateTakes(s, id)
    /\ pc' = [pc EXCEPT ![s] = "updated"]
    /\ at' = [at EXCEPT ![s] = id]
    /\ UNCHANGED <<message, nextMessage, acks>>

\* No row: object_does_not_exist.
poll_acknowledgement_throws(s, id) ==
    /\ pc[s] \in {"idle", "got"}
    /\ ~Locked(id)
    /\ ~Acknowledgeable(s, id)
    /\ Forget(s)
    /\ UNCHANGED <<message, nextMessage, acks>>

\* The transaction commits; the client hears of it, or acknowledges once more.
poll_acknowledgement_commits(s) ==
    /\ pc[s] = "updated"
    /\ message' = [message EXCEPT ![at[s]].seen = TRUE]
    /\ acks' = [acks EXCEPT ![at[s]] = @ + 1]
    /\ \/ Forget(s)
       \/ pc' = [pc EXCEPT ![s] = "got"] /\ UNCHANGED at
    /\ UNCHANGED nextMessage

\* The transaction fails and is rolled back: command_failed.
poll_acknowledgement_fails(s) ==
    /\ pc[s] = "updated"
    /\ pc' = [pc EXCEPT ![s] = "got"]
    /\ UNCHANGED <<message, nextMessage, at, acks>>

----------------------------------------------------------------------------
Next ==
    \/ \E r \in Registrars, details \in BOOLEAN : CreatePollMessage(r, details)
    \/ \E id \in Known : CommitPollMessage(id) \/ Expire(id)
    \/ \E s \in Sessions :
         \/ poll_request(s) \/ poll_request_answers(s) \/ poll_request_throws(s)
         \/ ClientForgets(s)
         \/ \E id \in Ids :
              poll_acknowledgement(s, id) \/ poll_acknowledgement_throws(s, id)
         \/ poll_acknowledgement_commits(s) \/ poll_acknowledgement_fails(s)

Spec == Init /\ [][Next]_pollVars

\* The server answers every command.  The clients keep asking and, each time they
\* are offered messages again and again, finally acknowledge the one they were
\* shown and have it committed.
Fairness ==
    \A s \in Sessions :
        /\ WF_pollVars(poll_request(s))
        /\ WF_pollVars(poll_request_answers(s) \/ poll_request_throws(s))
        /\ SF_pollVars(pc[s] = "got" /\ poll_acknowledgement(s, at[s]))
        /\ WF_pollVars(pc[s] = "got" /\ poll_acknowledgement_throws(s, at[s]))
        /\ SF_pollVars(poll_acknowledgement_commits(s))

FairSpec == Spec /\ Fairness

----------------------------------------------------------------------------
(* Properties *)

\* The variables have their types; a session that deals with a message has a
\* committed one.
TypeOK ==
    /\ nextMessage \in 1..(MaxMessages + 1)
    /\ message \in [Known -> Row]
    /\ pc \in [Sessions -> {"idle", "picked", "got", "updated"}]
    /\ at \in [Sessions -> Known \cup {0}]
    /\ \A s \in Sessions : pc[s] # "idle" => at[s] \in Known /\ message[at[s]].committed
    /\ acks \in [Ids -> Nat]

\* Two sessions of a registrar that acknowledge one message at the same time, or a
\* client that repeats an acknowledgement, take it off the queue once.
AcknowledgedOnce ==
    \A id \in Ids : acks[id] = IF id \in Known /\ message[id].seen THEN 1 ELSE 0

\* No session is ever shown, or takes off the queue, a message of another
\* registrar, although its client may send any id to acknowledge.
OwnMessagesOnly ==
    \A s \in Sessions : at[s] # 0 => message[at[s]].clid = RegistrarOf[s]

Obstructed(id) ==
    \E older \in Known : /\ older < id
                         /\ older \in Unseen(message[id].clid)
                         /\ ~message[older].details

Readable(id) == id \in Known /\ message[id].committed /\ message[id].details

Settled(id) == id \in Known /\ (message[id].seen \/ message[id].expired \/ Obstructed(id))

\* Every message a client can be shown is read in the end, unless it expires or an
\* older message whose data are gone stands before it.
MessagesAreRead == \A id \in Ids : Readable(id) ~> Settled(id)
==================================================================================

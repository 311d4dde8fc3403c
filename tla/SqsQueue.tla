------------------------------ MODULE SqsQueue ------------------------------
(***************************************************************************)
(* A standard SQS queue with a redrive policy, as infra/provision.py       *)
(* creates it and curbline/aws.py uses it: delivery is at least once and   *)
(* unordered, a received message is hidden until it is deleted or its      *)
(* visibility timeout expires, and a message received MAX_RECEIVE times    *)
(* without being deleted moves to the dead-letter queue.                   *)
(*                                                                         *)
(* The queue is a value: a function from the identity of each unit of work *)
(* to where the unit is and how often it was received.  The operators      *)
(* below return the queue after one SQS operation, so every module that    *)
(* consumes a queue keeps it in a variable of its own.                     *)
(***************************************************************************)
EXTENDS Integers

CONSTANTS
    Units,          \* identities of the messages that may be sent
    MAX_RECEIVE     \* maxReceiveCount of the redrive policy (5 in the code)

ASSUME MaxReceiveAssumption == MAX_RECEIVE \in Nat \ {0}

Places == {"unsent", "visible", "inflight", "deleted", "dead"}

Message == [at : Places, receives : 0..MAX_RECEIVE]

EmptyQueue == [u \in Units |-> [at |-> "unsent", receives |-> 0]]

In(q, place) == {u \in Units : q[u].at = place}

\* send_message: the unit becomes available to any receive.
Sent(q, u) == [q EXCEPT ![u].at = "visible"]

\* A visible unit that has used up its receives is moved by SQS to the
\* dead-letter queue instead of being delivered once more.
ExhaustedLate(q, u) == q[u].receives > MAX_RECEIVE
Exhausted(q, u) == q[u].receives >= MAX_RECEIVE

Receivable(q) == {u \in In(q, "visible") : ~Exhausted(q, u)}

Redriven(q, u) == [q EXCEPT ![u].at = "dead"]

\* receive_message: every unit of the batch is hidden and its receive count
\* grows by one.
Received(q, batch) ==
    [u \in Units |->
        IF u \in batch
        THEN [at |-> "inflight", receives |-> q[u].receives + 1]
        ELSE q[u]]

\* delete_message with the newest receipt handle.
Deleted(q, u) == [q EXCEPT ![u].at = "deleted"]

\* The visibility timeout expires: the unit can be received again.
TimedOut(q, u) == [q EXCEPT ![u].at = "visible"]

\* At-least-once delivery: a deleted unit comes back from a replica that
\* missed the delete.
Resurfaced(q, u) == [q EXCEPT ![u].at = "visible"]
=============================================================================

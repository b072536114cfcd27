------------------------ MODULE ReconciliationQueue ------------------------
(***************************************************************************)
(* The SQS queue of reconciliation jobs as token_reconciliation.rs uses it *)
(* and reconciliation-stack.ts configures it: an unordered, at-least-once  *)
(* queue.  A received message is hidden until it is deleted or its         *)
(* visibility timeout ends; after MaxReceives receives it is moved to the  *)
(* dead-letter queue; it is discarded when its retention ends.             *)
(* A message is a copy of a request's one job (SDK retries of send_message *)
(* can leave more copies than one).                                        *)
(***************************************************************************)
EXTENDS Integers, FiniteSets

CONSTANTS
  Jobs,           \* one job per request
  Copies,         \* BOUND: the copies of a job the queue can hold
  MaxReceives,    \* maxReceiveCount of the redrive policy (5 in the stack)
  BatchSize,      \* RECEIVE_BATCH_SIZE (10 in the code)
  Retention       \* how long an undelivered message is kept (one day)

ASSUME QueueAssumption ==
  /\ MaxReceives \in Nat \ {0}
  /\ BatchSize \in Nat \ {0}
  /\ Retention \in Nat
  /\ IsFiniteSet(Copies)

VARIABLE msg    \* where each message is, its receive count, its send time

Messages == [job: Jobs, copy: Copies]

MsgPlaces == {"unsent", "visible", "hidden", "deleted", "dead", "discarded"}

Unsent == [place |-> "unsent", receives |-> 0, sent |-> 0]

QueueTypeOK ==
  msg \in [Messages -> [place: MsgPlaces, receives: 0..MaxReceives, sent: Nat]]

QueueInit == msg = [m \in Messages |-> Unsent]

At(m, places) == msg[m].place \in places
Move(m, place) == msg' = [msg EXCEPT ![m].place = place]

(* send_message: the copies in cs of job j become receivable.              *)
Send(j, cs, time) ==
  /\ \A c \in cs : At([job |-> j, copy |-> c], {"unsent"})
  /\ msg' = [m \in Messages |->
       IF m.job = j /\ m.copy \in cs
       THEN [place |-> "visible", receives |-> 0, sent |-> time]
       ELSE msg[m]]

(* Mutant of Receivable: no maxReceiveCount.                               *)
ReceivableForever(time) ==
  {m \in Messages : At(m, {"visible"}) /\ time <= msg[m].sent + Retention}

(* A message is kept for Retention seconds; in the last of them it may     *)
(* still be received or be gone already.                                   *)
Receivable(time) ==
  {m \in Messages : /\ At(m, {"visible"})
                    /\ msg[m].receives < MaxReceives
                    /\ time <= msg[m].sent + Retention}

(* receive_message returns up to BatchSize of the receivable messages.     *)
Receive(ms, time) ==
  /\ ms # {}
  /\ ms \subseteq Receivable(time)
  /\ Cardinality(ms) <= BatchSize
  /\ msg' = [m \in Messages |->
       IF m \in ms
       THEN [msg[m] EXCEPT !.place = "hidden", !.receives = @ + 1]
       ELSE msg[m]]

Delete(m) == At(m, {"visible", "hidden"}) /\ Move(m, "deleted")

VisibilityTimeout(m) == At(m, {"hidden"}) /\ Move(m, "visible")

DeadLetter(m) ==
  /\ At(m, {"visible"})
  /\ msg[m].receives = MaxReceives
  /\ Move(m, "dead")

Discard(m, time) ==
  /\ At(m, {"visible", "hidden"})
  /\ time >= msg[m].sent + Retention
  /\ Move(m, "discarded")

(* A copy that can still be received, now or after its timeout.            *)
Pending(j) == \E c \in Copies : At([job |-> j, copy |-> c], {"visible", "hidden"})
=============================================================================

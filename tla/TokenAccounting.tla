-------------------------- MODULE TokenAccounting --------------------------
(***************************************************************************)
(* Token accounting of one engineer: the handlers of the proxy's tasks     *)
(* (reserve before the provider call, reconcile after it), the background  *)
(* reconciliation workers, the usage table and the job queue.              *)
(*                                                                         *)
(* A handler owns its TokenReservation until it is reconciled or lost (its *)
(* future is dropped with the client's connection, or its task dies).  A   *)
(* write whose answer never arrives may still reach the table: it stays in *)
(* "delayed", from where it is applied at any later time or never.         *)
(***************************************************************************)
EXTENDS UsageTable, ReconciliationQueue, FiniteSetsExt, Functions

CONSTANTS
  Limits,      \* limit pairs [daily, weekly] an engineer item may hold
  Budgets,     \* token budgets of prepared requests
  Actuals,     \* token totals a provider answer may report
  Unreported,  \* "None": no usage in the answer
  Attempts,    \* RESERVATION_TRANSACTION_ATTEMPTS (4 in the code)
  Workers,     \* reconciliation workers, one per task
  NoMessage    \* a worker with no message in hand

ASSUME AccountingAssumption ==
  /\ Jobs = Requests
  /\ Limits \subseteq [daily: Nat \cup {NoLimit}, weekly: Nat \cup {NoLimit}]
  /\ Budgets \subseteq Nat \ {0}
  /\ Actuals \subseteq Nat
  /\ Unreported \notin Int
  /\ Attempts \in Nat \ {0}
  /\ NoMessage \notin Messages

VARIABLES
  pc,        \* where each handler is
  res,       \* its TokenReservation, and the usage its job carries
  attempt,   \* the transaction attempt of its current loop
  delayed,   \* writes given up on that may still reach the table
  batch,     \* messages a worker has received and not yet looked at
  cur,       \* the message it is processing
  stage,     \* where in process_message it is
  wattempt   \* the transaction attempt of its current loop

handlerVars == <<pc, res, attempt>>
workerVars == <<batch, cur, stage, wattempt>>
vars == <<now, usage, status, marker, charges, msg,
          pc, res, attempt, delayed, batch, cur, stage, wattempt>>

(* Where a handler can be: the last eight are final.                       *)
HandlerStates ==
  {"idle", "reserving", "calling", "reconciling", "enqueueing",
   "settled", "queued", "rejected", "unavailable", "unrecorded",
   "queueFailed", "lost", "lostSending"}

NoLimits == [daily |-> NoLimit, weekly |-> NoLimit]
Reservations == [at: Times, limits: Limits, budget: Budgets,
                 actual: Actuals \cup {Unreported}]
NoReservation == [at |-> 0, limits |-> NoLimits, budget |-> 0,
                  actual |-> Unreported]

Tracked(r) == res[r].limits # NoLimits
(* reconciliation_values: an unreported usage charges the whole budget.    *)
Charge(r) == IF res[r].actual = Unreported THEN res[r].budget ELSE res[r].actual

Init ==
  /\ TableInit
  /\ QueueInit
  /\ pc = [r \in Requests |-> "idle"]
  /\ res = [r \in Requests |-> NoReservation]
  /\ attempt = [r \in Requests |-> 0]
  /\ delayed = {}
  /\ batch = [w \in Workers |-> {}]
  /\ cur = [w \in Workers |-> NoMessage]
  /\ stage = [w \in Workers |-> "waiting"]
  /\ wattempt = [w \in Workers |-> 0]

(* Leaving a step leaves its transaction loop, and with it the loop's       *)
(* attempt counter.                                                        *)
Goto(r, place) ==
  /\ pc' = [pc EXCEPT ![r] = place]
  /\ attempt' = [attempt EXCEPT ![r] = 0]
TryAgain(r) ==
  /\ attempt' = [attempt EXCEPT ![r] = @ + 1]
  /\ UNCHANGED pc
GiveUpOn(kind, r) == delayed' = delayed \cup {<<kind, r>>}

-----------------------------------------------------------------------------
(* Handlers: TokenReservationManager::reserve.                             *)

(* reserve reads the clock; an engineer without limits is not tracked.     *)
Arrive(r) ==
  /\ pc[r] = "idle"
  /\ \E limits \in Limits, budget \in Budgets :
       /\ res' = [res EXCEPT ![r] = [at |-> now, limits |-> limits,
                                     budget |-> budget, actual |-> Unreported]]
       /\ Goto(r, IF limits = NoLimits THEN "calling" ELSE "reserving")
  /\ UNCHANGED <<tableVars, msg, delayed, workerVars>>

Reserve(r) ==
  /\ pc[r] = "reserving"
  /\ ReserveTransaction(r, res[r].at, res[r].limits, res[r].budget)
  /\ Goto(r, "calling")
  /\ UNCHANGED <<msg, res, delayed, workerVars>>

RejectOverLimit(r) ==
  /\ pc[r] = "reserving"
  /\ ~CanReserve(res[r].at, res[r].limits, res[r].budget)
  /\ Goto(r, "rejected")
  /\ UNCHANGED <<tableVars, msg, res, delayed, workerVars>>

(* A TransactionConflict or throttling cancels the write: retried after a   *)
(* delay, WriteFailed when it was the last attempt.                        *)
ReserveConflict(r) ==
  /\ pc[r] = "reserving"
  /\ IF attempt[r] + 1 < Attempts
     THEN TryAgain(r)
     ELSE Goto(r, "unavailable")
  /\ UNCHANGED <<tableVars, msg, res, delayed, workerVars>>

(* Any other error is WriteFailed at once, a lost answer included.         *)
ReserveFails(r) ==
  /\ pc[r] = "reserving"
  /\ Goto(r, "unavailable")
  /\ GiveUpOn("reserve", r)
  /\ UNCHANGED <<tableVars, msg, res, workerVars>>

-----------------------------------------------------------------------------
(* Processing a job: process_reconciliation, shared by handlers and        *)
(* workers.  Its outcomes are a transaction that commits, a job found done *)
(* already, and an error.                                                  *)

(* record_reconciliation returns at once on a zero count.                  *)
NothingToRecord(r) == ~Tracked(r) /\ Charge(r) = 0

JobCommits(r) ==
  IF Tracked(r)
  THEN ReconcileTransaction(r, res[r].at, res[r].budget, Charge(r))
  ELSE /\ ~NothingToRecord(r)
       /\ UsageTransaction(r, res[r].at, Charge(r))

(* reservation_is_completed, reconciliation_marker_exists.                 *)
JobFoundDone(r) ==
  \/ Tracked(r) /\ status[r] = "completed"
  \/ ~Tracked(r) /\ r \in marker
  \/ NothingToRecord(r)

JobSucceeds(r) ==
  \/ JobCommits(r)
  \/ JobFoundDone(r) /\ UNCHANGED tableVars

(* The provider call is over (or failed, with no usage): reconcile builds  *)
(* the job, except that an untracked request without usage has none.       *)
ProviderDone(r) ==
  /\ pc[r] = "calling"
  /\ \E actual \in Actuals \cup {Unreported} :
       /\ res' = [res EXCEPT ![r].actual = actual]
       /\ Goto(r, IF ~Tracked(r) /\ actual = Unreported
                  THEN "unrecorded" ELSE "reconciling")
  /\ UNCHANGED <<tableVars, msg, delayed, workerVars>>

(* reconcile_durably: process the job here first.                          *)
ReconcileNow(r) ==
  /\ pc[r] = "reconciling"
  /\ JobSucceeds(r)
  /\ Goto(r, "settled")
  /\ UNCHANGED <<msg, res, delayed, workerVars>>

(* Only the reservation job's loop retries conflicts.                      *)
ReconcileConflict(r) ==
  /\ pc[r] = "reconciling"
  /\ ~NothingToRecord(r)
  /\ IF Tracked(r) /\ attempt[r] + 1 < Attempts
     THEN TryAgain(r)
     ELSE Goto(r, "enqueueing")
  /\ UNCHANGED <<tableVars, msg, res, delayed, workerVars>>

(* Mutant of ReconcileFails: the durable retry is forgotten.               *)
ReconcileFailsForGood(r) ==
  /\ pc[r] = "reconciling"
  /\ ~NothingToRecord(r)
  /\ Goto(r, "settled")
  /\ GiveUpOn("settle", r)
  /\ UNCHANGED <<tableVars, msg, res, workerVars>>

ReconcileFails(r) ==
  /\ pc[r] = "reconciling"
  /\ ~NothingToRecord(r)
  /\ Goto(r, "enqueueing")
  /\ GiveUpOn("settle", r)
  /\ UNCHANGED <<tableVars, msg, res, workerVars>>

(* ... and enqueue it for the workers when that failed.                    *)
Enqueue(r) ==
  /\ pc[r] = "enqueueing"
  /\ \E cs \in (SUBSET Copies) \ {{}} : Send(r, cs, now)
  /\ Goto(r, "queued")
  /\ UNCHANGED <<tableVars, res, delayed, workerVars>>

(* The send fails, or its answer is lost: QueueFailed, which callers log.  *)
EnqueueFails(r) ==
  /\ pc[r] = "enqueueing"
  /\ \E cs \in SUBSET Copies : Send(r, cs, now)
  /\ Goto(r, "queueFailed")
  /\ UNCHANGED <<tableVars, res, delayed, workerVars>>

(* The handler's future is dropped or its task dies.  TokenReservation has *)
(* no Drop: the reservation is forgotten, a write under way is not,        *)
HandlerLost(r) ==
  /\ pc[r] \in {"reserving", "calling", "reconciling"}
  /\ Goto(r, "lost")
  /\ delayed' = delayed \cup
       (CASE pc[r] = "reserving"   -> {<<"reserve", r>>}
          [] pc[r] = "reconciling" -> {<<"settle", r>>}
          [] OTHER                 -> {})
  /\ UNCHANGED <<tableVars, msg, res, workerVars>>

(* nor a send.                                                             *)
LostWhileSending(r) ==
  /\ pc[r] = "enqueueing"
  /\ \E cs \in SUBSET Copies : Send(r, cs, now)
  /\ Goto(r, "lostSending")
  /\ UNCHANGED <<tableVars, res, delayed, workerVars>>

-----------------------------------------------------------------------------
(* Workers: start_reconciliation_worker and process_message.               *)

WorkerReceives(w) ==
  /\ stage[w] = "waiting"
  /\ batch[w] = {}
  /\ \E ms \in SUBSET Receivable(now) :
       /\ Receive(ms, now)
       /\ batch' = [batch EXCEPT ![w] = ms]
  /\ UNCHANGED <<tableVars, handlerVars, delayed, cur, stage, wattempt>>

WorkerTakes(w) ==
  /\ stage[w] = "waiting"
  /\ \E m \in batch[w] :
       /\ cur' = [cur EXCEPT ![w] = m]
       /\ batch' = [batch EXCEPT ![w] = @ \ {m}]
  /\ stage' = [stage EXCEPT ![w] = "processing"]
  /\ UNCHANGED <<tableVars, msg, handlerVars, delayed, wattempt>>

PutDown(w) ==
  /\ cur' = [cur EXCEPT ![w] = NoMessage]
  /\ stage' = [stage EXCEPT ![w] = "waiting"]
  /\ wattempt' = [wattempt EXCEPT ![w] = 0]

(* process_message returns at once on a message it cannot parse (a task of  *)
(* another version may have sent it) and leaves it to its timeout.         *)
WorkerRefuses(w) ==
  /\ stage[w] = "processing"
  /\ wattempt[w] = 0
  /\ PutDown(w)
  /\ UNCHANGED <<tableVars, msg, handlerVars, delayed, batch>>

WorkerSettles(w) ==
  /\ stage[w] = "processing"
  /\ JobSucceeds(cur[w].job)
  /\ stage' = [stage EXCEPT ![w] = "deleting"]
  /\ wattempt' = [wattempt EXCEPT ![w] = 0]
  /\ UNCHANGED <<msg, handlerVars, delayed, batch, cur>>

WorkerConflict(w) ==
  /\ stage[w] = "processing"
  /\ Tracked(cur[w].job)
  /\ wattempt[w] + 1 < Attempts
  /\ wattempt' = [wattempt EXCEPT ![w] = @ + 1]
  /\ UNCHANGED <<tableVars, msg, handlerVars, delayed, batch, cur, stage>>

(* Mutant of WorkerFails: the message of a failed job is deleted too.      *)
WorkerFailsThenDeletes(w) ==
  /\ stage[w] = "processing"
  /\ stage' = [stage EXCEPT ![w] = "deleting"]
  /\ wattempt' = [wattempt EXCEPT ![w] = 0]
  /\ GiveUpOn("settle", cur[w].job)
  /\ UNCHANGED <<tableVars, msg, handlerVars, batch, cur>>

(* The job failed: the message is left to its visibility timeout.  This    *)
(* covers the last conflict, a verification that finds the record gone or  *)
(* cannot read it, and a write whose answer is lost.                       *)
WorkerFails(w) ==
  /\ stage[w] = "processing"
  /\ PutDown(w)
  /\ GiveUpOn("settle", cur[w].job)
  /\ UNCHANGED <<tableVars, msg, handlerVars, batch>>

WorkerDeletes(w) ==
  /\ stage[w] = "deleting"
  /\ PutDown(w)
  /\ Delete(cur[w])
  /\ UNCHANGED <<tableVars, handlerVars, delayed, batch>>

(* delete_message fails, which is only logged, or the message is gone.     *)
WorkerKeeps(w) ==
  /\ stage[w] = "deleting"
  /\ PutDown(w)
  /\ UNCHANGED <<tableVars, msg, handlerVars, delayed, batch>>

(* The task dies, or shutdown cancels the worker between two messages.     *)
WorkerLost(w) ==
  /\ batch[w] # {} \/ stage[w] # "waiting"
  /\ PutDown(w)
  /\ batch' = [batch EXCEPT ![w] = {}]
  /\ delayed' = delayed \cup
       (IF stage[w] = "processing" THEN {<<"settle", cur[w].job>>} ELSE {})
  /\ UNCHANGED <<tableVars, msg, handlerVars>>

-----------------------------------------------------------------------------
(* The environment: late writes, the queue's timers, ttl, the clock.       *)

LateReserve(r) ==
  /\ <<"reserve", r>> \in delayed
  /\ ReserveTransaction(r, res[r].at, res[r].limits, res[r].budget)
  /\ delayed' = delayed \ {<<"reserve", r>>}
  /\ UNCHANGED <<msg, handlerVars, workerVars>>

LateSettle(r) ==
  /\ <<"settle", r>> \in delayed
  /\ JobCommits(r)
  /\ delayed' = delayed \ {<<"settle", r>>}
  /\ UNCHANGED <<msg, handlerVars, workerVars>>

QueueTimer(m) ==
  /\ VisibilityTimeout(m) \/ DeadLetter(m) \/ Discard(m, now)
  /\ UNCHANGED <<tableVars, handlerVars, delayed, workerVars>>

TtlDeletes ==
  /\ \/ \E w \in Windows : ExpireWindow(w)
     \/ \E r \in Requests : ExpireRecord(r, res[r].at)
  /\ UNCHANGED <<msg, handlerVars, delayed, workerVars>>

TimePasses == Tick /\ UNCHANGED <<msg, handlerVars, delayed, workerVars>>

-----------------------------------------------------------------------------
HandlerNext(r) ==
  \/ Arrive(r) \/ Reserve(r) \/ RejectOverLimit(r) \/ ReserveConflict(r)
  \/ ReserveFails(r) \/ ProviderDone(r) \/ ReconcileNow(r)
  \/ ReconcileConflict(r) \/ ReconcileFails(r) \/ Enqueue(r)
  \/ EnqueueFails(r) \/ HandlerLost(r) \/ LostWhileSending(r)

WorkerNext(w) ==
  \/ WorkerReceives(w) \/ WorkerTakes(w) \/ WorkerRefuses(w)
  \/ WorkerSettles(w) \/ WorkerConflict(w) \/ WorkerFails(w)
  \/ WorkerDeletes(w) \/ WorkerKeeps(w) \/ WorkerLost(w)

Next ==
  \/ \E r \in Requests : HandlerNext(r) \/ LateReserve(r) \/ LateSettle(r)
  \/ \E w \in Workers : WorkerNext(w)
  \/ \E m \in Messages : QueueTimer(m)
  \/ TtlDeletes
  \/ TimePasses

Spec == Init /\ [][Next]_vars

(* Workers run for as long as the service does (a lost one is replaced by  *)
(* the next task) and SQS runs its timers; nothing is assumed of handlers, *)
(* of the provider, of the success of a write, or of late writes.          *)
Fairness ==
  /\ \A w \in Workers : WF_vars(WorkerNext(w))
  /\ \A m \in Messages : WF_vars(QueueTimer(m))

LiveSpec == Spec /\ Fairness

-----------------------------------------------------------------------------
HandlerTypeOK ==
  /\ pc \in [Requests -> HandlerStates]
  /\ res \in [Requests -> Reservations \cup {NoReservation}]
  /\ \A r \in Requests : pc[r] # "idle" => res[r] \in Reservations
  /\ attempt \in [Requests -> 0..(Attempts - 1)]
  /\ delayed \subseteq {"reserve", "settle"} \X Requests

WorkerTypeOK ==
  /\ batch \in [Workers -> SUBSET Messages]
  /\ cur \in [Workers -> Messages \cup {NoMessage}]
  /\ stage \in [Workers -> {"waiting", "processing", "deleting"}]
  /\ wattempt \in [Workers -> 0..(Attempts - 1)]
  /\ \A w \in Workers : stage[w] # "waiting" => cur[w] # NoMessage

(* Every variable has its type: no counter passes its bound, in particular *)
(* no message is received more than maxReceiveCount times, a handler past  *)
(* its first step has a reservation, and a worker processes or deletes a   *)
(* message only while it has one in hand.                                  *)
TypeOK == TableTypeOK /\ QueueTypeOK /\ HandlerTypeOK /\ WorkerTypeOK

(* Every window's token_count is its consumed plus its reserved tokens, as *)
(* the comment on reservation_update promises, through every write, retry, *)
(* redelivery and ttl deletion.                                            *)
EffectiveTotal ==
  \A w \in Windows :
    usage[w].token_count = usage[w].consumed_tokens + usage[w].reserved_tokens

(* No interleaving of the immediate attempt, its late arrival, duplicate   *)
(* messages and concurrent workers applies a request's charge twice.       *)
ChargedOnce == \A r \in Requests : charges[r] <= 1

(* A handler that returns Ok and a worker that deletes (or is about to     *)
(* delete) a message do so for a job whose effect is in the table.         *)
Applied(r) == charges[r] > 0 \/ NothingToRecord(r)
DoneMeansApplied ==
  /\ \A r \in Requests : pc[r] = "settled" => Applied(r)
  /\ \A m \in Messages : At(m, {"deleted"}) => Applied(m.job)
  /\ \A w \in Workers : stage[w] = "deleting" => Applied(cur[w].job)

(* An active reservation is always somebody's: its handler's, a message's  *)
(* that can still be received, or it is one of the leaks the design leaves *)
(* to the ttl: an unanswered reserve, a lost handler, a failed enqueue, a  *)
(* dead-lettered or discarded job.                                         *)
ReservedHasOwner ==
  \A r \in Requests : status[r] = "reserved" =>
    \/ pc[r] \in {"calling", "reconciling", "enqueueing"}
    \/ Pending(r)
    \/ pc[r] \in {"unavailable", "lost", "lostSending", "queueFailed"}
    \/ /\ pc[r] = "queued"
       /\ \E c \in Copies : At([job |-> r, copy |-> c], {"dead", "discarded"})

(* When every request of the engineer carries a limit for a kind of        *)
(* window, concurrent reservations never take a window past the highest of *)
(* them by more than what settled requests used beyond their budgets.      *)
Highest(limits, kind) ==
  \A other \in Limits : other[kind] # NoLimit /\ other[kind] <= limits[kind]
Overrun(r) == Max({0, Charge(r) - res[r].budget})
OverrunIn(w, r) ==
  IF charges[r] > 0 /\ w \in WindowsOf(res[r].at) THEN Overrun(r) ELSE 0
WithinLimits ==
  \A w \in Windows, limits \in Limits : Highest(limits, w.kind) =>
    usage[w].token_count <=
      limits[w.kind] + SumFunction([r \in Requests |-> OverrunIn(w, r)])

(* The table implements the ledger of one entry per request: seen through  *)
(* its records, markers and charges, every transaction, retry, redelivery, *)
(* late write and ttl deletion is one step of that ledger or none, and the *)
(* counters of every window kept are the sums of the ledger's entries.     *)
EntryOf(r) ==
  IF charges[r] > 0
  THEN [phase |-> "settled", at |-> res[r].at, limits |-> res[r].limits,
        budget |-> res[r].budget, cost |-> Charge(r)]
  ELSE IF status[r] = "reserved"
  THEN [phase |-> "active", at |-> res[r].at, limits |-> res[r].limits,
        budget |-> res[r].budget]
  ELSE [phase |-> "none"]

ShownBy(w) ==
  IF Live(w, now)
  THEN <<usage[w].reserved_tokens, usage[w].consumed_tokens>>
  ELSE <<>>

Ledger == INSTANCE UsageLedger WITH
  entry <- [r \in Requests |-> EntryOf(r)],
  shown <- [w \in Windows |-> ShownBy(w)]

ImplementsLedger == Ledger!Spec

(* A job that was handed to the queue is applied, unless every copy of it  *)
(* ends in the dead-letter queue or outlives its retention.                *)
HandedOverIsApplied ==
  \A r \in Requests :
    pc[r] = "queued" ~>
      \/ Applied(r)
      \/ \A c \in Copies : At([job |-> r, copy |-> c],
                              {"unsent", "dead", "discarded"})

-----------------------------------------------------------------------------
(* The inductive invariant behind ChargedOnce; TokenAccountingProofs adds   *)
(* that of who owns a message and a reservation.                           *)

(* A request is not charged before its reservation is made, nor while a    *)
(* reserve that was given up on may still be applied; a reservation still  *)
(* reserved was not charged; a Usage job's marker counts its charge.       *)
ChargeInv(r) ==
  /\ charges[r] <= 1
  /\ pc[r] = "idle" => /\ res[r] = NoReservation
                       /\ status[r] = "absent" /\ charges[r] = 0
  /\ pc[r] = "reserving" => /\ Tracked(r)
                            /\ status[r] = "absent" /\ charges[r] = 0
                            /\ <<"reserve", r>> \notin delayed
  /\ <<"reserve", r>> \in delayed =>
       /\ pc[r] \in {"unavailable", "lost"}
       /\ Tracked(r)
       /\ status[r] = "absent" /\ charges[r] = 0
  /\ Tracked(r) => /\ status[r] = "reserved" => charges[r] = 0
                   /\ status[r] = "completed" => charges[r] = 1
                   /\ r \notin marker
  /\ ~Tracked(r) => /\ status[r] = "absent"
                    /\ charges[r] = IF r \in marker THEN 1 ELSE 0

ChargesInv == \A r \in Requests : ChargeInv(r)
=============================================================================

----------------------------- MODULE RateLimit -----------------------------
(***************************************************************************)
(* RateLimiter of rate_limit.rs for one engineer: a fixed window counter   *)
(* in DynamoDB, shared by all proxy tasks, incremented under the condition *)
(* that it is below the limit.  The increment is not idempotent: when its  *)
(* answer is lost, the SDK sends it again.                                 *)
(***************************************************************************)
EXTENDS Integers, FiniteSets

CONSTANTS
  Requests,       \* requests of the engineer
  Limit,          \* requests_per_window
  Window,         \* length of a window in seconds
  MaxTime,        \* BOUND: the seconds modelled are 0..MaxTime
  MaxDelay,       \* seconds from reading the clock to the write, at most
  SdkAttempts     \* attempts the SDK makes at an unanswered call

(* new raises limit and window to 1 at least.                              *)
ASSUME RateLimitAssumption ==
  /\ IsFiniteSet(Requests)
  /\ Limit \in Nat \ {0}
  /\ Window \in Nat \ {0}
  /\ MaxTime \in Nat
  /\ MaxDelay \in 0..Window
  /\ SdkAttempts \in Nat \ {0}

VARIABLES
  now,        \* the clock, in seconds
  count,      \* request_count of each window's item, by window start
  stage,      \* where each check_and_record is
  readAt,     \* the second at which it read the clock
  attempt,    \* the SDK attempt under way
  increments  \* history: increments made for each window

rateVars == <<now, count, stage, readAt, attempt, increments>>

Seconds == 0..MaxTime

WindowStart(second) == second - (second % Window)
Starts == {WindowStart(second) : second \in Seconds}

(* Mutant of Ttl: the item lives for one window only.                      *)
TtlOfOneWindow(start) == start + Window
Ttl(start) == start + 2 * Window

StartOf(r) == WindowStart(readAt[r])

RateInit ==
  /\ now = 0
  /\ count = [start \in Starts |-> 0]
  /\ stage = [r \in Requests |-> "idle"]
  /\ readAt = [r \in Requests |-> 0]
  /\ attempt = [r \in Requests |-> 1]
  /\ increments = [start \in Starts |-> 0]

Enter(r, place) == stage' = [stage EXCEPT ![r] = place]

ReadClock(r) ==
  /\ stage[r] = "idle"
  /\ readAt' = [readAt EXCEPT ![r] = now]
  /\ Enter(r, "updating")
  /\ UNCHANGED <<now, count, attempt, increments>>

(* A clock before 1970: the request is rejected, and nothing recorded.     *)
ClockFails(r) ==
  /\ stage[r] = "idle"
  /\ Enter(r, "clockFailed")
  /\ UNCHANGED <<now, count, readAt, attempt, increments>>

(* The conditional update_item; an absent item counts as 0.                *)
Increment(start) ==
  /\ count[start] < Limit
  /\ count' = [count EXCEPT ![start] = @ + 1]
  /\ increments' = [increments EXCEPT ![start] = @ + 1]

Admit(r) ==
  /\ stage[r] = "updating"
  /\ Increment(StartOf(r))
  /\ Enter(r, "admitted")
  /\ UNCHANGED <<now, readAt, attempt>>

(* Mutant of Exceeded: the condition is on the incremented counter.        *)
ExceededByTheLast(r) ==
  /\ stage[r] = "updating"
  /\ count[StartOf(r)] + 1 >= Limit
  /\ Enter(r, "limited")
  /\ UNCHANGED <<now, count, readAt, attempt, increments>>

Exceeded(r) ==
  /\ stage[r] = "updating"
  /\ count[StartOf(r)] >= Limit
  /\ Enter(r, "limited")
  /\ UNCHANGED <<now, count, readAt, attempt, increments>>

(* No answer, whether or not the increment was made: the SDK tries again,  *)
(* and UpdateFailed after its last attempt rejects the request.            *)
Unanswered(r) ==
  /\ stage[r] = "updating"
  /\ Increment(StartOf(r)) \/ UNCHANGED <<count, increments>>
  /\ IF attempt[r] < SdkAttempts
     THEN attempt' = [attempt EXCEPT ![r] = @ + 1] /\ UNCHANGED stage
     ELSE Enter(r, "failed") /\ UNCHANGED attempt
  /\ UNCHANGED <<now, readAt>>

TtlDeletes(start) ==
  /\ count[start] > 0
  /\ now >= Ttl(start)
  /\ count' = [count EXCEPT ![start] = 0]
  /\ UNCHANGED <<now, stage, readAt, attempt, increments>>

(* Time passes, but no update is under way for longer than MaxDelay.       *)
Tick ==
  /\ now < MaxTime
  /\ \A r \in Requests : stage[r] = "updating" => now < readAt[r] + MaxDelay
  /\ now' = now + 1
  /\ UNCHANGED <<count, stage, readAt, attempt, increments>>

RequestNext(r) ==
  \/ ReadClock(r) \/ ClockFails(r)
  \/ Admit(r) \/ Exceeded(r) \/ Unanswered(r)

RateNext ==
  \/ \E r \in Requests : RequestNext(r)
  \/ \E start \in Starts : TtlDeletes(start)
  \/ Tick

RateSpec == RateInit /\ [][RateNext]_rateVars

-----------------------------------------------------------------------------
(* Every variable has its type; an idle request made no attempt yet.       *)
RateTypeOK ==
  /\ now \in Seconds
  /\ count \in [Starts -> 0..Limit]
  /\ stage \in [Requests -> {"idle", "clockFailed", "updating", "admitted",
                            "limited", "failed"}]
  /\ readAt \in [Requests -> Seconds]
  /\ \A r \in Requests : readAt[r] <= now
  /\ attempt \in [Requests -> 1..SdkAttempts]
  /\ \A r \in Requests : stage[r] = "idle" => attempt[r] = 1
  /\ increments \in [Starts -> Nat]

Admitted(start) == {r \in Requests : stage[r] = "admitted" /\ StartOf(r) = start}

(* No window admits more than its limit, though its item is deleted by ttl *)
(* and updates that read the clock in it come late: each admitted request  *)
(* has an increment of its own, and a deleted counter never starts again.  *)
AdmittedWithinLimit ==
  \A start \in Starts :
    /\ Cardinality(Admitted(start)) <= increments[start]
    /\ increments[start] <= Limit

(* The attempts of a window that may have counted: those that admitted a   *)
(* request, and those without an answer, the SDK's retried ones included.  *)
MayCount(r, n) ==
  n < attempt[r] \/ (n = attempt[r] /\ stage[r] \in {"admitted", "failed"})
MayHaveCounted(start) ==
  {made \in Requests \X (1..SdkAttempts) :
     StartOf(made[1]) = start /\ MayCount(made[1], made[2])}

(* The increment is not idempotent, so a retry may count a request twice   *)
(* and another one is refused early.  A window refuses early by no more    *)
(* than its unanswered attempts: whoever is refused, Limit attempts that   *)
(* were made in his window admitted or may have counted.                   *)
RefusedOnlyAtLimit ==
  \A r \in Requests : stage[r] = "limited" =>
    Cardinality(MayHaveCounted(StartOf(r))) >= Limit
=============================================================================

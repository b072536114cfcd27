----------------------------- MODULE UsageTable -----------------------------
(***************************************************************************)
(* The DynamoDB token-usage table, as token_reservation.rs and             *)
(* token_usage.rs write it: one partition (one user_id), holding           *)
(*   - a usage item per daily and weekly window,                           *)
(*   - one reservation record per tracked request,                         *)
(*   - one reconciliation marker per processed Usage job.                  *)
(* Every write of the code is one TransactWriteItems call, hence one       *)
(* atomic operator below.                                                  *)
(***************************************************************************)
EXTENDS UsageWindows, FiniteSets

CONSTANTS
  Requests,      \* requests of one engineer; each has its own UUIDs
  NoLimit        \* "None" for an engineer's daily or weekly limit

ASSUME TableAssumption == NoLimit \notin Int /\ IsFiniteSet(Requests)

VARIABLES
  now,      \* the current second
  usage,    \* usage item of each window
  status,   \* "status" attribute of each request's reservation record
  marker,   \* requests whose Usage job left a usage_reconciliation marker
  charges   \* history: how many times each request's charge was applied

tableVars == <<now, usage, status, marker, charges>>

(* An absent item and an item without the attributes are the same to ADD   *)
(* and to the conditions the code writes; 0 stands for no ttl attribute.   *)
NoItem == [token_count |-> 0, reserved_tokens |-> 0, consumed_tokens |-> 0,
           ttl |-> 0]

UsageItems == [token_count: Int, reserved_tokens: Int, consumed_tokens: Int,
               ttl: 0..MaxU64]

TableTypeOK ==
  /\ now \in Times
  /\ usage \in [Windows -> UsageItems]
  /\ status \in [Requests -> {"absent", "reserved", "completed"}]
  /\ marker \subseteq Requests
  /\ charges \in [Requests -> Nat]

TableInit ==
  /\ now = 0
  /\ usage = [w \in Windows |-> NoItem]
  /\ status = [r \in Requests |-> "absent"]
  /\ marker = {}
  /\ charges = [r \in Requests |-> 0]

(* ADD the three counters of both windows of a second in one transaction,  *)
(* and SET their ttl where the code's update sets it.                      *)
AddToWindows(at, count, reserved, consumed, setTtl) ==
  usage' = [w \in Windows |->
    IF w \in WindowsOf(at)
    THEN [token_count     |-> usage[w].token_count + count,
          reserved_tokens |-> usage[w].reserved_tokens + reserved,
          consumed_tokens |-> usage[w].consumed_tokens + consumed,
          ttl             |-> IF setTtl THEN WindowTtl(w.kind, at)
                                       ELSE usage[w].ttl]
    ELSE usage[w]]

(* Mutant of HasRoom: the budget is not subtracted from the limit.         *)
HasRoomForNothing(w, limit, budget) ==
  limit # NoLimit => /\ budget <= limit
                     /\ usage[w].token_count <= limit

(* The condition reservation_update puts on a window: the limit leaves room *)
(* for the budget (checked_sub) and the count leaves it too.               *)
HasRoom(w, limit, budget) ==
  limit # NoLimit => /\ budget <= limit
                     /\ usage[w].token_count <= limit - budget

CanReserve(at, limits, budget) ==
  /\ HasRoom(DailyWindow(at), limits.daily, budget)
  /\ HasRoom(WeeklyWindow(at), limits.weekly, budget)

(* reserve's transaction: both windows and the reservation record.         *)
ReserveTransaction(r, at, limits, budget) ==
  /\ CanReserve(at, limits, budget)
  /\ status[r] = "absent"
  /\ AddToWindows(at, budget, budget, 0, TRUE)
  /\ status' = [status EXCEPT ![r] = "reserved"]
  /\ UNCHANGED <<now, marker, charges>>

(* Mutants of ReconcileTransaction: no condition on the record's status,   *)
ReconcileUnconditionally(r, at, budget, charged) ==
  /\ AddToWindows(at, charged - budget, 0 - budget, charged, FALSE)
  /\ status' = [status EXCEPT ![r] = "completed"]
  /\ charges' = [charges EXCEPT ![r] = @ + 1]
  /\ UNCHANGED <<now, marker>>

(* only the charged part of the budget is released,                        *)
ReconcileKeepingUnused(r, at, budget, charged) ==
  /\ status[r] = "reserved"
  /\ AddToWindows(at, charged - budget, 0 - charged, charged, FALSE)
  /\ status' = [status EXCEPT ![r] = "completed"]
  /\ charges' = [charges EXCEPT ![r] = @ + 1]
  /\ UNCHANGED <<now, marker>>

(* the windows of the present instead of the reservation's,            *)
ReconcileToday(r, at, budget, charged) ==
  /\ status[r] = "reserved"
  /\ AddToWindows(now, charged - budget, 0 - budget, charged, FALSE)
  /\ status' = [status EXCEPT ![r] = "completed"]
  /\ charges' = [charges EXCEPT ![r] = @ + 1]
  /\ UNCHANGED <<now, marker>>

(* reconcile_reservation's transaction: moves the budget out of reserved   *)
(* and the charge into consumed, provided the record is still reserved.    *)
ReconcileTransaction(r, at, budget, charged) ==
  /\ status[r] = "reserved"
  /\ AddToWindows(at, charged - budget, 0 - budget, charged, FALSE)
  /\ status' = [status EXCEPT ![r] = "completed"]
  /\ charges' = [charges EXCEPT ![r] = @ + 1]
  /\ UNCHANGED <<now, marker>>

(* record_reconciliation's transaction: both windows, and the marker that  *)
(* makes a second delivery of the same job fail its condition.             *)
UsageTransaction(r, at, tokens) ==
  /\ r \notin marker
  /\ AddToWindows(at, tokens, 0, tokens, TRUE)
  /\ marker' = marker \cup {r}
  /\ charges' = [charges EXCEPT ![r] = @ + 1]
  /\ UNCHANGED <<now, status>>

(* DynamoDB deletes an item some time after its ttl has passed.            *)
ExpireWindow(w) ==
  /\ usage[w].ttl # 0
  /\ now >= usage[w].ttl
  /\ usage' = [usage EXCEPT ![w] = NoItem]
  /\ UNCHANGED <<now, status, marker, charges>>

ExpireRecord(r, at) ==
  /\ status[r] # "absent"
  /\ now >= WeeklyTtl(at)
  /\ status' = [status EXCEPT ![r] = "absent"]
  /\ UNCHANGED <<now, usage, marker, charges>>

(* Time passes.                                                            *)
Tick ==
  /\ now < MaxTime
  /\ now' = now + 1
  /\ UNCHANGED <<usage, status, marker, charges>>
=============================================================================

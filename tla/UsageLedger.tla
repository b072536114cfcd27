----------------------------- MODULE UsageLedger -----------------------------
(***************************************************************************)
(* What token accounting promises of one engineer, with no transactions,   *)
(* retries, messages or workers: every request has at most one entry, made *)
(* when its tokens are reserved (or, without limits, when they are used),  *)
(* settled once at what it cost, and a window shows the sums of its        *)
(* entries for as long as its item has to be kept.  Only an entry nobody   *)
(* settled may vanish, when the ttl of its week has passed.                *)
(***************************************************************************)
EXTENDS UsageWindows, Functions

CONSTANTS
  Requests,   \* requests of the engineer
  Limits,     \* limit pairs [daily, weekly] a request may carry
  Budgets,    \* tokens a request may reserve
  Actuals,    \* tokens a provider may report
  NoLimit     \* no limit of that kind

VARIABLES
  now,     \* the current second
  entry,   \* the entry of each request
  shown    \* what each window shows

NoEntry == [phase |-> "none"]
ActiveEntry(at, limits, budget) ==
  [phase |-> "active", at |-> at, limits |-> limits, budget |-> budget]
SettledEntry(at, limits, budget, cost) ==
  [phase |-> "settled", at |-> at, limits |-> limits, budget |-> budget,
   cost |-> cost]

NoLimits == [daily |-> NoLimit, weekly |-> NoLimit]

(* What an entry counts for in a window, and the sums of it.               *)
ReservedBy(e, w) ==
  IF e.phase = "active" /\ w \in WindowsOf(e.at) THEN e.budget ELSE 0
ConsumedBy(e, w) ==
  IF e.phase = "settled" /\ w \in WindowsOf(e.at) THEN e.cost ELSE 0

Reserved(w, entries) ==
  SumFunction([r \in Requests |-> ReservedBy(entries[r], w)])
Consumed(w, entries) ==
  SumFunction([r \in Requests |-> ConsumedBy(entries[r], w)])

(* A window that need not be kept any longer may show anything.            *)
Shows(entries, time) ==
  [w \in Windows |->
     IF Live(w, time)
     THEN <<Reserved(w, entries), Consumed(w, entries)>>
     ELSE <<>>]

HasRoomFor(w, limit, budget) ==
  Live(w, now) /\ limit # NoLimit =>
    Reserved(w, entry) + Consumed(w, entry) + budget <= limit

Init ==
  /\ now = 0
  /\ entry = [r \in Requests |-> NoEntry]
  /\ shown = Shows(entry, now)

(* Reserving takes room in the windows of the second the request came in,  *)
(* which the reservation may reach later.                                  *)
Reserve(r) ==
  /\ entry[r].phase = "none"
  /\ \E at \in 0..now, limits \in Limits \ {NoLimits}, budget \in Budgets :
       /\ HasRoomFor(DailyWindow(at), limits.daily, budget)
       /\ HasRoomFor(WeeklyWindow(at), limits.weekly, budget)
       /\ entry' = [entry EXCEPT ![r] = ActiveEntry(at, limits, budget)]
  /\ UNCHANGED now

(* An active entry is settled at what was reported, or at its budget.      *)
Settle(r) ==
  /\ entry[r].phase = "active"
  /\ \E cost \in Actuals \cup {entry[r].budget} :
       entry' = [entry EXCEPT ![r] =
         SettledEntry(entry[r].at, entry[r].limits, entry[r].budget, cost)]
  /\ UNCHANGED now

(* A request without limits is only ever charged what was reported.        *)
Charge(r) ==
  /\ entry[r].phase = "none"
  /\ \E at \in 0..now, budget \in Budgets, cost \in Actuals \ {0} :
       entry' = [entry EXCEPT ![r] = SettledEntry(at, NoLimits, budget, cost)]
  /\ UNCHANGED now

Forget(r) ==
  /\ entry[r].phase = "active"
  /\ now >= WeeklyTtl(entry[r].at)
  /\ entry' = [entry EXCEPT ![r] = NoEntry]
  /\ UNCHANGED now

Tick ==
  /\ now < MaxTime
  /\ now' = now + 1
  /\ UNCHANGED entry

Next ==
  /\ \/ \E r \in Requests : Reserve(r) \/ Settle(r) \/ Charge(r) \/ Forget(r)
     \/ Tick
  /\ shown' = Shows(entry', now')

Spec == Init /\ [][Next]_<<now, entry, shown>>
=============================================================================

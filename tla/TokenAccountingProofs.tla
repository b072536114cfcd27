----------------------- MODULE TokenAccountingProofs -----------------------
(***************************************************************************)
(* Theorems about TokenAccounting, for every set of requests, workers and  *)
(* copies, every budget, usage and limit, and every horizon.               *)
(***************************************************************************)
EXTENDS TokenAccounting, SumTheorems, TLAPS

-----------------------------------------------------------------------------
(* The windows of token_usage.rs, for every length of day and week, every  *)
(* offset of the Monday and every width of the integers.                   *)

(* What saturating arithmetic yields.                                      *)
LEMMA SaturatingTyped ==
  ASSUME NEW a \in 0..MaxU64, NEW b \in Nat
  PROVE  /\ saturating_add(a, b) \in a..MaxU64
         /\ saturating_sub(a, b) \in 0..a
BY WindowAssumption DEF saturating_add, saturating_sub

(* A span of positive length holds the second it was computed from, starts *)
(* at a multiple of its length, and is the same for all its seconds.       *)
LEMMA SpanHolds ==
  ASSUME NEW s \in Nat, NEW length \in Nat \ {0}
  PROVE  /\ SpanStart(s, length) \in 0..s
         /\ s < SpanStart(s, length) + length
         /\ SpanStart(s, length) = length * (s \div length)
BY DEF SpanStart

(* The lengths of the windows are positive.                                *)
LEMMA LengthsPositive ==
  /\ WEEKLY_WINDOW_SECONDS \in Nat \ {0}
  /\ MONDAY_WEEK_OFFSET_SECONDS \in Nat
BY WindowAssumption DEF WEEKLY_WINDOW_SECONDS, MONDAY_WEEK_OFFSET_SECONDS

LEMMA AlignedTyped ==
  ASSUME NEW s \in 0..MaxU64
  PROVE  MondayAligned(s) \in 0..MaxU64
BY LengthsPositive, WindowAssumption DEF MondayAligned, saturating_add

(* Every ttl is a u64.                                                     *)
LEMMA TtlTyped ==
  ASSUME NEW s \in 0..MaxU64, NEW kind
  PROVE  WindowTtl(kind, s) \in 0..MaxU64
<1>1. ASSUME NEW start \in 0..MaxU64, NEW length \in Nat
      PROVE  UsageTtl(start, length) \in 0..MaxU64
  <2>1. length * 2 \in Nat /\ MaxU64 \in Nat
    BY WindowAssumption
  <2>2. saturating_mul(length, 2) \in Nat
    BY <2>1 DEF saturating_mul
  <2>3. QED
    BY <2>2, SaturatingTyped DEF UsageTtl
<1>2. DailyWindowStart(s) \in 0..MaxU64
  BY SpanHolds, WindowAssumption DEF DailyWindowStart
<1>3. MondayAligned(s) \in 0..MaxU64
  BY AlignedTyped
<1>4. SpanStart(MondayAligned(s), WEEKLY_WINDOW_SECONDS) \in 0..MaxU64
  BY <1>3, LengthsPositive, SpanHolds, WindowAssumption
<1>5. WeeklyWindowStart(s) \in 0..MaxU64
  <2> DEFINE monday == SpanStart(MondayAligned(s), WEEKLY_WINDOW_SECONDS)
  <2>1. WeeklyWindowStart(s) = saturating_sub(monday, MONDAY_WEEK_OFFSET_SECONDS)
    BY DEF WeeklyWindowStart
  <2>2. monday \in 0..MaxU64 /\ MONDAY_WEEK_OFFSET_SECONDS \in Nat
    BY <1>4, LengthsPositive
  <2>3. saturating_sub(monday, MONDAY_WEEK_OFFSET_SECONDS) \in 0..monday
    BY <2>2, SaturatingTyped
  <2>4. QED
    BY <2>1, <2>2, <2>3, WindowAssumption
<1>6. QED
  BY <1>1, <1>2, <1>5, LengthsPositive, WindowAssumption
     DEF WindowTtl, DailyTtl, WeeklyTtl

(* The ttl of an item depends on its window alone: whichever second of the *)
(* window a write was made in, the SET it carries sets the same ttl.       *)
THEOREM WindowFixesTtl ==
  ASSUME NEW s \in 0..MaxU64, NEW t \in 0..MaxU64
  PROVE  /\ DailyWindow(s) = DailyWindow(t) => DailyTtl(s) = DailyTtl(t)
         /\ WeeklyWindow(s) = WeeklyWindow(t) => WeeklyTtl(s) = WeeklyTtl(t)
<1>1. ASSUME NEW a \in 0..MaxU64, NEW b \in 0..MaxU64, NEW length \in Nat \ {0},
             a \div length = b \div length
      PROVE  SpanStart(a, length) = SpanStart(b, length)
  <2>1. a \in Nat /\ b \in Nat
    BY WindowAssumption
  <2>2. /\ SpanStart(a, length) = length * (a \div length)
        /\ SpanStart(b, length) = length * (b \div length)
    BY <2>1, SpanHolds
  <2>3. QED
    BY <1>1, <2>2
<1>2. ASSUME DailyWindow(s) = DailyWindow(t) PROVE DailyTtl(s) = DailyTtl(t)
  <2>1. s \div DAILY_WINDOW_SECONDS = t \div DAILY_WINDOW_SECONDS
    BY <1>2 DEF DailyWindow
  <2>2. SpanStart(s, DAILY_WINDOW_SECONDS) = SpanStart(t, DAILY_WINDOW_SECONDS)
    BY <1>1, <2>1, WindowAssumption
  <2>3. QED
    BY <2>2 DEF DailyTtl, DailyWindowStart
<1>3. ASSUME WeeklyWindow(s) = WeeklyWindow(t) PROVE WeeklyTtl(s) = WeeklyTtl(t)
  <2>1. MondayAligned(s) \div WEEKLY_WINDOW_SECONDS
          = MondayAligned(t) \div WEEKLY_WINDOW_SECONDS
    BY <1>3 DEF WeeklyWindow
  <2>2. MondayAligned(s) \in 0..MaxU64 /\ MondayAligned(t) \in 0..MaxU64
    BY AlignedTyped
  <2>3. SpanStart(MondayAligned(s), WEEKLY_WINDOW_SECONDS)
          = SpanStart(MondayAligned(t), WEEKLY_WINDOW_SECONDS)
    BY <1>1, <2>1, <2>2, LengthsPositive
  <2>4. QED
    BY <2>3 DEF WeeklyTtl, WeeklyWindowStart
<1>4. QED
  BY <1>2, <1>3

(* A window starts no later than its seconds and ends after them, the      *)
(* week that holds the epoch included, while the clock is not within the   *)
(* Monday's offset of the largest u64.                                     *)
LEMMA WindowHoldsItsSeconds ==
  ASSUME NEW s \in Nat, s + MONDAY_WEEK_OFFSET_SECONDS <= MaxU64
  PROVE  /\ DailyWindowStart(s) \in 0..s
         /\ s < DailyWindowStart(s) + DAILY_WINDOW_SECONDS
         /\ WeeklyWindowStart(s) \in 0..s
         /\ s < WeeklyWindowStart(s) + WEEKLY_WINDOW_SECONDS
<1> DEFINE W == WEEKLY_WINDOW_SECONDS
           offset == MONDAY_WEEK_OFFSET_SECONDS
           monday == SpanStart(s + offset, W)
<1>1. W \in Nat \ {0} /\ offset \in Nat /\ MaxU64 \in Nat
  BY LengthsPositive, WindowAssumption
<1>2. MondayAligned(s) = s + offset
  BY <1>1 DEF MondayAligned, saturating_add
<1>3. WeeklyWindowStart(s) = IF monday < offset THEN 0 ELSE monday - offset
  BY <1>2 DEF WeeklyWindowStart, saturating_sub
<1>4. monday \in 0..(s + offset) /\ s + offset < monday + W
  <2>1. s + offset \in Nat
    BY <1>1
  <2>2. QED
    BY <1>1, <2>1, SpanHolds
<1>5. WeeklyWindowStart(s) \in 0..s /\ s < WeeklyWindowStart(s) + W
  BY <1>1, <1>3, <1>4
<1>6. DailyWindowStart(s) \in 0..s /\ s < DailyWindowStart(s) + DAILY_WINDOW_SECONDS
  BY SpanHolds, WindowAssumption DEF DailyWindowStart
<1>7. QED
  BY <1>5, <1>6

(* DynamoDB never deletes an item that has to be kept: while a window is   *)
(* live, the ttl that any write of it set is still ahead.  The clock is    *)
(* assumed to be two weeks and the offset away from the largest u64.       *)
THEOREM LiveItemsAreKept ==
  ASSUME MaxTime + MONDAY_WEEK_OFFSET_SECONDS + 2 * WEEKLY_WINDOW_SECONDS <= MaxU64,
         NEW s \in Times, NEW time \in Times, NEW w \in WindowsOf(s), Live(w, time)
  PROVE  time < WindowTtl(w.kind, s)
<1> DEFINE D == DAILY_WINDOW_SECONDS
           W == WEEKLY_WINDOW_SECONDS
<1>1. /\ D \in Nat \ {0} /\ W \in Nat \ {0} /\ D <= W
      /\ MONDAY_WEEK_OFFSET_SECONDS \in Nat /\ MaxU64 \in Nat /\ MaxTime \in Nat
  <2>1. ASSUME NEW d \in Nat, NEW n \in Nat \ {0} PROVE d <= d * n
    BY <2>1, SMT
  <2>2. D <= W
    BY <2>1, WindowAssumption DEF WEEKLY_WINDOW_SECONDS
  <2>3. QED
    BY <2>2, LengthsPositive, WindowAssumption
<1>2. PICK t \in Times : w \in WindowsOf(t) /\ time <= t + WindowSeconds(w.kind)
  BY DEF Live, LiveWindows
<1>3. /\ s \in Nat /\ t \in Nat /\ time \in Nat
      /\ s + MONDAY_WEEK_OFFSET_SECONDS <= MaxU64
      /\ t + MONDAY_WEEK_OFFSET_SECONDS <= MaxU64
      /\ s \in 0..MaxU64 /\ t \in 0..MaxU64
      /\ t <= MaxTime
  BY <1>1 DEF Times
<1>4. ASSUME NEW start \in 0..t, NEW length \in {D, W}, t < start + length
      PROVE  UsageTtl(start, length) = start + 2 * length
  BY <1>1, <1>3, <1>4 DEF UsageTtl, saturating_add, saturating_mul
<1>5. CASE w.kind = "daily"
  <2>1. DailyWindow(s) = DailyWindow(t)
    BY <1>2, <1>5 DEF WindowsOf, DailyWindow, WeeklyWindow
  <2>2. WindowTtl(w.kind, s) = DailyTtl(t) /\ time <= t + D
    BY <1>2, <1>3, <1>5, <2>1, WindowFixesTtl DEF WindowTtl, WindowSeconds
  <2>3. DailyWindowStart(t) \in 0..t /\ t < DailyWindowStart(t) + D
    BY <1>3, WindowHoldsItsSeconds
  <2>4. DailyTtl(t) = DailyWindowStart(t) + 2 * D
    BY <1>4, <2>3 DEF DailyTtl
  <2>5. QED
    BY <1>1, <1>3, <2>2, <2>3, <2>4
<1>6. CASE w.kind # "daily"
  <2>1. WeeklyWindow(s) = WeeklyWindow(t)
    BY <1>2, <1>6 DEF WindowsOf, DailyWindow, WeeklyWindow
  <2>2. WindowTtl(w.kind, s) = WeeklyTtl(t) /\ time <= t + W
    BY <1>2, <1>3, <1>6, <2>1, WindowFixesTtl DEF WindowTtl, WindowSeconds
  <2>3. WeeklyWindowStart(t) \in 0..t /\ t < WeeklyWindowStart(t) + W
    BY <1>3, WindowHoldsItsSeconds
  <2>4. WeeklyTtl(t) = WeeklyWindowStart(t) + 2 * W
    BY <1>4, <2>3 DEF WeeklyTtl
  <2>5. QED
    BY <1>1, <1>3, <2>2, <2>3, <2>4
<1>7. QED
  BY <1>5, <1>6

(* A day that starts before the end of a number of whole days ends by it.  *)
LEMMA WholeDays ==
  ASSUME NEW s \in Nat, NEW day \in Nat \ {0}, NEW k \in Nat, s < day * k
  PROVE  SpanStart(s, day) + day <= day * k
<1> DEFINE d == s \div day
<1>1. d \in Nat /\ SpanStart(s, day) = day * d /\ day * d <= s
  <2>1. SpanStart(s, day) = day * d /\ SpanStart(s, day) \in 0..s
    BY SpanHolds
  <2>2. d \in Nat
    OBVIOUS
  <2>3. QED
    BY <2>1, <2>2
<1>2. ASSUME NEW a \in Nat, NEW b \in Nat, a <= b PROVE day * a <= day * b
  BY <1>2, SMT
<1>3. d + 1 <= k
  <2>1. CASE k <= d
    <3>1. day * k <= day * d
      BY <1>1, <1>2, <2>1
    <3>2. QED
      BY <1>1, <3>1
  <2>2. QED
    BY <1>1, <2>1
<1>4. day * (d + 1) <= day * k
  BY <1>1, <1>2, <1>3
<1>5. day * (d + 1) = day * d + day
  BY <1>1, SMT
<1>6. QED
  BY <1>1, <1>4, <1>5

(* A record is kept as long as both its windows have to be.                *)
LEMMA LiveRecordsAreKept ==
  ASSUME MaxTime + MONDAY_WEEK_OFFSET_SECONDS + 2 * WEEKLY_WINDOW_SECONDS <= MaxU64,
         NEW s \in Times, NEW time \in Times, NEW w \in WindowsOf(s), Live(w, time)
  PROVE  time < WeeklyTtl(s)
<1> DEFINE D == DAILY_WINDOW_SECONDS
           W == WEEKLY_WINDOW_SECONDS
           offset == MONDAY_WEEK_OFFSET_SECONDS
           q == MondayAligned(s) \div W
           day == DailyWindowStart(s)
           week == WeeklyWindowStart(s)
<1>1. /\ D \in Nat \ {0} /\ W \in Nat \ {0} /\ offset \in Nat
      /\ DaysPerWeek \in Nat \ {0} /\ WeekOffset \in Nat
      /\ MaxU64 \in Nat /\ MaxTime \in Nat /\ s \in Nat /\ time \in Nat
      /\ s + offset <= MaxU64 /\ s <= MaxTime
  BY LengthsPositive, WindowAssumption DEF Times
<1>2. /\ day \in 0..s /\ s < day + D
      /\ week \in 0..s /\ s < week + W
  BY <1>1, WindowHoldsItsSeconds
<1>3. q \in Nat /\ SpanStart(MondayAligned(s), W) = W * q
  <2>1. MondayAligned(s) \in Nat
    BY <1>1 DEF MondayAligned, saturating_add
  <2>2. SpanStart(MondayAligned(s), W) = W * q
    BY <1>1, <2>1, SpanHolds
  <2>3. ASSUME NEW a \in Nat PROVE a \div W \in Nat
    BY <1>1, <2>3, SMT
  <2>4. QED
    BY <2>1, <2>2, <2>3
<1>4. PICK k \in Nat : week = D * k
  <2>1. W * q = D * (DaysPerWeek * q)
    BY <1>1, <1>3, SMT DEF WEEKLY_WINDOW_SECONDS
  <2>2. week = IF W * q < offset THEN 0 ELSE W * q - offset
    BY <1>3 DEF WeeklyWindowStart, saturating_sub
  <2>3. CASE W * q < offset
    BY <1>1, <2>2, <2>3, D * 0 = 0
  <2>4. CASE ~(W * q < offset)
    <3>1. DaysPerWeek * q \in Nat
      BY <1>1, <1>3, SMT
    <3>2. D * (DaysPerWeek * q) - D * WeekOffset = D * (DaysPerWeek * q - WeekOffset)
      BY <1>1, <3>1, SMT
    <3>3. DaysPerWeek * q >= WeekOffset
      <4>1. ASSUME NEW a \in Nat, NEW b \in Nat, a < b PROVE D * a < D * b
        BY <1>1, <4>1, SMT
      <4>2. QED
        BY <1>1, <2>1, <2>4, <3>1, <4>1 DEF MONDAY_WEEK_OFFSET_SECONDS
    <3>4. QED
      BY <1>1, <2>1, <2>2, <2>4, <3>1, <3>2, <3>3 DEF MONDAY_WEEK_OFFSET_SECONDS
  <2>5. QED
    BY <2>3, <2>4
<1>5. day + D <= week + W
  <2>1. week + W = D * (k + DaysPerWeek)
    BY <1>1, <1>4, SMT DEF WEEKLY_WINDOW_SECONDS
  <2>2. QED
    BY <1>1, <1>2, <2>1, WholeDays DEF DailyWindowStart
<1>6. D <= W
  <2>1. ASSUME NEW d \in Nat, NEW n \in Nat \ {0} PROVE d <= d * n
    BY <2>1, SMT
  <2>2. QED
    BY <1>1, <2>1 DEF WEEKLY_WINDOW_SECONDS
<1>7. WeeklyTtl(s) = week + 2 * W
  BY <1>1, <1>2 DEF WeeklyTtl, UsageTtl, saturating_add, saturating_mul
<1>8. DailyTtl(s) = day + 2 * D
  BY <1>1, <1>2, <1>6 DEF DailyTtl, UsageTtl, saturating_add, saturating_mul
<1>9. time < WindowTtl(w.kind, s)
  BY LiveItemsAreKept
<1>10. WindowTtl(w.kind, s) \in {DailyTtl(s), WeeklyTtl(s)}
  BY DEF WindowTtl
<1>11. QED
  BY <1>1, <1>2, <1>5, <1>6, <1>7, <1>8, <1>9, <1>10

(* A window that is live now was live before.                              *)
LEMMA LiveBefore ==
  ASSUME NEW s \in Times, NEW t \in Times, s <= t, NEW w, Live(w, t)
  PROVE  Live(w, s)
<1>1. PICK u \in Times : w \in WindowsOf(u) /\ t <= u + WindowSeconds(w.kind)
  BY DEF Live, LiveWindows
<1>2. w \in Windows
  BY <1>1 DEF Windows
<1>3. s \in Int /\ t \in Int /\ u \in Int /\ WindowSeconds(w.kind) \in Int
  BY LengthsPositive, WindowAssumption DEF Times, WindowSeconds
<1>4. s <= u + WindowSeconds(w.kind)
  BY <1>1, <1>3
<1>5. QED
  BY <1>1, <1>2, <1>4 DEF Live, LiveWindows

-----------------------------------------------------------------------------
(* Types.                                                                  *)

(* ADD and SET keep usage items well formed: the ttl stays a u64.          *)
LEMMA AddToWindowsTyped ==
  ASSUME TableTypeOK,
         NEW at \in Times,
         NEW count \in Int, NEW reserved \in Int, NEW consumed \in Int,
         NEW setTtl \in BOOLEAN,
         AddToWindows(at, count, reserved, consumed, setTtl)
  PROVE  usage' \in [Windows -> UsageItems]
<1>1. ASSUME NEW w \in Windows PROVE usage[w] \in UsageItems
  BY <1>1 DEF TableTypeOK
<1>2. ASSUME NEW w \in Windows
      PROVE  [token_count     |-> usage[w].token_count + count,
              reserved_tokens |-> usage[w].reserved_tokens + reserved,
              consumed_tokens |-> usage[w].consumed_tokens + consumed,
              ttl             |-> IF setTtl THEN WindowTtl(w.kind, at)
                                  ELSE usage[w].ttl] \in UsageItems
  <2>1. WindowTtl(w.kind, at) \in 0..MaxU64
    BY TtlTyped, WindowAssumption DEF Times
  <2>2. QED
    BY <1>1, <1>2, <2>1 DEF UsageItems
<1>3. QED
  BY <1>1, <1>2 DEF AddToWindows

(* The charge of a typed reservation is a natural number.                  *)
LEMMA ChargeTyped ==
  ASSUME HandlerTypeOK, NEW r \in Requests
  PROVE  /\ res[r].budget \in Nat
         /\ Charge(r) \in Nat
         /\ res[r].at \in Times
<1>1. CASE res[r] \in Reservations
  <2>1. res[r].budget \in Nat /\ res[r].actual \in Nat \cup {Unreported}
    BY <1>1, AccountingAssumption DEF Reservations
  <2>2. res[r].at \in Times
    BY <1>1 DEF Reservations
  <2>3. QED
    BY <2>1, <2>2 DEF Charge
<1>2. CASE res[r] = NoReservation
  BY <1>2, WindowAssumption DEF NoReservation, Charge, Times
<1>3. QED
  BY <1>1, <1>2 DEF HandlerTypeOK

(* The table stays typed whatever a job's outcome.                         *)
LEMMA JobSucceedsTyped ==
  ASSUME TableTypeOK, HandlerTypeOK, NEW r \in Requests, JobSucceeds(r)
  PROVE  TableTypeOK'
<1>1. res[r].budget \in Nat /\ Charge(r) \in Nat /\ res[r].at \in Times
  BY ChargeTyped
<1>2. CASE ReconcileTransaction(r, res[r].at, res[r].budget, Charge(r))
  <2>1. AddToWindows(res[r].at, Charge(r) - res[r].budget,
                     0 - res[r].budget, Charge(r), FALSE)
    BY <1>2 DEF ReconcileTransaction
  <2>2. /\ Charge(r) - res[r].budget \in Int
        /\ 0 - res[r].budget \in Int
        /\ Charge(r) \in Int
        /\ FALSE \in BOOLEAN
    BY <1>1
  <2>3. usage' \in [Windows -> UsageItems]
    BY <1>1, <2>1, <2>2, AddToWindowsTyped
  <2>4. QED
    BY <1>2, <2>3 DEF ReconcileTransaction, TableTypeOK
<1>3. CASE UsageTransaction(r, res[r].at, Charge(r))
  <2>1. usage' \in [Windows -> UsageItems]
    BY <1>1, <1>3, AddToWindowsTyped, Charge(r) \in Int, 0 \in Int
       DEF UsageTransaction
  <2>2. QED
    BY <1>3, <2>1 DEF UsageTransaction, TableTypeOK
<1>4. CASE UNCHANGED tableVars
  BY <1>4 DEF tableVars, TableTypeOK
<1>5. QED
  BY <1>2, <1>3, <1>4 DEF JobSucceeds, JobCommits

(* The queue's operations keep messages typed.                             *)
LEMMA SendTyped ==
  ASSUME QueueTypeOK, NEW j, NEW cs, NEW time \in Nat, Send(j, cs, time)
  PROVE  QueueTypeOK'
BY QueueAssumption DEF QueueTypeOK, Send, MsgPlaces

LEMMA ReceiveTyped ==
  ASSUME QueueTypeOK, NEW ms, NEW time, Receive(ms, time)
  PROVE  QueueTypeOK'
<1>1. ASSUME NEW m \in ms
      PROVE  /\ m \in Messages
             /\ msg[m].receives + 1 \in 0..MaxReceives
  <2>1. m \in Messages /\ msg[m].receives < MaxReceives
    BY <1>1 DEF Receive, Receivable
  <2>2. msg[m].receives \in 0..MaxReceives
    BY <2>1 DEF QueueTypeOK
  <2>3. QED
    BY <2>1, <2>2, QueueAssumption
<1>2. QED
  BY <1>1 DEF QueueTypeOK, Receive, MsgPlaces

LEMMA MoveTyped ==
  ASSUME QueueTypeOK, NEW m \in Messages, NEW place \in MsgPlaces, Move(m, place)
  PROVE  QueueTypeOK'
BY DEF QueueTypeOK, Move

(* Leaving or repeating a step keeps the handler's variables typed.        *)
LEMMA GotoTyped ==
  ASSUME HandlerTypeOK, NEW r \in Requests, pc[r] # "idle",
         NEW place \in HandlerStates, Goto(r, place),
         UNCHANGED res, delayed' \subseteq {"reserve", "settle"} \X Requests
  PROVE  HandlerTypeOK'
BY AccountingAssumption DEF HandlerTypeOK, Goto

LEMMA TryAgainTyped ==
  ASSUME HandlerTypeOK, NEW r \in Requests, attempt[r] + 1 < Attempts,
         TryAgain(r), UNCHANGED <<res, delayed>>
  PROVE  HandlerTypeOK'
BY AccountingAssumption DEF HandlerTypeOK, TryAgain

LEMMA PutDownTyped ==
  ASSUME WorkerTypeOK, NEW w \in Workers, PutDown(w),
         batch' \in [Workers -> SUBSET Messages]
  PROVE  WorkerTypeOK'
<1>1. cur' \in [Workers -> Messages \cup {NoMessage}]
  BY DEF WorkerTypeOK, PutDown
<1>2. stage' \in [Workers -> {"waiting", "processing", "deleting"}]
  BY DEF WorkerTypeOK, PutDown
<1>3. wattempt' \in [Workers -> 0..(Attempts - 1)]
  BY AccountingAssumption DEF WorkerTypeOK, PutDown
<1>4. ASSUME NEW v \in Workers, stage'[v] # "waiting"
      PROVE  cur'[v] # NoMessage
  BY <1>4 DEF WorkerTypeOK, PutDown
<1>5. QED
  BY <1>1, <1>2, <1>3, <1>4 DEF WorkerTypeOK

(* The initial state is typed.                                             *)
LEMMA InitTyped == Init => TypeOK
<1> SUFFICES ASSUME Init PROVE TypeOK
  OBVIOUS
<1>1. TableTypeOK
  <2>1. NoItem \in UsageItems /\ 0 \in Times
    BY WindowAssumption DEF NoItem, UsageItems, Times
  <2>2. QED
    BY <2>1 DEF Init, TableInit, TableTypeOK
<1>2. QueueTypeOK
  <2>1. Unsent \in [place: MsgPlaces, receives: 0..MaxReceives, sent: Nat]
    BY QueueAssumption DEF Unsent, MsgPlaces
  <2>2. QED
    BY <2>1 DEF Init, QueueInit, QueueTypeOK
<1>3. HandlerTypeOK
  BY AccountingAssumption DEF Init, HandlerTypeOK, HandlerStates
<1>4. WorkerTypeOK
  BY AccountingAssumption DEF Init, WorkerTypeOK
<1>5. QED
  BY <1>1, <1>2, <1>3, <1>4 DEF TypeOK

(* What a step leaves alone stays typed.                                   *)
LEMMA KeptTyped ==
  ASSUME TypeOK
  PROVE  /\ UNCHANGED tableVars => TableTypeOK'
         /\ UNCHANGED msg => QueueTypeOK'
         /\ UNCHANGED <<pc, res, attempt, delayed>> => HandlerTypeOK'
         /\ UNCHANGED workerVars => WorkerTypeOK'
<1>1. UNCHANGED tableVars => TableTypeOK'
  BY DEF TypeOK, TableTypeOK, tableVars
<1>2. UNCHANGED msg => QueueTypeOK'
  BY DEF TypeOK, QueueTypeOK
<1>3. UNCHANGED <<pc, res, attempt, delayed>> => HandlerTypeOK'
  BY DEF TypeOK, HandlerTypeOK
<1>4. UNCHANGED workerVars => WorkerTypeOK'
  BY DEF TypeOK, WorkerTypeOK, workerVars
<1>5. QED
  BY <1>1, <1>2, <1>3, <1>4

(* A reserve transaction, answered or late, keeps the table typed.         *)
LEMMA ReserveTransactionTyped ==
  ASSUME TableTypeOK, HandlerTypeOK, NEW r \in Requests,
         ReserveTransaction(r, res[r].at, res[r].limits, res[r].budget)
  PROVE  TableTypeOK'
<1>1. /\ res[r].budget \in Int
      /\ res[r].at \in Times
      /\ 0 \in Int
      /\ TRUE \in BOOLEAN
  BY ChargeTyped
<1>2. AddToWindows(res[r].at, res[r].budget, res[r].budget, 0, TRUE)
  BY DEF ReserveTransaction
<1>3. usage' \in [Windows -> UsageItems]
  BY <1>1, <1>2, AddToWindowsTyped
<1>4. QED
  BY <1>3 DEF ReserveTransaction, TableTypeOK

(* Every step of a handler keeps every variable typed.                     *)
LEMMA HandlerStepTyped ==
  ASSUME TypeOK, NEW r \in Requests, HandlerNext(r)
  PROVE  TypeOK'
<1> USE DEF TypeOK
<1>1. CASE Arrive(r)
  <2>1. PICK limits \in Limits, budget \in Budgets :
          /\ res' = [res EXCEPT ![r] = [at |-> now, limits |-> limits,
                                        budget |-> budget, actual |-> Unreported]]
          /\ Goto(r, IF limits = NoLimits THEN "calling" ELSE "reserving")
    BY <1>1 DEF Arrive
  <2>2. [at |-> now, limits |-> limits, budget |-> budget,
         actual |-> Unreported] \in Reservations
    BY DEF Reservations, TableTypeOK
  <2>3. res' \in [Requests -> Reservations \cup {NoReservation}]
    BY <2>1, <2>2 DEF HandlerTypeOK
  <2>4. (IF limits = NoLimits THEN "calling" ELSE "reserving") \in HandlerStates
    BY DEF HandlerStates
  <2>5. HandlerTypeOK'
    BY <1>1, <2>1, <2>2, <2>3, <2>4, AccountingAssumption
       DEF Arrive, HandlerTypeOK, Goto
  <2>6. QED
    BY <1>1, <2>5, KeptTyped DEF Arrive
<1>2. CASE Reserve(r)
  <2>1. HandlerTypeOK'
    BY <1>2, GotoTyped DEF Reserve, HandlerTypeOK, HandlerStates
  <2>2. TableTypeOK'
    BY <1>2, ReserveTransactionTyped DEF Reserve
  <2>3. QED
    BY <1>2, <2>1, <2>2, KeptTyped DEF Reserve
<1>3. CASE RejectOverLimit(r)
  <2>1. HandlerTypeOK'
    BY <1>3, GotoTyped DEF RejectOverLimit, HandlerTypeOK, HandlerStates
  <2>2. QED
    BY <1>3, <2>1, KeptTyped DEF RejectOverLimit
<1>4. CASE ReserveConflict(r)
  <2>1. HandlerTypeOK'
    BY <1>4, GotoTyped, TryAgainTyped DEF ReserveConflict, HandlerStates, HandlerTypeOK
  <2>2. QED
    BY <1>4, <2>1, KeptTyped DEF ReserveConflict
<1>5. CASE ReserveFails(r)
  <2>1. HandlerTypeOK'
    BY <1>5, GotoTyped DEF ReserveFails, HandlerTypeOK, HandlerStates, GiveUpOn
  <2>2. QED
    BY <1>5, <2>1, KeptTyped DEF ReserveFails
<1>6. CASE ProviderDone(r)
  <2>1. PICK actual \in Actuals \cup {Unreported} :
          /\ res' = [res EXCEPT ![r].actual = actual]
          /\ Goto(r, IF ~Tracked(r) /\ actual = Unreported
                     THEN "unrecorded" ELSE "reconciling")
    BY <1>6 DEF ProviderDone
  <2>2. [res[r] EXCEPT !.actual = actual] \in Reservations
    BY <1>6 DEF ProviderDone, HandlerTypeOK, Reservations
  <2>3. (IF ~Tracked(r) /\ actual = Unreported
         THEN "unrecorded" ELSE "reconciling") \in HandlerStates
    BY DEF HandlerStates
  <2>4. HandlerTypeOK'
    BY <1>6, <2>1, <2>2, <2>3, AccountingAssumption
       DEF ProviderDone, HandlerTypeOK, Goto
  <2>5. QED
    BY <1>6, <2>4, KeptTyped DEF ProviderDone
<1>7. CASE ReconcileNow(r)
  <2>1. HandlerTypeOK'
    BY <1>7, GotoTyped DEF ReconcileNow, HandlerTypeOK, HandlerStates
  <2>2. TableTypeOK'
    BY <1>7, JobSucceedsTyped DEF ReconcileNow
  <2>3. QED
    BY <1>7, <2>1, <2>2, KeptTyped DEF ReconcileNow
<1>8. CASE ReconcileConflict(r)
  <2>1. HandlerTypeOK'
    BY <1>8, GotoTyped, TryAgainTyped DEF ReconcileConflict, HandlerStates, HandlerTypeOK
  <2>2. QED
    BY <1>8, <2>1, KeptTyped DEF ReconcileConflict
<1>9. CASE ReconcileFails(r)
  <2>1. HandlerTypeOK'
    BY <1>9, GotoTyped DEF ReconcileFails, HandlerTypeOK, HandlerStates, GiveUpOn
  <2>2. QED
    BY <1>9, <2>1, KeptTyped DEF ReconcileFails
<1>10. CASE Enqueue(r)
  <2>1. HandlerTypeOK'
    BY <1>10, GotoTyped DEF Enqueue, HandlerTypeOK, HandlerStates
  <2>2. QueueTypeOK'
    BY <1>10, SendTyped DEF Enqueue, TableTypeOK, Times
  <2>3. QED
    BY <1>10, <2>1, <2>2, KeptTyped DEF Enqueue
<1>11. CASE EnqueueFails(r)
  <2>1. HandlerTypeOK'
    BY <1>11, GotoTyped DEF EnqueueFails, HandlerTypeOK, HandlerStates
  <2>2. QueueTypeOK'
    BY <1>11, SendTyped DEF EnqueueFails, TableTypeOK, Times
  <2>3. QED
    BY <1>11, <2>1, <2>2, KeptTyped DEF EnqueueFails
<1>12. CASE HandlerLost(r)
  <2>1. HandlerTypeOK'
    BY <1>12, GotoTyped DEF HandlerLost, HandlerTypeOK, HandlerStates
  <2>2. QED
    BY <1>12, <2>1, KeptTyped DEF HandlerLost
<1>13. CASE LostWhileSending(r)
  <2>1. HandlerTypeOK'
    BY <1>13, GotoTyped DEF LostWhileSending, HandlerTypeOK, HandlerStates
  <2>2. QueueTypeOK'
    BY <1>13, SendTyped DEF LostWhileSending, TableTypeOK, Times
  <2>3. QED
    BY <1>13, <2>1, <2>2, KeptTyped DEF LostWhileSending
<1>14. QED
  BY <1>1, <1>2, <1>3, <1>4, <1>5, <1>6, <1>7, <1>8, <1>9, <1>10, <1>11, <1>12,
     <1>13
     DEF HandlerNext

(* A worker at work has a message, and its job is a request's.             *)
LEMMA InHand ==
  ASSUME WorkerTypeOK, NEW w \in Workers, stage[w] # "waiting"
  PROVE  cur[w] \in Messages /\ cur[w].job \in Requests
BY AccountingAssumption DEF WorkerTypeOK, Messages

(* Giving up on a settling write keeps the handlers' variables typed.      *)
LEMMA GiveUpTyped ==
  ASSUME HandlerTypeOK, UNCHANGED <<pc, res, attempt>>,
         delayed' \subseteq {"reserve", "settle"} \X Requests
  PROVE  HandlerTypeOK'
BY DEF HandlerTypeOK

(* Every step of a worker keeps every variable typed.                      *)
LEMMA WorkerStepTyped ==
  ASSUME TypeOK, NEW w \in Workers, WorkerNext(w)
  PROVE  TypeOK'
<1> USE DEF TypeOK
<1>1. CASE WorkerReceives(w)
  <2>1. PICK ms \in SUBSET Receivable(now) :
          Receive(ms, now) /\ batch' = [batch EXCEPT ![w] = ms]
    BY <1>1 DEF WorkerReceives
  <2>2. ms \subseteq Messages
    BY DEF Receivable
  <2>3. WorkerTypeOK'
    BY <1>1, <2>1, <2>2 DEF WorkerReceives, WorkerTypeOK
  <2>4. QueueTypeOK'
    BY <2>1, ReceiveTyped
  <2>5. QED
    BY <1>1, <2>3, <2>4, KeptTyped DEF WorkerReceives, handlerVars
<1>2. CASE WorkerTakes(w)
  <2>1. PICK m \in batch[w] : /\ cur' = [cur EXCEPT ![w] = m]
                              /\ batch' = [batch EXCEPT ![w] = @ \ {m}]
    BY <1>2 DEF WorkerTakes
  <2>2. batch[w] \subseteq Messages /\ m # NoMessage
    BY AccountingAssumption DEF WorkerTypeOK
  <2>3. WorkerTypeOK'
    BY <1>2, <2>1, <2>2 DEF WorkerTakes, WorkerTypeOK
  <2>4. QED
    BY <1>2, <2>3, KeptTyped DEF WorkerTakes, handlerVars
<1>3. CASE WorkerSettles(w)
  <2>1. WorkerTypeOK'
    BY <1>3, AccountingAssumption DEF WorkerSettles, WorkerTypeOK
  <2>2. TableTypeOK'
    BY <1>3, InHand, JobSucceedsTyped DEF WorkerSettles
  <2>3. QED
    BY <1>3, <2>1, <2>2, KeptTyped DEF WorkerSettles, handlerVars
<1>4. CASE WorkerConflict(w)
  <2>1. WorkerTypeOK'
    BY <1>4, AccountingAssumption DEF WorkerConflict, WorkerTypeOK
  <2>2. QED
    BY <1>4, <2>1, KeptTyped DEF WorkerConflict, handlerVars
<1>5. CASE WorkerFails(w)
  <2>1. batch' \in [Workers -> SUBSET Messages]
    BY <1>5 DEF WorkerFails, WorkerTypeOK
  <2>2. WorkerTypeOK'
    BY <1>5, <2>1, PutDownTyped DEF WorkerFails
  <2>3. delayed' \subseteq {"reserve", "settle"} \X Requests
    BY <1>5, InHand DEF WorkerFails, GiveUpOn, HandlerTypeOK
  <2>4. HandlerTypeOK'
    BY <1>5, <2>3, GiveUpTyped DEF WorkerFails, handlerVars
  <2>5. QED
    BY <1>5, <2>2, <2>4, KeptTyped DEF WorkerFails
<1>6. CASE WorkerDeletes(w)
  <2>1. batch' \in [Workers -> SUBSET Messages]
    BY <1>6 DEF WorkerDeletes, WorkerTypeOK
  <2>2. WorkerTypeOK'
    BY <1>6, <2>1, PutDownTyped DEF WorkerDeletes
  <2>3. QueueTypeOK'
    BY <1>6, InHand, MoveTyped DEF WorkerDeletes, Delete, MsgPlaces
  <2>4. QED
    BY <1>6, <2>2, <2>3, KeptTyped DEF WorkerDeletes, handlerVars
<1>7. CASE WorkerKeeps(w)
  <2>1. batch' \in [Workers -> SUBSET Messages]
    BY <1>7 DEF WorkerKeeps, WorkerTypeOK
  <2>2. WorkerTypeOK'
    BY <1>7, <2>1, PutDownTyped DEF WorkerKeeps
  <2>3. QED
    BY <1>7, <2>2, KeptTyped DEF WorkerKeeps, handlerVars
<1>8. CASE WorkerLost(w)
  <2>1. batch' \in [Workers -> SUBSET Messages]
    BY <1>8 DEF WorkerLost, WorkerTypeOK
  <2>2. WorkerTypeOK'
    BY <1>8, <2>1, PutDownTyped DEF WorkerLost
  <2>3. delayed' \subseteq {"reserve", "settle"} \X Requests
    BY <1>8, InHand DEF WorkerLost, HandlerTypeOK
  <2>4. HandlerTypeOK'
    BY <1>8, <2>3, GiveUpTyped DEF WorkerLost, handlerVars
  <2>5. QED
    BY <1>8, <2>2, <2>4, KeptTyped DEF WorkerLost
<1>9. CASE WorkerRefuses(w)
  <2>1. batch' \in [Workers -> SUBSET Messages]
    BY <1>9 DEF WorkerRefuses, WorkerTypeOK
  <2>2. WorkerTypeOK'
    BY <1>9, <2>1, PutDownTyped DEF WorkerRefuses
  <2>3. QED
    BY <1>9, <2>2, KeptTyped DEF WorkerRefuses, handlerVars
<1>10. QED
  BY <1>1, <1>2, <1>3, <1>4, <1>5, <1>6, <1>7, <1>8, <1>9 DEF WorkerNext

(* Late writes, the queue's timers, ttl deletion and the clock keep every  *)
(* variable typed.                                                         *)
LEMMA LateStepTyped ==
  ASSUME TypeOK, NEW r \in Requests, LateReserve(r) \/ LateSettle(r)
  PROVE  TypeOK'
<1> USE DEF TypeOK
<1>1. delayed' \subseteq {"reserve", "settle"} \X Requests
  BY DEF LateReserve, LateSettle, HandlerTypeOK
<1>2. HandlerTypeOK'
  BY <1>1, GiveUpTyped DEF LateReserve, LateSettle, handlerVars
<1>3. TableTypeOK'
  BY ReserveTransactionTyped, JobSucceedsTyped
     DEF LateReserve, LateSettle, JobSucceeds
<1>4. QED
  BY <1>2, <1>3, KeptTyped DEF LateReserve, LateSettle

LEMMA EnvironmentStepTyped ==
  ASSUME TypeOK,
         (\E m \in Messages : QueueTimer(m)) \/ TtlDeletes \/ TimePasses
  PROVE  TypeOK'
<1> USE DEF TypeOK
<1>1. CASE \E m \in Messages : QueueTimer(m)
  <2>1. QueueTypeOK'
    BY <1>1, MoveTyped
       DEF QueueTimer, VisibilityTimeout, DeadLetter, Discard, MsgPlaces
  <2>2. QED
    BY <1>1, <2>1, KeptTyped DEF QueueTimer, handlerVars
<1>2. CASE TtlDeletes
  <2>1. NoItem \in UsageItems
    BY WindowAssumption DEF NoItem, UsageItems
  <2>2. TableTypeOK'
    BY <1>2, <2>1 DEF TtlDeletes, ExpireWindow, ExpireRecord, TableTypeOK
  <2>3. QED
    BY <1>2, <2>2, KeptTyped DEF TtlDeletes, handlerVars
<1>3. CASE TimePasses
  <2>1. TableTypeOK'
    BY <1>3, WindowAssumption DEF TimePasses, Tick, TableTypeOK, Times
  <2>2. QED
    BY <1>3, <2>1, KeptTyped DEF TimePasses, handlerVars
<1>4. QED
  BY <1>1, <1>2, <1>3

LEMMA NextTyped == TypeOK /\ [Next]_vars => TypeOK'
<1> SUFFICES ASSUME TypeOK, [Next]_vars PROVE TypeOK'
  OBVIOUS
<1>1. CASE UNCHANGED vars
  BY <1>1, KeptTyped DEF vars, tableVars, workerVars, TypeOK
<1>2. CASE Next
  BY <1>2, HandlerStepTyped, WorkerStepTyped, LateStepTyped, EnvironmentStepTyped
     DEF Next
<1>3. QED
  BY <1>1, <1>2

(* In every reachable state every variable has its type, for any number of *)
(* requests, workers, message copies and transaction attempts.             *)
THEOREM TypeCorrect == Spec => []TypeOK
BY InitTyped, NextTyped, PTL DEF Spec

-----------------------------------------------------------------------------
(* The effective total of a window.                                        *)

(* What a step of the system can do to the table.                          *)
TableStep ==
  \/ \E r \in Requests :
       \/ ReserveTransaction(r, res[r].at, res[r].limits, res[r].budget)
       \/ JobSucceeds(r)
       \/ ExpireRecord(r, res[r].at)
  \/ \E w \in Windows : ExpireWindow(w)
  \/ Tick
  \/ UNCHANGED tableVars

LEMMA NextIsTableStep == TypeOK /\ [Next]_vars => TableStep
<1> SUFFICES ASSUME TypeOK, [Next]_vars PROVE TableStep
  OBVIOUS
<1>1. CASE UNCHANGED vars
  BY <1>1 DEF vars, tableVars, TableStep
<1>2. ASSUME NEW r \in Requests, HandlerNext(r) PROVE TableStep
  BY <1>2 DEF HandlerNext, TableStep, Arrive, Reserve, RejectOverLimit,
     ReserveConflict, ReserveFails, ProviderDone, ReconcileNow,
     ReconcileConflict, ReconcileFails, Enqueue, EnqueueFails, HandlerLost,
     LostWhileSending
<1>3. ASSUME NEW w \in Workers, WorkerNext(w) PROVE TableStep
  BY <1>3, InHand DEF TypeOK, WorkerNext, TableStep, WorkerReceives, WorkerTakes, WorkerRefuses,
     WorkerSettles, WorkerConflict, WorkerFails, WorkerDeletes, WorkerKeeps,
     WorkerLost
<1>4. ASSUME NEW r \in Requests, LateReserve(r) \/ LateSettle(r) PROVE TableStep
  BY <1>4 DEF LateReserve, LateSettle, JobSucceeds, TableStep
<1>5. ASSUME (\E m \in Messages : QueueTimer(m)) \/ TtlDeletes \/ TimePasses
      PROVE  TableStep
  BY <1>5 DEF QueueTimer, TtlDeletes, TimePasses, TableStep
<1>6. QED
  BY <1>1, <1>2, <1>3, <1>4, <1>5 DEF Next

(* A transaction that adds to token_count what it adds to the other two    *)
(* counters keeps the total.                                               *)
LEMMA AddKeepsTotal ==
  ASSUME TableTypeOK, EffectiveTotal,
         NEW at, NEW count \in Int, NEW reserved \in Int, NEW consumed \in Int,
         NEW setTtl, count = reserved + consumed,
         AddToWindows(at, count, reserved, consumed, setTtl)
  PROVE  EffectiveTotal'
<1> SUFFICES ASSUME NEW w \in Windows
             PROVE  usage'[w].token_count =
                      usage'[w].consumed_tokens + usage'[w].reserved_tokens
  BY DEF EffectiveTotal
<1>1. /\ usage[w].token_count \in Int
      /\ usage[w].consumed_tokens \in Int
      /\ usage[w].reserved_tokens \in Int
      /\ usage[w].token_count = usage[w].consumed_tokens + usage[w].reserved_tokens
  BY DEF TableTypeOK, UsageItems, EffectiveTotal
<1>2. CASE w \in WindowsOf(at)
  BY <1>1, <1>2 DEF AddToWindows
<1>3. CASE w \notin WindowsOf(at)
  BY <1>1, <1>3 DEF AddToWindows
<1>4. QED
  BY <1>2, <1>3

LEMMA NextKeepsTotal == TypeOK /\ EffectiveTotal /\ [Next]_vars => EffectiveTotal'
<1> SUFFICES ASSUME TypeOK, EffectiveTotal, TableStep PROVE EffectiveTotal'
  BY NextIsTableStep
<1>1. ASSUME NEW r \in Requests,
             ReserveTransaction(r, res[r].at, res[r].limits, res[r].budget)
      PROVE  EffectiveTotal'
  <2>1. /\ res[r].budget \in Int /\ 0 \in Int
        /\ res[r].budget = res[r].budget + 0
    BY ChargeTyped DEF TypeOK
  <2>2. AddToWindows(res[r].at, res[r].budget, res[r].budget, 0, TRUE)
    BY <1>1 DEF ReserveTransaction
  <2>3. QED
    BY <2>1, <2>2, AddKeepsTotal DEF TypeOK
<1>2. ASSUME NEW r \in Requests,
             ReconcileTransaction(r, res[r].at, res[r].budget, Charge(r))
      PROVE  EffectiveTotal'
  <2>1. res[r].budget \in Int /\ Charge(r) \in Int
    BY ChargeTyped DEF TypeOK
  <2>2. /\ Charge(r) - res[r].budget \in Int
        /\ 0 - res[r].budget \in Int
        /\ Charge(r) - res[r].budget = (0 - res[r].budget) + Charge(r)
    BY <2>1
  <2>3. AddToWindows(res[r].at, Charge(r) - res[r].budget,
                     0 - res[r].budget, Charge(r), FALSE)
    BY <1>2 DEF ReconcileTransaction
  <2>4. QED
    BY <2>1, <2>2, <2>3, AddKeepsTotal DEF TypeOK
<1>3. ASSUME NEW r \in Requests, UsageTransaction(r, res[r].at, Charge(r))
      PROVE  EffectiveTotal'
  <2>1. Charge(r) \in Int /\ 0 \in Int /\ Charge(r) = 0 + Charge(r)
    BY ChargeTyped DEF TypeOK
  <2>2. AddToWindows(res[r].at, Charge(r), 0, Charge(r), TRUE)
    BY <1>3 DEF UsageTransaction
  <2>3. QED
    BY <2>1, <2>2, AddKeepsTotal DEF TypeOK
<1>4. ASSUME NEW w \in Windows, ExpireWindow(w) PROVE EffectiveTotal'
  BY <1>4 DEF ExpireWindow, EffectiveTotal, NoItem, TypeOK, TableTypeOK
<1>5. CASE UNCHANGED usage
  BY <1>5 DEF EffectiveTotal
<1>6. QED
  BY <1>1, <1>2, <1>3, <1>4, <1>5
     DEF TableStep, JobSucceeds, JobCommits, ExpireRecord, Tick, tableVars

(* In every reachable state token_count is consumed plus reserved tokens   *)
(* in every window, whatever was retried, redelivered, lost or expired.    *)
THEOREM EffectiveTotalHolds == Spec => []EffectiveTotal
<1>1. Init => EffectiveTotal
  BY DEF Init, TableInit, NoItem, EffectiveTotal
<1>2. QED
  BY <1>1, TypeCorrect, NextKeepsTotal, PTL DEF Spec

-----------------------------------------------------------------------------
(* No request is charged twice.                                            *)

(* What the rest of the system did to request q leaves ChargeInv alone.    *)
LEMMA ChargeFrame ==
  ASSUME NEW q \in Requests, ChargeInv(q),
         pc'[q] = pc[q], res'[q] = res[q],
         status'[q] = status[q], charges'[q] = charges[q],
         q \in marker' <=> q \in marker,
         <<"reserve", q>> \in delayed' => <<"reserve", q>> \in delayed
  PROVE  ChargeInv(q)'
BY DEF ChargeInv, Tracked

(* A job's success charges its request, once, and no other.                *)
LEMMA JobSucceedsCharges ==
  ASSUME TypeOK, NEW r \in Requests, ChargeInv(r), JobSucceeds(r)
  PROVE  /\ \A q \in Requests \ {r} :
              /\ status'[q] = status[q] /\ charges'[q] = charges[q]
              /\ q \in marker' <=> q \in marker
         /\ charges'[r] = 1 \/ NothingToRecord(r)
         /\ /\ UNCHANGED res
            /\ pc'[r] = pc[r] \/ pc'[r] \notin {"idle", "reserving"}
            /\ <<"reserve", r>> \in delayed' =>
                 <<"reserve", r>> \in delayed /\ pc'[r] = pc[r]
            => ChargeInv(r)'
<1> USE DEF TypeOK, TableTypeOK
<1>1. CASE Tracked(r) /\ JobCommits(r)
  BY <1>1 DEF JobCommits, ReconcileTransaction, ChargeInv, Tracked
<1>2. CASE ~Tracked(r) /\ JobCommits(r)
  <2>1. /\ ~NothingToRecord(r) /\ r \notin marker /\ charges[r] = 0
        /\ charges' = [charges EXCEPT ![r] = @ + 1]
        /\ marker' = marker \cup {r} /\ status' = status
    BY <1>2 DEF JobCommits, UsageTransaction, ChargeInv
  <2>2. pc[r] # "idle"
    <3>1. SUFFICES ASSUME pc[r] = "idle" PROVE FALSE
      OBVIOUS
    <3>2. res[r] = NoReservation
      BY <3>1 DEF ChargeInv
    <3>3. QED
      BY <1>2, <2>1, <3>2 DEF NothingToRecord, Charge, NoReservation
  <2>3. QED
    BY <1>2, <2>1, <2>2 DEF ChargeInv, Tracked
<1>3. CASE JobFoundDone(r) /\ UNCHANGED tableVars
  BY <1>3 DEF JobFoundDone, ChargeInv, Tracked, tableVars, NothingToRecord
<1>4. QED
  BY <1>1, <1>2, <1>3 DEF JobSucceeds

(* A reserve, answered or late, of a request that was not charged.         *)
LEMMA ReserveCharges ==
  ASSUME TypeOK, NEW r \in Requests,
         ReserveTransaction(r, res[r].at, res[r].limits, res[r].budget)
  PROVE  /\ \A q \in Requests \ {r} : status'[q] = status[q]
         /\ status'[r] = "reserved"
         /\ UNCHANGED <<marker, charges>>
BY DEF TypeOK, TableTypeOK, ReserveTransaction

LEMMA HandlerKeepsChargeInv ==
  ASSUME TypeOK, \A q \in Requests : ChargeInv(q),
         NEW r \in Requests, HandlerNext(r)
  PROVE  \A q \in Requests : ChargeInv(q)'
<1> SUFFICES ASSUME NEW q \in Requests PROVE ChargeInv(q)'
  OBVIOUS
<1> USE DEF TypeOK, HandlerTypeOK
<1>1. CASE Arrive(r)
  <2>1. CASE q = r
    BY <1>1, <2>1, AccountingAssumption
       DEF Arrive, Goto, ChargeInv, Tracked, NoReservation, NoLimits, tableVars
  <2>2. CASE q # r
    BY <1>1, <2>2, ChargeFrame DEF Arrive, Goto, tableVars
  <2>3. QED
    BY <2>1, <2>2
<1>2. CASE Reserve(r)
  <2>1. CASE q = r
    BY <1>2, <2>1, ReserveCharges DEF Reserve, Goto, ChargeInv, Tracked
  <2>2. CASE q # r
    BY <1>2, <2>2, ReserveCharges, ChargeFrame DEF Reserve, Goto
  <2>3. QED
    BY <2>1, <2>2
<1>3. CASE RejectOverLimit(r) \/ ReserveConflict(r) \/ ReserveFails(r)
  <2>1. CASE q = r
    BY <1>3, <2>1 DEF RejectOverLimit, ReserveConflict, ReserveFails, GiveUpOn,
       Goto, TryAgain, ChargeInv, Tracked, tableVars
  <2>2. CASE q # r
    BY <1>3, <2>2, ChargeFrame DEF RejectOverLimit, ReserveConflict, ReserveFails,
       GiveUpOn, Goto, TryAgain, tableVars
  <2>3. QED
    BY <2>1, <2>2
<1>4. CASE ProviderDone(r)
  <2>1. CASE q = r
    BY <1>4, <2>1 DEF ProviderDone, Goto, ChargeInv, Tracked, tableVars, Reservations
  <2>2. CASE q # r
    BY <1>4, <2>2, ChargeFrame DEF ProviderDone, Goto, tableVars
  <2>3. QED
    BY <2>1, <2>2
<1>5. CASE ReconcileNow(r)
  <2>1. CASE q = r
    <3>1. /\ JobSucceeds(r) /\ UNCHANGED <<res, delayed>>
          /\ pc[r] = "reconciling" /\ pc'[r] = "settled"
      BY <1>5 DEF ReconcileNow, Goto
    <3>2. <<"reserve", r>> \notin delayed
      BY <3>1 DEF ChargeInv
    <3>3. QED
      BY <2>1, <3>1, <3>2, JobSucceedsCharges
  <2>2. CASE q # r
    BY <1>5, <2>2, JobSucceedsCharges, ChargeFrame DEF ReconcileNow, Goto
  <2>3. QED
    BY <2>1, <2>2
<1>6. CASE ReconcileConflict(r) \/ ReconcileFails(r)
  <2>1. CASE q = r
    BY <1>6, <2>1 DEF ReconcileConflict, ReconcileFails, GiveUpOn,
       Goto, TryAgain, ChargeInv, Tracked, tableVars
  <2>2. CASE q # r
    BY <1>6, <2>2, ChargeFrame DEF ReconcileConflict, ReconcileFails, GiveUpOn,
       Goto, TryAgain, tableVars
  <2>3. QED
    BY <2>1, <2>2
<1>7. CASE Enqueue(r) \/ EnqueueFails(r) \/ HandlerLost(r) \/ LostWhileSending(r)
  <2>1. CASE q = r
    BY <1>7, <2>1 DEF Enqueue, EnqueueFails, HandlerLost,
       LostWhileSending, Goto, ChargeInv,
       Tracked, tableVars
  <2>2. CASE q # r
    BY <1>7, <2>2, ChargeFrame DEF Enqueue, EnqueueFails, HandlerLost,
       LostWhileSending, Goto,
       tableVars
  <2>3. QED
    BY <2>1, <2>2
<1>8. QED
  BY <1>1, <1>2, <1>3, <1>4, <1>5, <1>6, <1>7 DEF HandlerNext

LEMMA WorkerKeepsChargeInv ==
  ASSUME TypeOK, \A q \in Requests : ChargeInv(q),
         NEW w \in Workers, WorkerNext(w)
  PROVE  \A q \in Requests : ChargeInv(q)'
<1> SUFFICES ASSUME NEW q \in Requests PROVE ChargeInv(q)'
  OBVIOUS
<1>1. CASE WorkerSettles(w)
  <2>1. /\ cur[w].job \in Requests
        /\ JobSucceeds(cur[w].job)
        /\ UNCHANGED <<pc, res, delayed>>
    BY <1>1, InHand DEF WorkerSettles, TypeOK, handlerVars
  <2>2. CASE q = cur[w].job
    BY <2>1, <2>2, JobSucceedsCharges
  <2>3. CASE q # cur[w].job
    BY <2>1, <2>3, JobSucceedsCharges, ChargeFrame
  <2>4. QED
    BY <2>2, <2>3
<1>2. CASE ~WorkerSettles(w)
  <2>1. /\ UNCHANGED <<pc, res, status, charges, marker>>
        /\ <<"reserve", q>> \in delayed' => <<"reserve", q>> \in delayed
    BY <1>2 DEF WorkerNext, WorkerReceives, WorkerTakes, WorkerRefuses, WorkerConflict,
       WorkerFails, WorkerDeletes, WorkerKeeps, WorkerLost, GiveUpOn,
       tableVars, handlerVars
  <2>2. QED
    BY <2>1, ChargeFrame
<1>3. QED
  BY <1>1, <1>2

LEMMA EnvironmentKeepsChargeInv ==
  ASSUME TypeOK, \A q \in Requests : ChargeInv(q),
         \/ \E r \in Requests : LateReserve(r) \/ LateSettle(r)
         \/ \E m \in Messages : QueueTimer(m)
         \/ TtlDeletes
         \/ TimePasses
  PROVE  \A q \in Requests : ChargeInv(q)'
<1> SUFFICES ASSUME NEW q \in Requests PROVE ChargeInv(q)'
  OBVIOUS
<1>1. ASSUME NEW r \in Requests, LateReserve(r) PROVE ChargeInv(q)'
  <2>1. CASE q = r
    BY <1>1, <2>1, ReserveCharges DEF LateReserve, ChargeInv, Tracked, handlerVars
  <2>2. CASE q # r
    BY <1>1, <2>2, ReserveCharges, ChargeFrame DEF LateReserve, handlerVars
  <2>3. QED
    BY <2>1, <2>2
<1>2. ASSUME NEW r \in Requests, LateSettle(r) PROVE ChargeInv(q)'
  <2>1. /\ JobSucceeds(r) /\ UNCHANGED <<pc, res>>
        /\ <<"reserve", q>> \in delayed' => <<"reserve", q>> \in delayed
    BY <1>2 DEF LateSettle, JobSucceeds, handlerVars
  <2>2. CASE q = r
    BY <2>1, <2>2, JobSucceedsCharges
  <2>3. CASE q # r
    BY <2>1, <2>3, JobSucceedsCharges, ChargeFrame
  <2>4. QED
    BY <2>2, <2>3
<1>3. ASSUME NEW r \in Requests, ExpireRecord(r, res[r].at), TtlDeletes
      PROVE  ChargeInv(q)'
  <2>1. /\ UNCHANGED <<pc, res, charges, marker, delayed>>
        /\ status' = [status EXCEPT ![r] = "absent"]
    BY <1>3 DEF TtlDeletes, ExpireRecord, handlerVars
  <2>2. CASE q = r
    BY <2>1, <2>2 DEF ChargeInv, Tracked, TypeOK, TableTypeOK
  <2>3. CASE q # r
    BY <2>1, <2>3, ChargeFrame DEF TypeOK, TableTypeOK
  <2>4. QED
    BY <2>2, <2>3
<1>4. CASE UNCHANGED <<pc, res, status, charges, marker, delayed>>
  BY <1>4, ChargeFrame
<1>5. QED
  BY <1>1, <1>2, <1>3, <1>4 DEF QueueTimer, TtlDeletes, ExpireWindow, TimePasses,
     Tick, tableVars, handlerVars

LEMMA NextKeepsChargesInv == TypeOK /\ ChargesInv /\ [Next]_vars => ChargesInv'
<1> SUFFICES ASSUME TypeOK, ChargesInv, [Next]_vars
             PROVE  \A q \in Requests : ChargeInv(q)'
  BY DEF ChargesInv
<1> USE DEF ChargesInv
<1>1. CASE UNCHANGED vars
  BY <1>1, ChargeFrame DEF vars
<1>2. CASE Next
  BY <1>2, HandlerKeepsChargeInv, WorkerKeepsChargeInv, EnvironmentKeepsChargeInv
     DEF Next
<1>3. QED
  BY <1>1, <1>2

LEMMA ChargesInvHolds == Spec => []ChargesInv
<1>1. Init => ChargesInv
  <2> SUFFICES ASSUME Init, NEW r \in Requests PROVE ChargeInv(r)
    BY DEF ChargesInv
  <2>1. /\ pc[r] = "idle" /\ res[r] = NoReservation
        /\ status[r] = "absent" /\ charges[r] = 0
        /\ marker = {} /\ delayed = {}
    BY DEF Init, TableInit
  <2>2. ~Tracked(r)
    BY <2>1 DEF Tracked, NoReservation
  <2>3. QED
    BY <2>1, <2>2 DEF ChargeInv
<1>2. QED
  BY <1>1, TypeCorrect, NextKeepsChargesInv, PTL DEF Spec

(* In every reachable state every request was charged at most once, for    *)
(* any number of message copies, workers, retries and late writes.         *)
THEOREM ChargedOnceHolds == Spec => []ChargedOnce
<1>1. ChargesInv => ChargedOnce
  BY DEF ChargesInv, ChargeInv, ChargedOnce
<1>2. QED
  BY <1>1, ChargesInvHolds, PTL

-----------------------------------------------------------------------------
(* Who a reservation, a message and a job's result belong to.              *)

FinalStates == {"settled", "queued", "rejected", "unavailable", "unrecorded",
                "queueFailed", "lost", "lostSending"}

(* A handler that ended stays where it is; a reservation is fixed from the *)
(* provider's answer on.                                                   *)
LEMMA HandlersEnd ==
  ASSUME TypeOK, [Next]_vars, NEW r \in Requests
  PROVE  /\ pc[r] \in FinalStates => pc'[r] = pc[r]
         /\ pc[r] \notin {"idle", "calling"} => res'[r] = res[r]
<1> USE DEF TypeOK, HandlerTypeOK, FinalStates
<1>1. CASE UNCHANGED <<pc, res>>
  BY <1>1
<1>2. ASSUME NEW q \in Requests, HandlerNext(q)
      PROVE  /\ pc[r] \in FinalStates => pc'[r] = pc[r]
             /\ pc[r] \notin {"idle", "calling"} => res'[r] = res[r]
  BY <1>2 DEF HandlerNext, Arrive, Reserve, RejectOverLimit, ReserveConflict,
     ReserveFails, ProviderDone, ReconcileNow, ReconcileConflict, ReconcileFails,
     Enqueue, EnqueueFails, HandlerLost, LostWhileSending, Goto, TryAgain
<1>3. ASSUME NEW w \in Workers, WorkerNext(w) PROVE UNCHANGED <<pc, res>>
  BY <1>3 DEF WorkerNext, WorkerReceives, WorkerTakes, WorkerRefuses,
     WorkerSettles, WorkerConflict, WorkerFails, WorkerDeletes, WorkerKeeps,
     WorkerLost, handlerVars
<1>4. QED
  BY <1>1, <1>2, <1>3 DEF Next, LateReserve, LateSettle, QueueTimer, TtlDeletes,
     TimePasses, handlerVars, vars

(* No step takes a charge back.                                            *)
LEMMA ChargesStay ==
  ASSUME TypeOK, [Next]_vars, NEW r \in Requests
  PROVE  charges[r] > 0 => charges'[r] > 0
<1>1. TableStep
  BY NextIsTableStep
<1>2. charges \in [Requests -> Nat]
  BY DEF TypeOK, TableTypeOK
<1>3. \/ UNCHANGED charges
      \/ \E q \in Requests : charges' = [charges EXCEPT ![q] = @ + 1]
  BY <1>1 DEF TableStep, ReserveTransaction, JobSucceeds, JobCommits,
     ReconcileTransaction, UsageTransaction, ExpireRecord, ExpireWindow, Tick,
     tableVars
<1>4. QED
  BY <1>2, <1>3

(* A job's effect lasts once its handler knows what to charge.             *)
LEMMA AppliedStays ==
  ASSUME TypeOK, [Next]_vars, NEW r \in Requests,
         pc[r] \notin {"idle", "calling"}, Applied(r)
  PROVE  Applied(r)'
<1>1. res'[r] = res[r]
  BY HandlersEnd
<1>2. charges[r] > 0 => charges'[r] > 0
  BY ChargesStay
<1>3. NothingToRecord(r) => NothingToRecord(r)'
  BY <1>1 DEF NothingToRecord, Tracked, Charge
<1>4. QED
  BY <1>2, <1>3 DEF Applied

(* What a step can do to a message: only the handler that ends with its    *)
(* send brings it into being, and only a worker about to delete it does.   *)
LEMMA MessageStep ==
  ASSUME TypeOK, [Next]_vars, NEW m \in Messages
  PROVE  /\ At(m, {"unsent"}) => \/ At(m, {"unsent"})'
                                 \/ pc'[m.job] \in
                                      {"queued", "queueFailed", "lostSending"}
         /\ At(m, {"unsent"})' => At(m, {"unsent"})
         /\ At(m, {"deleted"})' => \/ At(m, {"deleted"})
                                   \/ \E w \in Workers : /\ stage[w] = "deleting"
                                                         /\ cur[w] = m
<1> DEFINE Goal ==
      /\ At(m, {"unsent"}) => \/ At(m, {"unsent"})'
                              \/ pc'[m.job] \in
                                   {"queued", "queueFailed", "lostSending"}
      /\ At(m, {"unsent"})' => At(m, {"unsent"})
      /\ At(m, {"deleted"})' => \/ At(m, {"deleted"})
                                \/ \E w \in Workers : /\ stage[w] = "deleting"
                                                      /\ cur[w] = m
<1>1. msg \in [Messages -> [place: MsgPlaces, receives: 0..MaxReceives, sent: Nat]]
  BY DEF TypeOK, QueueTypeOK
<1>2. CASE UNCHANGED msg
  BY <1>2 DEF At
<1>3. ASSUME NEW r \in Requests, Enqueue(r) \/ EnqueueFails(r) \/ LostWhileSending(r)
      PROVE  Goal
  <2>1. PICK cs \in SUBSET Copies : Send(r, cs, now)
    BY <1>3 DEF Enqueue, EnqueueFails, LostWhileSending
  <2>2. pc'[r] \in {"queued", "queueFailed", "lostSending"}
    BY <1>3 DEF Enqueue, EnqueueFails, LostWhileSending, Goto, TypeOK,
       HandlerTypeOK
  <2>3. CASE m.job = r /\ m.copy \in cs
    <3>1. m = [job |-> r, copy |-> m.copy]
      BY <2>3 DEF Messages
    <3>2. At(m, {"unsent"}) /\ msg'[m].place = "visible"
      BY <2>1, <2>3, <3>1 DEF Send
    <3>3. QED
      BY <2>2, <2>3, <3>2 DEF At
  <2>4. CASE ~(m.job = r /\ m.copy \in cs)
    BY <2>1, <2>4 DEF Send, At
  <2>5. QED
    BY <2>3, <2>4
<1>4. ASSUME NEW w \in Workers, WorkerReceives(w) PROVE Goal
  <2>1. PICK ms \in SUBSET Receivable(now) : Receive(ms, now)
    BY <1>4 DEF WorkerReceives
  <2>2. m \in ms => At(m, {"visible"})
    BY <2>1 DEF Receivable
  <2>3. msg'[m].place = IF m \in ms THEN "hidden" ELSE msg[m].place
    BY <1>1, <2>1 DEF Receive
  <2>4. QED
    BY <2>2, <2>3 DEF At
<1>5. ASSUME NEW w \in Workers, WorkerDeletes(w) PROVE Goal
  BY <1>1, <1>5 DEF WorkerDeletes, Delete, Move, At
<1>6. ASSUME NEW n \in Messages, QueueTimer(n) PROVE Goal
  BY <1>1, <1>6
     DEF QueueTimer, VisibilityTimeout, DeadLetter, Discard, Move, At
<1>7. ASSUME NEW r \in Requests, HandlerNext(r), ~Enqueue(r), ~EnqueueFails(r),
             ~LostWhileSending(r)
      PROVE  UNCHANGED msg
  BY <1>7 DEF HandlerNext, Arrive, Reserve, RejectOverLimit, ReserveConflict,
     ReserveFails, ProviderDone, ReconcileNow, ReconcileConflict, ReconcileFails,
     HandlerLost
<1>8. ASSUME NEW w \in Workers, WorkerNext(w), ~WorkerReceives(w), ~WorkerDeletes(w)
      PROVE  UNCHANGED msg
  BY <1>8 DEF WorkerNext, WorkerTakes, WorkerRefuses, WorkerSettles,
     WorkerConflict, WorkerFails, WorkerKeeps, WorkerLost
<1>9. QED
  BY <1>2, <1>3, <1>4, <1>5, <1>6, <1>7, <1>8
     DEF Next, LateReserve, LateSettle, TtlDeletes, TimePasses, vars

(* What a worker has in hand is a message that was sent.                   *)
WorkersHoldSent ==
  \A w \in Workers : \A m \in batch[w] \cup {cur[w]} :
    m # NoMessage => m \in Messages /\ ~At(m, {"unsent"})

LEMMA WorkersKeepSent ==
  ASSUME TypeOK, WorkersHoldSent, [Next]_vars
  PROVE  WorkersHoldSent'
<1> SUFFICES ASSUME NEW w \in Workers, NEW m \in batch'[w] \cup {cur'[w]}, m # NoMessage
             PROVE  m \in Messages /\ ~At(m, {"unsent"})'
  BY DEF WorkersHoldSent
<1>1. CASE m \in batch[w] \cup {cur[w]}
  BY <1>1, MessageStep DEF WorkersHoldSent
<1>2. CASE m \notin batch[w] \cup {cur[w]}
  <2>1. ASSUME NEW v \in Workers, WorkerNext(v), ~WorkerReceives(v) PROVE FALSE
    BY <1>2, <2>1 DEF WorkerNext, WorkerTakes, WorkerRefuses, WorkerSettles,
       WorkerConflict, WorkerFails, WorkerDeletes, WorkerKeeps, WorkerLost,
       PutDown, TypeOK, WorkerTypeOK
  <2>2. CASE UNCHANGED <<batch, cur>>
    BY <1>2, <2>2
  <2>3. ASSUME NEW v \in Workers, WorkerReceives(v)
        PROVE  m \in Messages /\ ~At(m, {"unsent"})'
    <3>1. PICK ms \in SUBSET Receivable(now) :
            Receive(ms, now) /\ batch' = [batch EXCEPT ![v] = ms]
      BY <2>3 DEF WorkerReceives
    <3>2. m \in ms
      BY <1>2, <2>3, <3>1 DEF WorkerReceives, TypeOK, WorkerTypeOK
    <3>3. m \in Messages /\ At(m, {"visible"})
      BY <3>1, <3>2 DEF Receivable
    <3>4. ~At(m, {"unsent"})
      BY <3>3 DEF At
    <3>5. QED
      BY <3>3, <3>4, MessageStep
  <2>4. QED
    BY <2>1, <2>2, <2>3 DEF Next, HandlerNext, Arrive, Reserve, RejectOverLimit,
       ReserveConflict, ReserveFails, ProviderDone, ReconcileNow,
       ReconcileConflict, ReconcileFails, Enqueue, EnqueueFails, HandlerLost,
       LostWhileSending,
       LateReserve, LateSettle, QueueTimer, TtlDeletes, TimePasses, workerVars, vars
<1>3. QED
  BY <1>1, <1>2

QueueTimerOrClock == (\E m \in Messages : QueueTimer(m)) \/ TimePasses

(* A request that reports its job queued sent it; one that was rejected    *)
(* holds no reservation and one without a job none to settle.              *)
EndInv(r) ==
  /\ pc[r] = "queued" => \E c \in Copies : ~At([job |-> r, copy |-> c], {"unsent"})
  /\ pc[r] = "rejected" => status[r] = "absent"
  /\ pc[r] = "unrecorded" => ~Tracked(r)
  /\ pc[r] = "settled" => Applied(r)

LEMMA SendSends ==
  ASSUME TypeOK, NEW r \in Requests, Enqueue(r)
  PROVE  \E c \in Copies : ~At([job |-> r, copy |-> c], {"unsent"})'
<1>1. PICK cs \in SUBSET Copies : cs # {} /\ Send(r, cs, now)
  BY Zenon DEF Enqueue
<1>2. PICK c \in cs : c \in Copies
  BY <1>1
<1>3. [job |-> r, copy |-> c] \in Messages
  BY <1>2, AccountingAssumption DEF Messages
<1>4. msg'[[job |-> r, copy |-> c]].place = "visible"
  BY <1>1, <1>2, <1>3 DEF Send
<1>5. QED
  BY <1>2, <1>4 DEF At

LEMMA NextKeepsEndInv ==
  ASSUME TypeOK, ChargesInv, NEW r \in Requests, EndInv(r), [Next]_vars
  PROVE  EndInv(r)'
<1> USE DEF TypeOK, HandlerTypeOK
<1>1. CASE pc'[r] = pc[r]
  <2>1. ASSUME pc[r] = "queued"
        PROVE  \E c \in Copies : ~At([job |-> r, copy |-> c], {"unsent"})'
    <3>1. PICK c \in Copies : ~At([job |-> r, copy |-> c], {"unsent"})
      BY <2>1 DEF EndInv
    <3>2. [job |-> r, copy |-> c] \in Messages
      BY AccountingAssumption DEF Messages
    <3>3. QED
      BY <3>1, <3>2, MessageStep
  <2>2. ASSUME pc[r] = "rejected" PROVE status'[r] = "absent"
    <3>1. ASSUME NEW q \in Requests,
                 ReserveTransaction(q, res[q].at, res[q].limits, res[q].budget),
                 status'[r] # "absent"
          PROVE  q = r
      BY <2>2, <3>1 DEF ReserveTransaction, TableTypeOK, EndInv
    <3>2. ~(Reserve(r) \/ LateReserve(r))
      BY <2>2 DEF Reserve, LateReserve, ChargesInv, ChargeInv
    <3>3. ASSUME NEW q \in Requests, Reserve(q) \/ LateReserve(q)
          PROVE  status'[r] = "absent"
      BY <3>1, <3>2, <3>3 DEF Reserve, LateReserve
    <3>4. ASSUME NEW q \in Requests, JobSucceeds(q) \/ ExpireRecord(q, res[q].at)
          PROVE  status'[r] = "absent"
      BY <2>2, <3>4 DEF JobSucceeds, JobCommits, ReconcileTransaction,
         UsageTransaction, ExpireRecord, EndInv, TableTypeOK, tableVars
    <3>5. CASE UNCHANGED status
      BY <2>2, <3>5 DEF EndInv
    <3>6. ASSUME NEW q \in Requests, HandlerNext(q), ~Reserve(q)
          PROVE  UNCHANGED status \/ JobSucceeds(q)
      BY <3>6 DEF HandlerNext, Arrive, RejectOverLimit, ReserveConflict,
         ReserveFails, ProviderDone, ReconcileNow, ReconcileConflict,
         ReconcileFails, Enqueue, EnqueueFails, HandlerLost,
         LostWhileSending, tableVars
    <3>7. ASSUME NEW w \in Workers, WorkerNext(w)
          PROVE  UNCHANGED status \/ \E q \in Requests : JobSucceeds(q)
      BY <3>7, InHand DEF WorkerNext, WorkerReceives, WorkerTakes, WorkerRefuses,
         WorkerSettles, WorkerConflict, WorkerFails, WorkerDeletes, WorkerKeeps,
         WorkerLost, tableVars
    <3>8. ASSUME NEW q \in Requests, LateSettle(q) PROVE JobSucceeds(q)
      BY <3>8 DEF LateSettle, JobSucceeds
    <3>9. ASSUME TtlDeletes
          PROVE  UNCHANGED status \/ \E q \in Requests : ExpireRecord(q, res[q].at)
      BY <3>9 DEF TtlDeletes, ExpireWindow
    <3>10. CASE QueueTimerOrClock
      BY <3>5, <3>10 DEF QueueTimerOrClock, QueueTimer, TimePasses, Tick, tableVars
    <3>11. QED
      BY <3>3, <3>4, <3>5, <3>6, <3>7, <3>8, <3>9, <3>10
         DEF Next, QueueTimerOrClock, vars
  <2>3. ASSUME pc[r] = "unrecorded" PROVE ~Tracked(r)'
    BY <2>3, HandlersEnd DEF EndInv, Tracked
  <2>4. ASSUME pc[r] = "settled" PROVE Applied(r)'
    BY <2>4, AppliedStays DEF EndInv
  <2>5. QED
    BY <1>1, <2>1, <2>2, <2>3, <2>4 DEF EndInv
<1>2. CASE pc'[r] # pc[r]
  <2>1. HandlerNext(r)
    <3>1. ASSUME NEW q \in Requests, HandlerNext(q) PROVE q = r
      BY <1>2, <3>1 DEF HandlerNext, Arrive, Reserve, RejectOverLimit,
         ReserveConflict, ReserveFails, ProviderDone, ReconcileNow,
         ReconcileConflict, ReconcileFails, Enqueue, EnqueueFails, HandlerLost,
         LostWhileSending,
         Goto, TryAgain
    <3>2. ASSUME NEW w \in Workers, WorkerNext(w) PROVE FALSE
      BY <1>2, <3>2 DEF WorkerNext, WorkerReceives, WorkerTakes, WorkerRefuses,
         WorkerSettles, WorkerConflict, WorkerFails, WorkerDeletes, WorkerKeeps,
         WorkerLost, handlerVars
    <3>3. QED
      BY <1>2, <3>1, <3>2 DEF Next, LateReserve, LateSettle, QueueTimer,
         TtlDeletes, TimePasses, handlerVars, vars
  <2>2. pc'[r] = "queued" => Enqueue(r)
    BY <1>2, <2>1 DEF HandlerNext, Arrive, Reserve, RejectOverLimit,
       ReserveConflict, ReserveFails, ProviderDone, ReconcileNow,
       ReconcileConflict, ReconcileFails, EnqueueFails, HandlerLost,
       LostWhileSending, Goto, TryAgain
  <2>3. pc'[r] = "rejected" => status'[r] = "absent"
    BY <1>2, <2>1 DEF HandlerNext, Arrive, Reserve, RejectOverLimit,
       ReserveConflict, ReserveFails, ProviderDone, ReconcileNow,
       ReconcileConflict, ReconcileFails, Enqueue, EnqueueFails, HandlerLost,
       LostWhileSending,
       Goto, TryAgain, tableVars, ChargesInv, ChargeInv
  <2>4. pc'[r] = "unrecorded" => ~Tracked(r)'
    BY <1>2, <2>1 DEF HandlerNext, Arrive, Reserve, RejectOverLimit,
       ReserveConflict, ReserveFails, ProviderDone, ReconcileNow,
       ReconcileConflict, ReconcileFails, Enqueue, EnqueueFails, HandlerLost,
       LostWhileSending,
       Goto, TryAgain, Tracked, Reservations
  <2>5. ASSUME pc'[r] = "settled" PROVE Applied(r)'
    <3>1. ReconcileNow(r)
      BY <1>2, <2>1, <2>5 DEF HandlerNext, Arrive, Reserve, RejectOverLimit,
         ReserveConflict, ReserveFails, ProviderDone, ReconcileConflict,
         ReconcileFails, Enqueue, EnqueueFails, HandlerLost,
         LostWhileSending, Goto, TryAgain
    <3>2. JobSucceeds(r) /\ res' = res
      BY <3>1 DEF ReconcileNow
    <3>3. charges'[r] = 1 \/ NothingToRecord(r)
      BY <3>2, JobSucceedsCharges DEF ChargesInv
    <3>4. QED
      BY <3>2, <3>3 DEF Applied, NothingToRecord, Tracked, Charge
  <2>6. QED
    BY <2>2, <2>3, <2>4, <2>5, SendSends DEF EndInv
<1>3. QED
  BY <1>1, <1>2

(* A message in the queue, or one that a worker is done with, is of a      *)
(* handler that ended by sending it; what was deleted, or is about to be,  *)
(* is applied.                                                             *)
MessageInv ==
  /\ WorkersHoldSent
  /\ \A m \in Messages :
       /\ ~At(m, {"unsent"}) => pc[m.job] \in
                                  {"queued", "queueFailed", "lostSending"}
       /\ At(m, {"deleted"}) => Applied(m.job)
  /\ \A w \in Workers : stage[w] = "deleting" => Applied(cur[w].job)

LEMMA SentMeansEnded ==
  ASSUME TypeOK, MessageInv, NEW m \in Messages, ~At(m, {"unsent"})
  PROVE  m.job \in Requests /\ pc[m.job] \in
                                 {"queued", "queueFailed", "lostSending"}
BY AccountingAssumption DEF MessageInv, Messages

LEMMA HeldMeansEnded ==
  ASSUME TypeOK, MessageInv, NEW w \in Workers, stage[w] # "waiting"
  PROVE  /\ cur[w] \in Messages /\ ~At(cur[w], {"unsent"})
         /\ cur[w].job \in Requests
         /\ pc[cur[w].job] \in {"queued", "queueFailed", "lostSending"}
<1>1. cur[w] \in Messages /\ cur[w] # NoMessage
  BY InHand DEF TypeOK, WorkerTypeOK
<1>2. ~At(cur[w], {"unsent"})
  BY <1>1 DEF MessageInv, WorkersHoldSent
<1>3. QED
  BY <1>1, <1>2, SentMeansEnded

LEMMA NextKeepsMessageInv ==
  ASSUME TypeOK, ChargesInv, MessageInv, [Next]_vars
  PROVE  MessageInv'
<1>1. WorkersHoldSent'
  BY WorkersKeepSent DEF MessageInv
<1>2. ASSUME NEW m \in Messages, ~At(m, {"unsent"})'
      PROVE  pc'[m.job] \in {"queued", "queueFailed", "lostSending"}
  <2>1. m.job \in Requests
    BY AccountingAssumption DEF Messages
  <2>2. CASE At(m, {"unsent"})
    BY <1>2, <2>2, MessageStep
  <2>3. CASE ~At(m, {"unsent"})
    BY <2>1, <2>3, SentMeansEnded, HandlersEnd DEF FinalStates
  <2>4. QED
    BY <2>2, <2>3
<1>3. ASSUME NEW m \in Messages, At(m, {"deleted"})'
      PROVE  Applied(m.job)'
  <2>1. ASSUME Applied(m.job), m.job \in Requests,
               pc[m.job] \in {"queued", "queueFailed", "lostSending"}
        PROVE  Applied(m.job)'
    BY <2>1, AppliedStays
  <2>2. CASE At(m, {"deleted"})
    <3>1. ~At(m, {"unsent"})
      BY <2>2 DEF At
    <3>2. QED
      BY <2>1, <2>2, <3>1, SentMeansEnded DEF MessageInv
  <2>3. CASE \E w \in Workers : stage[w] = "deleting" /\ cur[w] = m
    <3>1. PICK w \in Workers : stage[w] = "deleting" /\ cur[w] = m
      BY <2>3
    <3>2. m.job \in Requests /\ pc[m.job] \in
                                  {"queued", "queueFailed", "lostSending"}
      BY <3>1, HeldMeansEnded
    <3>3. Applied(m.job)
      BY <3>1 DEF MessageInv
    <3>4. QED
      BY <2>1, <3>2, <3>3
  <2>4. QED
    BY <1>3, <2>2, <2>3, MessageStep
<1>4. ASSUME NEW w \in Workers, stage'[w] = "deleting"
      PROVE  Applied(cur[w].job)'
  <2>1. CASE WorkerSettles(w)
    <3>1. PICK j \in Requests : /\ j = cur[w].job /\ JobSucceeds(j)
                                /\ UNCHANGED <<cur, res>>
      BY <2>1, InHand DEF WorkerSettles, TypeOK, handlerVars
    <3>2. charges'[j] = 1 \/ NothingToRecord(j)
      BY <3>1, JobSucceedsCharges DEF ChargesInv
    <3>3. QED
      BY <3>1, <3>2 DEF Applied, NothingToRecord, Tracked, Charge
  <2>2. CASE stage[w] = "deleting" /\ cur'[w] = cur[w]
    <3>1. PICK j \in Requests : /\ j = cur[w].job
                                /\ pc[j] \in
                                     {"queued", "queueFailed", "lostSending"}
      BY <2>2, HeldMeansEnded
    <3>2. Applied(j)
      BY <2>2, <3>1 DEF MessageInv
    <3>3. Applied(j)'
      BY <3>1, <3>2, AppliedStays
    <3>4. j = cur'[w].job
      BY <2>2, <3>1
    <3>5. QED
      BY <3>3, <3>4 DEF Applied, NothingToRecord, Tracked, Charge
  <2>3. ASSUME NEW v \in Workers, WorkerNext(v)
        PROVE  \/ WorkerSettles(w)
               \/ stage[w] = "deleting" /\ cur'[w] = cur[w]
    BY <1>4, <2>3 DEF WorkerNext, WorkerReceives, WorkerTakes, WorkerRefuses,
       WorkerSettles, WorkerConflict, WorkerFails, WorkerDeletes, WorkerKeeps,
       WorkerLost, PutDown, TypeOK, WorkerTypeOK
  <2>4. CASE UNCHANGED <<cur, stage>>
    BY <1>4, <2>2, <2>4
  <2>5. ASSUME NEW r \in Requests, HandlerNext(r) PROVE UNCHANGED <<cur, stage>>
    BY <2>5 DEF HandlerNext, Arrive, Reserve, RejectOverLimit, ReserveConflict,
       ReserveFails, ProviderDone, ReconcileNow, ReconcileConflict,
       ReconcileFails, Enqueue, EnqueueFails, HandlerLost,
       LostWhileSending, workerVars
  <2>6. QED
    BY <2>1, <2>2, <2>3, <2>4, <2>5
       DEF Next, LateReserve, LateSettle, QueueTimer, TtlDeletes, TimePasses,
           workerVars, vars
<1>5. QED
  BY <1>1, <1>2, <1>3, <1>4 DEF MessageInv

CustodyInv == MessageInv /\ \A r \in Requests : EndInv(r)

LEMMA CustodyInvHolds == Spec => []CustodyInv
<1>1. Init => CustodyInv
  <2> SUFFICES ASSUME Init PROVE CustodyInv
    OBVIOUS
  <2>1. \A m \in Messages : At(m, {"unsent"}) /\ ~At(m, {"deleted"})
    BY DEF Init, QueueInit, At, Unsent
  <2>2. \A r \in Requests : EndInv(r)
    BY DEF Init, EndInv
  <2>3. \A w \in Workers : /\ batch[w] = {} /\ cur[w] = NoMessage
                           /\ stage[w] = "waiting"
    BY DEF Init
  <2>4. WorkersHoldSent
    BY <2>3 DEF WorkersHoldSent
  <2>5. QED
    BY <2>1, <2>2, <2>3, <2>4 DEF CustodyInv, MessageInv
<1>2. TypeOK /\ ChargesInv /\ CustodyInv /\ [Next]_vars => CustodyInv'
  <2> SUFFICES ASSUME TypeOK, ChargesInv, CustodyInv, [Next]_vars
               PROVE  MessageInv' /\ \A r \in Requests : EndInv(r)'
    BY DEF CustodyInv
  <2>1. MessageInv'
    BY NextKeepsMessageInv DEF CustodyInv
  <2>2. ASSUME NEW r \in Requests PROVE EndInv(r)'
    BY NextKeepsEndInv DEF CustodyInv
  <2>3. QED
    BY <2>1, <2>2
<1>3. QED
  BY <1>1, <1>2, TypeCorrect, ChargesInvHolds, PTL DEF Spec

(* In every reachable state, what a handler reported settled and what a    *)
(* worker deleted is in the table.                                         *)
THEOREM DoneMeansAppliedHolds == Spec => []DoneMeansApplied
<1>1. CustodyInv => DoneMeansApplied
  BY DEF CustodyInv, MessageInv, EndInv, DoneMeansApplied
<1>2. QED
  BY <1>1, CustodyInvHolds, PTL

(* In every reachable state an active reservation is its handler's, a      *)
(* message's, or one of the leaks the design leaves to the ttl.            *)
THEOREM ReservedHasOwnerHolds == Spec => []ReservedHasOwner
<1>1. TypeOK /\ ChargesInv /\ CustodyInv => ReservedHasOwner
  <2> SUFFICES ASSUME TypeOK, ChargesInv, CustodyInv, NEW r \in Requests,
                      status[r] = "reserved"
               PROVE  \/ pc[r] \in {"calling", "reconciling", "enqueueing",
                                    "unavailable", "lost", "lostSending",
                                    "queueFailed"}
                      \/ Pending(r)
                      \/ /\ pc[r] = "queued"
                         /\ \E c \in Copies : At([job |-> r, copy |-> c],
                                                {"dead", "discarded"})
    BY DEF ReservedHasOwner
  <2>1. ChargeInv(r) /\ EndInv(r) /\ MessageInv
    BY DEF ChargesInv, CustodyInv
  <2>2. pc[r] \in HandlerStates
    BY DEF TypeOK, HandlerTypeOK
  <2>3. Tracked(r) /\ charges[r] = 0 /\ ~Applied(r)
    BY <2>1 DEF ChargeInv, Applied, NothingToRecord
  <2>4. pc[r] \notin {"idle", "reserving", "rejected", "unrecorded", "settled"}
    BY <2>1, <2>3 DEF ChargeInv, EndInv
  <2>5. CASE pc[r] = "queued"
    <3>1. PICK c \in Copies : ~At([job |-> r, copy |-> c], {"unsent"})
      BY <2>1, <2>5 DEF EndInv
    <3>2. [job |-> r, copy |-> c] \in Messages
      BY AccountingAssumption DEF Messages
    <3>3. ~At([job |-> r, copy |-> c], {"deleted"})
      BY <2>1, <2>3, <3>2 DEF MessageInv
    <3>4. msg[[job |-> r, copy |-> c]].place \in MsgPlaces
      BY <3>2 DEF TypeOK, QueueTypeOK
    <3>5. QED
      BY <2>5, <3>1, <3>3, <3>4 DEF At, MsgPlaces, Pending
  <2>6. QED
    BY <2>2, <2>4, <2>5 DEF HandlerStates
<1>2. QED
  BY <1>1, TypeCorrect, ChargesInvHolds, CustodyInvHolds, PTL

-----------------------------------------------------------------------------
(* What a request's job knows.                                             *)

(* A reservation is of the past.  No job is processed, and none is under   *)
(* way, before the provider call is over; every job of a request without   *)
(* limits knows the usage that was reported.                               *)
JobInv(r) ==
  /\ res[r].at <= now
  /\ pc[r] \in {"idle", "reserving", "calling"} =>
       charges[r] = 0 /\ <<"settle", r>> \notin delayed
  /\ \/ pc[r] \in
          {"reconciling", "enqueueing", "queued", "queueFailed", "lostSending"}
     \/ <<"settle", r>> \in delayed
     => Tracked(r) \/ res[r].actual # Unreported

JobsInv == \A r \in Requests : JobInv(r)

(* Which request a step charges: one whose handler is reconciling, one     *)
(* whose message a worker has, or one whose write was given up on.         *)
LEMMA WhoCommits ==
  ASSUME TypeOK, MessageInv, [Next]_vars
  PROVE  \/ UNCHANGED charges
         \/ \E r \in Requests :
              /\ \/ pc[r] \in
                      {"reconciling", "queued", "queueFailed", "lostSending"}
                 \/ <<"settle", r>> \in delayed
              /\ JobCommits(r)
              /\ UNCHANGED res
<1>1. CASE UNCHANGED vars
  BY <1>1 DEF vars
<1>2. ASSUME NEW r \in Requests, HandlerNext(r), ~ReconcileNow(r)
      PROVE  UNCHANGED charges
  BY <1>2 DEF HandlerNext, Arrive, Reserve, RejectOverLimit, ReserveConflict,
     ReserveFails, ProviderDone, ReconcileConflict, ReconcileFails, Enqueue,
     EnqueueFails, HandlerLost, LostWhileSending, ReserveTransaction, tableVars
<1>3. ASSUME NEW r \in Requests, ReconcileNow(r)
      PROVE  \/ UNCHANGED charges
             \/ pc[r] = "reconciling" /\ JobCommits(r) /\ UNCHANGED res
  BY <1>3 DEF ReconcileNow, JobSucceeds, tableVars
<1>4. ASSUME NEW w \in Workers, WorkerNext(w), ~WorkerSettles(w)
      PROVE  UNCHANGED charges
  BY <1>4 DEF WorkerNext, WorkerReceives, WorkerTakes, WorkerRefuses,
     WorkerConflict, WorkerFails, WorkerDeletes, WorkerKeeps, WorkerLost, tableVars
<1>5. ASSUME NEW w \in Workers, WorkerSettles(w)
      PROVE  \/ UNCHANGED charges
             \/ \E r \in Requests : /\ pc[r] \in
                                         {"queued", "queueFailed", "lostSending"}
                                    /\ JobCommits(r)
                                    /\ UNCHANGED res
  <2>1. /\ cur[w].job \in Requests
        /\ pc[cur[w].job] \in {"queued", "queueFailed", "lostSending"}
    BY <1>5, HeldMeansEnded DEF WorkerSettles
  <2>2. QED
    BY <1>5, <2>1 DEF WorkerSettles, JobSucceeds, tableVars, handlerVars
<1>6. ASSUME NEW r \in Requests, LateReserve(r) \/ LateSettle(r)
      PROVE  \/ UNCHANGED charges
             \/ <<"settle", r>> \in delayed /\ JobCommits(r) /\ UNCHANGED res
  BY <1>6 DEF LateReserve, LateSettle, ReserveTransaction, handlerVars
<1>7. ASSUME (\E m \in Messages : QueueTimer(m)) \/ TtlDeletes \/ TimePasses
      PROVE  UNCHANGED charges
  BY <1>7 DEF QueueTimer, TtlDeletes, TimePasses, ExpireWindow, ExpireRecord,
     Tick, tableVars
<1>8. QED
  BY <1>1, <1>2, <1>3, <1>4, <1>5, <1>6, <1>7 DEF Next

(* Where a request's settling write comes from when it is given up on.     *)
LEMMA WhoGivesUp ==
  ASSUME TypeOK, MessageInv, [Next]_vars, NEW r \in Requests,
         <<"settle", r>> \in delayed', <<"settle", r>> \notin delayed
  PROVE  /\ pc[r] \in {"reconciling", "queued", "queueFailed", "lostSending"}
         /\ UNCHANGED res
<1>1. ASSUME NEW q \in Requests, HandlerNext(q)
      PROVE  pc[r] = "reconciling" /\ UNCHANGED res
  BY <1>1 DEF HandlerNext, Arrive, Reserve, RejectOverLimit, ReserveConflict,
     ReserveFails, ProviderDone, ReconcileNow, ReconcileConflict, ReconcileFails,
     Enqueue, EnqueueFails, HandlerLost, LostWhileSending, GiveUpOn
<1>2. ASSUME NEW w \in Workers, WorkerNext(w)
      PROVE  pc[r] \in {"queued", "queueFailed", "lostSending"} /\ UNCHANGED res
  <2>1. stage[w] = "processing" /\ cur[w].job = r /\ UNCHANGED res
    BY <1>2 DEF WorkerNext, WorkerReceives, WorkerTakes, WorkerRefuses,
       WorkerSettles, WorkerConflict, WorkerFails, WorkerDeletes, WorkerKeeps,
       WorkerLost, GiveUpOn, handlerVars
  <2>2. QED
    BY <2>1, HeldMeansEnded
<1>3. ASSUME NEW q \in Requests, LateReserve(q) \/ LateSettle(q) PROVE FALSE
  BY <1>3 DEF LateReserve, LateSettle
<1>4. CASE UNCHANGED delayed
  BY <1>4
<1>5. QED
  BY <1>1, <1>2, <1>3, <1>4 DEF Next, QueueTimer, TtlDeletes, TimePasses, vars

(* Only its own handler moves a request; the clock does not go back.       *)
LEMMA OnlyItsHandler ==
  ASSUME TypeOK, [Next]_vars, NEW r \in Requests
  PROVE  /\ (pc'[r] = pc[r] /\ res'[r] = res[r]) \/ HandlerNext(r)
         /\ now \in Nat /\ now' \in Nat /\ now <= now'
<1> USE DEF TypeOK, HandlerTypeOK
<1>1. (pc'[r] = pc[r] /\ res'[r] = res[r]) \/ HandlerNext(r)
  <2>1. ASSUME NEW q \in Requests, HandlerNext(q), q # r
        PROVE  pc'[r] = pc[r] /\ res'[r] = res[r]
    BY <2>1 DEF HandlerNext, Arrive, Reserve, RejectOverLimit, ReserveConflict,
       ReserveFails, ProviderDone, ReconcileNow, ReconcileConflict, ReconcileFails,
       Enqueue, EnqueueFails, HandlerLost, LostWhileSending, Goto, TryAgain
  <2>2. ASSUME NEW w \in Workers, WorkerNext(w) PROVE UNCHANGED <<pc, res>>
    BY <2>2 DEF WorkerNext, WorkerReceives, WorkerTakes, WorkerRefuses,
       WorkerSettles, WorkerConflict, WorkerFails, WorkerDeletes, WorkerKeeps,
       WorkerLost, handlerVars
  <2>3. QED
    BY <2>1, <2>2 DEF Next, LateReserve, LateSettle, QueueTimer, TtlDeletes,
       TimePasses, handlerVars, vars
<1>2. now \in Nat /\ now' \in Nat
  BY NextTyped DEF TableTypeOK, Times
<1>3. UNCHANGED now \/ now' = now + 1
  BY NextIsTableStep DEF TableStep, ReserveTransaction, JobSucceeds, JobCommits,
     ReconcileTransaction, UsageTransaction, ExpireRecord, ExpireWindow, Tick,
     tableVars
<1>4. QED
  BY <1>1, <1>2, <1>3

LEMMA NextKeepsJobInv ==
  ASSUME TypeOK, ChargesInv, MessageInv, NEW r \in Requests, JobInv(r), [Next]_vars
  PROVE  JobInv(r)'
<1> USE DEF TypeOK, HandlerTypeOK
<1>0. /\ ChargeInv(r)
      /\ charges \in [Requests -> Nat]
      /\ charges' \in [Requests -> Nat]
  BY NextTyped DEF ChargesInv, TableTypeOK
<1>1. res'[r].at <= now'
  <2>1. res[r].at \in Nat
    BY ChargeTyped DEF Times
  <2>2. res'[r].at = res[r].at \/ res'[r].at = now
    BY OnlyItsHandler DEF HandlerNext, Arrive, Reserve, RejectOverLimit,
       ReserveConflict, ReserveFails, ProviderDone, ReconcileNow,
       ReconcileConflict, ReconcileFails, Enqueue, EnqueueFails, HandlerLost,
       LostWhileSending,
       Reservations
  <2>3. QED
    BY <2>1, <2>2, OnlyItsHandler DEF JobInv
<1>2. ASSUME pc'[r] \in {"idle", "reserving", "calling"}
      PROVE  charges'[r] = 0 /\ <<"settle", r>> \notin delayed'
  <2>1. pc[r] \in {"idle", "reserving", "calling"}
    BY <1>2, OnlyItsHandler DEF HandlerNext, Arrive, Reserve, RejectOverLimit,
       ReserveConflict, ReserveFails, ProviderDone, ReconcileNow,
       ReconcileConflict, ReconcileFails, Enqueue, EnqueueFails, HandlerLost,
       LostWhileSending,
       Goto, TryAgain
  <2>2. charges[r] = 0 /\ <<"settle", r>> \notin delayed
    BY <2>1 DEF JobInv
  <2>3. <<"settle", r>> \notin delayed'
    BY <2>1, <2>2, WhoGivesUp
  <2>4. ASSUME NEW q \in Requests, JobCommits(q), q # r PROVE charges'[r] = charges[r]
    BY <1>0, <2>4 DEF JobCommits, ReconcileTransaction, UsageTransaction
  <2>5. charges'[r] = charges[r]
    BY <2>1, <2>2, <2>4, WhoCommits
  <2>6. QED
    BY <2>2, <2>3, <2>5
<1>3. ASSUME \/ pc'[r] \in
                  {"reconciling", "enqueueing", "queued", "queueFailed", "lostSending"}
             \/ <<"settle", r>> \in delayed'
      PROVE  Tracked(r)' \/ res'[r].actual # Unreported
  <2>1. CASE pc'[r] = pc[r] /\ res'[r] = res[r]
    BY <1>3, <2>1, WhoGivesUp DEF JobInv, Tracked
  <2>2. CASE HandlerNext(r)
    <3>1. CASE Arrive(r)
      BY <1>3, <3>1 DEF Arrive, Goto, JobInv
    <3>2. CASE ProviderDone(r)
      BY <1>3, <3>2 DEF ProviderDone, Goto, JobInv, Tracked, Reservations
    <3>3. CASE ~Arrive(r) /\ ~ProviderDone(r)
      <4>1. res' = res
        BY <2>2, <3>3 DEF HandlerNext, Reserve, RejectOverLimit, ReserveConflict,
           ReserveFails, ReconcileNow, ReconcileConflict, ReconcileFails, Enqueue,
           EnqueueFails, HandlerLost, LostWhileSending
      <4>2. \/ pc[r] \in
                 {"reconciling", "enqueueing", "queued", "queueFailed", "lostSending"}
            \/ <<"settle", r>> \in delayed
        BY <1>3, <2>2, <3>3, WhoGivesUp
           DEF HandlerNext, Reserve, RejectOverLimit, ReserveConflict,
           ReserveFails, ReconcileNow, ReconcileConflict, ReconcileFails, Enqueue,
           EnqueueFails, HandlerLost, LostWhileSending, Goto, TryAgain
      <4>3. QED
        BY <4>1, <4>2 DEF JobInv, Tracked
    <3>4. QED
      BY <3>1, <3>2, <3>3
  <2>3. QED
    BY <2>1, <2>2, OnlyItsHandler
<1>4. QED
  BY <1>1, <1>2, <1>3 DEF JobInv

LEMMA JobsInvHolds == Spec => []JobsInv
<1>1. Init => JobsInv
  BY DEF Init, TableInit, JobsInv, JobInv, NoReservation
<1>2. TypeOK /\ ChargesInv /\ CustodyInv /\ JobsInv /\ [Next]_vars => JobsInv'
  BY NextKeepsJobInv DEF JobsInv, CustodyInv
<1>3. QED
  BY <1>1, <1>2, TypeCorrect, ChargesInvHolds, CustodyInvHolds, PTL DEF Spec

-----------------------------------------------------------------------------
(* The limits.                                                             *)

Excess(w) == SumFunction([r \in Requests |-> OverrunIn(w, r)])

LEMMA OverrunTyped ==
  ASSUME TypeOK, NEW r \in Requests
  PROVE  /\ Overrun(r) \in Nat
         /\ Charge(r) - res[r].budget <= Overrun(r)
<1> DEFINE more == Charge(r) - res[r].budget
<1>1. more \in Int
  BY ChargeTyped DEF TypeOK
<1>2. \E x \in {0, more} : \A y \in {0, more} : x >= y
  BY <1>1
<1>3. Max({0, more}) \in {0, more} /\ \A y \in {0, more} : Max({0, more}) >= y
  BY <1>2 DEF Max
<1>4. QED
  BY <1>1, <1>3 DEF Overrun

LEMMA ExcessTyped ==
  ASSUME TypeOK, NEW w
  PROVE  /\ [r \in Requests |-> OverrunIn(w, r)] \in [Requests -> Nat]
         /\ Excess(w) \in Nat
<1>1. [r \in Requests |-> OverrunIn(w, r)] \in [Requests -> Nat]
  BY OverrunTyped DEF OverrunIn
<1>2. QED
  BY <1>1, SumOfNaturals, TableAssumption DEF Excess

(* What was charged stays as it was charged, so nothing but a commit of a  *)
(* job changes the excess.                                                 *)
LEMMA ExcessStays ==
  ASSUME TypeOK, JobsInv, [Next]_vars, UNCHANGED charges, NEW w
  PROVE  Excess(w)' = Excess(w)
<1>1. ASSUME NEW r \in Requests PROVE OverrunIn(w, r)' = OverrunIn(w, r)
  <2>1. charges[r] \in Nat
    BY DEF TypeOK, TableTypeOK
  <2>2. CASE charges[r] = 0
    BY <2>2 DEF OverrunIn
  <2>3. CASE charges[r] > 0
    <3>1. pc[r] \notin {"idle", "calling"}
      <4>1. JobInv(r)
        BY DEF JobsInv
      <4>2. charges[r] # 0
        BY <2>1, <2>3
      <4>3. QED
        BY <4>1, <4>2 DEF JobInv
    <3>2. res'[r] = res[r]
      BY <3>1, HandlersEnd
    <3>3. QED
      BY <3>2 DEF OverrunIn, Overrun, Charge
  <2>4. QED
    BY <2>1, <2>2, <2>3
<1>2. QED
  BY <1>1 DEF Excess

(* ... and a commit by what its job used beyond its budget.                *)
LEMMA ExcessGrows ==
  ASSUME TypeOK, TypeOK', NEW r \in Requests, charges[r] = 0, UNCHANGED res,
         charges' = [charges EXCEPT ![r] = @ + 1], NEW w
  PROVE  Excess(w)' = Excess(w) + (IF w \in WindowsOf(res[r].at) THEN Overrun(r) ELSE 0)
<1> DEFINE f == [q \in Requests |-> OverrunIn(w, q)]
           g == [q \in Requests |-> OverrunIn(w, q)']
<1>1. f \in [Requests -> Int]
  BY ExcessTyped
<1>2. g \in [Requests -> Int]
  BY OverrunTyped, TypeOK' DEF OverrunIn, Overrun, Charge
<1>3. \A q \in Requests \ {r} : f[q] = g[q]
  BY DEF OverrunIn, Overrun, Charge, TypeOK, TableTypeOK
<1>4. f[r] = 0 /\ g[r] = IF w \in WindowsOf(res[r].at) THEN Overrun(r) ELSE 0
  BY DEF OverrunIn, Overrun, Charge, TypeOK, TableTypeOK
<1>5. SumFunction(g) = SumFunction(f) - f[r] + g[r]
  BY <1>1, <1>2, <1>3, SumChanges, TableAssumption
<1>6. SumFunction(f) = Excess(w) /\ SumFunction(g) = Excess(w)'
  BY DEF Excess
<1>7. Excess(w) \in Nat /\ g[r] \in Int
  BY <1>2, ExcessTyped
<1>8. QED
  BY <1>4, <1>5, <1>6, <1>7

(* A limit that is the highest of its kind is a number.                    *)
LEMMA HighestTyped ==
  ASSUME NEW w \in Windows, NEW limits \in Limits, Highest(limits, w.kind)
  PROVE  /\ limits[w.kind] \in Nat
         /\ \A other \in Limits : other[w.kind] \in Nat /\ other[w.kind] <= limits[w.kind]
<1>1. w.kind \in {"daily", "weekly"}
  BY DEF Windows, WindowsOf, DailyWindow, WeeklyWindow
<1>2. \A other \in Limits : other[w.kind] \in Nat \cup {NoLimit}
  BY <1>1, AccountingAssumption
<1>3. QED
  BY <1>2 DEF Highest

(* A reservation is only made where its own limit leaves room for it.      *)
LEMMA ReserveKeepsLimit ==
  ASSUME TypeOK, ChargesInv, NEW r \in Requests, pc[r] # "idle",
         ReserveTransaction(r, res[r].at, res[r].limits, res[r].budget),
         NEW w \in WindowsOf(res[r].at), w \in Windows,
         NEW limits \in Limits, Highest(limits, w.kind)
  PROVE  usage'[w].token_count <= limits[w.kind]
<1>1. /\ res[r] \in Reservations
      /\ res[r].limits \in Limits
      /\ res[r].budget \in Nat
  BY ChargeTyped DEF TypeOK, HandlerTypeOK, Reservations
<1>2. HasRoom(w, res[r].limits[w.kind], res[r].budget)
  <2>1. \/ w = DailyWindow(res[r].at) /\ w.kind = "daily"
        \/ w = WeeklyWindow(res[r].at) /\ w.kind = "weekly"
    BY DEF WindowsOf, DailyWindow, WeeklyWindow
  <2>2. CanReserve(res[r].at, res[r].limits, res[r].budget)
    BY DEF ReserveTransaction
  <2>3. QED
    BY <2>1, <2>2 DEF CanReserve
<1>3. /\ res[r].limits[w.kind] \in Nat
      /\ res[r].limits[w.kind] <= limits[w.kind]
      /\ limits[w.kind] \in Nat
  BY <1>1, HighestTyped
<1>4. usage[w].token_count <= res[r].limits[w.kind] - res[r].budget
  BY <1>2, <1>3, TableAssumption DEF HasRoom
<1>5. usage[w].token_count \in Int
  BY DEF TypeOK, TableTypeOK, UsageItems
<1>6. usage'[w].token_count = usage[w].token_count + res[r].budget
  BY DEF ReserveTransaction, AddToWindows
<1>7. QED
  BY <1>1, <1>3, <1>4, <1>5, <1>6

(* A step that charges nobody leaves a window's count as it is, empties    *)
(* the window, or reserves in it.                                          *)
LEMMA CountSteps ==
  ASSUME TypeOK, ChargesInv, [Next]_vars, UNCHANGED charges, NEW w \in Windows
  PROVE  \/ usage'[w].token_count = usage[w].token_count
         \/ usage'[w].token_count = 0
         \/ \E r \in Requests :
              /\ pc[r] # "idle" /\ w \in WindowsOf(res[r].at)
              /\ ReserveTransaction(r, res[r].at, res[r].limits, res[r].budget)
<1>1. TableStep
  BY NextIsTableStep
<1>2. charges \in [Requests -> Nat]
  BY DEF TypeOK, TableTypeOK
<1>3. ASSUME NEW r \in Requests, JobSucceeds(r) PROVE usage' = usage
  <2>1. ~JobCommits(r)
    <3>1. JobCommits(r) => charges' = [charges EXCEPT ![r] = @ + 1]
      BY DEF JobCommits, ReconcileTransaction, UsageTransaction
    <3>2. charges[r] + 1 # charges[r]
      BY <1>2
    <3>3. QED
      BY <1>2, <3>1, <3>2
  <2>2. QED
    BY <1>3, <2>1 DEF JobSucceeds, tableVars
<1>4. ASSUME NEW v \in Windows, ExpireWindow(v)
      PROVE  usage'[w] = usage[w] \/ usage'[w].token_count = 0
  BY <1>4 DEF ExpireWindow, NoItem, TypeOK, TableTypeOK
<1>5. ASSUME NEW r \in Requests,
             ReserveTransaction(r, res[r].at, res[r].limits, res[r].budget)
      PROVE  \/ usage'[w].token_count = usage[w].token_count
             \/ pc[r] # "idle" /\ w \in WindowsOf(res[r].at)
  <2>1. CASE w \notin WindowsOf(res[r].at)
    BY <1>5, <2>1 DEF ReserveTransaction, AddToWindows
  <2>2. CASE pc[r] = "idle" /\ w \in WindowsOf(res[r].at)
    <3>1. ChargeInv(r)
      BY DEF ChargesInv
    <3>2. res[r].budget = 0
      BY <2>2, <3>1 DEF ChargeInv, NoReservation
    <3>3. usage[w].token_count \in Int
      BY DEF TypeOK, TableTypeOK, UsageItems
    <3>4. usage'[w].token_count = usage[w].token_count + res[r].budget
      BY <1>5, <2>2 DEF ReserveTransaction, AddToWindows
    <3>5. QED
      BY <3>2, <3>3, <3>4
  <2>3. QED
    BY <2>1, <2>2
<1>6. QED
  BY <1>1, <1>3, <1>4, <1>5 DEF TableStep, ExpireRecord, Tick, tableVars

LEMMA NextKeepsLimits ==
  ASSUME TypeOK, ChargesInv, MessageInv, JobsInv, WithinLimits, [Next]_vars
  PROVE  WithinLimits'
<1> SUFFICES ASSUME NEW w \in Windows, NEW limits \in Limits, Highest(limits, w.kind)
             PROVE  usage'[w].token_count <= limits[w.kind] + Excess(w)'
  BY DEF WithinLimits, Excess, Highest
<1>1. /\ limits[w.kind] \in Nat
      /\ Excess(w) \in Nat
      /\ usage[w].token_count \in Int
      /\ usage'[w].token_count \in Int
      /\ usage[w].token_count <= limits[w.kind] + Excess(w)
  BY HighestTyped, ExcessTyped, NextTyped
     DEF TypeOK, TableTypeOK, UsageItems, WithinLimits, Excess
<1>2. CASE UNCHANGED charges
  <2>1. Excess(w)' = Excess(w)
    BY <1>2, ExcessStays
  <2>2. \/ usage'[w].token_count = usage[w].token_count
        \/ usage'[w].token_count = 0
        \/ usage'[w].token_count <= limits[w.kind]
    BY <1>2, CountSteps, ReserveKeepsLimit
  <2>3. QED
    BY <1>1, <2>1, <2>2
<1>3. ASSUME NEW r \in Requests, JobCommits(r), UNCHANGED res,
             \/ pc[r] \in {"reconciling", "queued", "queueFailed", "lostSending"}
             \/ <<"settle", r>> \in delayed
      PROVE  usage'[w].token_count <= limits[w.kind] + Excess(w)'
  <2>1. Tracked(r)
    <3>1. pc[r] # "idle"
      BY <1>3 DEF JobsInv, JobInv
    <3>2. res[r].limits \in Limits
      BY <3>1 DEF TypeOK, HandlerTypeOK, Reservations
    <3>3. w.kind \in {"daily", "weekly"}
      BY DEF Windows, WindowsOf, DailyWindow, WeeklyWindow
    <3>4. QED
      BY <3>2, <3>3 DEF Highest, Tracked, NoLimits
  <2>2. ReconcileTransaction(r, res[r].at, res[r].budget, Charge(r))
    BY <1>3, <2>1 DEF JobCommits
  <2>3. charges[r] = 0
    BY <2>1, <2>2 DEF ReconcileTransaction, ChargesInv, ChargeInv
  <2>4. Excess(w)' = Excess(w) + (IF w \in WindowsOf(res[r].at) THEN Overrun(r) ELSE 0)
    BY <1>3, <2>2, <2>3, NextTyped, ExcessGrows DEF ReconcileTransaction
  <2>5. usage'[w].token_count =
          usage[w].token_count +
            (IF w \in WindowsOf(res[r].at) THEN Charge(r) - res[r].budget ELSE 0)
    BY <1>1, <2>2 DEF ReconcileTransaction, AddToWindows
  <2>6. /\ Overrun(r) \in Nat /\ Charge(r) - res[r].budget \in Int
        /\ Charge(r) - res[r].budget <= Overrun(r)
    BY OverrunTyped, ChargeTyped DEF TypeOK
  <2>7. QED
    BY <1>1, <2>4, <2>5, <2>6
<1>4. QED
  BY <1>2, <1>3, WhoCommits

(* In every reachable state, whatever number of requests race for it, no   *)
(* window is past the highest limit by more than what was used beyond the  *)
(* budgets of the requests charged in it.                                  *)
THEOREM WithinLimitsHolds == Spec => []WithinLimits
<1>1. Init => WithinLimits
  <2> SUFFICES ASSUME Init, NEW w \in Windows, NEW limits \in Limits,
                      Highest(limits, w.kind)
               PROVE  usage[w].token_count <= limits[w.kind] + Excess(w)
    BY DEF WithinLimits, Excess
  <2>1. usage[w].token_count = 0
    BY DEF Init, TableInit, NoItem
  <2>2. limits[w.kind] \in Nat /\ Excess(w) \in Nat
    BY HighestTyped, InitTyped, ExcessTyped
  <2>3. QED
    BY <2>1, <2>2
<1>2. TypeOK /\ ChargesInv /\ CustodyInv /\ JobsInv /\ WithinLimits /\ [Next]_vars
        => WithinLimits'
  BY NextKeepsLimits DEF CustodyInv
<1>3. QED
  BY <1>1, <1>2, TypeCorrect, ChargesInvHolds, CustodyInvHolds, JobsInvHolds, PTL
     DEF Spec

-----------------------------------------------------------------------------
(* The ledger.                                                             *)

(* The clock is two weeks and the offset away from the largest u64.        *)
ClockFits ==
  MaxTime + MONDAY_WEEK_OFFSET_SECONDS + 2 * WEEKLY_WINDOW_SECONDS <= MaxU64

Entries == [r \in Requests |-> EntryOf(r)]

(* What an entry counts for in a window.                                   *)
ReservedOf(w, r) ==
  IF EntryOf(r).phase = "active" /\ w \in WindowsOf(EntryOf(r).at)
  THEN EntryOf(r).budget ELSE 0
ConsumedOf(w, r) ==
  IF EntryOf(r).phase = "settled" /\ w \in WindowsOf(EntryOf(r).at)
  THEN EntryOf(r).cost ELSE 0

ReservedIn(w) == SumFunction([r \in Requests |-> ReservedOf(w, r)])
ConsumedIn(w) == SumFunction([r \in Requests |-> ConsumedOf(w, r)])

(* A window that is live shows the sums of its entries, and the ttl of its *)
(* item is one that a second in it set.                                    *)
WindowInv(w) ==
  /\ Live(w, now) => /\ usage[w].reserved_tokens = ReservedIn(w)
                     /\ usage[w].consumed_tokens = ConsumedIn(w)
  /\ usage[w].ttl # 0 =>
       \E t \in Times : w \in WindowsOf(t) /\ usage[w].ttl = WindowTtl(w.kind, t)

WindowsInv == \A w \in Windows : WindowInv(w)

(* What a step can do to the entries and the windows.                      *)
Reserves(r) ==
  /\ ReserveTransaction(r, res[r].at, res[r].limits, res[r].budget)
  /\ Tracked(r) /\ pc[r] # "idle" /\ charges[r] = 0

Commits(r) ==
  /\ JobCommits(r)
  /\ pc[r] # "idle" /\ charges[r] = 0
  /\ Tracked(r) \/ res[r].actual # Unreported

LedgerStep ==
  \/ /\ UNCHANGED res
     /\ \/ \E r \in Requests : Reserves(r) \/ Commits(r) \/ ExpireRecord(r, res[r].at)
        \/ \E w \in Windows : ExpireWindow(w)
        \/ Tick
  \/ UNCHANGED tableVars /\ \A r \in Requests : EntryOf(r)' = EntryOf(r)

LEMMA NextIsLedgerStep ==
  ASSUME TypeOK, ChargesInv, MessageInv, JobsInv, [Next]_vars
  PROVE  LedgerStep
<1>0. \A r \in Requests : ChargeInv(r) /\ JobInv(r)
  BY DEF ChargesInv, JobsInv
<1>1. ASSUME UNCHANGED tableVars, UNCHANGED res PROVE LedgerStep
  BY <1>1 DEF LedgerStep, tableVars, EntryOf, Charge
<1>2. ASSUME NEW r \in Requests, Reserve(r) \/ LateReserve(r) PROVE LedgerStep
  <2>1. Reserves(r) /\ UNCHANGED res
    BY <1>0, <1>2 DEF Reserve, LateReserve, Reserves, ChargeInv, handlerVars
  <2>2. QED
    BY <2>1 DEF LedgerStep
<1>3. ASSUME NEW r \in Requests, JobCommits(r), UNCHANGED res,
             \/ pc[r] \in {"reconciling", "queued", "queueFailed", "lostSending"}
             \/ <<"settle", r>> \in delayed
      PROVE  LedgerStep
  <2>1. pc[r] # "idle" /\ (Tracked(r) \/ res[r].actual # Unreported)
    BY <1>0, <1>3 DEF JobInv
  <2>2. charges[r] = 0
    BY <1>0, <1>3 DEF JobCommits, ReconcileTransaction, UsageTransaction, ChargeInv
  <2>3. QED
    BY <1>3, <2>1, <2>2 DEF LedgerStep, Commits
<1>4. ASSUME NEW r \in Requests, Arrive(r) \/ ProviderDone(r) PROVE LedgerStep
  <2>1. UNCHANGED tableVars
    BY <1>4 DEF Arrive, ProviderDone
  <2>2. ASSUME NEW q \in Requests, q # r PROVE EntryOf(q)' = EntryOf(q)
    BY <1>4, <2>1, <2>2
       DEF Arrive, ProviderDone, EntryOf, Charge, tableVars, TypeOK, HandlerTypeOK
  <2>3. EntryOf(r)' = EntryOf(r)
    <3>1. charges[r] = 0 /\ charges'[r] = 0 /\ status'[r] = status[r]
      BY <1>0, <1>4, <2>1 DEF Arrive, ProviderDone, JobInv, tableVars
    <3>2. CASE Arrive(r)
      <4>1. ChargeInv(r) /\ pc[r] = "idle"
        BY <1>0, <3>2 DEF Arrive
      <4>2. status[r] = "absent"
        BY <4>1 DEF ChargeInv
      <4>3. QED
        BY <3>1, <4>2 DEF EntryOf
    <3>3. CASE ProviderDone(r)
      <4>1. /\ res'[r].at = res[r].at
            /\ res'[r].limits = res[r].limits
            /\ res'[r].budget = res[r].budget
        BY <3>3 DEF ProviderDone, TypeOK, HandlerTypeOK, Reservations
      <4>2. QED
        BY <3>1, <4>1 DEF EntryOf
    <3>4. QED
      BY <1>4, <3>2, <3>3
  <2>4. QED
    BY <2>1, <2>2, <2>3 DEF LedgerStep
<1>5. ASSUME NEW r \in Requests, HandlerNext(r), ~Reserve(r), ~Arrive(r),
             ~ProviderDone(r)
      PROVE  LedgerStep
  <2>1. (UNCHANGED tableVars /\ UNCHANGED res) \/ ReconcileNow(r)
    BY <1>5 DEF HandlerNext, RejectOverLimit, ReserveConflict, ReserveFails,
       ReconcileConflict, ReconcileFails, Enqueue, EnqueueFails, HandlerLost,
       LostWhileSending
  <2>2. QED
    BY <1>1, <1>3, <2>1 DEF ReconcileNow, JobSucceeds
<1>6. ASSUME NEW w \in Workers, WorkerNext(w) PROVE LedgerStep
  <2>1. (UNCHANGED tableVars /\ UNCHANGED res) \/ WorkerSettles(w)
    BY <1>6 DEF WorkerNext, WorkerReceives, WorkerTakes, WorkerRefuses,
       WorkerConflict, WorkerFails, WorkerDeletes, WorkerKeeps, WorkerLost,
       handlerVars
  <2>2. ASSUME WorkerSettles(w)
        PROVE  /\ cur[w].job \in Requests
               /\ pc[cur[w].job] \in {"queued", "queueFailed", "lostSending"}
    BY <2>2, HeldMeansEnded DEF WorkerSettles
  <2>3. QED
    BY <1>1, <1>3, <2>1, <2>2 DEF WorkerSettles, JobSucceeds, handlerVars
<1>7. ASSUME NEW r \in Requests, LateSettle(r) PROVE LedgerStep
  BY <1>3, <1>7 DEF LateSettle, handlerVars
<1>8. ASSUME (\E m \in Messages : QueueTimer(m)) \/ TtlDeletes \/ TimePasses
      PROVE  LedgerStep
  BY <1>1, <1>8 DEF QueueTimer, TtlDeletes, TimePasses, LedgerStep, handlerVars
<1>9. CASE UNCHANGED vars
  BY <1>1, <1>9 DEF vars, tableVars
<1>10. QED
  BY <1>2, <1>4, <1>5, <1>6, <1>7, <1>8, <1>9 DEF Next

(* What an entry counts for is a number.                                   *)
LEMMA CountsTyped ==
  ASSUME TypeOK, NEW r \in Requests, NEW w
  PROVE  ReservedOf(w, r) \in Nat /\ ConsumedOf(w, r) \in Nat
BY ChargeTyped DEF ReservedOf, ConsumedOf, EntryOf, TypeOK

LEMMA SumsTyped ==
  ASSUME TypeOK, NEW w
  PROVE  ReservedIn(w) \in Nat /\ ConsumedIn(w) \in Nat
<1>1. /\ [r \in Requests |-> ReservedOf(w, r)] \in [Requests -> Nat]
      /\ [r \in Requests |-> ConsumedOf(w, r)] \in [Requests -> Nat]
  BY CountsTyped
<1>2. QED
  BY <1>1, SumOfNaturals, TableAssumption DEF ReservedIn, ConsumedIn

(* The sums move by what one request's entry moves by.                     *)
LEMMA SumsChange ==
  ASSUME TypeOK, TypeOK', NEW r \in Requests, UNCHANGED res, NEW w,
         \A q \in Requests \ {r} : status'[q] = status[q] /\ charges'[q] = charges[q]
  PROVE  /\ ReservedIn(w)' = ReservedIn(w) - ReservedOf(w, r) + ReservedOf(w, r)'
         /\ ConsumedIn(w)' = ConsumedIn(w) - ConsumedOf(w, r) + ConsumedOf(w, r)'
<1> DEFINE f == [q \in Requests |-> ReservedOf(w, q)]
           g == [q \in Requests |-> ReservedOf(w, q)']
           h == [q \in Requests |-> ConsumedOf(w, q)]
           k == [q \in Requests |-> ConsumedOf(w, q)']
<1>1. ASSUME NEW q \in Requests
      PROVE  /\ ReservedOf(w, q) \in Int /\ ConsumedOf(w, q) \in Int
             /\ ReservedOf(w, q)' \in Int /\ ConsumedOf(w, q)' \in Int
  <2>1. res[q].budget \in Nat /\ Charge(q) \in Nat
    BY ChargeTyped DEF TypeOK
  <2>2. res'[q].budget \in Nat /\ Charge(q)' \in Nat
    BY <2>1 DEF Charge
  <2>3. QED
    BY <2>2, CountsTyped DEF ReservedOf, ConsumedOf, EntryOf
<1>2. ASSUME NEW q \in Requests \ {r}
      PROVE  /\ ReservedOf(w, q)' = ReservedOf(w, q)
             /\ ConsumedOf(w, q)' = ConsumedOf(w, q)
  BY DEF ReservedOf, ConsumedOf, EntryOf, Charge
<1>3. /\ f \in [Requests -> Int] /\ g \in [Requests -> Int]
      /\ h \in [Requests -> Int] /\ k \in [Requests -> Int]
  BY <1>1
<1>4. /\ \A q \in Requests \ {r} : f[q] = g[q]
      /\ \A q \in Requests \ {r} : h[q] = k[q]
  BY <1>2
<1>5. /\ SumFunction(g) = SumFunction(f) - f[r] + g[r]
      /\ SumFunction(k) = SumFunction(h) - h[r] + k[r]
  <2> HIDE DEF f, g, h, k
  <2> QED
    BY <1>3, <1>4, SumChanges, TableAssumption
<1>6. QED
  BY <1>5 DEF ReservedIn, ConsumedIn

LEMMA SumsStay ==
  ASSUME NEW w, \A q \in Requests : EntryOf(q)' = EntryOf(q)
  PROVE  ReservedIn(w)' = ReservedIn(w) /\ ConsumedIn(w)' = ConsumedIn(w)
BY DEF ReservedIn, ConsumedIn, ReservedOf, ConsumedOf

(* A transaction that adds to both windows of an entry what the entry's    *)
(* change adds to their sums keeps the windows right.                      *)
LEMMA AddKeepsWindow ==
  ASSUME TypeOK, TypeOK', NEW r \in Requests, NEW w \in Windows, WindowInv(w),
         NEW count \in Int, NEW reserved \in Int, NEW consumed \in Int,
         NEW setTtl \in BOOLEAN, UNCHANGED <<now, res>>,
         AddToWindows(res[r].at, count, reserved, consumed, setTtl),
         \A q \in Requests \ {r} : status'[q] = status[q] /\ charges'[q] = charges[q],
         w \in WindowsOf(res[r].at) =>
           /\ ReservedOf(w, r)' = ReservedOf(w, r) + reserved
           /\ ConsumedOf(w, r)' = ConsumedOf(w, r) + consumed,
         w \notin WindowsOf(res[r].at) =>
           /\ ReservedOf(w, r)' = ReservedOf(w, r)
           /\ ConsumedOf(w, r)' = ConsumedOf(w, r)
  PROVE  WindowInv(w)'
<1>1. /\ ReservedIn(w)' = ReservedIn(w) - ReservedOf(w, r) + ReservedOf(w, r)'
      /\ ConsumedIn(w)' = ConsumedIn(w) - ConsumedOf(w, r) + ConsumedOf(w, r)'
      /\ ReservedIn(w) \in Nat /\ ConsumedIn(w) \in Nat
      /\ ReservedOf(w, r) \in Nat /\ ConsumedOf(w, r) \in Nat
  BY SumsChange, SumsTyped, CountsTyped
<1>2. usage[w].reserved_tokens \in Int /\ usage[w].consumed_tokens \in Int
  BY DEF TypeOK, TableTypeOK, UsageItems
<1>3. CASE w \in WindowsOf(res[r].at)
  <2>1. /\ usage'[w].reserved_tokens = usage[w].reserved_tokens + reserved
        /\ usage'[w].consumed_tokens = usage[w].consumed_tokens + consumed
        /\ usage'[w].ttl = IF setTtl THEN WindowTtl(w.kind, res[r].at)
                                     ELSE usage[w].ttl
    BY <1>3 DEF AddToWindows
  <2>2. Live(w, now)' =>
          /\ usage'[w].reserved_tokens = ReservedIn(w)'
          /\ usage'[w].consumed_tokens = ConsumedIn(w)'
    BY <1>1, <1>2, <1>3, <2>1 DEF WindowInv
  <2>3. res[r].at \in Times
    BY ChargeTyped DEF TypeOK
  <2>4. QED
    BY <1>3, <2>1, <2>2, <2>3 DEF WindowInv
<1>4. CASE w \notin WindowsOf(res[r].at)
  <2>1. usage'[w] = usage[w]
    BY <1>4 DEF AddToWindows
  <2>2. ReservedIn(w)' = ReservedIn(w) /\ ConsumedIn(w)' = ConsumedIn(w)
    BY <1>1, <1>4
  <2>3. QED
    BY <2>1, <2>2 DEF WindowInv
<1>5. QED
  BY <1>3, <1>4

LEMMA ReserveKeepsWindow ==
  ASSUME TypeOK, TypeOK', NEW r \in Requests, Reserves(r), UNCHANGED res,
         NEW w \in Windows, WindowInv(w)
  PROVE  WindowInv(w)'
<1>1. /\ AddToWindows(res[r].at, res[r].budget, res[r].budget, 0, TRUE)
      /\ status[r] = "absent" /\ charges[r] = 0
      /\ status' = [status EXCEPT ![r] = "reserved"]
      /\ UNCHANGED <<now, charges>>
  BY DEF Reserves, ReserveTransaction
<1>2. res[r].budget \in Nat
  BY ChargeTyped DEF TypeOK
<1>3. status'[r] = "reserved"
  BY <1>1 DEF TypeOK, TableTypeOK
<1>4. /\ ReservedOf(w, r) = 0 /\ ConsumedOf(w, r) = 0 /\ ConsumedOf(w, r)' = 0
      /\ ReservedOf(w, r)' =
           IF w \in WindowsOf(res[r].at) THEN res[r].budget ELSE 0
  BY <1>1, <1>3 DEF ReservedOf, ConsumedOf, EntryOf
<1>5. /\ w \in WindowsOf(res[r].at) =>
           /\ ReservedOf(w, r)' = ReservedOf(w, r) + res[r].budget
           /\ ConsumedOf(w, r)' = ConsumedOf(w, r) + 0
      /\ w \notin WindowsOf(res[r].at) =>
           /\ ReservedOf(w, r)' = ReservedOf(w, r)
           /\ ConsumedOf(w, r)' = ConsumedOf(w, r)
  BY <1>2, <1>4
<1>6. \A q \in Requests \ {r} : status'[q] = status[q] /\ charges'[q] = charges[q]
  BY <1>1 DEF TypeOK, TableTypeOK
<1>7. res[r].budget \in Int /\ 0 \in Int /\ TRUE \in BOOLEAN
  BY <1>2
<1>8. QED
  BY <1>1, <1>5, <1>6, <1>7, AddKeepsWindow

LEMMA CommitKeepsWindow ==
  ASSUME TypeOK, TypeOK', ChargesInv, NEW r \in Requests, Commits(r), UNCHANGED res,
         NEW w \in Windows, WindowInv(w)
  PROVE  WindowInv(w)'
<1>1. /\ charges[r] = 0 /\ charges' = [charges EXCEPT ![r] = @ + 1]
      /\ \A q \in Requests \ {r} : status'[q] = status[q]
      /\ UNCHANGED now
  BY DEF Commits, JobCommits, ReconcileTransaction, UsageTransaction, TypeOK,
     TableTypeOK
<1>2. charges'[r] = 1 /\ \A q \in Requests \ {r} : charges'[q] = charges[q]
  BY <1>1 DEF TypeOK, TableTypeOK
<1>3. /\ ReservedOf(w, r)' = 0
      /\ ConsumedOf(w, r) = 0
      /\ ConsumedOf(w, r)' = IF w \in WindowsOf(res[r].at) THEN Charge(r) ELSE 0
  BY <1>1, <1>2 DEF ReservedOf, ConsumedOf, EntryOf, Charge
<1>4. res[r].budget \in Nat /\ Charge(r) \in Nat
  BY ChargeTyped DEF TypeOK
<1>5. CASE Tracked(r)
  <2>1. /\ status[r] = "reserved"
        /\ AddToWindows(res[r].at, Charge(r) - res[r].budget, 0 - res[r].budget,
                        Charge(r), FALSE)
    BY <1>5 DEF Commits, JobCommits, ReconcileTransaction
  <2>2. ReservedOf(w, r) =
          IF w \in WindowsOf(res[r].at) THEN res[r].budget ELSE 0
    BY <1>1, <2>1 DEF ReservedOf, EntryOf
  <2>3. /\ w \in WindowsOf(res[r].at) =>
             /\ ReservedOf(w, r)' = ReservedOf(w, r) + (0 - res[r].budget)
             /\ ConsumedOf(w, r)' = ConsumedOf(w, r) + Charge(r)
        /\ w \notin WindowsOf(res[r].at) =>
             /\ ReservedOf(w, r)' = ReservedOf(w, r)
             /\ ConsumedOf(w, r)' = ConsumedOf(w, r)
    BY <1>3, <1>4, <2>2
  <2>4. /\ Charge(r) - res[r].budget \in Int /\ 0 - res[r].budget \in Int
        /\ Charge(r) \in Int /\ FALSE \in BOOLEAN
    BY <1>4
  <2>5. QED
    BY <1>1, <1>2, <2>1, <2>3, <2>4, AddKeepsWindow
<1>6. CASE ~Tracked(r)
  <2>1. AddToWindows(res[r].at, Charge(r), 0, Charge(r), TRUE)
    BY <1>6 DEF Commits, JobCommits, UsageTransaction
  <2>2. status[r] = "absent"
    <3>1. ChargeInv(r)
      BY DEF ChargesInv
    <3>2. QED
      BY <1>6, <3>1 DEF ChargeInv
  <2>3. ReservedOf(w, r) = 0
    BY <1>1, <2>2 DEF ReservedOf, EntryOf
  <2>4. /\ w \in WindowsOf(res[r].at) =>
             /\ ReservedOf(w, r)' = ReservedOf(w, r) + 0
             /\ ConsumedOf(w, r)' = ConsumedOf(w, r) + Charge(r)
        /\ w \notin WindowsOf(res[r].at) =>
             /\ ReservedOf(w, r)' = ReservedOf(w, r)
             /\ ConsumedOf(w, r)' = ConsumedOf(w, r)
    BY <1>3, <1>4, <2>3
  <2>5. Charge(r) \in Int /\ 0 \in Int /\ TRUE \in BOOLEAN
    BY <1>4
  <2>6. QED
    BY <1>1, <1>2, <2>1, <2>4, <2>5, AddKeepsWindow
<1>7. QED
  BY <1>5, <1>6

(* A record that expires takes its reservation out of no live window.      *)
LEMMA ExpireRecordKeepsWindow ==
  ASSUME ClockFits, TypeOK, TypeOK', ChargesInv, NEW r \in Requests,
         ExpireRecord(r, res[r].at), UNCHANGED res, NEW w \in Windows, WindowInv(w)
  PROVE  WindowInv(w)'
<1>1. /\ UNCHANGED <<now, usage, charges>> /\ now >= WeeklyTtl(res[r].at)
      /\ status' = [status EXCEPT ![r] = "absent"]
      /\ now \in Times /\ res[r].at \in Times
  BY ChargeTyped DEF ExpireRecord, TypeOK, TableTypeOK
<1>2. status'[r] = "absent" /\ \A q \in Requests \ {r} : status'[q] = status[q]
  BY <1>1 DEF TypeOK, TableTypeOK
<1>3. ASSUME Live(w, now) PROVE w \notin WindowsOf(res[r].at)
  <2> SUFFICES ASSUME w \in WindowsOf(res[r].at) PROVE FALSE
    OBVIOUS
  <2>1. now < WeeklyTtl(res[r].at)
    BY <1>1, <1>3, LiveRecordsAreKept DEF ClockFits
  <2>2. WeeklyTtl(res[r].at) \in Nat
    <3>1. res[r].at \in 0..MaxU64
      BY <1>1, WindowAssumption DEF Times
    <3>2. WindowTtl("weekly", res[r].at) \in 0..MaxU64
      BY <3>1, TtlTyped
    <3>3. QED
      BY <3>2, WindowAssumption DEF WindowTtl
  <2>3. QED
    BY <1>1, <2>1, <2>2 DEF Times
<1>4. w \notin WindowsOf(res[r].at) =>
        /\ ReservedOf(w, r)' = ReservedOf(w, r)
        /\ ConsumedOf(w, r)' = ConsumedOf(w, r)
  BY <1>1 DEF ReservedOf, ConsumedOf, EntryOf, Charge
<1>5. Live(w, now) => /\ ReservedIn(w)' = ReservedIn(w)
                      /\ ConsumedIn(w)' = ConsumedIn(w)
  <2>1. /\ ReservedIn(w)' = ReservedIn(w) - ReservedOf(w, r) + ReservedOf(w, r)'
        /\ ConsumedIn(w)' = ConsumedIn(w) - ConsumedOf(w, r) + ConsumedOf(w, r)'
    BY <1>1, <1>2, SumsChange
  <2>2. /\ ReservedIn(w) \in Nat /\ ConsumedIn(w) \in Nat
        /\ ReservedOf(w, r) \in Nat /\ ConsumedOf(w, r) \in Nat
    BY SumsTyped, CountsTyped
  <2>3. QED
    BY <1>3, <1>4, <2>1, <2>2
<1>6. QED
  BY <1>1, <1>5 DEF WindowInv

(* An item that expires is not that of a live window.                      *)
LEMMA ExpireWindowKeepsWindows ==
  ASSUME ClockFits, TypeOK, WindowsInv, NEW w \in Windows, ExpireWindow(w),
         UNCHANGED res, NEW v \in Windows
  PROVE  WindowInv(v)'
<1>1. /\ UNCHANGED <<now, status, marker, charges>>
      /\ usage' = [usage EXCEPT ![w] = NoItem]
      /\ usage[w].ttl # 0 /\ now >= usage[w].ttl
      /\ now \in Times
  BY DEF ExpireWindow, TypeOK, TableTypeOK
<1>2. ReservedIn(v)' = ReservedIn(v) /\ ConsumedIn(v)' = ConsumedIn(v)
  BY <1>1, SumsStay DEF EntryOf, Charge
<1>3. ~Live(w, now)
  <2>1. PICK t \in Times : w \in WindowsOf(t) /\ usage[w].ttl = WindowTtl(w.kind, t)
    BY <1>1 DEF WindowsInv, WindowInv
  <2>2. WindowTtl(w.kind, t) \in Nat
    BY <2>1, TtlTyped, WindowAssumption DEF Times
  <2>3. Live(w, now) => now < WindowTtl(w.kind, t)
    BY <1>1, <2>1, LiveItemsAreKept DEF ClockFits
  <2>4. QED
    BY <1>1, <2>1, <2>2, <2>3 DEF Times
<1>4. CASE v = w
  <2>1. usage'[v].ttl = 0
    BY <1>1, <1>4 DEF NoItem, TypeOK, TableTypeOK
  <2>2. QED
    BY <1>1, <1>3, <1>4, <2>1 DEF WindowInv
<1>5. CASE v # w
  <2>1. usage'[v] = usage[v]
    BY <1>1, <1>5 DEF TypeOK, TableTypeOK
  <2>2. WindowInv(v)
    BY DEF WindowsInv
  <2>3. QED
    BY <1>1, <1>2, <2>1, <2>2 DEF WindowInv
<1>6. QED
  BY <1>4, <1>5

LEMMA TickKeepsWindow ==
  ASSUME TypeOK, Tick, UNCHANGED res, NEW w \in Windows, WindowInv(w)
  PROVE  WindowInv(w)'
<1>1. /\ UNCHANGED <<usage, status, marker, charges>>
      /\ now \in Times /\ now' \in Times /\ now <= now'
  BY WindowAssumption DEF Tick, TypeOK, TableTypeOK, Times
<1>2. ReservedIn(w)' = ReservedIn(w) /\ ConsumedIn(w)' = ConsumedIn(w)
  BY <1>1, SumsStay DEF EntryOf, Charge
<1>3. Live(w, now') => Live(w, now)
  BY <1>1, LiveBefore
<1>4. QED
  BY <1>1, <1>2, <1>3 DEF WindowInv

LEMMA NextKeepsWindowsInv ==
  ASSUME ClockFits, TypeOK, ChargesInv, MessageInv, JobsInv, WindowsInv, [Next]_vars
  PROVE  WindowsInv'
<1> SUFFICES ASSUME NEW w \in Windows PROVE WindowInv(w)'
  BY DEF WindowsInv
<1>1. LedgerStep /\ TypeOK'
  BY NextIsLedgerStep, NextTyped
<1>2. WindowInv(w)
  BY DEF WindowsInv
<1>3. CASE UNCHANGED tableVars /\ \A r \in Requests : EntryOf(r)' = EntryOf(r)
  <2>1. ReservedIn(w)' = ReservedIn(w) /\ ConsumedIn(w)' = ConsumedIn(w)
    BY <1>3, SumsStay
  <2>2. QED
    BY <1>2, <1>3, <2>1 DEF WindowInv, tableVars
<1>4. CASE /\ UNCHANGED res
           /\ \E r \in Requests : Reserves(r) \/ Commits(r) \/ ExpireRecord(r, res[r].at)
  BY <1>1, <1>2, <1>4, ReserveKeepsWindow, CommitKeepsWindow, ExpireRecordKeepsWindow
<1>5. CASE /\ UNCHANGED res
           /\ (\E v \in Windows : ExpireWindow(v)) \/ Tick
  BY <1>2, <1>5, ExpireWindowKeepsWindows, TickKeepsWindow
<1>6. QED
  BY <1>1, <1>3, <1>4, <1>5 DEF LedgerStep

LEMMA WindowsInvHolds ==
  ASSUME ClockFits
  PROVE  Spec => []WindowsInv
<1>1. Init => WindowsInv
  <2> SUFFICES ASSUME Init, NEW w \in Windows PROVE WindowInv(w)
    BY DEF WindowsInv
  <2>1. \A r \in Requests : ReservedOf(w, r) = 0 /\ ConsumedOf(w, r) = 0
    BY DEF Init, TableInit, ReservedOf, ConsumedOf, EntryOf
  <2>2. /\ [r \in Requests |-> ReservedOf(w, r)] = [r \in Requests |-> 0]
        /\ [r \in Requests |-> ConsumedOf(w, r)] = [r \in Requests |-> 0]
    BY <2>1
  <2>3. ReservedIn(w) = 0 /\ ConsumedIn(w) = 0
    BY <2>2, SumOfZeros, TableAssumption DEF ReservedIn, ConsumedIn
  <2>4. usage[w] = NoItem
    BY DEF Init, TableInit
  <2>5. QED
    BY <2>3, <2>4 DEF WindowInv, NoItem
<1>2. TypeOK /\ ChargesInv /\ CustodyInv /\ JobsInv /\ WindowsInv /\ [Next]_vars
        => WindowsInv'
  BY NextKeepsWindowsInv DEF CustodyInv
<1>3. QED
  BY <1>1, <1>2, TypeCorrect, ChargesInvHolds, CustodyInvHolds, JobsInvHolds, PTL
     DEF Spec

-----------------------------------------------------------------------------
(* Every step is one of the ledger's.                                      *)

(* The ledger's windows are the table's.                                   *)
LEMMA LedgerWindowsOf ==
  ASSUME NEW t
  PROVE  /\ Ledger!DailyWindow(t) = DailyWindow(t)
         /\ Ledger!WeeklyWindow(t) = WeeklyWindow(t)
         /\ Ledger!WindowsOf(t) = WindowsOf(t)
BY DEF WindowsOf, Ledger!WindowsOf, DailyWindow, Ledger!DailyWindow,
   WeeklyWindow, Ledger!WeeklyWindow, MondayAligned, Ledger!MondayAligned,
   saturating_add, Ledger!saturating_add,
   WEEKLY_WINDOW_SECONDS, Ledger!WEEKLY_WINDOW_SECONDS,
   MONDAY_WEEK_OFFSET_SECONDS, Ledger!MONDAY_WEEK_OFFSET_SECONDS

LEMMA LedgerLive ==
  /\ Ledger!Windows = Windows
  /\ \A w, t : Ledger!Live(w, t) = Live(w, t)
<1>1. Ledger!Windows = Windows
  BY LedgerWindowsOf DEF Windows, Ledger!Windows, Times, Ledger!Times
<1>2. \A w : Ledger!WindowSeconds(w.kind) = WindowSeconds(w.kind)
  BY DEF WindowSeconds, Ledger!WindowSeconds, WEEKLY_WINDOW_SECONDS,
     Ledger!WEEKLY_WINDOW_SECONDS
<1>3. Ledger!LiveWindows = LiveWindows
  BY <1>1, <1>2, LedgerWindowsOf
     DEF LiveWindows, Ledger!LiveWindows, Times, Ledger!Times
<1>4. QED
  BY <1>1, <1>3 DEF Live, Ledger!Live

LEMMA LedgerTtl ==
  ASSUME NEW t
  PROVE  Ledger!WeeklyTtl(t) = WeeklyTtl(t)
BY DEF WeeklyTtl, Ledger!WeeklyTtl, UsageTtl, Ledger!UsageTtl,
   WeeklyWindowStart, Ledger!WeeklyWindowStart, SpanStart, Ledger!SpanStart,
   MondayAligned, Ledger!MondayAligned, saturating_add, Ledger!saturating_add,
   saturating_sub, Ledger!saturating_sub, saturating_mul, Ledger!saturating_mul,
   WEEKLY_WINDOW_SECONDS, Ledger!WEEKLY_WINDOW_SECONDS,
   MONDAY_WEEK_OFFSET_SECONDS, Ledger!MONDAY_WEEK_OFFSET_SECONDS

(* ... and so are its sums.                                                *)
LEMMA LedgerSums ==
  ASSUME NEW w
  PROVE  /\ Ledger!Reserved(w, Entries) = ReservedIn(w)
         /\ Ledger!Consumed(w, Entries) = ConsumedIn(w)
<1>1. \A f : Ledger!SumFunction(f) = SumFunction(f)
  BY DEF SumFunction, Ledger!SumFunction, SumFunctionOnSet, Ledger!SumFunctionOnSet,
     FoldFunctionOnSet, Ledger!FoldFunctionOnSet, MapThenFoldSet, Ledger!MapThenFoldSet
<1>2. ASSUME NEW r \in Requests
      PROVE  /\ Ledger!ReservedBy(Entries[r], w) = ReservedOf(w, r)
             /\ Ledger!ConsumedBy(Entries[r], w) = ConsumedOf(w, r)
  BY LedgerWindowsOf
     DEF Entries, ReservedOf, ConsumedOf, Ledger!ReservedBy, Ledger!ConsumedBy
<1>3. /\ [r \in Requests |-> Ledger!ReservedBy(Entries[r], w)]
           = [r \in Requests |-> ReservedOf(w, r)]
      /\ [r \in Requests |-> Ledger!ConsumedBy(Entries[r], w)]
           = [r \in Requests |-> ConsumedOf(w, r)]
  BY <1>2
<1>4. QED
  BY <1>1, <1>3 DEF Ledger!Reserved, Ledger!Consumed, ReservedIn, ConsumedIn

(* The windows show what the ledger's do.                                  *)
Shown == [w \in Windows |-> ShownBy(w)]
ShownRight == Shown = Ledger!Shows(Entries, now)

LEMMA WindowsShow == WindowsInv => ShownRight
<1> SUFFICES ASSUME WindowsInv, NEW w \in Windows
             PROVE  ShownBy(w) =
                      IF Ledger!Live(w, now)
                      THEN <<Ledger!Reserved(w, Entries), Ledger!Consumed(w, Entries)>>
                      ELSE <<>>
  BY LedgerLive DEF ShownRight, Shown, Ledger!Shows
<1>1. QED
  BY LedgerLive, LedgerSums DEF WindowsInv, WindowInv, ShownBy

(* When one request's entry changes, that is all that changes.             *)
LEMMA OneEntryChanges ==
  ASSUME NEW r \in Requests, NEW e, EntryOf(r)' = e,
         \A q \in Requests \ {r} : EntryOf(q)' = EntryOf(q)
  PROVE  Entries' = [Entries EXCEPT ![r] = e]
BY DEF Entries

LEMMA RoomInTheLedger ==
  ASSUME TypeOK, EffectiveTotal, WindowsInv, NEW w \in Windows,
         NEW limit \in Nat \cup {NoLimit}, NEW budget \in Nat,
         HasRoom(w, limit, budget), Ledger!Live(w, now), limit # NoLimit
  PROVE  Ledger!Reserved(w, Entries) + Ledger!Consumed(w, Entries) + budget <= limit
<1>1. /\ usage[w].token_count \in Int
      /\ usage[w].reserved_tokens \in Int /\ usage[w].consumed_tokens \in Int
  BY DEF TypeOK, TableTypeOK, UsageItems
<1>2. usage[w].token_count = usage[w].consumed_tokens + usage[w].reserved_tokens
  BY DEF EffectiveTotal
<1>3. /\ usage[w].reserved_tokens = Ledger!Reserved(w, Entries)
      /\ usage[w].consumed_tokens = Ledger!Consumed(w, Entries)
  BY LedgerLive, LedgerSums DEF WindowsInv, WindowInv
<1>4. usage[w].token_count <= limit - budget
  BY DEF HasRoom
<1>5. QED
  BY <1>1, <1>2, <1>3, <1>4

LEMMA ReservesInTheLedger ==
  ASSUME TypeOK, JobsInv, EffectiveTotal, WindowsInv, NEW r \in Requests,
         Reserves(r), UNCHANGED res
  PROVE  /\ Entries[r].phase = "none"
         /\ \E at \in 0..now, limits \in Limits \ {NoLimits}, budget \in Budgets :
              /\ \A w \in {DailyWindow(at), WeeklyWindow(at)} :
                   Ledger!Live(w, now) /\ limits[w.kind] # NoLimit =>
                     Ledger!Reserved(w, Entries) + Ledger!Consumed(w, Entries)
                       + budget <= limits[w.kind]
              /\ Entries' = [Entries EXCEPT ![r] =
                              Ledger!ActiveEntry(at, limits, budget)]
         /\ UNCHANGED now
<1>1. /\ res[r] \in Reservations /\ now \in Nat /\ res[r].at <= now
  <2>1. JobInv(r)
    BY DEF JobsInv
  <2>2. QED
    BY <2>1, WindowAssumption
       DEF Reserves, JobInv, TypeOK, HandlerTypeOK, TableTypeOK, Times
<1>2. /\ res[r].at \in Times /\ res[r].at \in 0..now
      /\ res[r].limits \in Limits \ {NoLimits}
      /\ res[r].budget \in Budgets
      /\ res[r].limits.daily \in Nat \cup {NoLimit}
      /\ res[r].limits.weekly \in Nat \cup {NoLimit}
      /\ res[r].budget \in Nat
  <2>1. /\ res[r].at \in Times /\ res[r].limits \in Limits
        /\ res[r].budget \in Budgets
    BY <1>1 DEF Reservations
  <2>2. res[r].at \in 0..now
    BY <1>1, <2>1, WindowAssumption DEF Times
  <2>3. res[r].limits # NoLimits
    BY DEF Reserves, Tracked
  <2>4. res[r].limits \in [daily: Nat \cup {NoLimit}, weekly: Nat \cup {NoLimit}]
    BY <2>1, AccountingAssumption
  <2>5. QED
    BY <2>1, <2>2, <2>3, <2>4, AccountingAssumption
<1>3. /\ status[r] = "absent" /\ charges[r] = 0 /\ status'[r] = "reserved"
      /\ \A q \in Requests \ {r} : status'[q] = status[q]
      /\ UNCHANGED <<now, charges>>
  BY DEF Reserves, ReserveTransaction, TypeOK, TableTypeOK
<1>4. Entries' = [Entries EXCEPT ![r] =
                   Ledger!ActiveEntry(res[r].at, res[r].limits, res[r].budget)]
  <2>1. EntryOf(r)' = Ledger!ActiveEntry(res[r].at, res[r].limits, res[r].budget)
    BY <1>3 DEF EntryOf, Ledger!ActiveEntry
  <2>2. \A q \in Requests \ {r} : EntryOf(q)' = EntryOf(q)
    BY <1>3 DEF EntryOf, Charge
  <2>3. QED
    BY <2>1, <2>2, OneEntryChanges
<1>5. Entries[r].phase = "none"
  BY <1>3 DEF Entries, EntryOf
<1>6. ASSUME NEW w \in WindowsOf(res[r].at),
             Ledger!Live(w, now), res[r].limits[w.kind] # NoLimit
      PROVE  Ledger!Reserved(w, Entries) + Ledger!Consumed(w, Entries)
               + res[r].budget <= res[r].limits[w.kind]
  <2>1. w \in Windows
    BY <1>2 DEF Windows
  <2>2. HasRoom(w, res[r].limits[w.kind], res[r].budget)
    BY DEF Reserves, ReserveTransaction, CanReserve, WindowsOf, DailyWindow,
       WeeklyWindow
  <2>3. res[r].limits[w.kind] \in Nat \cup {NoLimit}
    BY <1>2 DEF WindowsOf, DailyWindow, WeeklyWindow
  <2>4. QED
    BY <1>2, <1>6, <2>1, <2>2, <2>3, RoomInTheLedger
<1>7. QED
  BY <1>2, <1>3, <1>4, <1>5, <1>6 DEF WindowsOf

LEMMA ReserveIsLedgers ==
  ASSUME TypeOK, JobsInv, EffectiveTotal, WindowsInv, NEW r \in Requests,
         Reserves(r), UNCHANGED res
  PROVE  Ledger!Reserve(r)
<1>1. PICK at \in 0..now, limits \in Limits \ {NoLimits}, budget \in Budgets :
        /\ \A w \in {DailyWindow(at), WeeklyWindow(at)} :
             Ledger!Live(w, now) /\ limits[w.kind] # NoLimit =>
               Ledger!Reserved(w, Entries) + Ledger!Consumed(w, Entries)
                 + budget <= limits[w.kind]
        /\ Entries' = [Entries EXCEPT ![r] = Ledger!ActiveEntry(at, limits, budget)]
  BY ReservesInTheLedger
<1>2. /\ Ledger!HasRoomFor(Ledger!DailyWindow(at), limits.daily, budget)
      /\ Ledger!HasRoomFor(Ledger!WeeklyWindow(at), limits.weekly, budget)
  <2>1. DailyWindow(at).kind = "daily" /\ WeeklyWindow(at).kind = "weekly"
    BY DEF DailyWindow, WeeklyWindow
  <2>2. QED
    BY <1>1, <2>1, LedgerWindowsOf DEF Ledger!HasRoomFor, Entries
<1>3. Entries[r].phase = "none" /\ UNCHANGED now
  BY ReservesInTheLedger
<1>4. NoLimits = Ledger!NoLimits
  BY DEF NoLimits, Ledger!NoLimits
<1>5. QED
  BY <1>1, <1>2, <1>3, <1>4 DEF Ledger!Reserve, Entries

LEMMA CommitIsLedgers ==
  ASSUME TypeOK, ChargesInv, JobsInv, NEW r \in Requests, Commits(r), UNCHANGED res
  PROVE  Ledger!Settle(r) \/ Ledger!Charge(r)
<1>1. res[r] \in Reservations /\ res[r].at \in 0..now
  <2>1. JobInv(r)
    BY DEF JobsInv
  <2>2. res[r] \in Reservations
    BY DEF Commits, TypeOK, HandlerTypeOK
  <2>3. QED
    BY <2>1, <2>2, WindowAssumption
       DEF JobInv, Reservations, TypeOK, TableTypeOK, Times
<1>2. /\ charges[r] = 0 /\ charges' = [charges EXCEPT ![r] = @ + 1]
      /\ \A q \in Requests \ {r} : status'[q] = status[q]
      /\ UNCHANGED now
  BY DEF Commits, JobCommits, ReconcileTransaction, UsageTransaction, TypeOK,
     TableTypeOK
<1>3. charges'[r] = 1 /\ \A q \in Requests \ {r} : charges'[q] = charges[q]
  BY <1>2 DEF TypeOK, TableTypeOK
<1>4. Entries' = [Entries EXCEPT ![r] =
                   Ledger!SettledEntry(res[r].at, res[r].limits, res[r].budget, Charge(r))]
  <2>1. EntryOf(r)' =
          Ledger!SettledEntry(res[r].at, res[r].limits, res[r].budget, Charge(r))
    BY <1>3 DEF EntryOf, Charge, Ledger!SettledEntry
  <2>2. \A q \in Requests \ {r} : EntryOf(q)' = EntryOf(q)
    BY <1>2, <1>3 DEF EntryOf, Charge
  <2>3. QED
    BY <2>1, <2>2, OneEntryChanges
<1>5. CASE Tracked(r)
  <2>1. status[r] = "reserved"
    BY <1>5 DEF Commits, JobCommits, ReconcileTransaction
  <2>2. /\ Entries[r].phase = "active"
        /\ Entries[r].at = res[r].at
        /\ Entries[r].limits = res[r].limits
        /\ Entries[r].budget = res[r].budget
    BY <1>2, <2>1 DEF Entries, EntryOf
  <2>3. Charge(r) \in Actuals \cup {res[r].budget}
    BY <1>1 DEF Charge, Reservations
  <2>4. QED
    BY <1>2, <1>4, <2>2, <2>3 DEF Ledger!Settle, Entries
<1>6. CASE ~Tracked(r)
  <2>1. status[r] = "absent"
    <3>1. ChargeInv(r)
      BY DEF ChargesInv
    <3>2. QED
      BY <1>6, <3>1 DEF ChargeInv
  <2>2. Entries[r].phase = "none"
    BY <1>2, <2>1 DEF Entries, EntryOf
  <2>3. res[r].limits = Ledger!NoLimits
    BY <1>6 DEF Tracked, NoLimits, Ledger!NoLimits
  <2>4. Charge(r) \in Actuals \ {0}
    BY <1>1, <1>6 DEF Charge, Reservations, Commits, JobCommits, NothingToRecord
  <2>5. res[r].budget \in Budgets
    BY <1>1 DEF Reservations
  <2>6. \E at \in 0..now, budget \in Budgets, cost \in Actuals \ {0} :
          Entries' = [Entries EXCEPT ![r] =
                       Ledger!SettledEntry(at, Ledger!NoLimits, budget, cost)]
    BY <1>1, <1>4, <2>3, <2>4, <2>5
  <2>7. QED
    BY <1>2, <2>2, <2>6 DEF Ledger!Charge, Entries
<1>7. QED
  BY <1>5, <1>6

(* A record that expires forgets an active entry; it takes nothing from a  *)
(* settled one.                                                            *)
LEMMA ExpireRecordIsLedgers ==
  ASSUME TypeOK, NEW r \in Requests, ExpireRecord(r, res[r].at), UNCHANGED res
  PROVE  Ledger!Forget(r) \/ (UNCHANGED now /\ Entries' = Entries)
<1>1. /\ now >= WeeklyTtl(res[r].at)
      /\ status[r] # "absent" /\ status'[r] = "absent"
      /\ \A q \in Requests \ {r} : status'[q] = status[q]
      /\ UNCHANGED <<now, charges>>
  BY DEF ExpireRecord, TypeOK, TableTypeOK
<1>2. \A q \in Requests \ {r} : EntryOf(q)' = EntryOf(q)
  BY <1>1 DEF EntryOf, Charge
<1>3. CASE ~(charges[r] > 0) /\ status[r] = "reserved"
  <2>1. EntryOf(r)' = Ledger!NoEntry
    BY <1>1, <1>3 DEF EntryOf, Ledger!NoEntry
  <2>2. Entries' = [Entries EXCEPT ![r] = Ledger!NoEntry]
    BY <1>2, <2>1, OneEntryChanges
  <2>3. Entries[r].phase = "active" /\ Entries[r].at = res[r].at
    BY <1>3 DEF Entries, EntryOf
  <2>4. QED
    BY <1>1, <2>2, <2>3, LedgerTtl DEF Ledger!Forget, Entries
<1>4. CASE charges[r] > 0 \/ status[r] # "reserved"
  <2>1. EntryOf(r)' = EntryOf(r)
    BY <1>1, <1>4 DEF EntryOf, Charge
  <2>2. QED
    BY <1>1, <1>2, <2>1 DEF Entries
<1>5. QED
  BY <1>3, <1>4

LEMMA NextIsLedgers ==
  ASSUME TypeOK, ChargesInv, MessageInv, JobsInv, EffectiveTotal, WindowsInv,
         ShownRight, ShownRight', [Next]_vars
  PROVE  [Ledger!Next]_<<now, Entries, Shown>>
<1>1. LedgerStep
  BY NextIsLedgerStep
<1>2. Shown' = Ledger!Shows(Entries', now')
  BY DEF ShownRight
<1>3. ASSUME UNCHANGED now, Entries' = Entries
      PROVE  UNCHANGED <<now, Entries, Shown>>
  BY <1>2, <1>3 DEF ShownRight
<1>4. ASSUME (\E r \in Requests : Ledger!Reserve(r) \/ Ledger!Settle(r)
                                   \/ Ledger!Charge(r) \/ Ledger!Forget(r))
             \/ Ledger!Tick
      PROVE  Ledger!Next
  BY <1>2, <1>4 DEF Ledger!Next, Shown, Entries
<1>5. CASE UNCHANGED tableVars /\ \A r \in Requests : EntryOf(r)' = EntryOf(r)
  BY <1>3, <1>5 DEF tableVars, Entries
<1>6. CASE /\ UNCHANGED res
           /\ \E r \in Requests : Reserves(r) \/ Commits(r)
  BY <1>4, <1>6, ReserveIsLedgers, CommitIsLedgers
<1>7. CASE UNCHANGED res /\ \E r \in Requests : ExpireRecord(r, res[r].at)
  BY <1>3, <1>4, <1>7, ExpireRecordIsLedgers
<1>8. CASE UNCHANGED res /\ \E w \in Windows : ExpireWindow(w)
  BY <1>3, <1>8 DEF ExpireWindow, Entries, EntryOf, Charge
<1>9. CASE UNCHANGED res /\ Tick
  <2>1. Entries' = Entries
    BY <1>9 DEF Tick, Entries, EntryOf, Charge
  <2>2. Ledger!Tick
    BY <1>9, <2>1 DEF Tick, Ledger!Tick, Entries
  <2>3. QED
    BY <1>4, <2>2
<1>10. QED
  BY <1>1, <1>5, <1>6, <1>7, <1>8, <1>9 DEF LedgerStep

(* Every behaviour of the handlers, workers, queue and table, however      *)
(* writes are lost, retried, redelivered or late, is a behaviour of the    *)
(* ledger: each request is entered at most once, settled once at what it   *)
(* cost, within the limits, and what each kept window shows is the sum of  *)
(* the entries in it.                                                      *)
THEOREM LedgerImplemented ==
  ASSUME ClockFits
  PROVE  Spec => ImplementsLedger
<1>1. Init => Ledger!Init \/ ~ShownRight
  <2> SUFFICES ASSUME Init, ShownRight PROVE Ledger!Init
    OBVIOUS
  <2>1. \A r \in Requests : EntryOf(r) = Ledger!NoEntry
    BY DEF Init, TableInit, EntryOf, Ledger!NoEntry
  <2>2. QED
    BY <2>1 DEF Init, TableInit, ShownRight, Shown, Entries, Ledger!Init
<1>2. /\ TypeOK /\ ChargesInv /\ CustodyInv /\ JobsInv /\ EffectiveTotal
      /\ WindowsInv /\ ShownRight /\ ShownRight' /\ [Next]_vars
      => [Ledger!Next]_<<now, Entries, Shown>>
  BY NextIsLedgers DEF CustodyInv
<1>3. QED
  BY <1>1, <1>2, WindowsShow, WindowsInvHolds, TypeCorrect, ChargesInvHolds,
     CustodyInvHolds, JobsInvHolds, EffectiveTotalHolds, PTL
     DEF Spec, ImplementsLedger, Ledger!Spec, Entries, Shown
=============================================================================

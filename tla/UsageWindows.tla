---------------------------- MODULE UsageWindows ----------------------------
(***************************************************************************)
(* The daily and weekly usage windows of token_usage.rs: which window an   *)
(* epoch second falls in, when that window starts, and when DynamoDB may   *)
(* delete its item.  A second is a u64; additions and multiplications      *)
(* saturate where the code's do.  The constants carry the code's names, so *)
(* that a model can take a shorter day and a shorter week.                 *)
(***************************************************************************)
EXTENDS Integers

CONSTANTS
  DAILY_WINDOW_SECONDS,   \* 86_400 in the code
  DaysPerWeek,            \* 7 in the code
  WeekOffset,             \* days from a Monday to the epoch (3 in the code)
  MaxU64,                 \* 2^64 - 1 in the code
  MaxTime                 \* BOUND: the seconds modelled are 0..MaxTime

ASSUME WindowAssumption ==
  /\ DAILY_WINDOW_SECONDS \in Nat \ {0}
  /\ DaysPerWeek \in Nat \ {0}
  /\ WeekOffset \in Nat
  /\ MaxU64 \in Nat
  /\ MaxTime \in 0..MaxU64

WEEKLY_WINDOW_SECONDS == DAILY_WINDOW_SECONDS * DaysPerWeek
MONDAY_WEEK_OFFSET_SECONDS == DAILY_WINDOW_SECONDS * WeekOffset

Times == 0..MaxTime

saturating_add(a, b) == IF a + b > MaxU64 THEN MaxU64 ELSE a + b
saturating_sub(a, b) == IF a < b THEN 0 ELSE a - b
saturating_mul(a, b) == IF a * b > MaxU64 THEN MaxU64 ELSE a * b

(* The start of the span of the given length that holds second s.          *)
SpanStart(s, length) == s - (s % length)

MondayAligned(s) == saturating_add(s, MONDAY_WEEK_OFFSET_SECONDS)

DailyWindow(s) == [kind |-> "daily", index |-> s \div DAILY_WINDOW_SECONDS]
WeeklyWindow(s) ==
  [kind |-> "weekly", index |-> MondayAligned(s) \div WEEKLY_WINDOW_SECONDS]
WindowsOf(s) == {DailyWindow(s), WeeklyWindow(s)}
Windows == UNION {WindowsOf(s) : s \in Times}

DailyWindowStart(s) == SpanStart(s, DAILY_WINDOW_SECONDS)

(* Mutant of WeeklyWindowStart: the week is taken to start with the epoch's *)
(* Thursday.                                                               *)
WeekStartOnThursday(s) == SpanStart(s, WEEKLY_WINDOW_SECONDS)

WeeklyWindowStart(s) ==
  saturating_sub(SpanStart(MondayAligned(s), WEEKLY_WINDOW_SECONDS),
                 MONDAY_WEEK_OFFSET_SECONDS)

(* token_usage_ttl_epoch_seconds: two windows after the window's start.    *)
UsageTtl(start, length) == saturating_add(start, saturating_mul(length, 2))

DailyTtl(s) == UsageTtl(DailyWindowStart(s), DAILY_WINDOW_SECONDS)
WeeklyTtl(s) == UsageTtl(WeeklyWindowStart(s), WEEKLY_WINDOW_SECONDS)

WindowTtl(kind, s) == IF kind = "daily" THEN DailyTtl(s) ELSE WeeklyTtl(s)
WindowSeconds(kind) ==
  IF kind = "daily" THEN DAILY_WINDOW_SECONDS ELSE WEEKLY_WINDOW_SECONDS

(* The windows that each second is in, or that ended no longer before it    *)
(* than they lasted: as long as that an item has to be kept.               *)
LiveWindows ==
  [s \in Times |-> {w \in Windows : \E t \in Times :
                     w \in WindowsOf(t) /\ s <= t + WindowSeconds(w.kind)}]
Live(w, s) == w \in LiveWindows[s]
=============================================================================

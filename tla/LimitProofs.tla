---------------------------- MODULE LimitProofs ----------------------------
(***************************************************************************)
(* Proofs about the two limits a request passes.                           *)
(*                                                                         *)
(* ActiveStreams, for any number of threads and any maximum: the counter   *)
(* is the number of guards, never more than the maximum, and every step is *)
(* one that StreamSlots allows.                                            *)
(*                                                                         *)
(* RateLimit, for any number of requests, any limit and any window: no     *)
(* window admits more requests than its limit.                             *)
(***************************************************************************)
EXTENDS ActiveStreams, RateLimit, FiniteSetTheorems, TLAPS

-----------------------------------------------------------------------------
(* The active-stream limit.                                                *)

(* The three invariants together are inductive: the swap succeeds on the   *)
(* latest value, which is the number of guards and below the limit.        *)
SlotsInv == TypeOK /\ CounterMatchesGuards /\ AtMostMax

LEMMA GuardsFinite == IsFiniteSet(Guards) /\ Cardinality(Guards) \in Nat
<1>1. IsFiniteSet(Guards)
  BY FS_Subset, ActiveStreamsAssumption DEF Guards
<1>2. QED
  BY <1>1, FS_CardinalityType

(* A thread that takes a slot adds one guard, one that releases removes it.*)
LEMMA GuardAdded ==
  ASSUME TypeOK, NEW t \in Threads, released[t],
         released' = [released EXCEPT ![t] = FALSE]
  PROVE  /\ t \notin Guards
         /\ Guards' = Guards \cup {t}
         /\ Cardinality(Guards') = Cardinality(Guards) + 1
<1>1. t \notin Guards /\ Guards' = Guards \cup {t}
  BY DEF TypeOK, Guards
<1>2. QED
  BY <1>1, GuardsFinite, FS_AddElement

LEMMA GuardRemoved ==
  ASSUME TypeOK, NEW t \in Threads, ~released[t],
         released' = [released EXCEPT ![t] = TRUE]
  PROVE  /\ t \in Guards
         /\ Guards' = Guards \ {t}
         /\ Cardinality(Guards') = Cardinality(Guards) - 1
<1>1. t \in Guards /\ Guards' = Guards \ {t}
  BY DEF TypeOK, Guards
<1>2. QED
  BY <1>1, GuardsFinite, FS_RemoveElement

LEMMA WriteTyped ==
  ASSUME TypeOK, NEW t \in Threads, NEW n \in Counter, Write(t, n)
  PROVE  active' \in Counter /\ visible' \in [Threads -> SUBSET Counter]
BY DEF TypeOK, Write

(* Releasing a guard decrements the counter, which was not zero.           *)
LEMMA ReleaseKeepsInv ==
  ASSUME SlotsInv, NEW t \in Threads, ReleaseGuard(t)
  PROVE  /\ active' \in Counter /\ visible' \in [Threads -> SUBSET Counter]
         /\ released' = [released EXCEPT ![t] = TRUE]
         /\ CounterMatchesGuards' /\ AtMostMax'
<1> USE DEF SlotsInv
<1>1. /\ t \in Guards /\ released' = [released EXCEPT ![t] = TRUE]
      /\ Cardinality(Guards') = Cardinality(Guards) - 1
  BY GuardRemoved DEF ReleaseGuard
<1>2. Cardinality(Guards) \in Nat \ {0}
  BY <1>1, GuardsFinite, FS_EmptySet
<1>3. Decremented = Cardinality(Guards) - 1
  <2>1. UsizeMax \in Nat /\ Cardinality(Guards) - 1 \in 0..UsizeMax
    BY <1>2, ActiveStreamsAssumption DEF AtMostMax
  <2>2. QED
    BY <2>1, <1>2 DEF Decremented, CounterMatchesGuards
<1>4. Decremented \in Counter
  BY <1>2, <1>3, ActiveStreamsAssumption DEF AtMostMax, Counter
<1>5. active' \in Counter /\ visible' \in [Threads -> SUBSET Counter]
  BY <1>4, WriteTyped DEF ReleaseGuard
<1>6. active' = Decremented
  BY DEF ReleaseGuard, Write
<1>7. QED
  BY <1>1, <1>2, <1>3, <1>5, <1>6, ActiveStreamsAssumption
     DEF CounterMatchesGuards, AtMostMax

LEMMA InitSlotsInv == Init => SlotsInv
<1> SUFFICES ASSUME Init PROVE SlotsInv
  OBVIOUS
<1>1. TypeOK
  BY ActiveStreamsAssumption DEF Init, TypeOK, Counter
<1>2. Guards = {}
  BY DEF Init, Guards
<1>3. QED
  BY <1>1, <1>2, FS_EmptySet, ActiveStreamsAssumption
     DEF SlotsInv, Init, CounterMatchesGuards, AtMostMax

LEMMA NextSlotsInv == SlotsInv /\ [Next]_vars => SlotsInv'
<1> SUFFICES ASSUME SlotsInv, [Next]_vars PROVE SlotsInv'
  OBVIOUS
<1> USE DEF SlotsInv
<1>1. ASSUME UNCHANGED <<active, released>>
      PROVE  CounterMatchesGuards' /\ AtMostMax'
  BY <1>1 DEF CounterMatchesGuards, AtMostMax, Guards
<1>2. CASE UNCHANGED vars
  BY <1>1, <1>2 DEF vars, TypeOK
<1>3. ASSUME NEW t \in Threads, ThreadNext(t) PROVE SlotsInv'
  <2>1. CASE Load(t) \/ Refuse(t) \/ SwapFails(t) \/ Finish(t)
    <3>1. TypeOK'
      BY <2>1 DEF TypeOK, Load, Refuse, SwapFails, Finish, Goto
    <3>2. QED
      BY <3>1, <1>1, <2>1 DEF Load, Refuse, SwapFails, Finish
  <2>2. CASE Swap(t)
    <3>1. released[t] /\ active < MaxStreams /\ active + 1 \in Counter
      BY <2>2, ActiveStreamsAssumption DEF Swap, TypeOK, Counter
    <3>2. active' = active + 1 /\ visible' \in [Threads -> SUBSET Counter]
      BY <2>2, <3>1, WriteTyped DEF Swap, Write
    <3>3. TypeOK'
      BY <2>2, <3>1, <3>2 DEF Swap, TypeOK, Goto
    <3>4. Cardinality(Guards') = Cardinality(Guards) + 1
      BY <2>2, <3>1, GuardAdded DEF Swap
    <3>5. QED
      BY <3>1, <3>2, <3>3, <3>4, GuardsFinite, ActiveStreamsAssumption
         DEF CounterMatchesGuards, AtMostMax
  <2>3. CASE FinishReleases(t)
    <3>1. TypeOK'
      BY <2>3, ReleaseKeepsInv DEF FinishReleases, ReleaseGuard, TypeOK, Goto
    <3>2. QED
      BY <3>1, <2>3, ReleaseKeepsInv DEF FinishReleases
  <2>4. CASE DropGuard(t) /\ ~released[t]
    <3>1. TypeOK'
      BY <2>4, ReleaseKeepsInv DEF DropGuard, ReleaseGuard, TypeOK, Goto
    <3>2. QED
      BY <3>1, <2>4, ReleaseKeepsInv DEF DropGuard
  <2>5. CASE DropGuard(t) /\ released[t]
    <3>1. TypeOK'
      BY <2>5 DEF DropGuard, TypeOK, Goto
    <3>2. QED
      BY <3>1, <1>1, <2>5 DEF DropGuard
  <2>6. QED
    BY <1>3, <2>1, <2>2, <2>3, <2>4, <2>5 DEF ThreadNext
<1>4. QED
  BY <1>2, <1>3 DEF Next

(* The tracker's counter, loops and guards keep their types (TypeOK).      *)
THEOREM TypeCorrect == Spec => []TypeOK
BY InitSlotsInv, NextSlotsInv, PTL DEF Spec, SlotsInv

(* The counter is the number of guards not given back.                     *)
THEOREM CounterIsGuards == Spec => []CounterMatchesGuards
BY InitSlotsInv, NextSlotsInv, PTL DEF Spec, SlotsInv

(* No interleaving of the compare-and-swap loops passes the limit.         *)
THEOREM NeverOverMax == Spec => []AtMostMax
BY InitSlotsInv, NextSlotsInv, PTL DEF Spec, SlotsInv

-----------------------------------------------------------------------------
(* The refinement of StreamSlots.                                          *)

LEMMA StepIsSlotsStep ==
  SlotsInv /\ [Next]_vars => [Slots!SlotsNext]_Guards
<1> SUFFICES ASSUME SlotsInv, [Next]_vars PROVE [Slots!SlotsNext]_Guards
  OBVIOUS
<1> USE DEF SlotsInv
<1>1. ASSUME UNCHANGED released PROVE UNCHANGED Guards
  BY <1>1 DEF Guards
<1>2. ASSUME NEW t \in Threads, ReleaseGuard(t) PROVE Slots!Release(t)
  BY <1>2, GuardRemoved DEF ReleaseGuard, Slots!Release
<1>3. ASSUME NEW t \in Threads, Swap(t) PROVE Slots!Acquire(t)
  <2>1. released[t] /\ active < MaxStreams
    BY <1>3 DEF Swap, TypeOK
  <2>2. t \notin Guards /\ Guards' = Guards \cup {t}
    BY <1>3, <2>1, GuardAdded DEF Swap
  <2>3. Slots!HasSlot
    <3>1. Slots!Cardinality(Guards) = Cardinality(Guards)
      BY DEF Slots!Cardinality, Cardinality
    <3>2. QED
      BY <2>1, <3>1 DEF Slots!HasSlot, CounterMatchesGuards
  <2>4. QED
    BY <2>2, <2>3 DEF Slots!Acquire
<1>4. CASE UNCHANGED vars
  BY <1>1, <1>4 DEF vars
<1>5. ASSUME NEW t \in Threads, ThreadNext(t) PROVE [Slots!SlotsNext]_Guards
  <2>1. CASE Load(t) \/ Refuse(t) \/ SwapFails(t) \/ Finish(t)
    BY <1>1, <2>1 DEF Load, Refuse, SwapFails, Finish
  <2>2. CASE Swap(t)
    BY <1>3, <2>2 DEF Slots!SlotsNext
  <2>3. CASE FinishReleases(t)
    BY <1>2, <2>3 DEF FinishReleases, Slots!SlotsNext
  <2>4. CASE DropGuard(t) /\ ~released[t]
    BY <1>2, <2>4 DEF DropGuard, Slots!SlotsNext
  <2>5. CASE DropGuard(t) /\ released[t]
    BY <1>1, <2>5 DEF DropGuard
  <2>6. QED
    BY <1>5, <2>1, <2>2, <2>3, <2>4, <2>5 DEF ThreadNext
<1>6. QED
  BY <1>4, <1>5 DEF Next

(* The compare-and-swap tracker implements the slots: a slot is taken only *)
(* when one is free at that moment, and given back exactly once.           *)
THEOREM Refinement == Spec => ImplementsSlots
<1>1. Init => Slots!SlotsInit
  BY DEF Init, Guards, Slots!SlotsInit
<1>2. QED
  BY <1>1, InitSlotsInv, NextSlotsInv, StepIsSlotsStep, PTL
     DEF Spec, ImplementsSlots, Slots!SlotsSpec

-----------------------------------------------------------------------------
(* The rate limit.                                                         *)

(* A window starts at or before its seconds and ends after them.           *)
LEMMA WindowContains ==
  ASSUME NEW second \in Seconds
  PROVE  /\ WindowStart(second) \in Starts
         /\ WindowStart(second) \in Nat
         /\ WindowStart(second) <= second
         /\ second < WindowStart(second) + Window
<1>1. second \in Nat /\ Window \in Nat \ {0}
  BY RateLimitAssumption DEF Seconds
<1>2. second % Window \in 0..(Window - 1) /\ second % Window <= second
  BY <1>1
<1>3. QED
  BY <1>1, <1>2 DEF WindowStart, Starts

(* The latest write of a check comes before its window's item can expire.  *)
LEMMA UpdatesBeforeTtl ==
  ASSUME NEW second \in Seconds, now \in Nat, now <= second + MaxDelay
  PROVE  now < Ttl(WindowStart(second))
<1>1. Window \in Nat /\ MaxDelay \in Nat /\ MaxDelay <= Window
  BY RateLimitAssumption
<1>2. second \in Nat
  BY DEF Seconds
<1>3. QED
  BY <1>1, <1>2, WindowContains DEF Ttl

-----------------------------------------------------------------------------
(* No update is under way for longer than MaxDelay.                        *)
UpdatesAreRecent ==
  \A r \in Requests : stage[r] = "updating" => now <= readAt[r] + MaxDelay

(* A counter is what its window was incremented by, until ttl deletes it.  *)
CountersAreExact ==
  \A start \in Starts : count[start] = increments[start] \/ now >= Ttl(start)

(* AdmittedWithinLimit is not inductive: after a deletion the counter      *)
(* would allow Limit increments more, if an update could still come.       *)
RateInv ==
  RateTypeOK /\ UpdatesAreRecent /\ CountersAreExact /\ AdmittedWithinLimit

LEMMA AdmittedFinite ==
  ASSUME NEW start
  PROVE  IsFiniteSet(Admitted(start)) /\ Cardinality(Admitted(start)) \in Nat
<1>1. IsFiniteSet(Admitted(start))
  BY FS_Subset, RateLimitAssumption DEF Admitted
<1>2. QED
  BY <1>1, FS_CardinalityType

LEMMA InitRateInv == RateInit => RateInv
<1> SUFFICES ASSUME RateInit PROVE RateInv
  OBVIOUS
<1>1. RateTypeOK
  BY RateLimitAssumption DEF RateInit, RateTypeOK, Seconds
<1>2. UpdatesAreRecent /\ CountersAreExact
  BY DEF RateInit, UpdatesAreRecent, CountersAreExact
<1>3. AdmittedWithinLimit
  <2>1. ASSUME NEW start \in Starts PROVE Cardinality(Admitted(start)) = 0
    <3>1. Admitted(start) = {}
      BY DEF RateInit, Admitted
    <3>2. QED
      BY <3>1, FS_EmptySet
  <2>2. QED
    BY <2>1, RateLimitAssumption DEF RateInit, AdmittedWithinLimit
<1>4. QED
  BY <1>1, <1>2, <1>3 DEF RateInv

-----------------------------------------------------------------------------
(* An update that is under way finds the exact counter.                    *)
LEMMA UpdateFindsExactCounter ==
  ASSUME RateInv, NEW r \in Requests, stage[r] = "updating"
  PROVE  /\ StartOf(r) \in Starts
         /\ count[StartOf(r)] = increments[StartOf(r)]
<1> USE DEF RateInv
<1>1. readAt[r] \in Seconds /\ now \in Nat /\ now <= readAt[r] + MaxDelay
  BY DEF RateTypeOK, Seconds, UpdatesAreRecent
<1>2. StartOf(r) \in Starts /\ now < Ttl(StartOf(r))
  BY <1>1, WindowContains, UpdatesBeforeTtl DEF StartOf
<1>3. StartOf(r) \in Nat
  BY <1>1, WindowContains DEF StartOf
<1>4. Ttl(StartOf(r)) \in Nat
  BY <1>3, RateLimitAssumption DEF Ttl
<1>5. QED
  BY <1>1, <1>2, <1>4 DEF CountersAreExact

(* An increment by an update that is under way finds the exact counter.    *)
LEMMA IncrementIsExact ==
  ASSUME RateInv, NEW r \in Requests, stage[r] = "updating",
         Increment(StartOf(r)), now' = now
  PROVE  /\ StartOf(r) \in Starts
         /\ count' \in [Starts -> 0..Limit]
         /\ increments' = [increments EXCEPT ![StartOf(r)] = @ + 1]
         /\ increments[StartOf(r)] + 1 <= Limit
         /\ CountersAreExact'
<1> USE DEF RateInv
<1>1. StartOf(r) \in Starts
  BY UpdateFindsExactCounter
<1>2. count[StartOf(r)] = increments[StartOf(r)]
  BY UpdateFindsExactCounter
<1>3. count' \in [Starts -> 0..Limit] /\ count[StartOf(r)] + 1 <= Limit
  BY <1>1, RateLimitAssumption DEF Increment, RateTypeOK
<1>4. CountersAreExact'
  <2> SUFFICES ASSUME NEW start \in Starts, ~ (now >= Ttl(start))
               PROVE  count'[start] = increments'[start]
    BY DEF CountersAreExact
  <2>1. count[start] = increments[start]
    BY DEF CountersAreExact
  <2>2. QED
    BY <1>1, <1>2, <2>1 DEF Increment, RateTypeOK
<1>5. QED
  BY <1>1, <1>2, <1>3, <1>4 DEF Increment

(* A step that admits nobody and only adds increments keeps the bound.     *)
LEMMA AdmittedKept ==
  ASSUME AdmittedWithinLimit, NEW start \in Starts,
         Admitted(start)' \subseteq Admitted(start),
         increments[start] \in Nat, increments'[start] \in Nat,
         increments'[start] >= increments[start]
  PROVE  Cardinality(Admitted(start)') <= increments'[start]
<1>1. /\ Cardinality(Admitted(start)') <= Cardinality(Admitted(start))
      /\ Cardinality(Admitted(start)') \in Nat
  BY AdmittedFinite, FS_Subset, FS_CardinalityType
<1>2. Cardinality(Admitted(start)) <= increments[start]
  BY DEF AdmittedWithinLimit
<1>3. QED
  BY <1>1, <1>2, AdmittedFinite

LEMMA ReadClockKeeps ==
  ASSUME RateInv, NEW r \in Requests, ReadClock(r)
  PROVE  RateInv'
<1> USE DEF RateInv
<1>1. RateTypeOK'
  BY DEF ReadClock, Enter, RateTypeOK, Seconds
<1>2. UpdatesAreRecent'
  BY RateLimitAssumption DEF ReadClock, Enter, RateTypeOK, Seconds, UpdatesAreRecent
<1>3. CountersAreExact'
  BY DEF ReadClock, CountersAreExact
<1>4. AdmittedWithinLimit'
  <2> SUFFICES ASSUME NEW start \in Starts
               PROVE  Cardinality(Admitted(start)') <= increments'[start]
    BY DEF ReadClock, AdmittedWithinLimit
  <2>1. Admitted(start)' \subseteq Admitted(start)
    BY DEF Admitted, ReadClock, Enter, RateTypeOK, StartOf
  <2>2. QED
    BY <2>1, AdmittedKept DEF ReadClock, RateTypeOK
<1>5. QED
  BY <1>1, <1>2, <1>3, <1>4

LEMMA AdmitKeeps ==
  ASSUME RateInv, NEW r \in Requests, Admit(r)
  PROVE  RateInv'
<1> USE DEF RateInv
<1>1. /\ StartOf(r) \in Starts
      /\ count' \in [Starts -> 0..Limit]
      /\ increments' = [increments EXCEPT ![StartOf(r)] = @ + 1]
      /\ increments[StartOf(r)] + 1 <= Limit
      /\ CountersAreExact'
  BY IncrementIsExact DEF Admit
<1>2. RateTypeOK'
  BY <1>1 DEF Admit, Enter, RateTypeOK
<1>3. UpdatesAreRecent'
  BY DEF Admit, Enter, RateTypeOK, UpdatesAreRecent
<1>4. ASSUME NEW start \in Starts
      PROVE  Cardinality(Admitted(start)') <= increments'[start]
  <2>1. CASE start = StartOf(r)
    <3>1. Admitted(start)' = Admitted(start) \cup {r} /\ r \notin Admitted(start)
      BY <2>1 DEF Admitted, Admit, Enter, RateTypeOK, StartOf
    <3>2. Cardinality(Admitted(start)') = Cardinality(Admitted(start)) + 1
      BY <3>1, AdmittedFinite, FS_AddElement
    <3>3. increments'[start] = increments[start] + 1 /\ increments[start] \in Nat
      BY <1>1, <2>1 DEF RateTypeOK
    <3>4. QED
      BY <3>2, <3>3, AdmittedFinite DEF AdmittedWithinLimit
  <2>2. CASE start # StartOf(r)
    <3>1. Admitted(start)' \subseteq Admitted(start)
      BY <2>2 DEF Admitted, Admit, Enter, RateTypeOK, StartOf
    <3>2. increments'[start] = increments[start] /\ increments[start] \in Nat
      BY <1>1, <2>2 DEF RateTypeOK
    <3>3. QED
      BY <3>1, <3>2, AdmittedKept
  <2>3. QED
    BY <2>1, <2>2
<1>5. AdmittedWithinLimit'
  BY <1>1, <1>4 DEF AdmittedWithinLimit, RateTypeOK
<1>6. QED
  BY <1>1, <1>2, <1>3, <1>5

LEMMA ClockFailsKeeps ==
  ASSUME RateInv, NEW r \in Requests, ClockFails(r)
  PROVE  RateInv'
<1> USE DEF RateInv
<1>1. RateTypeOK' /\ UpdatesAreRecent' /\ CountersAreExact'
  BY DEF ClockFails, Enter, RateTypeOK, UpdatesAreRecent, CountersAreExact
<1>2. AdmittedWithinLimit'
  <2> SUFFICES ASSUME NEW start \in Starts
               PROVE  Cardinality(Admitted(start)') <= increments'[start]
    BY DEF ClockFails, AdmittedWithinLimit
  <2>1. Admitted(start)' \subseteq Admitted(start)
    BY DEF Admitted, ClockFails, Enter, RateTypeOK, StartOf
  <2>2. QED
    BY <2>1, AdmittedKept DEF ClockFails, RateTypeOK
<1>3. QED
  BY <1>1, <1>2

LEMMA ExceededKeeps ==
  ASSUME RateInv, NEW r \in Requests, Exceeded(r)
  PROVE  RateInv'
<1> USE DEF RateInv
<1>1. RateTypeOK' /\ UpdatesAreRecent' /\ CountersAreExact'
  BY DEF Exceeded, Enter, RateTypeOK, UpdatesAreRecent, CountersAreExact
<1>2. AdmittedWithinLimit'
  <2> SUFFICES ASSUME NEW start \in Starts
               PROVE  Cardinality(Admitted(start)') <= increments'[start]
    BY DEF Exceeded, AdmittedWithinLimit
  <2>1. Admitted(start)' \subseteq Admitted(start)
    BY DEF Admitted, Exceeded, Enter, RateTypeOK, StartOf
  <2>2. QED
    BY <2>1, AdmittedKept DEF Exceeded, RateTypeOK
<1>3. QED
  BY <1>1, <1>2

LEMMA UnansweredKeeps ==
  ASSUME RateInv, NEW r \in Requests, Unanswered(r)
  PROVE  RateInv'
<1> USE DEF RateInv
<1>1. /\ count' \in [Starts -> 0..Limit]
      /\ CountersAreExact'
      /\ increments' \in [Starts -> Nat]
      /\ \A start \in Starts : /\ increments'[start] >= increments[start]
                               /\ increments'[start] <= Limit
  <2>1. CASE Increment(StartOf(r))
    <3>1. /\ StartOf(r) \in Starts
          /\ count' \in [Starts -> 0..Limit]
          /\ increments' = [increments EXCEPT ![StartOf(r)] = @ + 1]
          /\ increments[StartOf(r)] + 1 <= Limit
          /\ CountersAreExact'
      BY <2>1, IncrementIsExact DEF Unanswered
    <3>2. QED
      BY <3>1 DEF AdmittedWithinLimit, RateTypeOK
  <2>2. CASE UNCHANGED <<count, increments>>
    BY <2>2 DEF Unanswered, AdmittedWithinLimit, CountersAreExact, RateTypeOK
  <2>3. QED
    BY <2>1, <2>2 DEF Unanswered
<1>2. RateTypeOK'
  BY <1>1, RateLimitAssumption DEF Unanswered, Enter, RateTypeOK
<1>3. UpdatesAreRecent'
  BY DEF Unanswered, Enter, RateTypeOK, UpdatesAreRecent
<1>4. AdmittedWithinLimit'
  <2> SUFFICES ASSUME NEW start \in Starts
               PROVE  Cardinality(Admitted(start)') <= increments'[start]
    BY <1>1 DEF AdmittedWithinLimit
  <2>1. Admitted(start)' \subseteq Admitted(start)
    BY DEF Admitted, Unanswered, Enter, RateTypeOK, StartOf
  <2>2. increments[start] \in Nat /\ increments'[start] \in Nat
    BY <1>1 DEF RateTypeOK
  <2>3. QED
    BY <1>1, <2>1, <2>2, AdmittedKept
<1>5. QED
  BY <1>1, <1>2, <1>3, <1>4

LEMMA TtlDeletesKeeps ==
  ASSUME RateInv, NEW start \in Starts, TtlDeletes(start)
  PROVE  RateInv'
<1> USE DEF RateInv
<1>1. RateTypeOK' /\ UpdatesAreRecent'
  BY RateLimitAssumption DEF TtlDeletes, RateTypeOK, UpdatesAreRecent
<1>2. CountersAreExact'
  BY DEF TtlDeletes, RateTypeOK, CountersAreExact
<1>3. AdmittedWithinLimit'
  BY DEF TtlDeletes, AdmittedWithinLimit, Admitted, StartOf
<1>4. QED
  BY <1>1, <1>2, <1>3

LEMMA TickKeeps ==
  ASSUME RateInv, Tick
  PROVE  RateInv'
<1> USE DEF RateInv
<1>1. RateTypeOK'
  BY RateLimitAssumption DEF Tick, RateTypeOK, Seconds
<1>2. UpdatesAreRecent'
  BY RateLimitAssumption DEF Tick, RateTypeOK, Seconds, UpdatesAreRecent
<1>3. CountersAreExact'
  <2> SUFFICES ASSUME NEW start \in Starts, now >= Ttl(start)
               PROVE  now + 1 >= Ttl(start)
    BY DEF Tick, CountersAreExact
  <2>1. PICK second \in Seconds : start = WindowStart(second)
    BY DEF Starts
  <2>2. Ttl(start) \in Nat
    BY <2>1, WindowContains, RateLimitAssumption DEF Ttl
  <2>3. QED
    BY <2>2 DEF RateTypeOK, Seconds
<1>4. AdmittedWithinLimit'
  BY DEF Tick, AdmittedWithinLimit, Admitted, StartOf
<1>5. QED
  BY <1>1, <1>2, <1>3, <1>4

LEMMA NextRateInv == RateInv /\ [RateNext]_rateVars => RateInv'
<1> SUFFICES ASSUME RateInv, [RateNext]_rateVars PROVE RateInv'
  OBVIOUS
<1>1. ASSUME NEW r \in Requests, RequestNext(r) PROVE RateInv'
  BY <1>1, ReadClockKeeps, ClockFailsKeeps, AdmitKeeps, ExceededKeeps,
         UnansweredKeeps
     DEF RequestNext
<1>2. CASE UNCHANGED rateVars
  BY <1>2 DEF rateVars, RateInv, RateTypeOK, UpdatesAreRecent, CountersAreExact,
              AdmittedWithinLimit, Admitted, StartOf
<1>3. QED
  BY <1>1, <1>2, TtlDeletesKeeps, TickKeeps DEF RateNext

-----------------------------------------------------------------------------
LEMMA RateInvariant == RateSpec => []RateInv
BY InitRateInv, NextRateInv, PTL DEF RateSpec

(* Every variable has its type; in particular no counter passes its limit. *)
THEOREM RateTypeCorrect == RateSpec => []RateTypeOK
<1>1. RateInv => RateTypeOK
  BY DEF RateInv
<1>2. QED
  BY <1>1, RateInvariant, PTL

(* check_and_record admits no more requests in a window than its limit,    *)
(* for any number of concurrent checks, lost answers, retries and ttl      *)
(* deletions, as long as a write lands within MaxDelay of its clock read.  *)
THEOREM NoWindowOverAdmits == RateSpec => []AdmittedWithinLimit
<1>1. RateInv => AdmittedWithinLimit
  BY DEF RateInv
<1>2. QED
  BY <1>1, RateInvariant, PTL

-----------------------------------------------------------------------------
(* Refusals: a window's increments are attempts that may have counted, and *)
(* who is refused came after Limit of them.                                *)
IncrementsAreAttempts ==
  \A start \in Starts : increments[start] <= Cardinality(MayHaveCounted(start))
RefusedAfterIncrements ==
  \A r \in Requests : stage[r] = "limited" => increments[StartOf(r)] >= Limit
RefusalInv == IncrementsAreAttempts /\ RefusedAfterIncrements

LEMMA CountedFinite ==
  ASSUME NEW start
  PROVE  /\ IsFiniteSet(MayHaveCounted(start))
         /\ Cardinality(MayHaveCounted(start)) \in Nat
<1>1. IsFiniteSet(Requests) /\ IsFiniteSet(1..SdkAttempts)
  BY RateLimitAssumption, FS_Interval
<1>2. IsFiniteSet(Requests \X (1..SdkAttempts))
  BY <1>1, FS_Product
<1>3. IsFiniteSet(MayHaveCounted(start))
  BY <1>2, FS_Subset DEF MayHaveCounted
<1>4. QED
  BY <1>3, FS_CardinalityType

LEMMA CountedFiniteNext ==
  ASSUME NEW start
  PROVE  /\ IsFiniteSet(MayHaveCounted(start)')
         /\ Cardinality(MayHaveCounted(start)') \in Nat
<1>1. IsFiniteSet(Requests) /\ IsFiniteSet(1..SdkAttempts)
  BY RateLimitAssumption, FS_Interval
<1>2. IsFiniteSet(Requests \X (1..SdkAttempts))
  BY <1>1, FS_Product
<1>3. IsFiniteSet(MayHaveCounted(start)')
  BY <1>2, FS_Subset DEF MayHaveCounted
<1>4. QED
  BY <1>3, FS_CardinalityType

(* What may have counted stays so; a new increment needs a new attempt.    *)
LEMMA AttemptsKept ==
  ASSUME RateInv, IncrementsAreAttempts, NEW start \in Starts,
         MayHaveCounted(start) \subseteq MayHaveCounted(start)',
         \/ increments'[start] = increments[start]
         \/ /\ increments'[start] = increments[start] + 1
            /\ \E made \in MayHaveCounted(start)' : made \notin MayHaveCounted(start)
  PROVE  increments'[start] <= Cardinality(MayHaveCounted(start)')
<1> DEFINE old == MayHaveCounted(start)
           new == MayHaveCounted(start)'
<1>1. /\ increments[start] \in Nat
      /\ increments[start] <= Cardinality(old)
  BY DEF RateInv, RateTypeOK, IncrementsAreAttempts
<1>2. /\ IsFiniteSet(old) /\ Cardinality(old) \in Nat
      /\ IsFiniteSet(new) /\ Cardinality(new) \in Nat
  BY CountedFinite, CountedFiniteNext
<1>3. old \subseteq new
  OBVIOUS
<1>4. \/ increments'[start] = increments[start]
      \/ /\ increments'[start] = increments[start] + 1
         /\ \E made \in new : made \notin old
  OBVIOUS
<1> HIDE DEF old, new
<1>5. Cardinality(old) <= Cardinality(new)
  BY <1>2, <1>3, FS_Subset
<1>6. ASSUME NEW made \in new, made \notin old
      PROVE  Cardinality(old) + 1 <= Cardinality(new)
  <2>1. Cardinality(old \cup {made}) = Cardinality(old) + 1
    BY <1>2, <1>6, FS_AddElement
  <2>2. old \cup {made} \in SUBSET new
    BY <1>3, <1>6
  <2>3. Cardinality(old \cup {made}) <= Cardinality(new)
    BY ONLY <1>2, <2>2, FS_Subset
  <2>4. QED
    BY <2>1, <2>3
<1>7. increments'[start] <= Cardinality(new)
  BY <1>1, <1>2, <1>4, <1>5, <1>6
<1>8. QED
  BY <1>7 DEF new

(* Admit and Unanswered end an attempt, which then may have counted.       *)
LEMMA AttemptEnds ==
  ASSUME RateInv, RefusalInv, NEW r \in Requests, Admit(r) \/ Unanswered(r)
  PROVE  IncrementsAreAttempts'
<1> USE DEF RateInv
<1> SUFFICES ASSUME NEW start \in Starts
             PROVE  increments'[start] <= Cardinality(MayHaveCounted(start)')
  BY DEF IncrementsAreAttempts
<1>1. /\ stage[r] = "updating" /\ readAt' = readAt
      /\ Increment(StartOf(r)) \/ increments' = increments
      /\ \A q \in Requests \ {r} : stage'[q] = stage[q] /\ attempt'[q] = attempt[q]
  BY DEF Admit, Unanswered, Enter, RateTypeOK
<1>2. PICK last \in 1..SdkAttempts : last = attempt[r]
  BY DEF RateTypeOK
<1>3. MayCount(r, last)' /\ ~ MayCount(r, last)
  <2>1. last \in Nat /\ stage[r] = "updating"
    BY <1>1, RateLimitAssumption
  <2>2. attempt'[r] = last + 1 \/ (attempt'[r] = last /\ stage'[r] \in {"admitted", "failed"})
    BY <1>2, <2>1 DEF Admit, Unanswered, Enter, RateTypeOK
  <2>3. QED
    BY <1>2, <2>1, <2>2 DEF MayCount
<1>4. attempt'[r] \in Nat /\ attempt'[r] >= attempt[r]
  BY <1>2, RateLimitAssumption DEF Admit, Unanswered, RateTypeOK
<1>5. ASSUME NEW q \in Requests, NEW n \in 1..SdkAttempts, MayCount(q, n)
      PROVE  MayCount(q, n)'
  <2>1. CASE q = r
    BY <1>1, <1>2, <1>4, <1>5, <2>1, RateLimitAssumption DEF MayCount
  <2>2. CASE q # r
    BY <1>1, <1>5, <2>2 DEF MayCount
  <2>3. QED
    BY <2>1, <2>2
<1>6. MayHaveCounted(start) \subseteq MayHaveCounted(start)'
  BY <1>1, <1>5 DEF MayHaveCounted, StartOf
<1>7. CASE start = StartOf(r) /\ Increment(StartOf(r))
  <2>1. increments'[start] = increments[start] + 1
    BY <1>7 DEF Increment, RateTypeOK
  <2>2. <<r, last>> \in MayHaveCounted(start)'
    BY <1>1, <1>2, <1>3, <1>7 DEF MayHaveCounted, StartOf
  <2>3. <<r, last>> \notin MayHaveCounted(start)
    BY <1>3 DEF MayHaveCounted
  <2>4. QED
    BY <1>6, <2>1, <2>2, <2>3, AttemptsKept DEF RefusalInv
<1>8. CASE ~ (start = StartOf(r) /\ Increment(StartOf(r)))
  <2>1. increments'[start] = increments[start]
    BY <1>1, <1>8 DEF Increment, RateTypeOK
  <2>2. QED
    BY <1>6, <2>1, AttemptsKept DEF RefusalInv
<1>9. QED
  BY <1>7, <1>8

(* The other steps neither increment nor end an attempt.                   *)
LEMMA OthersKeepAttempts ==
  ASSUME RateInv, RefusalInv, UNCHANGED <<attempt, increments>>,
         \A r \in Requests :
           /\ stage'[r] \in {"admitted", "failed"} <=> stage[r] \in {"admitted", "failed"}
           /\ attempt[r] # 1 \/ stage[r] \in {"admitted", "failed"}
                => readAt'[r] = readAt[r]
  PROVE  IncrementsAreAttempts'
<1> SUFFICES ASSUME NEW start \in Starts
             PROVE  increments'[start] <= Cardinality(MayHaveCounted(start)')
  BY DEF IncrementsAreAttempts
<1>1. ASSUME NEW q \in Requests, NEW n \in 1..SdkAttempts, MayCount(q, n)
      PROVE  MayCount(q, n)' /\ readAt'[q] = readAt[q]
  <2>1. attempt[q] \in Nat /\ n >= 1
    BY RateLimitAssumption DEF RateInv, RateTypeOK
  <2>2. QED
    BY <1>1, <2>1 DEF MayCount
<1>2. MayHaveCounted(start) \subseteq MayHaveCounted(start)'
  BY <1>1 DEF MayHaveCounted, StartOf
<1>3. QED
  BY <1>2, AttemptsKept DEF RefusalInv

LEMMA NextRefusalInv ==
  RateInv /\ RefusalInv /\ [RateNext]_rateVars => RefusalInv'
<1> SUFFICES ASSUME RateInv, RefusalInv, [RateNext]_rateVars PROVE RefusalInv'
  OBVIOUS
<1> USE DEF RateInv
<1>1. IncrementsAreAttempts'
  <2>1. ASSUME NEW r \in Requests, ReadClock(r) \/ ClockFails(r) \/ Exceeded(r)
        PROVE  IncrementsAreAttempts'
    BY <2>1, OthersKeepAttempts
       DEF ReadClock, ClockFails, Exceeded, Enter, RateTypeOK
  <2>2. CASE Tick \/ UNCHANGED rateVars \/ \E start \in Starts : TtlDeletes(start)
    BY <2>2, OthersKeepAttempts DEF Tick, TtlDeletes, rateVars
  <2>3. QED
    BY <2>1, <2>2, AttemptEnds DEF RateNext, RequestNext
<1>2. RefusedAfterIncrements'
  <2> SUFFICES ASSUME NEW r \in Requests, stage'[r] = "limited"
               PROVE  increments'[StartOf(r)'] >= Limit
    BY DEF RefusedAfterIncrements
  <2>1. ASSUME NEW start \in Starts
        PROVE  increments'[start] >= increments[start] /\ increments'[start] \in Nat
    BY <2>1, RateLimitAssumption
       DEF RateNext, RequestNext, rateVars, ReadClock, ClockFails, Admit,
           Exceeded, Unanswered, TtlDeletes, Tick, Increment, RateTypeOK
  <2>2. readAt[r] \in Seconds /\ StartOf(r) \in Starts
    BY WindowContains DEF RateTypeOK, StartOf
  <2>3. CASE stage[r] = "limited"
    <3>1. StartOf(r)' = StartOf(r)
      BY <2>3 DEF RateNext, RequestNext, rateVars, ReadClock, ClockFails, Admit,
         Exceeded, Unanswered, TtlDeletes, Tick, RateTypeOK, StartOf
    <3>2. increments[StartOf(r)] >= Limit /\ increments[StartOf(r)] \in Nat
      BY <2>2, <2>3 DEF RefusalInv, RefusedAfterIncrements, RateTypeOK
    <3>3. QED
      BY <2>1, <2>2, <3>1, <3>2, RateLimitAssumption
  <2>4. CASE stage[r] # "limited"
    <3>1. Exceeded(r)
      BY <2>4 DEF RateNext, RequestNext, rateVars, ReadClock, ClockFails, Admit,
         Exceeded, Unanswered, TtlDeletes, Tick, Enter, RateTypeOK
    <3>2. count[StartOf(r)] = increments[StartOf(r)]
      BY <3>1, UpdateFindsExactCounter DEF Exceeded
    <3>3. QED
      BY <3>1, <3>2 DEF Exceeded, StartOf
  <2>5. QED
    BY <2>3, <2>4
<1>3. QED
  BY <1>1, <1>2 DEF RefusalInv

(* A check is refused only in a window in which Limit attempts admitted or *)
(* may have counted without an answer: a refusal is early by no more than  *)
(* the answers that were lost, for any retries and ttl deletions.          *)
THEOREM RefusalsAreEarned == RateSpec => []RefusedOnlyAtLimit
<1>1. RateInit => RefusalInv
  <2> SUFFICES ASSUME RateInit PROVE RefusalInv
    OBVIOUS
  <2>1. ASSUME NEW start \in Starts
        PROVE  increments[start] <= Cardinality(MayHaveCounted(start))
    BY <2>1, CountedFinite DEF RateInit
  <2>2. QED
    BY <2>1 DEF RateInit, RefusalInv, IncrementsAreAttempts, RefusedAfterIncrements
<1>2. RateInv /\ RefusalInv => RefusedOnlyAtLimit
  <2> SUFFICES ASSUME RateInv, RefusalInv, NEW r \in Requests, stage[r] = "limited"
               PROVE  Cardinality(MayHaveCounted(StartOf(r))) >= Limit
    BY DEF RefusedOnlyAtLimit
  <2>1. readAt[r] \in Seconds /\ StartOf(r) \in Starts
    BY WindowContains DEF RateInv, RateTypeOK, StartOf
  <2>2. /\ increments[StartOf(r)] \in Nat
        /\ increments[StartOf(r)] >= Limit
        /\ increments[StartOf(r)] <= Cardinality(MayHaveCounted(StartOf(r)))
    BY <2>1 DEF RateInv, RateTypeOK, RefusalInv, IncrementsAreAttempts,
                RefusedAfterIncrements
  <2>3. Cardinality(MayHaveCounted(StartOf(r))) \in Nat /\ Limit \in Nat
    BY CountedFinite, RateLimitAssumption
  <2>4. QED
    BY <2>2, <2>3
<1>3. QED
  BY <1>1, <1>2, InitRateInv, NextRateInv, NextRefusalInv, PTL DEF RateSpec
=============================================================================

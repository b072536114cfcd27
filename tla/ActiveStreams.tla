--------------------------- MODULE ActiveStreams ---------------------------
(***************************************************************************)
(* ActiveStreamTracker of streams.rs: a compare-and-swap loop on a shared  *)
(* counter, and a guard that gives the slot back once, by finish or by     *)
(* drop.  One action per atomic operation of a thread.                     *)
(*                                                                         *)
(* A Relaxed load need not see the latest value: "visible" holds, for each *)
(* thread, the values the counter took since the thread last wrote it, any *)
(* of which a load may return (coherence allows some of them only).  A     *)
(* successful compare-and-swap and fetch_sub act on the latest value.      *)
(***************************************************************************)
EXTENDS Integers, FiniteSets

CONSTANTS
  Threads,      \* request tasks, on any of the runtime's threads
  MaxStreams,   \* max_active_streams
  UsizeMax      \* the largest usize: fetch_sub wraps around

ASSUME ActiveStreamsAssumption ==
  /\ IsFiniteSet(Threads)
  /\ MaxStreams \in Nat
  /\ UsizeMax \in Nat
  /\ UsizeMax > MaxStreams

VARIABLES
  active,     \* the counter
  visible,    \* values a thread's next load may return
  pc,         \* where each thread is
  current,    \* the local of the loop: the value last loaded
  released    \* the "released" flag of the thread's guard

vars == <<active, visible, pc, current, released>>

Counter == 0..UsizeMax

Init ==
  /\ active = 0
  /\ visible = [t \in Threads |-> {0}]
  /\ pc = [t \in Threads |-> "idle"]
  /\ current = [t \in Threads |-> 0]
  /\ released = [t \in Threads |-> TRUE]

(* The counter becomes n by an access of thread t: t sees nothing older.   *)
Write(t, n) ==
  /\ active' = n
  /\ visible' = [u \in Threads |-> IF u = t THEN {n} ELSE visible[u] \cup {n}]

Goto(t, place) == pc' = [pc EXCEPT ![t] = place]

(* try_start_owned: the first load.                                        *)
Load(t) ==
  /\ pc[t] = "idle"
  /\ \E n \in visible[t] : current' = [current EXCEPT ![t] = n]
  /\ Goto(t, "loaded")
  /\ UNCHANGED <<active, visible, released>>

Refuse(t) ==
  /\ pc[t] = "loaded"
  /\ current[t] >= MaxStreams
  /\ Goto(t, "idle")
  /\ UNCHANGED <<active, visible, current, released>>

(* Mutant of Swap: a plain store of the loaded value plus one.             *)
SwapByStore(t) ==
  /\ pc[t] = "loaded"
  /\ current[t] < MaxStreams
  /\ Write(t, current[t] + 1)
  /\ released' = [released EXCEPT ![t] = FALSE]
  /\ Goto(t, "holding")
  /\ UNCHANGED current

(* compare_exchange_weak succeeds only on the latest value,                *)
Swap(t) ==
  /\ pc[t] = "loaded"
  /\ current[t] < MaxStreams
  /\ current[t] = active
  /\ Write(t, current[t] + 1)
  /\ released' = [released EXCEPT ![t] = FALSE]
  /\ Goto(t, "holding")
  /\ UNCHANGED current

(* and fails when the value changed, or spuriously: then it loads.         *)
SwapFails(t) ==
  /\ pc[t] = "loaded"
  /\ current[t] < MaxStreams
  /\ \E n \in visible[t] : current' = [current EXCEPT ![t] = n]
  /\ UNCHANGED <<active, visible, pc, released>>

(* finish consumes the guard: release, and then Drop runs as well.         *)
Finish(t) ==
  /\ pc[t] = "holding"
  /\ Goto(t, "finishing")
  /\ UNCHANGED <<active, visible, current, released>>

Decremented == (active - 1) % (UsizeMax + 1)

(* release: end_stream, and then the flag.                                 *)
ReleaseGuard(t) ==
  /\ ~released[t]
  /\ Write(t, Decremented)
  /\ released' = [released EXCEPT ![t] = TRUE]
  /\ UNCHANGED current

FinishReleases(t) ==
  /\ pc[t] = "finishing"
  /\ ReleaseGuard(t)
  /\ Goto(t, "dropping")

(* Mutant of DropGuard: the flag is not looked at.                         *)
DropAlwaysReleases(t) ==
  /\ pc[t] \in {"holding", "dropping"}
  /\ Write(t, Decremented)
  /\ released' = [released EXCEPT ![t] = TRUE]
  /\ Goto(t, "idle")
  /\ UNCHANGED current

(* Drop of a guard, finished before or not.                                *)
DropGuard(t) ==
  /\ pc[t] \in {"holding", "dropping"}
  /\ IF released[t]
     THEN UNCHANGED <<active, visible, current, released>>
     ELSE ReleaseGuard(t)
  /\ Goto(t, "idle")

ThreadNext(t) ==
  \/ Load(t) \/ Refuse(t) \/ Swap(t) \/ SwapFails(t)
  \/ Finish(t) \/ FinishReleases(t) \/ DropGuard(t)

Next == \E t \in Threads : ThreadNext(t)

Spec == Init /\ [][Next]_vars

-----------------------------------------------------------------------------
(* The guards that have not given their slot back.                         *)
Guards == {t \in Threads : ~released[t]}

(* Every variable has its type, and a thread inside the guard's life has   *)
(* been through the loop.                                                  *)
TypeOK ==
  /\ active \in Counter
  /\ visible \in [Threads -> SUBSET Counter]
  /\ pc \in [Threads -> {"idle", "loaded", "holding", "finishing",
                         "dropping"}]
  /\ current \in [Threads -> Counter]
  /\ released \in [Threads -> BOOLEAN]
  /\ \A t \in Threads : released[t] <=> pc[t] \notin {"holding", "finishing"}

(* The counter is the number of guards not given back: no slot leaks, and  *)
(* none is given back twice, which would wrap the counter below zero.      *)
CounterMatchesGuards == active = Cardinality(Guards)

(* The limit holds through every interleaving of the loops, stale loads    *)
(* and spurious failures included.                                         *)
AtMostMax == Cardinality(Guards) <= MaxStreams

(* Every step is one of the slots' promise: a slot is taken only when one  *)
(* is free at that very moment, and it comes back once.                    *)
Slots == INSTANCE StreamSlots WITH Holders <- Threads, holders <- Guards
ImplementsSlots == Slots!SlotsSpec
=============================================================================

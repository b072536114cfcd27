---------------------------- MODULE StreamSlots ----------------------------
(***************************************************************************)
(* What the active-stream limit of streams.rs promises: at most MaxStreams *)
(* provider requests hold a slot at a time, and a slot comes back when its *)
(* holder ends.  ActiveStreams implements it with an atomic counter, and   *)
(* StreamRelay and RequestPipeline use it.                                 *)
(***************************************************************************)
EXTENDS Integers, FiniteSets

CONSTANTS
  Holders,      \* what can hold a slot
  MaxStreams    \* max_active_streams of the configuration

ASSUME SlotsAssumption == MaxStreams \in Nat

VARIABLE holders    \* who holds a slot now

SlotsTypeOK == holders \in SUBSET Holders
SlotsInit == holders = {}

HasSlot == Cardinality(holders) < MaxStreams

Acquire(h) ==
  /\ h \notin holders
  /\ HasSlot
  /\ holders' = holders \cup {h}

Release(h) ==
  /\ h \in holders
  /\ holders' = holders \ {h}

SlotsNext == \E h \in Holders : Acquire(h) \/ Release(h)

SlotsSpec == SlotsInit /\ [][SlotsNext]_holders
=============================================================================

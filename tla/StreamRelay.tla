---------------------------- MODULE StreamRelay ----------------------------
(***************************************************************************)
(* Streamed responses of one proxy task: usage_recording_stream and the    *)
(* stream usage recorders of anthropic.rs and openai.rs.  A background     *)
(* relay per stream reads the provider, observes the usage it reports,     *)
(* forwards its chunks through a bounded channel while the client is       *)
(* there, keeps draining when it is not, and at the end reconciles the     *)
(* reservation; cancellation at shutdown cuts it short.                    *)
(*                                                                         *)
(* A relay's step is what it does between two awaits.  Chunks are numbered *)
(* by the provider; item 0 of a channel is the provider's error.           *)
(***************************************************************************)
EXTENDS StreamSlots, SequencesExt

CONSTANTS
  Streams,      \* requests whose answer is streamed
  Capacity,     \* STREAM_CHANNEL_CAPACITY (8 in the code)
  MaxChunks,    \* BOUND: chunks a provider sends on a stream
  Reports,      \* usage a chunk may carry: a function from usage fields
  Unreported    \* "None": the provider reported no usage

ASSUME RelayAssumption ==
  /\ Holders = Streams
  /\ Capacity \in Nat \ {0}
  /\ MaxChunks \in Nat
  /\ Unreported \notin Int
  /\ \A report \in Reports :
       IsFiniteSet(DOMAIN report) /\ report \in [DOMAIN report -> Nat]

VARIABLES
  task,         \* where each stream's handler or relay is
  connected,    \* downstream_connected
  usage,        \* usage observed by the recorder
  charge,       \* actual_tokens passed to reconcile
  reservation,  \* what became of the reservation
  chan,         \* items in the channel
  client,       \* the client, the channel's receiver
  got,          \* history: items the client received
  reports,      \* history: what each of the provider's chunks reported
  provider,     \* how the provider's stream stands
  cancelled,    \* the cancellation token
  running       \* the tokio runtime

relayVars == <<holders, task, connected, usage, charge, reservation>>
clientVars == <<chan, client, got>>
providerVars == <<reports, provider>>
vars == <<holders, task, connected, usage, charge, reservation,
          chan, client, got, reports, provider, cancelled, running>>

ErrorItem == 0
Nothing == [f \in {} |-> 0]
Relaying == {"spawned", "polling", "sending", "sendingError", "reconciling"}

Init ==
  /\ SlotsInit
  /\ task = [s \in Streams |-> "idle"]
  /\ connected = [s \in Streams |-> TRUE]
  /\ usage = [s \in Streams |-> Nothing]
  /\ charge = [s \in Streams |-> Unreported]
  /\ reservation = [s \in Streams |-> "none"]
  /\ chan = [s \in Streams |-> <<>>]
  /\ client = [s \in Streams |-> "none"]
  /\ got = [s \in Streams |-> <<>>]
  /\ reports = [s \in Streams |-> <<>>]
  /\ provider = [s \in Streams |-> "open"]
  /\ cancelled = FALSE
  /\ running = TRUE

Goto(s, place) == task' = [task EXCEPT ![s] = place]

-----------------------------------------------------------------------------
(* Handlers.                                                               *)

(* A slot is taken before the body is read (handle_messages), also for a   *)
(* request on a connection that was accepted before the cancellation.      *)
Begin(s) ==
  /\ task[s] = "idle"
  /\ running
  /\ Acquire(s)
  /\ Goto(s, "handling")
  /\ UNCHANGED <<connected, usage, charge, reservation, clientVars,
                 providerVars, cancelled, running>>

(* An error, an answer that is not streamed or a dropped handler: the      *)
(* guard is dropped with forward_messages.                                 *)
HandlerEnds(s) ==
  /\ task[s] = "handling"
  /\ Release(s)
  /\ Goto(s, "done")
  /\ UNCHANGED <<connected, usage, charge, reservation, clientVars,
                 providerVars, cancelled, running>>

(* usage_recording_stream: the relay takes the guard and the reservation.  *)
StartRelay(s) ==
  /\ task[s] = "handling"
  /\ Goto(s, "spawned")
  /\ reservation' = [reservation EXCEPT ![s] = "held"]
  /\ client' = [client EXCEPT ![s] = "reading"]
  /\ UNCHANGED <<holders, connected, usage, charge, chan, got, providerVars,
                 cancelled, running>>

-----------------------------------------------------------------------------
(* Relays.                                                                 *)

(* A later report replaces the fields it has and leaves the others.        *)
Merge(report, seen) ==
  [f \in DOMAIN report \cup DOMAIN seen |->
     IF f \in DOMAIN report THEN report[f] ELSE seen[f]]

TotalTokens(u) ==
  IF DOMAIN u = {} THEN Unreported ELSE SumFunction(u)

(* Leaving the loop: record_observed_usage takes the reservation and calls *)
(* reconcile with the observed total, before any further await.            *)
StopAndReconcile(s) ==
  /\ Goto(s, "reconciling")
  /\ charge' = [charge EXCEPT ![s] = TotalTokens(usage[s])]
  /\ reservation' = [reservation EXCEPT ![s] = "reconciling"]
  /\ UNCHANGED <<holders, connected, usage>>

FirstPoll(s) ==
  /\ task[s] = "spawned"
  /\ Goto(s, "polling")
  /\ UNCHANGED <<holders, connected, usage, charge, reservation, clientVars,
                 providerVars, cancelled, running>>

(* Mutant of ChunkArrives: only forwarded chunks are observed.             *)
ChunkArrivesObservedIfForwarded(s) ==
  /\ task[s] = "polling"
  /\ provider[s] = "open"
  /\ Len(reports[s]) < MaxChunks
  /\ \E report \in Reports :
       /\ reports' = [reports EXCEPT ![s] = Append(@, report)]
       /\ usage' = [usage EXCEPT ![s] =
                      IF connected[s] THEN Merge(report, @) ELSE @]
  /\ Goto(s, IF connected[s] THEN "sending" ELSE "polling")
  /\ UNCHANGED <<holders, connected, charge, reservation, clientVars,
                 provider, cancelled, running>>

(* provider_stream.next() yields a chunk: observe it, then forward it.     *)
ChunkArrives(s) ==
  /\ task[s] = "polling"
  /\ provider[s] = "open"
  /\ Len(reports[s]) < MaxChunks
  /\ \E report \in Reports :
       /\ reports' = [reports EXCEPT ![s] = Append(@, report)]
       /\ usage' = [usage EXCEPT ![s] = Merge(report, @)]
  /\ Goto(s, IF connected[s] THEN "sending" ELSE "polling")
  /\ UNCHANGED <<holders, connected, charge, reservation, clientVars,
                 provider, cancelled, running>>

ProviderEnds(s) ==
  /\ task[s] = "polling"
  /\ provider[s] = "open"
  /\ provider' = [provider EXCEPT ![s] = "ended"]
  /\ StopAndReconcile(s)
  /\ UNCHANGED <<clientVars, reports, cancelled, running>>

(* Mutants of ProviderFails: the loop goes on,                             *)
ProviderFailsUnnoticed(s) ==
  /\ task[s] = "polling"
  /\ provider[s] = "open"
  /\ provider' = [provider EXCEPT ![s] = "failed"]
  /\ UNCHANGED <<relayVars, clientVars, reports, cancelled, running>>

(* or the error is not forwarded.                                          *)
ProviderFailsSilently(s) ==
  /\ task[s] = "polling"
  /\ provider[s] = "open"
  /\ provider' = [provider EXCEPT ![s] = "failed"]
  /\ StopAndReconcile(s)
  /\ UNCHANGED <<clientVars, reports, cancelled, running>>

(* The provider's stream fails, by its read timeout at the latest.         *)
ProviderFails(s) ==
  /\ task[s] = "polling"
  /\ provider[s] = "open"
  /\ provider' = [provider EXCEPT ![s] = "failed"]
  /\ IF connected[s]
     THEN /\ Goto(s, "sendingError")
          /\ UNCHANGED <<holders, connected, usage, charge, reservation>>
     ELSE StopAndReconcile(s)
  /\ UNCHANGED <<clientVars, reports, cancelled, running>>

(* The channel has room and its receiver is there.                         *)
Room(s) == client[s] = "reading" /\ Len(chan[s]) < Capacity

(* sender.send of the chunk just observed: it waits for room,              *)
Send(s) ==
  /\ task[s] = "sending"
  /\ Room(s)
  /\ chan' = [chan EXCEPT ![s] = Append(@, Len(reports[s]))]
  /\ Goto(s, "polling")
  /\ UNCHANGED <<holders, connected, usage, charge, reservation, client, got,
                 providerVars, cancelled, running>>

(* Mutant of SendFails: the relay returns when the client has left.        *)
SendFailsAndStops(s) ==
  /\ task[s] = "sending"
  /\ client[s] # "reading"
  /\ Goto(s, "done")
  /\ Release(s)
  /\ UNCHANGED <<connected, usage, charge, reservation, clientVars,
                 providerVars, cancelled, running>>

(* and fails when the client has left: the relay only drains from then on. *)
SendFails(s) ==
  /\ task[s] = "sending"
  /\ client[s] # "reading"
  /\ connected' = [connected EXCEPT ![s] = FALSE]
  /\ Goto(s, "polling")
  /\ UNCHANGED <<holders, usage, charge, reservation, clientVars,
                 providerVars, cancelled, running>>

(* The provider's error is forwarded, or there is nobody to get it.        *)
SendError(s) ==
  /\ task[s] = "sendingError"
  /\ \/ /\ Room(s)
        /\ chan' = [chan EXCEPT ![s] = Append(@, ErrorItem)]
     \/ client[s] # "reading" /\ UNCHANGED chan
  /\ StopAndReconcile(s)
  /\ UNCHANGED <<client, got, providerVars, cancelled, running>>

(* Mutants of CancelledWhileSending: the send is not in a select!, or the  *)
(* cancellation only gives up the chunk and the loop goes on.              *)
SendNotCancellable(s) ==
  /\ task[s] \in {"sending", "sendingError"}
  /\ cancelled
  /\ Room(s) \/ client[s] # "reading"
  /\ StopAndReconcile(s)
  /\ UNCHANGED <<clientVars, providerVars, cancelled, running>>

(* The cancelled branches of the three select!s.                           *)
CancelledWhilePolling(s) ==
  /\ task[s] = "polling"
  /\ cancelled
  /\ StopAndReconcile(s)
  /\ UNCHANGED <<clientVars, providerVars, cancelled, running>>

CancelledWhileSending(s) ==
  /\ task[s] \in {"sending", "sendingError"}
  /\ cancelled
  /\ StopAndReconcile(s)
  /\ UNCHANGED <<clientVars, providerVars, cancelled, running>>

(* Mutant of Reconciled: the guard is forgotten.                           *)
ReconciledKeepingSlot(s) ==
  /\ task[s] = "reconciling"
  /\ reservation' = [reservation EXCEPT ![s] = "settled"]
  /\ Goto(s, "done")
  /\ UNCHANGED <<holders, connected, usage, charge, clientVars, providerVars,
                 cancelled, running>>

(* reconcile returns; the end of the task drops guard and sender.          *)
Reconciled(s) ==
  /\ task[s] = "reconciling"
  /\ reservation' = [reservation EXCEPT ![s] = "settled"]
  /\ Release(s)
  /\ Goto(s, "done")
  /\ UNCHANGED <<connected, usage, charge, clientVars, providerVars,
                 cancelled, running>>

-----------------------------------------------------------------------------
(* Clients: the body stream, which is the channel's receiver.              *)

(* An error item makes the server abort the connection.                    *)
Receive(s) ==
  /\ client[s] = "reading"
  /\ chan[s] # <<>>
  /\ got' = [got EXCEPT ![s] = Append(@, Head(chan[s]))]
  /\ chan' = [chan EXCEPT ![s] = Tail(@)]
  /\ client' = [client EXCEPT ![s] =
                  IF Head(chan[s]) = ErrorItem THEN "failed" ELSE @]
  /\ UNCHANGED <<relayVars, providerVars, cancelled, running>>

(* Mutant of SeesEnd: the sender is dropped before reconcile.              *)
SeesEndEarly(s) ==
  /\ client[s] = "reading"
  /\ chan[s] = <<>>
  /\ task[s] \in {"reconciling", "done"}
  /\ client' = [client EXCEPT ![s] = "ended"]
  /\ UNCHANGED <<relayVars, chan, got, providerVars, cancelled, running>>

(* The channel is empty and its sender dropped: the body ends.             *)
SeesEnd(s) ==
  /\ client[s] = "reading"
  /\ chan[s] = <<>>
  /\ task[s] = "done"
  /\ client' = [client EXCEPT ![s] = "ended"]
  /\ UNCHANGED <<relayVars, chan, got, providerVars, cancelled, running>>

Leaves(s) ==
  /\ client[s] = "reading"
  /\ client' = [client EXCEPT ![s] = "left"]
  /\ chan' = [chan EXCEPT ![s] = <<>>]
  /\ UNCHANGED <<relayVars, got, providerVars, cancelled, running>>

-----------------------------------------------------------------------------
(* Shutdown: main.rs and background_tasks.rs.                              *)

(* shutdown_signal, then cancel.                                           *)
Cancel ==
  /\ ~cancelled
  /\ cancelled' = TRUE
  /\ UNCHANGED <<relayVars, clientVars, providerVars, running>>

(* The server waits for its connections, and then SHUTDOWN_TIMEOUT at most *)
(* for the tasks; main's return drops the runtime with the relays left,    *)
(* their reservations held or their reconcile under way.  What their       *)
(* recorders' Drop spawns on it does not run any more.                     *)
RuntimeDropped ==
  /\ running
  /\ cancelled
  /\ \A s \in Streams : client[s] # "reading" /\ task[s] # "handling"
  /\ running' = FALSE
  /\ task' = [s \in Streams |-> IF task[s] \in Relaying THEN "aborted" ELSE task[s]]
  /\ holders' = {}
  /\ UNCHANGED <<connected, usage, charge, reservation, clientVars, providerVars,
                 cancelled>>

-----------------------------------------------------------------------------
HandlerNext(s) == Begin(s) \/ HandlerEnds(s) \/ StartRelay(s)

RelayNext(s) ==
  \/ FirstPoll(s) \/ Send(s) \/ SendFails(s) \/ SendError(s)
  \/ CancelledWhilePolling(s) \/ CancelledWhileSending(s) \/ Reconciled(s)

ProviderNext(s) == ChunkArrives(s) \/ ProviderEnds(s) \/ ProviderFails(s)

ClientReads(s) == Receive(s) \/ SeesEnd(s)
ClientNext(s) == ClientReads(s) \/ Leaves(s)

Next ==
  \/ \E s \in Streams :
       HandlerNext(s) \/ RelayNext(s) \/ ProviderNext(s) \/ ClientNext(s)
  \/ Cancel
  \/ RuntimeDropped

Spec == Init /\ [][Next]_vars

(* The runtime schedules relays that can move, and reconcile returns: its  *)
(* attempts and its SDK calls are bounded.                                 *)
RelaysRun == \A s \in Streams : WF_vars(RelayNext(s))

(* A silent provider fails by the client's read timeout (300 s), and a     *)
(* client that does not leave reads on.                                    *)
PeersMove == \A s \in Streams : /\ WF_vars(ProviderNext(s))
                                /\ WF_vars(ClientReads(s))

ShutdownSpec == Spec /\ RelaysRun
ServingSpec == Spec /\ RelaysRun /\ PeersMove

-----------------------------------------------------------------------------
Items == 0..MaxChunks

(* Every variable has its type, the channel keeps its capacity, and a      *)
(* relay has a reservation as long as it has not called reconcile.         *)
TypeOK ==
  /\ SlotsTypeOK
  /\ task \in [Streams -> Relaying \cup {"idle", "handling", "done", "aborted"}]
  /\ connected \in [Streams -> BOOLEAN]
  /\ charge \in [Streams -> Nat \cup {Unreported}]
  /\ reservation \in [Streams -> {"none", "held", "reconciling", "settled"}]
  /\ chan \in [Streams -> BoundedSeq(Items, Capacity)]
  /\ client \in [Streams -> {"none", "reading", "left", "failed", "ended"}]
  /\ got \in [Streams -> BoundedSeq(Items, MaxChunks + 1)]
  /\ reports \in [Streams -> BoundedSeq(Reports, MaxChunks)]
  /\ provider \in [Streams -> {"open", "ended", "failed"}]
  /\ cancelled \in BOOLEAN /\ running \in BOOLEAN
  /\ \A s \in Streams :
       task[s] \in Relaying \ {"reconciling"} => reservation[s] = "held"

(* A client receives the provider's chunks in order and without a gap, and *)
(* the provider's error after the last of them, if at all.                 *)
ClientSeesPrefix ==
  \A s \in Streams : \A i \in 1..Len(got[s]) :
    \/ got[s][i] = i /\ i <= Len(reports[s])
    \/ /\ got[s][i] = ErrorItem
       /\ provider[s] = "failed"
       /\ i = Len(reports[s]) + 1 /\ i = Len(got[s])

(* A body that ends cleanly was complete, unless the service was shutting  *)
(* down: a failed provider never looks like a finished one.                *)
CleanEndIsComplete ==
  \A s \in Streams :
    client[s] = "ended" /\ ~cancelled =>
      provider[s] = "ended" /\ Len(got[s]) = Len(reports[s])

(* What a client has is what the provider sent, and it can tell a whole    *)
(* answer from one that broke off.                                         *)
ClientIsNotMisled == ClientSeesPrefix /\ CleanEndIsComplete

(* What the provider reported, whoever received it: the last value of each *)
(* field over all its chunks.                                              *)
Fields(s) == UNION {DOMAIN reports[s][i] : i \in 1..Len(reports[s])}
LastValue(s, f) ==
  LET i == Max({j \in 1..Len(reports[s]) : f \in DOMAIN reports[s][j]})
  IN  reports[s][i][f]
Reported(s) ==
  IF Fields(s) = {} THEN Unreported
  ELSE SumFunction([f \in Fields(s) |-> LastValue(s, f)])

(* reconcile is called with the total of what the provider reported up to  *)
(* the end of its stream (or the cancellation), also for a client that     *)
(* left in the middle, and the provider is drained until it is over.       *)
ChargesWhatWasReported ==
  \A s \in Streams : reservation[s] \in {"reconciling", "settled"} =>
    /\ charge[s] = Reported(s)
    /\ provider[s] # "open" \/ cancelled

(* The client's body ends only after its reservation was reconciled.       *)
EndMeansSettled ==
  \A s \in Streams : client[s] = "ended" => reservation[s] = "settled"

(* A slot is held exactly as long as a handler or a relay is at work, so   *)
(* while a reservation is unsettled, and the limit holds.                  *)
SlotHeldWhileWorking ==
  /\ \A s \in Streams :
       s \in holders <=> task[s] \in Relaying \cup {"handling"}
  /\ Cardinality(holders) <= MaxStreams

(* A relay keeps its slot and its reservation together to the end of every *)
(* way it can take: the provider ends or fails, the client leaves while    *)
(* the relay waits for room, the service cancels.  While the process runs  *)
(* an unsettled reservation has a relay that still works on it, and that   *)
(* relay its slot; main's return leaves only those of clients that had     *)
(* gone, after the cancellation.                                           *)
RelaysSettle ==
  \A s \in Streams : client[s] # "none" =>
    /\ running =>
         /\ s \in holders <=> reservation[s] # "settled"
         /\ s \in holders => task[s] \in Relaying
    /\ ~running /\ reservation[s] # "settled" =>
         cancelled /\ client[s] \in {"left", "failed"}

(* Cancellation ends every relay, though the provider be silent and the    *)
(* client neither read nor leave.                                          *)
ShutdownDrains ==
  \A s \in Streams : cancelled /\ task[s] \in Relaying ~> task[s] \notin Relaying

(* Every relay ends and gives its slot back, whether its client reads to   *)
(* the end or leaves.                                                      *)
SlotsComeBack == \A s \in Streams : task[s] = "spawned" ~> s \notin holders

(* A client that stays is told how its stream ended.                       *)
ClientsAreAnswered ==
  \A s \in Streams : client[s] = "reading" ~> client[s] # "reading"
=============================================================================

------------------------- MODULE StreamRelayProofs -------------------------
(***************************************************************************)
(* Proofs about StreamRelay, for any number of streams, any channel        *)
(* capacity and any length of an answer: what a client is told of its      *)
(* stream, and what becomes of the stream's reservation and slot.          *)
(***************************************************************************)
EXTENDS StreamRelay, SumTheorems, SequenceTheorems, TLAPS

Places == Relaying \cup {"idle", "handling", "done", "aborted"}
NotStarted == {"idle", "handling"}

(* The types, without bounds on lengths and without the recorded usage.    *)
RelayTyped ==
  /\ task \in [Streams -> Places]
  /\ connected \in [Streams -> BOOLEAN]
  /\ reservation \in [Streams -> {"none", "held", "reconciling", "settled"}]
  /\ chan \in [Streams -> Seq(Nat)]
  /\ client \in [Streams -> {"none", "reading", "left", "failed", "ended"}]
  /\ got \in [Streams -> Seq(Nat)]
  /\ reports \in [Streams -> Seq(Reports)]
  /\ provider \in [Streams -> {"open", "ended", "failed"}]
  /\ DOMAIN charge = Streams /\ DOMAIN usage = Streams
  /\ cancelled \in BOOLEAN /\ running \in BOOLEAN

(* What a relay's place says of the reservation and of its client.         *)
SettlementInv(s) ==
  /\ client[s] = "none" <=> reservation[s] = "none"
  /\ task[s] \in NotStarted => client[s] = "none"
  /\ task[s] \in Relaying \ {"reconciling"} => reservation[s] = "held"
  /\ task[s] = "reconciling" => reservation[s] = "reconciling"
  /\ task[s] = "done" /\ client[s] # "none" => reservation[s] = "settled"
  /\ task[s] = "aborted" =>
       ~running /\ client[s] \in {"left", "failed"} /\ reservation[s] # "settled"
  /\ client[s] = "ended" => task[s] = "done"
  /\ ~running =>
       /\ cancelled /\ client[s] # "reading"
       /\ task[s] \notin Relaying \cup {"handling"}

(* Item k of what a client gets, whether from got or still in the channel. *)
IsChunk(s, item, k) == item = k /\ k <= Len(reports[s])
IsError(s, item, k) ==
  item = ErrorItem /\ provider[s] = "failed" /\ k = Len(reports[s]) + 1

(* While a client reads it has chunks only; the channel goes on where it   *)
(* stands, and the provider's error can be its last item.                  *)
ReadingInv(s) ==
  /\ \A i \in 1..Len(got[s]) : IsChunk(s, got[s][i], i)
  /\ \A i \in 1..Len(chan[s]) :
       \/ IsChunk(s, chan[s][i], Len(got[s]) + i)
       \/ IsError(s, chan[s][i], Len(got[s]) + i) /\ i = Len(chan[s])

(* How many of the provider's chunks a reading client was sent, by the     *)
(* relay's place; a cancelled relay may have given one up.                 *)
Forwarded(s) == Len(got[s]) + Len(chan[s])
ProgressInv(s) ==
  /\ connected[s]
  /\ task[s] \in {"spawned", "polling"} => Forwarded(s) = Len(reports[s])
  /\ task[s] = "sending" => Forwarded(s) + 1 = Len(reports[s])
  /\ task[s] = "sendingError" => Forwarded(s) = Len(reports[s])
  /\ task[s] \in {"reconciling", "done"} /\ ~cancelled =>
       \/ provider[s] = "ended" /\ Forwarded(s) = Len(reports[s])
       \/ provider[s] = "failed" /\ Forwarded(s) = Len(reports[s]) + 1

(* Nothing has come before the relay runs, and the provider's stream is    *)
(* over only when the relay has seen it.                                   *)
ProviderInv(s) ==
  /\ task[s] \in NotStarted \cup {"spawned"} =>
       connected[s] /\ got[s] = <<>> /\ chan[s] = <<>> /\ reports[s] = <<>>
  /\ client[s] = "none" => got[s] = <<>>
  /\ task[s] \in NotStarted \cup {"spawned", "polling", "sending"} =>
       provider[s] = "open"
  /\ task[s] = "sendingError" => provider[s] = "failed"

(* The two halves of ClientIsNotMisled, for one stream.                    *)
GotPrefix(s) ==
  \A i \in 1..Len(got[s]) :
    \/ IsChunk(s, got[s][i], i)
    \/ IsError(s, got[s][i], i) /\ i = Len(got[s])
EndedWhole(s) ==
  client[s] = "ended" /\ ~cancelled =>
    provider[s] = "ended" /\ Len(got[s]) = Len(reports[s])

DeliveryInv(s) ==
  /\ ProviderInv(s) /\ GotPrefix(s) /\ EndedWhole(s)
  /\ client[s] = "reading" => ReadingInv(s) /\ ProgressInv(s)

StreamInv(s) == SettlementInv(s) /\ DeliveryInv(s)
RelayInv == RelayTyped /\ \A s \in Streams : StreamInv(s)

-----------------------------------------------------------------------------
(* One stream at a time.                                                   *)

StreamNext(s) ==
  HandlerNext(s) \/ RelayNext(s) \/ ProviderNext(s) \/ ClientNext(s)

(* What a stream's step leaves alone.                                      *)
OthersUnchanged(s) ==
  /\ cancelled' = cancelled /\ running' = running
  /\ \A t \in Streams \ {s} :
       /\ task'[t] = task[t] /\ connected'[t] = connected[t]
       /\ reservation'[t] = reservation[t] /\ client'[t] = client[t]
       /\ chan'[t] = chan[t] /\ got'[t] = got[t]
       /\ reports'[t] = reports[t] /\ provider'[t] = provider[t]

LEMMA HandlerStepTyped ==
  ASSUME RelayTyped, NEW s \in Streams, HandlerNext(s)
  PROVE  RelayTyped' /\ OthersUnchanged(s)
<1> USE DEF RelayTyped, OthersUnchanged, Places, Relaying, Goto, clientVars,
            providerVars
<1>1. CASE Begin(s)
  BY <1>1 DEF Begin
<1>2. CASE HandlerEnds(s)
  BY <1>2 DEF HandlerEnds
<1>3. CASE StartRelay(s)
  BY <1>3 DEF StartRelay
<1>4. QED
  BY <1>1, <1>2, <1>3 DEF HandlerNext

LEMMA RelayStepTyped ==
  ASSUME RelayTyped, NEW s \in Streams, RelayNext(s)
  PROVE  RelayTyped' /\ OthersUnchanged(s)
<1>0. /\ Append(chan[s], Len(reports[s])) \in Seq(Nat)
      /\ Append(chan[s], ErrorItem) \in Seq(Nat)
  BY DEF RelayTyped, ErrorItem
<1> USE DEF RelayTyped, OthersUnchanged, Places, Relaying, Goto, clientVars,
            providerVars, StopAndReconcile
<1>1. CASE FirstPoll(s)
  BY <1>1 DEF FirstPoll
<1>2. CASE Send(s)
  BY <1>0, <1>2 DEF Send
<1>3. CASE SendFails(s)
  BY <1>3 DEF SendFails
<1>4. CASE SendError(s)
  BY <1>0, <1>4 DEF SendError
<1>5. CASE CancelledWhilePolling(s)
  BY <1>5 DEF CancelledWhilePolling
<1>6. CASE CancelledWhileSending(s)
  BY <1>6 DEF CancelledWhileSending
<1>7. CASE Reconciled(s)
  BY <1>7 DEF Reconciled
<1>8. QED
  BY <1>1, <1>2, <1>3, <1>4, <1>5, <1>6, <1>7 DEF RelayNext

LEMMA ProviderStepTyped ==
  ASSUME RelayTyped, NEW s \in Streams, ProviderNext(s)
  PROVE  RelayTyped' /\ OthersUnchanged(s)
<1> USE DEF RelayTyped, OthersUnchanged, Places, Relaying, Goto, clientVars,
            providerVars, StopAndReconcile
<1>1. CASE ChunkArrives(s)
  <2>1. PICK report \in Reports :
          /\ reports' = [reports EXCEPT ![s] = Append(@, report)]
          /\ usage' = [usage EXCEPT ![s] = Merge(report, @)]
    BY <1>1 DEF ChunkArrives
  <2>2. Append(reports[s], report) \in Seq(Reports)
    OBVIOUS
  <2>3. QED
    BY <1>1, <2>1, <2>2 DEF ChunkArrives
<1>2. CASE ProviderEnds(s)
  BY <1>2 DEF ProviderEnds
<1>3. CASE ProviderFails(s)
  BY <1>3 DEF ProviderFails
<1>4. QED
  BY <1>1, <1>2, <1>3 DEF ProviderNext

LEMMA ClientStepTyped ==
  ASSUME RelayTyped, NEW s \in Streams, ClientNext(s)
  PROVE  RelayTyped' /\ OthersUnchanged(s)
<1> USE DEF RelayTyped, OthersUnchanged, Places, Relaying, relayVars,
            providerVars
<1>1. CASE Receive(s)
  <2>1. Head(chan[s]) \in Nat /\ Tail(chan[s]) \in Seq(Nat)
    BY <1>1 DEF Receive
  <2>2. Append(got[s], Head(chan[s])) \in Seq(Nat)
    BY <2>1
  <2>3. QED
    BY <1>1, <2>1, <2>2 DEF Receive
<1>2. CASE SeesEnd(s)
  BY <1>2 DEF SeesEnd
<1>3. CASE Leaves(s)
  BY <1>3 DEF Leaves
<1>4. QED
  BY <1>1, <1>2, <1>3 DEF ClientNext, ClientReads

LEMMA StreamStepTyped ==
  ASSUME RelayTyped, NEW s \in Streams, StreamNext(s)
  PROVE  RelayTyped' /\ OthersUnchanged(s)
BY HandlerStepTyped, RelayStepTyped, ProviderStepTyped, ClientStepTyped
   DEF StreamNext

(* A stream's step says nothing new about another one.                     *)
LEMMA OtherStreams ==
  ASSUME NEW s \in Streams, NEW t \in Streams \ {s}, OthersUnchanged(s),
         StreamInv(t)
  PROVE  StreamInv(t)'
<1> USE DEF OthersUnchanged, StreamInv
<1>1. SettlementInv(t)'
  BY DEF SettlementInv
<1>2. ProviderInv(t)' /\ EndedWhole(t)'
  BY DEF DeliveryInv, ProviderInv, EndedWhole
<1>3. GotPrefix(t)'
  BY DEF DeliveryInv, GotPrefix, IsChunk, IsError
<1>4. ReadingInv(t) => ReadingInv(t)'
  BY DEF ReadingInv, IsChunk, IsError
<1>5. ProgressInv(t) => ProgressInv(t)'
  BY DEF ProgressInv, Forwarded
<1>6. QED
  BY <1>1, <1>2, <1>3, <1>4, <1>5 DEF DeliveryInv

-----------------------------------------------------------------------------
(* Settlement.                                                             *)

(* A step of a stream keeps what its reservation says of its relay and its *)
(* client.                                                                 *)
LEMMA SettlementKept ==
  ASSUME RelayTyped, NEW s \in Streams, SettlementInv(s), StreamNext(s)
  PROVE  SettlementInv(s)'
<1> USE DEF RelayTyped, SettlementInv, Relaying, Places, NotStarted, Goto,
            relayVars, clientVars, providerVars, StopAndReconcile
<1>1. CASE HandlerNext(s)
  BY <1>1 DEF HandlerNext, Begin, HandlerEnds, StartRelay
<1>2. CASE RelayNext(s)
  <2>1. CASE FirstPoll(s) \/ Send(s) \/ SendFails(s)
    BY <2>1 DEF FirstPoll, Send, SendFails
  <2>2. CASE SendError(s) \/ CancelledWhilePolling(s) \/ CancelledWhileSending(s)
    BY <2>2 DEF SendError, CancelledWhilePolling, CancelledWhileSending
  <2>3. CASE Reconciled(s)
    BY <2>3 DEF Reconciled
  <2>4. QED
    BY <1>2, <2>1, <2>2, <2>3 DEF RelayNext
<1>3. CASE ProviderNext(s)
  BY <1>3 DEF ProviderNext, ChunkArrives, ProviderEnds, ProviderFails
<1>4. CASE ClientNext(s)
  BY <1>4 DEF ClientNext, ClientReads, Receive, SeesEnd, Leaves
<1>5. QED
  BY <1>1, <1>2, <1>3, <1>4 DEF StreamNext

-----------------------------------------------------------------------------
(* Delivery.                                                               *)

(* Handing out the body: nothing has come yet.                             *)
LEMMA HandlerDelivers ==
  ASSUME RelayTyped, NEW s \in Streams, StreamInv(s), HandlerNext(s)
  PROVE  DeliveryInv(s)'
<1> USE DEF RelayTyped, StreamInv, DeliveryInv, NotStarted, Goto, clientVars,
            providerVars
<1>1. CASE Begin(s) \/ HandlerEnds(s)
  <2>1. client[s] = "none" /\ client'[s] = "none"
        /\ got[s] = <<>> /\ got'[s] = <<>>
    BY <1>1 DEF Begin, HandlerEnds, SettlementInv, ProviderInv
  <2>2. ProviderInv(s)'
    BY <1>1, <2>1 DEF Begin, HandlerEnds, ProviderInv
  <2>3. QED
    BY <2>1, <2>2 DEF GotPrefix, EndedWhole
<1>2. CASE StartRelay(s)
  <2>1. /\ task[s] = "handling" /\ task'[s] = "spawned"
        /\ client'[s] = "reading"
        /\ got'[s] = <<>> /\ chan'[s] = <<>> /\ reports'[s] = <<>>
        /\ connected'[s] /\ provider'[s] = "open"
    BY <1>2 DEF StartRelay, ProviderInv
  <2>2. QED
    BY <2>1 DEF ProviderInv, GotPrefix, EndedWhole, ReadingInv, ProgressInv,
                Forwarded
<1>3. QED
  BY <1>1, <1>2 DEF HandlerNext

(* Nothing that a client sees or has been sent changes: the relay moves on *)
(* to a place that knows less, or leaves a client that is gone.            *)
LEMMA SameDelivery ==
  ASSUME RelayTyped, NEW s \in Streams, DeliveryInv(s),
         chan'[s] = chan[s], got'[s] = got[s], client'[s] = client[s],
         reports'[s] = reports[s], provider'[s] = provider[s],
         cancelled => cancelled',
         ProviderInv(s)',
         client[s] = "reading" => ProgressInv(s)'
  PROVE  DeliveryInv(s)'
<1> USE DEF DeliveryInv
<1>1. GotPrefix(s)' /\ EndedWhole(s)'
  BY DEF GotPrefix, EndedWhole, IsChunk, IsError
<1>2. ReadingInv(s) => ReadingInv(s)'
  BY DEF ReadingInv, IsChunk, IsError
<1>3. QED
  BY <1>1, <1>2

(* One more item in the channel of a client that reads.                    *)
LEMMA ItemSent ==
  ASSUME RelayTyped, NEW s \in Streams, DeliveryInv(s),
         client[s] = "reading", NEW item \in Nat,
         chan' = [chan EXCEPT ![s] = Append(@, item)],
         got'[s] = got[s], client'[s] = client[s],
         reports'[s] = reports[s], provider'[s] = provider[s],
         cancelled' = cancelled,
         \A i \in 1..Len(chan[s]) : chan[s][i] # ErrorItem,
         \/ IsChunk(s, item, Forwarded(s) + 1)
         \/ IsError(s, item, Forwarded(s) + 1),
         ProviderInv(s)', ProgressInv(s)'
  PROVE  DeliveryInv(s)'
<1> USE DEF DeliveryInv
<1>1. GotPrefix(s)' /\ EndedWhole(s)'
  BY DEF GotPrefix, EndedWhole, IsChunk, IsError
<1>2. /\ Len(chan'[s]) = Len(chan[s]) + 1
      /\ \A i \in 1..Len(chan[s]) : chan'[s][i] = chan[s][i]
      /\ chan'[s][Len(chan[s]) + 1] = item
      /\ Len(chan[s]) \in Nat /\ Len(got[s]) \in Nat
  BY AppendProperties DEF RelayTyped
<1>3. ReadingInv(s)
  OBVIOUS
<1>4. \A i \in 1..Len(got'[s]) : IsChunk(s, got[s][i], i)'
  BY <1>3 DEF ReadingInv, IsChunk
<1>5. ASSUME NEW i \in 1..Len(chan'[s])
      PROVE  \/ IsChunk(s, chan[s][i], Len(got[s]) + i)'
             \/ IsError(s, chan[s][i], Len(got[s]) + i)' /\ i = Len(chan'[s])
  <2>1. CASE i \in 1..Len(chan[s])
    BY <1>2, <1>3, <2>1 DEF ReadingInv, IsChunk, IsError
  <2>2. CASE i = Len(chan[s]) + 1
    <3> DEFINE g == Len(got[s])
               c == Len(chan[s])
    <3>0. g \in Nat /\ c \in Nat /\ i = c + 1 /\ Forwarded(s) = g + c
      BY <1>2, <2>2 DEF Forwarded
    <3> HIDE DEF g, c
    <3>1. Forwarded(s) + 1 = g + i
      BY <3>0
    <3>2. /\ chan'[s][i] = item /\ i = Len(chan'[s])
          /\ Forwarded(s) + 1 = Len(got'[s]) + i
      BY <1>2, <2>2, <3>1 DEF g
    <3>3. QED
      BY <3>2 DEF IsChunk, IsError
  <2>3. QED
    BY <1>2, <1>5, <2>1, <2>2
<1>6. QED
  BY <1>1, <1>4, <1>5 DEF ReadingInv

LEMMA ForwardedTyped ==
  ASSUME RelayTyped, NEW s \in Streams
  PROVE  Forwarded(s) \in Nat
<1> DEFINE g == Len(got[s])
           c == Len(chan[s])
<1>1. g \in Nat /\ c \in Nat
  BY DEF RelayTyped
<1> HIDE DEF g, c
<1>2. g + c \in Nat
  BY <1>1
<1>3. QED
  BY <1>2 DEF g, c, Forwarded

(* Before its last item is sent, a channel has no error in it.             *)
LEMMA NoErrorYet ==
  ASSUME RelayTyped, NEW s \in Streams, ReadingInv(s),
         Forwarded(s) <= Len(reports[s])
  PROVE  \A i \in 1..Len(chan[s]) : chan[s][i] # ErrorItem
<1>1. Len(got[s]) \in Nat /\ Len(chan[s]) \in Nat /\ Len(reports[s]) \in Nat
  BY DEF RelayTyped
<1>2. ASSUME NEW i \in 1..Len(chan[s]) PROVE chan[s][i] # ErrorItem
  <2>1. ~IsError(s, chan[s][i], Len(got[s]) + i)
    <3> DEFINE g == Len(got[s])
               c == Len(chan[s])
               n == Len(reports[s])
    <3>1. g \in Nat /\ c \in Nat /\ n \in Nat /\ g + c <= n /\ i \in 1..c
      BY <1>1, <1>2 DEF Forwarded
    <3> HIDE DEF g, c, n
    <3>2. g + i # n + 1
      BY <3>1
    <3>3. QED
      BY <3>2 DEF g, n, IsError
  <2>2. IsChunk(s, chan[s][i], Len(got[s]) + i)
    BY <2>1 DEF ReadingInv
  <2>3. QED
    BY <1>1, <2>2 DEF IsChunk, ErrorItem
<1>3. QED
  BY <1>2

LEMMA RelayDelivers ==
  ASSUME RelayTyped, NEW s \in Streams, StreamInv(s), RelayNext(s)
  PROVE  DeliveryInv(s)'
<1> USE DEF StreamInv
<1>0. /\ Len(got[s]) \in Nat /\ Len(chan[s]) \in Nat /\ Len(reports[s]) \in Nat
      /\ DeliveryInv(s) /\ ProviderInv(s)
      /\ client[s] = "reading" => ReadingInv(s) /\ ProgressInv(s)
  BY DEF RelayTyped, DeliveryInv
<1>1. CASE FirstPoll(s)
  <2>1. /\ task[s] = "spawned" /\ task'[s] = "polling"
        /\ UNCHANGED <<chan, got, client, reports, provider, connected, cancelled>>
    BY <1>1 DEF RelayTyped, FirstPoll, Goto, clientVars, providerVars
  <2>2. ProviderInv(s)' /\ (client[s] = "reading" => ProgressInv(s)')
    BY <1>0, <2>1 DEF ProviderInv, ProgressInv, Forwarded, NotStarted
  <2>3. QED
    BY <1>0, <2>1, <2>2, SameDelivery
<1>2. CASE Send(s)
  <2>1. /\ task[s] = "sending" /\ task'[s] = "polling"
        /\ client[s] = "reading"
        /\ chan' = [chan EXCEPT ![s] = Append(@, Len(reports[s]))]
        /\ UNCHANGED <<got, client, reports, provider, connected, cancelled>>
    BY <1>2 DEF RelayTyped, Send, Room, Goto, providerVars
  <2>2. Forwarded(s) + 1 = Len(reports[s])
    BY <1>0, <2>1 DEF ProgressInv
  <2>3. Forwarded(s)' = Forwarded(s) + 1
    BY <1>0, <2>1, AppendProperties DEF Forwarded, RelayTyped
  <2>4. ProviderInv(s)' /\ ProgressInv(s)'
    BY <1>0, <2>1, <2>2, <2>3 DEF ProviderInv, ProgressInv, NotStarted
  <2>5. IsChunk(s, Len(reports[s]), Forwarded(s) + 1)
    BY <1>0, <2>2 DEF IsChunk
  <2>6. \A i \in 1..Len(chan[s]) : chan[s][i] # ErrorItem
    <3>1. Forwarded(s) <= Len(reports[s])
      BY <1>0, <2>2, ForwardedTyped
    <3>2. QED
      BY <1>0, <2>1, <3>1, NoErrorYet
  <2>7. QED
    BY <1>0, <2>1, <2>4, <2>5, <2>6, ItemSent
<1>3. CASE SendFails(s)
  <2>1. /\ task[s] = "sending" /\ task'[s] = "polling"
        /\ client[s] # "reading"
        /\ UNCHANGED <<chan, got, client, reports, provider, cancelled>>
    BY <1>3 DEF RelayTyped, SendFails, Goto, clientVars, providerVars
  <2>2. ProviderInv(s)'
    BY <1>0, <2>1 DEF ProviderInv, NotStarted
  <2>3. QED
    BY <1>0, <2>1, <2>2, SameDelivery
<1>4. CASE SendError(s)
  <2>1. /\ task[s] = "sendingError" /\ task'[s] = "reconciling"
        /\ UNCHANGED <<got, client, reports, provider, connected, cancelled>>
    BY <1>4 DEF RelayTyped, SendError, StopAndReconcile, Goto, providerVars
  <2>2. ProviderInv(s)'
    BY <1>0, <2>1 DEF ProviderInv, NotStarted
  <2>3. CASE client[s] = "reading"
    <3>1. chan' = [chan EXCEPT ![s] = Append(@, ErrorItem)]
      BY <1>4, <2>3 DEF SendError
    <3>2. /\ Forwarded(s) = Len(reports[s]) /\ provider[s] = "failed"
          /\ connected[s] /\ ErrorItem \in Nat
      BY <1>0, <2>1, <2>3 DEF ProgressInv, ProviderInv, ErrorItem
    <3>3. Forwarded(s)' = Forwarded(s) + 1
      BY <1>0, <2>1, <3>1, <3>2, AppendProperties DEF Forwarded, RelayTyped
    <3>4. ProgressInv(s)'
      BY <2>1, <3>2, <3>3 DEF ProgressInv
    <3>5. IsError(s, ErrorItem, Forwarded(s) + 1)
      BY <3>2 DEF IsError
    <3>6. \A i \in 1..Len(chan[s]) : chan[s][i] # ErrorItem
      BY <1>0, <2>3, <3>2, NoErrorYet
    <3>7. QED
      BY <1>0, <2>1, <2>2, <2>3, <3>1, <3>2, <3>4, <3>5, <3>6, ItemSent
  <2>4. CASE client[s] # "reading"
    <3>1. chan' = chan
      BY <1>4, <2>4 DEF SendError, Room
    <3>2. QED
      BY <1>0, <2>1, <2>2, <2>4, <3>1, SameDelivery
  <2>5. QED
    BY <2>3, <2>4
<1>5. CASE CancelledWhilePolling(s) \/ CancelledWhileSending(s)
  <2>1. /\ task'[s] = "reconciling" /\ cancelled
        /\ UNCHANGED <<chan, got, client, reports, provider, connected, cancelled>>
    BY <1>5 DEF RelayTyped, CancelledWhilePolling, CancelledWhileSending,
                StopAndReconcile, Goto, clientVars, providerVars
  <2>2. ProviderInv(s)' /\ (client[s] = "reading" => ProgressInv(s)')
    BY <1>0, <2>1 DEF ProviderInv, ProgressInv, NotStarted
  <2>3. QED
    BY <1>0, <2>1, <2>2, SameDelivery
<1>6. CASE Reconciled(s)
  <2>1. /\ task[s] = "reconciling" /\ task'[s] = "done"
        /\ UNCHANGED <<chan, got, client, reports, provider, connected, cancelled>>
    BY <1>6 DEF RelayTyped, Reconciled, Goto, clientVars, providerVars
  <2>2. ProviderInv(s)' /\ (client[s] = "reading" => ProgressInv(s)')
    BY <1>0, <2>1 DEF ProviderInv, ProgressInv, Forwarded, NotStarted
  <2>3. QED
    BY <1>0, <2>1, <2>2, SameDelivery
<1>7. QED
  BY <1>1, <1>2, <1>3, <1>4, <1>5, <1>6 DEF RelayNext

(* A new chunk counts as reported before it is sent.                       *)
LEMMA ChunkDelivers ==
  ASSUME RelayTyped, NEW s \in Streams, StreamInv(s), ChunkArrives(s)
  PROVE  DeliveryInv(s)'
<1> USE DEF StreamInv, DeliveryInv
<1>1. PICK report \in Reports :
        reports' = [reports EXCEPT ![s] = Append(@, report)]
  BY DEF ChunkArrives
<1>2. /\ Len(reports'[s]) = Len(reports[s]) + 1
      /\ Len(reports[s]) \in Nat
  BY <1>1, AppendProperties DEF RelayTyped
<1>3. /\ task[s] = "polling" /\ provider[s] = "open"
      /\ task'[s] = IF connected[s] THEN "sending" ELSE "polling"
      /\ UNCHANGED <<chan, got, client, provider, connected, cancelled>>
  BY DEF RelayTyped, ChunkArrives, Goto, clientVars
<1>4. client[s] # "ended"
  BY <1>3 DEF SettlementInv
<1>5. ProviderInv(s)' /\ EndedWhole(s)'
  BY <1>3, <1>4 DEF ProviderInv, EndedWhole, NotStarted
<1>6. GotPrefix(s)'
  BY <1>2, <1>3 DEF GotPrefix, IsChunk, IsError
<1>7. ASSUME client[s] = "reading" PROVE ReadingInv(s)' /\ ProgressInv(s)'
  <2>1. connected[s] /\ Forwarded(s) = Len(reports[s])
    BY <1>3, <1>7 DEF ProgressInv
  <2>2. Forwarded(s)' = Forwarded(s)
    BY <1>3 DEF Forwarded
  <2>3. ProgressInv(s)'
    BY <1>2, <1>3, <2>1, <2>2 DEF ProgressInv
  <2>4. \A k : k <= Len(reports[s]) /\ k \in Int => k <= Len(reports'[s])
    BY <1>2
  <2>5. ASSUME NEW i \in 1..Len(got[s]) PROVE IsChunk(s, got[s][i], i)'
    BY <1>3, <1>7, <2>4, <2>5 DEF ReadingInv, IsChunk
  <2>6. ASSUME NEW i \in 1..Len(chan[s])
        PROVE  IsChunk(s, chan[s][i], Len(got[s]) + i)'
    <3>1. IsChunk(s, chan[s][i], Len(got[s]) + i)
      BY <1>3, <1>7, <2>6 DEF ReadingInv, IsError
    <3>2. Len(got[s]) + i \in Int
      BY <2>6 DEF RelayTyped
    <3>3. QED
      BY <1>3, <2>4, <3>1, <3>2 DEF IsChunk
  <2>7. QED
    BY <1>3, <2>3, <2>5, <2>6 DEF ReadingInv
<1>8. QED
  BY <1>3, <1>5, <1>6, <1>7

(* The provider's end: a failure leaves room for the error after the       *)
(* chunks that were sent.                                                  *)
LEMMA ProviderDelivers ==
  ASSUME RelayTyped, NEW s \in Streams, StreamInv(s), ProviderNext(s)
  PROVE  DeliveryInv(s)'
<1> USE DEF StreamInv, DeliveryInv
<1>1. CASE ProviderEnds(s) \/ ProviderFails(s)
  <2>1. /\ task[s] = "polling" /\ provider[s] = "open"
        /\ UNCHANGED <<chan, got, client, reports, connected, cancelled>>
    BY <1>1 DEF ProviderEnds, ProviderFails, StopAndReconcile, clientVars
  <2>2. \/ task'[s] = "reconciling" /\ provider'[s] = "ended"
        \/ task'[s] = "reconciling" /\ provider'[s] = "failed" /\ ~connected[s]
        \/ task'[s] = "sendingError" /\ provider'[s] = "failed"
    BY <1>1 DEF RelayTyped, ProviderEnds, ProviderFails, StopAndReconcile, Goto
  <2>3. client[s] # "ended"
    BY <2>1 DEF SettlementInv
  <2>4. ProviderInv(s)' /\ EndedWhole(s)'
    BY <2>1, <2>2, <2>3 DEF ProviderInv, EndedWhole, NotStarted
  <2>5. GotPrefix(s)'
    BY <2>1 DEF GotPrefix, IsChunk, IsError
  <2>6. ASSUME client[s] = "reading" PROVE ReadingInv(s)' /\ ProgressInv(s)'
    <3>1. ReadingInv(s)'
      BY <2>1, <2>6 DEF ReadingInv, IsChunk, IsError
    <3>2. ProgressInv(s)'
      BY <2>1, <2>2, <2>6 DEF ProgressInv, Forwarded
    <3>3. QED
      BY <3>1, <3>2
  <2>7. QED
    BY <2>1, <2>4, <2>5, <2>6
<1>2. QED
  BY <1>1, ChunkDelivers DEF ProviderNext

LEMMA HeadAndTail ==
  ASSUME NEW q \in Seq(Nat), q # <<>>
  PROVE  /\ Head(q) = q[1] /\ Head(q) \in Nat
         /\ Len(Tail(q)) = Len(q) - 1
         /\ \A i \in 1..Len(Tail(q)) : Tail(q)[i] = q[i + 1]
         /\ Len(q) \in Nat \ {0}
<1>1. Len(q) \in Nat \ {0}
  BY EmptySeq
<1>2. Head(q) = q[1] /\ q[1] \in Nat
  BY <1>1
<1>3. QED
  BY <1>1, <1>2, HeadTailProperties

(* What a client takes from the channel is the next item.                  *)
LEMMA ReceiveDelivers ==
  ASSUME RelayTyped, NEW s \in Streams, StreamInv(s), Receive(s)
  PROVE  DeliveryInv(s)'
<1> USE DEF StreamInv, DeliveryInv
<1> DEFINE item == Head(chan[s])
           g == Len(got[s])
           c == Len(chan[s])
           n == Len(reports[s])
<1>1. /\ client[s] = "reading" /\ chan[s] # <<>>
      /\ got' = [got EXCEPT ![s] = Append(@, item)]
      /\ chan' = [chan EXCEPT ![s] = Tail(@)]
      /\ client'[s] = IF item = ErrorItem THEN "failed" ELSE "reading"
      /\ UNCHANGED <<task, connected, reports, provider, cancelled>>
  BY DEF RelayTyped, Receive, relayVars, providerVars
<1>2. /\ chan[s] \in Seq(Nat) /\ got[s] \in Seq(Nat)
      /\ got'[s] = Append(got[s], item) /\ chan'[s] = Tail(chan[s])
      /\ g \in Nat /\ n \in Nat
  BY <1>1 DEF RelayTyped
<1>3. /\ item = chan[s][1] /\ item \in Nat
      /\ Len(chan'[s]) = c - 1
      /\ \A i \in 1..Len(chan'[s]) : chan'[s][i] = chan[s][i + 1]
      /\ c \in Nat \ {0}
  BY <1>1, <1>2, HeadAndTail
<1>4. /\ Len(got'[s]) = g + 1
      /\ \A i \in 1..g : got'[s][i] = got[s][i]
      /\ got'[s][g + 1] = item
  BY <1>2, <1>3, AppendProperties
<1>5. ReadingInv(s) /\ ProgressInv(s)
  BY <1>1
<1>6. \/ IsChunk(s, item, g + 1)
      \/ IsError(s, item, g + 1) /\ c = 1
  <2>1. 1 \in 1..c
    BY <1>3
  <2>2. \/ IsChunk(s, chan[s][1], g + 1)
        \/ IsError(s, chan[s][1], g + 1) /\ 1 = c
    BY <1>5, <2>1 DEF ReadingInv
  <2>3. QED
    BY <1>3, <2>2
<1>7. ASSUME NEW i \in 1..g PROVE IsChunk(s, got[s][i], i)'
  BY <1>1, <1>4, <1>5, <1>7 DEF ReadingInv, IsChunk
<1>8. IsChunk(s, item, g + 1) => item # ErrorItem
  BY <1>2, <1>3 DEF IsChunk, ErrorItem
<1>9. ProviderInv(s)' /\ EndedWhole(s)'
  <2>1. task[s] \notin NotStarted \cup {"spawned"}
    BY <1>1 DEF SettlementInv, ProviderInv
  <2>2. QED
    BY <1>1, <2>1 DEF ProviderInv, EndedWhole
<1>10. GotPrefix(s)'
  <2>1. ASSUME NEW i \in 1..Len(got'[s])
        PROVE  \/ IsChunk(s, got[s][i], i)'
               \/ IsError(s, got[s][i], i)' /\ i = Len(got'[s])
    <3>1. i \in 1..g \/ i = g + 1
      BY <1>2, <1>4, <2>1
    <3>2. CASE i = g + 1
      BY <1>1, <1>4, <1>6, <3>2 DEF IsChunk, IsError
    <3>3. QED
      BY <1>7, <3>1, <3>2
  <2>2. QED
    BY <2>1 DEF GotPrefix
<1>11. ASSUME client'[s] = "reading" PROVE ReadingInv(s)' /\ ProgressInv(s)'
  <2>1. IsChunk(s, item, g + 1)
    BY <1>1, <1>6, <1>11 DEF IsError
  <2>2. \A i \in 1..Len(got'[s]) : IsChunk(s, got[s][i], i)'
    BY <1>1, <1>2, <1>4, <1>7, <2>1 DEF IsChunk
  <2>3. ASSUME NEW i \in 1..Len(chan'[s])
        PROVE  \/ IsChunk(s, chan[s][i], Len(got[s]) + i)'
               \/ IsError(s, chan[s][i], Len(got[s]) + i)' /\ i = Len(chan'[s])
    <3>1. /\ i + 1 \in 1..c /\ g + (i + 1) = (g + 1) + i
          /\ i + 1 = c => i = Len(chan'[s])
      <4>1. Len(chan'[s]) = c - 1 /\ c \in Nat /\ g \in Nat
            /\ i \in 1..(c - 1)
        BY <1>2, <1>3, <2>3
      <4> HIDE DEF g, c
      <4>2. QED
        BY <4>1
    <3>2. \/ IsChunk(s, chan[s][i + 1], g + (i + 1))
          \/ IsError(s, chan[s][i + 1], g + (i + 1)) /\ i + 1 = c
      BY <1>5, <3>1 DEF ReadingInv
    <3>3. chan'[s][i] = chan[s][i + 1]
      BY <1>3, <2>3
    <3>4. QED
      BY <1>1, <1>4, <3>1, <3>2, <3>3 DEF IsChunk, IsError
  <2>4. Forwarded(s)' = Forwarded(s)
    <3>1. Len(got'[s]) = g + 1 /\ Len(chan'[s]) = c - 1 /\ g \in Nat /\ c \in Nat
      BY <1>2, <1>3, <1>4
    <3> HIDE DEF g, c
    <3>2. Len(got'[s]) + Len(chan'[s]) = g + c
      BY <3>1
    <3>3. QED
      BY <3>2 DEF g, c, Forwarded
  <2>5. ProgressInv(s)'
    BY <1>1, <1>5, <2>4 DEF ProgressInv
  <2>6. QED
    BY <2>2, <2>3, <2>5 DEF ReadingInv
<1>12. QED
  BY <1>9, <1>10, <1>11

(* An end that is not due to a shutdown is seen on an empty channel after  *)
(* the provider's own end: an error would still have to be received.       *)
LEMMA ClientDelivers ==
  ASSUME RelayTyped, NEW s \in Streams, StreamInv(s), ClientNext(s)
  PROVE  DeliveryInv(s)'
<1> USE DEF StreamInv, DeliveryInv
<1>1. CASE SeesEnd(s)
  <2>1. /\ client[s] = "reading" /\ chan[s] = <<>> /\ task[s] = "done"
        /\ client'[s] = "ended"
        /\ UNCHANGED <<task, connected, chan, got, reports, provider, cancelled>>
    BY <1>1 DEF RelayTyped, SeesEnd, relayVars, providerVars
  <2>2. Forwarded(s) = Len(got[s]) /\ Len(got[s]) \in Nat /\ Len(reports[s]) \in Nat
    BY <2>1 DEF Forwarded, RelayTyped
  <2>3. ReadingInv(s) /\ ProgressInv(s)
    BY <2>1
  <2>4. Len(got[s]) # Len(reports[s]) + 1
    <3>1. SUFFICES ASSUME Len(got[s]) = Len(reports[s]) + 1 PROVE FALSE
      OBVIOUS
    <3>2. Len(got[s]) \in 1..Len(got[s])
      BY <2>2, <3>1
    <3>3. Len(got[s]) <= Len(reports[s])
      BY <2>3, <3>2 DEF ReadingInv, IsChunk
    <3>4. QED
      BY <2>2, <3>1, <3>3
  <2>5. ~cancelled => provider[s] = "ended" /\ Len(got[s]) = Len(reports[s])
    BY <2>1, <2>2, <2>3, <2>4 DEF ProgressInv
  <2>6. ProviderInv(s)' /\ EndedWhole(s)'
    BY <2>1, <2>5 DEF ProviderInv, EndedWhole, NotStarted
  <2>7. GotPrefix(s)'
    BY <2>1 DEF GotPrefix, IsChunk, IsError
  <2>8. QED
    BY <2>1, <2>6, <2>7
<1>2. CASE Leaves(s)
  <2>1. /\ client'[s] = "left" /\ chan'[s] = <<>> /\ client[s] = "reading"
        /\ UNCHANGED <<task, connected, got, reports, provider, cancelled>>
    BY <1>2 DEF RelayTyped, Leaves, relayVars, providerVars
  <2>2. ProviderInv(s)' /\ EndedWhole(s)'
    BY <2>1 DEF ProviderInv, EndedWhole
  <2>3. GotPrefix(s)'
    BY <2>1 DEF GotPrefix, IsChunk, IsError
  <2>4. QED
    BY <2>1, <2>2, <2>3
<1>3. QED
  BY <1>1, <1>2, ReceiveDelivers DEF ClientNext, ClientReads

-----------------------------------------------------------------------------
(* Slots.                                                                  *)

Working == Relaying \cup {"handling"}
SlotsInv ==
  /\ holders \subseteq Streams
  /\ IsFiniteSet(holders) /\ Cardinality(holders) <= MaxStreams
  /\ \A s \in Streams : s \in holders <=> task[s] \in Working

(* A stream takes its slot when its handler begins and gives it back when  *)
(* the handler or the relay is over; between the two no step touches it.   *)
LEMMA SlotFollowsTask ==
  ASSUME RelayTyped, NEW s \in Streams, StreamNext(s)
  PROVE  \/ Acquire(s) /\ task'[s] \in Working
         \/ Release(s) /\ task'[s] \notin Working
         \/ holders' = holders /\ (task'[s] \in Working <=> task[s] \in Working)
<1> USE DEF RelayTyped, Relaying, Places, Working, Goto, relayVars, clientVars,
            providerVars, StopAndReconcile
<1>1. CASE HandlerNext(s)
  BY <1>1 DEF HandlerNext, Begin, HandlerEnds, StartRelay
<1>2. CASE RelayNext(s)
  <2>1. CASE FirstPoll(s) \/ Send(s) \/ SendFails(s)
    BY <2>1 DEF FirstPoll, Send, SendFails
  <2>2. CASE SendError(s) \/ CancelledWhilePolling(s) \/ CancelledWhileSending(s)
    BY <2>2 DEF SendError, CancelledWhilePolling, CancelledWhileSending
  <2>3. CASE Reconciled(s)
    BY <2>3 DEF Reconciled
  <2>4. QED
    BY <1>2, <2>1, <2>2, <2>3 DEF RelayNext
<1>3. CASE ProviderNext(s)
  BY <1>3 DEF ProviderNext, ChunkArrives, ProviderEnds, ProviderFails
<1>4. CASE ClientNext(s)
  BY <1>4 DEF ClientNext, ClientReads, Receive, SeesEnd, Leaves
<1>5. QED
  BY <1>1, <1>2, <1>3, <1>4 DEF StreamNext

LEMMA SlotsKept ==
  ASSUME RelayTyped, SlotsInv, NEW s \in Streams, StreamNext(s)
  PROVE  SlotsInv'
<1>0. /\ Cardinality(holders) \in Nat /\ MaxStreams \in Nat
      /\ OthersUnchanged(s)
  BY FS_CardinalityType, SlotsAssumption, StreamStepTyped DEF SlotsInv
<1>1. CASE Acquire(s) /\ task'[s] \in Working
  <2>1. /\ IsFiniteSet(holders \cup {s})
        /\ Cardinality(holders \cup {s}) = Cardinality(holders) + 1
    BY <1>1, FS_AddElement DEF SlotsInv, Acquire
  <2>2. Cardinality(holders) + 1 <= MaxStreams
    BY <1>0, <1>1 DEF Acquire, HasSlot
  <2>3. QED
    BY <1>0, <1>1, <2>1, <2>2 DEF SlotsInv, Acquire, OthersUnchanged
<1>2. CASE Release(s) /\ task'[s] \notin Working
  <2>1. /\ IsFiniteSet(holders \ {s})
        /\ Cardinality(holders \ {s}) = Cardinality(holders) - 1
    BY <1>2, FS_RemoveElement DEF SlotsInv, Release
  <2>2. Cardinality(holders) - 1 <= MaxStreams
    BY <1>0 DEF SlotsInv
  <2>3. QED
    BY <1>0, <1>2, <2>1, <2>2 DEF SlotsInv, Release, OthersUnchanged
<1>3. CASE holders' = holders /\ (task'[s] \in Working <=> task[s] \in Working)
  BY <1>0, <1>3 DEF SlotsInv, OthersUnchanged
<1>4. QED
  BY <1>1, <1>2, <1>3, SlotFollowsTask

-----------------------------------------------------------------------------
(* The invariant of the whole task.                                        *)

Inv == RelayInv /\ SlotsInv

LEMMA InitInv == Init => Inv
<1> SUFFICES ASSUME Init PROVE Inv
  OBVIOUS
<1>1. RelayTyped
  <2>1. connected \in [Streams -> BOOLEAN] /\ cancelled \in BOOLEAN
        /\ running \in BOOLEAN
    BY Zenon DEF Init
  <2>2. <<>> \in Seq(Nat) /\ <<>> \in Seq(Reports)
    OBVIOUS
  <2>3. /\ chan \in [Streams -> Seq(Nat)] /\ got \in [Streams -> Seq(Nat)]
        /\ reports \in [Streams -> Seq(Reports)]
    BY <2>2 DEF Init
  <2>4. QED
    BY <2>1, <2>3 DEF Init, RelayTyped, Places
<1>2. ASSUME NEW s \in Streams PROVE StreamInv(s)
  <2>1. /\ task[s] = "idle" /\ client[s] = "none" /\ reservation[s] = "none"
        /\ got[s] = <<>> /\ chan[s] = <<>> /\ reports[s] = <<>>
        /\ provider[s] = "open" /\ connected[s] /\ running
    BY DEF Init
  <2>2. SettlementInv(s)
    BY <2>1 DEF SettlementInv, Relaying, NotStarted
  <2>3. ProviderInv(s) /\ GotPrefix(s) /\ EndedWhole(s)
    BY <2>1 DEF ProviderInv, GotPrefix, EndedWhole
  <2>4. QED
    BY <2>1, <2>2, <2>3 DEF StreamInv, DeliveryInv
<1>3. SlotsInv
  BY FS_EmptySet, SlotsAssumption
     DEF Init, SlotsInit, SlotsInv, Working, Relaying
<1>4. QED
  BY <1>1, <1>2, <1>3 DEF Inv, RelayInv

(* Cancelling withdraws what was claimed of a service that is not.         *)
LEMMA CancelKeepsInv ==
  ASSUME Inv, Cancel
  PROVE  Inv'
<1> USE DEF Inv, RelayInv
<1>1. /\ UNCHANGED <<relayVars, clientVars, providerVars, running>>
      /\ cancelled' = TRUE
  BY DEF Cancel
<1>2. RelayTyped' /\ SlotsInv'
  BY <1>1 DEF RelayTyped, SlotsInv, relayVars, clientVars, providerVars
<1>3. ASSUME NEW s \in Streams PROVE StreamInv(s)'
  <2>0. StreamInv(s) /\ RelayTyped
    OBVIOUS
  <2>1. SettlementInv(s)'
    BY <1>1, <2>0
       DEF StreamInv, SettlementInv, relayVars, clientVars
  <2>2. /\ UNCHANGED <<task, connected, chan, got, client, reports, provider>>
        /\ cancelled'
    BY <1>1 DEF relayVars, clientVars, providerVars
  <2>3. ProviderInv(s)' /\ (ProgressInv(s) => ProgressInv(s)')
    BY <2>0, <2>2 DEF StreamInv, DeliveryInv, ProviderInv, ProgressInv, Forwarded
  <2>4. DeliveryInv(s)'
    BY <2>0, <2>2, <2>3, SameDelivery DEF StreamInv, DeliveryInv
  <2>5. QED
    BY <2>1, <2>4 DEF StreamInv
<1>4. QED
  BY <1>2, <1>3

(* The end of the process: whoever still relays has lost its client, so    *)
(* what is left unsettled was of a client that had gone.                   *)
LEMMA DropKeepsInv ==
  ASSUME Inv, RuntimeDropped
  PROVE  Inv'
<1> USE DEF Inv, RelayInv
<1>1. /\ UNCHANGED <<connected, usage, charge, reservation, clientVars,
                     providerVars, cancelled>>
      /\ cancelled /\ running' = FALSE /\ holders' = {}
      /\ task' = [s \in Streams |->
                     IF task[s] \in Relaying THEN "aborted" ELSE task[s]]
      /\ \A s \in Streams : client[s] # "reading" /\ task[s] # "handling"
  BY DEF RuntimeDropped
<1>2. RelayTyped'
  BY <1>1 DEF RelayTyped, Places, clientVars, providerVars
<1>3. SlotsInv'
  BY <1>1, FS_EmptySet, SlotsAssumption DEF SlotsInv, Working, Relaying
<1>4. ASSUME NEW s \in Streams PROVE StreamInv(s)'
  <2>0. StreamInv(s) /\ RelayTyped
    OBVIOUS
  <2>1. SettlementInv(s)'
    BY <1>1, <2>0
       DEF RelayTyped, StreamInv, SettlementInv, clientVars, Relaying,
           NotStarted, Places
  <2>2. /\ task'[s] = IF task[s] \in Relaying THEN "aborted" ELSE task[s]
        /\ UNCHANGED <<connected, chan, got, client, reports, provider, cancelled>>
        /\ client[s] # "reading"
    BY <1>1 DEF clientVars, providerVars
  <2>3. ProviderInv(s)'
    BY <2>0, <2>2 DEF StreamInv, DeliveryInv, ProviderInv, NotStarted, Relaying
  <2>4. DeliveryInv(s)'
    BY <2>0, <2>2, <2>3, SameDelivery DEF StreamInv
  <2>5. QED
    BY <2>1, <2>4 DEF StreamInv
<1>5. QED
  BY <1>2, <1>3, <1>4

LEMMA NextInv == Inv /\ [Next]_vars => Inv'
<1> SUFFICES ASSUME Inv, [Next]_vars PROVE Inv'
  OBVIOUS
<1>1. ASSUME NEW s \in Streams, StreamNext(s) PROVE Inv'
  <2>0. RelayTyped /\ SlotsInv /\ \A t \in Streams : StreamInv(t)
    BY DEF Inv, RelayInv
  <2>1. RelayTyped' /\ OthersUnchanged(s)
    BY <1>1, <2>0, StreamStepTyped
  <2>2. StreamInv(s)'
    <3>1. SettlementInv(s)'
      BY <1>1, <2>0, SettlementKept DEF StreamInv
    <3>2. DeliveryInv(s)'
      BY <1>1, <2>0, HandlerDelivers, RelayDelivers, ProviderDelivers,
         ClientDelivers DEF StreamNext
    <3>3. QED
      BY <3>1, <3>2 DEF StreamInv
  <2>3. ASSUME NEW t \in Streams \ {s} PROVE StreamInv(t)'
    BY <2>0, <2>1, OtherStreams
  <2>4. SlotsInv'
    BY <1>1, <2>0, SlotsKept
  <2>5. QED
    BY <2>1, <2>2, <2>3, <2>4 DEF Inv, RelayInv
<1>2. CASE Cancel
  BY <1>2, CancelKeepsInv
<1>3. CASE RuntimeDropped
  BY <1>3, DropKeepsInv
<1>4. CASE UNCHANGED vars
  <2>1. RelayTyped' /\ SlotsInv'
    BY <1>4 DEF vars, Inv, RelayInv, RelayTyped, SlotsInv
  <2>2. ASSUME NEW s \in Streams PROVE StreamInv(s)'
    <3>0. RelayTyped /\ StreamInv(s)
      BY DEF Inv, RelayInv
    <3>1. SettlementInv(s)' /\ ProviderInv(s)'
      BY <1>4, <3>0 DEF vars, StreamInv, SettlementInv, DeliveryInv, ProviderInv
    <3>2. ProgressInv(s) => ProgressInv(s)'
      BY <1>4 DEF vars, ProgressInv, Forwarded
    <3>3. DeliveryInv(s)'
      BY <1>4, <3>0, <3>1, <3>2, SameDelivery DEF vars, StreamInv, DeliveryInv
    <3>4. QED
      BY <3>1, <3>3 DEF StreamInv
  <2>3. QED
    BY <2>1, <2>2 DEF Inv, RelayInv
<1>5. QED
  BY <1>1, <1>2, <1>3, <1>4 DEF Next, StreamNext

LEMMA SpecInv == Spec => []Inv
<1>1. QED
  BY InitInv, NextInv, PTL DEF Spec

-----------------------------------------------------------------------------
(* A client has the provider's chunks in order and without a gap, and a    *)
(* body that ends cleanly while the service runs was whole: however the    *)
(* relay, the channel and the client interleave, in usage_recording_stream.*)
THEOREM ClientIsNeverMisled == Spec => []ClientIsNotMisled
<1>1. Inv => ClientIsNotMisled
  <2> SUFFICES ASSUME Inv PROVE ClientIsNotMisled
    OBVIOUS
  <2>1. ASSUME NEW s \in Streams PROVE GotPrefix(s) /\ EndedWhole(s)
    BY DEF Inv, RelayInv, StreamInv, DeliveryInv
  <2>2. ClientSeesPrefix
    BY <2>1 DEF ClientSeesPrefix, GotPrefix, IsChunk, IsError
  <2>3. CleanEndIsComplete
    BY <2>1 DEF CleanEndIsComplete, EndedWhole
  <2>4. QED
    BY <2>2, <2>3 DEF ClientIsNotMisled
<1>2. QED
  BY <1>1, SpecInv, PTL

(* The body of an answer ends only after record_observed_usage has come    *)
(* back: the sender lives as long as the relay.                            *)
THEOREM EndAlwaysSettled == Spec => []EndMeansSettled
<1>1. Inv => EndMeansSettled
  <2> SUFFICES ASSUME Inv, NEW s \in Streams, client[s] = "ended"
               PROVE  reservation[s] = "settled"
    BY DEF EndMeansSettled
  <2>1. RelayTyped /\ SettlementInv(s)
    BY DEF Inv, RelayInv, StreamInv
  <2>2. QED
    BY <2>1 DEF RelayTyped, SettlementInv, Relaying
<1>2. QED
  BY <1>1, SpecInv, PTL

(* While the process runs, a slot and a reservation leave a relay          *)
(* together, when it has reconciled, on every way out of                   *)
(* usage_recording_stream; main's return leaves unsettled only what was of *)
(* clients that had gone, after the cancellation.                          *)
THEOREM RelaysAlwaysSettle == Spec => []RelaysSettle
<1>1. Inv => RelaysSettle
  <2> SUFFICES ASSUME Inv, NEW s \in Streams, client[s] # "none"
               PROVE  /\ running =>
                           /\ s \in holders <=> reservation[s] # "settled"
                           /\ s \in holders => task[s] \in Relaying
                      /\ ~running /\ reservation[s] # "settled" =>
                           cancelled /\ client[s] \in {"left", "failed"}
    BY DEF RelaysSettle
  <2>1. /\ RelayTyped /\ SettlementInv(s)
        /\ s \in holders <=> task[s] \in Relaying \cup {"handling"}
    BY DEF Inv, RelayInv, StreamInv, SlotsInv, Working
  <2>2. /\ task[s] \in Places \ NotStarted
        /\ client[s] \in {"reading", "left", "failed", "ended"}
    BY <2>1 DEF RelayTyped, SettlementInv
  <2>3. QED
    BY <2>1, <2>2 DEF SettlementInv, Relaying, Places, NotStarted
<1>2. QED
  BY <1>1, SpecInv, PTL

(* A slot of the active-stream limit is held exactly as long as a handler  *)
(* or a relay is at work, and never by more than the limit.                *)
THEOREM SlotsHeldWhileWorking == Spec => []SlotHeldWhileWorking
<1>1. Inv => SlotHeldWhileWorking
  BY DEF Inv, SlotsInv, Working, SlotHeldWhileWorking
<1>2. QED
  BY <1>1, SpecInv, PTL

-----------------------------------------------------------------------------
(* What is charged.                                                        *)

(* The last chunk of a stream that reports a field.                        *)
LastReport(chunks, f, i) ==
  /\ i \in 1..Len(chunks) /\ f \in DOMAIN chunks[i]
  /\ \A j \in 1..Len(chunks) : f \in DOMAIN chunks[j] => j <= i

(* The recorder has the last report of every field; what was passed to     *)
(* reconcile is their total, once the provider's stream was over or cut.   *)
UsageInv(s) ==
  /\ usage[s] = [f \in Fields(s) |-> usage[s][f]]
  /\ \A f \in Fields(s) : \E i \in 1..Len(reports[s]) :
       LastReport(reports[s], f, i) /\ usage[s][f] = reports[s][i][f]
ReconcileInv(s) ==
  reservation[s] \in {"reconciling", "settled"} =>
    /\ charge[s] = TotalTokens(usage[s])
    /\ provider[s] # "open" \/ cancelled

RecordInv == \A s \in Streams : UsageInv(s) /\ ReconcileInv(s)

LEMMA UsageSame ==
  ASSUME NEW s \in Streams, UsageInv(s), usage'[s] = usage[s], reports'[s] = reports[s]
  PROVE  UsageInv(s)'
<1>1. Fields(s)' = Fields(s)
  BY DEF Fields
<1>2. QED
  BY <1>1 DEF UsageInv

(* A new chunk's report comes before those of the chunks before it.        *)
LEMMA UsageMerged ==
  ASSUME RelayTyped, NEW s \in Streams, UsageInv(s), NEW report \in Reports,
         reports' = [reports EXCEPT ![s] = Append(@, report)],
         usage' = [usage EXCEPT ![s] = Merge(report, @)]
  PROVE  UsageInv(s)'
<1> DEFINE n == Len(reports[s])
           old == reports[s]
           new == reports'[s]
<1>1. /\ old \in Seq(Reports) /\ n \in Nat
      /\ new = Append(old, report) /\ Len(new) = n + 1
      /\ new[n + 1] = report /\ \A i \in 1..n : new[i] = old[i]
      /\ usage'[s] = Merge(report, usage[s])
  BY DEF RelayTyped
<1>2. Fields(s)' = Fields(s) \cup DOMAIN report
  BY <1>1 DEF Fields
<1>3. DOMAIN usage[s] = Fields(s)
  BY DEF UsageInv
<1>4. usage'[s] = [f \in Fields(s)' |->
                     IF f \in DOMAIN report THEN report[f] ELSE usage[s][f]]
  BY <1>1, <1>2, <1>3 DEF Merge
<1>5. ASSUME NEW f \in Fields(s)'
      PROVE  \E i \in 1..Len(new) :
               LastReport(new, f, i) /\ usage'[s][f] = new[i][f]
  <2>1. CASE f \in DOMAIN report
    <3>1. LastReport(new, f, n + 1)
      BY <1>1, <2>1 DEF LastReport
    <3>2. usage'[s][f] = new[n + 1][f]
      BY <1>1, <1>4, <1>5, <2>1
    <3>3. n + 1 \in 1..Len(new)
      BY <1>1
    <3>4. QED
      BY <3>1, <3>2, <3>3
  <2>2. CASE f \notin DOMAIN report
    <3>1. f \in Fields(s) /\ usage'[s][f] = usage[s][f]
      BY <1>2, <1>4, <1>5, <2>2
    <3>2. PICK i \in 1..n : LastReport(old, f, i) /\ usage[s][f] = old[i][f]
      BY <3>1 DEF UsageInv
    <3>3. i \in 1..Len(new) /\ new[i] = old[i]
      BY <1>1, <3>2
    <3>4. LastReport(new, f, i)
      <4>1. ASSUME NEW j \in 1..Len(new), f \in DOMAIN new[j] PROVE j <= i
        <5>1. j # n + 1
          BY <1>1, <2>2, <4>1
        <5>2. j \in 1..n
          BY <1>1, <5>1
        <5>3. QED
          BY <1>1, <3>2, <4>1, <5>2 DEF LastReport
      <4>2. QED
        BY <3>2, <3>3, <4>1 DEF LastReport
    <3>5. QED
      BY <3>1, <3>2, <3>3, <3>4
  <2>3. QED
    BY <2>1, <2>2
<1>6. usage'[s] = [f \in Fields(s)' |-> usage'[s][f]]
  BY <1>4
<1>7. QED
  BY <1>5, <1>6 DEF UsageInv

(* Of the steps of a stream, one observes usage and the others leave it    *)
(* alone; one that calls reconcile does so with the observed total, at the *)
(* end of the provider's stream or when cancelled.                         *)
LEMMA RecordStep ==
  ASSUME RelayTyped, NEW s \in Streams, SettlementInv(s), ProviderInv(s), StreamNext(s)
  PROVE  /\ \A t \in Streams \ {s} :
              /\ usage'[t] = usage[t] /\ charge'[t] = charge[t]
              /\ reports'[t] = reports[t] /\ reservation'[t] = reservation[t]
              /\ provider'[t] = provider[t]
         /\ cancelled' = cancelled
         /\ \/ /\ usage'[s] = usage[s] /\ reports'[s] = reports[s]
               /\ \/ /\ charge'[s] = charge[s] /\ provider'[s] = provider[s]
                     /\ reservation'[s] = reservation[s]
                        \/ reservation'[s] = "held"
                        \/ reservation[s] = "reconciling"
                  \/ /\ charge'[s] = TotalTokens(usage[s])
                     /\ provider'[s] # "open" \/ cancelled
                  \/ reservation'[s] \notin {"reconciling", "settled"}
            \/ /\ reservation'[s] \notin {"reconciling", "settled"}
               /\ \E report \in Reports :
                    /\ reports' = [reports EXCEPT ![s] = Append(@, report)]
                    /\ usage' = [usage EXCEPT ![s] = Merge(report, @)]
<1> USE DEF RelayTyped, clientVars, providerVars, relayVars, StopAndReconcile
<1>1. CASE HandlerNext(s)
  BY <1>1 DEF HandlerNext, Begin, HandlerEnds, StartRelay
<1>2. CASE FirstPoll(s) \/ Send(s) \/ SendFails(s) \/ Reconciled(s)
  BY <1>2 DEF FirstPoll, Send, SendFails, Reconciled, SettlementInv
<1>3. CASE SendError(s)
  <2>1. provider[s] = "failed"
    BY <1>3 DEF SendError, ProviderInv
  <2>2. QED
    BY <1>3, <2>1 DEF SendError
<1>4. CASE CancelledWhilePolling(s) \/ CancelledWhileSending(s)
  BY <1>4 DEF CancelledWhilePolling, CancelledWhileSending
<1>5. CASE ChunkArrives(s)
  <2>1. reservation[s] = "held" /\ UNCHANGED reservation
    BY <1>5 DEF ChunkArrives, SettlementInv, Relaying
  <2>2. QED
    BY <1>5, <2>1 DEF ChunkArrives
<1>6. CASE ProviderEnds(s)
  BY <1>6 DEF ProviderEnds
<1>7. CASE ProviderFails(s)
  <2>1. reservation[s] = "held"
    BY <1>7 DEF ProviderFails, SettlementInv, Relaying
  <2>2. QED
    BY <1>7, <2>1 DEF ProviderFails
<1>8. CASE ClientNext(s)
  BY <1>8 DEF ClientNext, ClientReads, Receive, SeesEnd, Leaves
<1>9. QED
  BY <1>1, <1>2, <1>3, <1>4, <1>5, <1>6, <1>7, <1>8
     DEF StreamNext, RelayNext, ProviderNext

LEMMA NextKeepsRecord ==
  ASSUME Inv, RecordInv, [Next]_vars
  PROVE  RecordInv'
<1>0. RelayTyped /\ \A s \in Streams : SettlementInv(s) /\ ProviderInv(s)
  BY DEF Inv, RelayInv, StreamInv, DeliveryInv
<1>1. ASSUME NEW s \in Streams, StreamNext(s) PROVE RecordInv'
  <2> SUFFICES ASSUME NEW t \in Streams PROVE UsageInv(t)' /\ ReconcileInv(t)'
    BY DEF RecordInv
  <2>0. UsageInv(t) /\ ReconcileInv(t)
    BY DEF RecordInv
  <2>1. CASE t # s
    <3>1. UsageInv(t)'
      BY <1>0, <1>1, <2>0, <2>1, RecordStep, UsageSame
    <3>2. ReconcileInv(t)'
      BY <1>0, <1>1, <2>0, <2>1, RecordStep DEF ReconcileInv
    <3>3. QED
      BY <3>1, <3>2
  <2>2. CASE t = s
    <3>1. UsageInv(s)'
      BY <1>0, <1>1, <2>0, <2>2, RecordStep, UsageSame, UsageMerged
    <3>2. ReconcileInv(s)'
      BY <1>0, <1>1, <2>0, <2>2, RecordStep DEF ReconcileInv
    <3>3. QED
      BY <2>2, <3>1, <3>2
  <2>3. QED
    BY <2>1, <2>2
<1>2. ASSUME UNCHANGED <<usage, charge, reports, provider>>, cancelled => cancelled',
             reservation' = reservation
      PROVE  RecordInv'
  <2>1. ASSUME NEW s \in Streams PROVE UsageInv(s)' /\ ReconcileInv(s)'
    <3>1. UsageInv(s) /\ ReconcileInv(s)
      BY DEF RecordInv
    <3>2. UsageInv(s)'
      BY <1>2, <3>1, UsageSame
    <3>3. ReconcileInv(s)'
      BY <1>2, <3>1 DEF ReconcileInv
    <3>4. QED
      BY <3>2, <3>3
  <2>2. QED
    BY <2>1 DEF RecordInv
<1>3. CASE Cancel
  BY <1>2, <1>3 DEF Cancel, relayVars, providerVars
<1>4. CASE RuntimeDropped
  BY <1>2, <1>4 DEF RuntimeDropped, providerVars
<1>5. CASE UNCHANGED vars
  BY <1>2, <1>5 DEF vars
<1>6. QED
  BY <1>1, <1>3, <1>4, <1>5 DEF Next, StreamNext

(* What a recorder passes to reconcile is what the provider reported, for  *)
(* every sequence of reports, whenever the client leaves or the service is *)
(* shut down.                                                              *)
THEOREM ChargesAreReported == Spec => []ChargesWhatWasReported
<1>1. Init => RecordInv
  <2> SUFFICES ASSUME Init, NEW s \in Streams PROVE UsageInv(s) /\ ReconcileInv(s)
    BY DEF RecordInv
  <2>1. /\ reports[s] = <<>> /\ usage[s] = Nothing /\ reservation[s] = "none"
    BY DEF Init
  <2>2. Fields(s) = {}
    BY <2>1 DEF Fields
  <2>3. QED
    BY <2>1, <2>2 DEF UsageInv, ReconcileInv, Nothing
<1>2. Inv /\ RecordInv /\ [Next]_vars => RecordInv'
  BY NextKeepsRecord
<1>3. Inv /\ RecordInv => ChargesWhatWasReported
  <2> SUFFICES ASSUME Inv, RecordInv, NEW s \in Streams,
                      reservation[s] \in {"reconciling", "settled"}
               PROVE  /\ charge[s] = Reported(s)
                      /\ provider[s] # "open" \/ cancelled
    BY DEF ChargesWhatWasReported
  <2>1. UsageInv(s) /\ ReconcileInv(s)
    BY DEF RecordInv
  <2>2. ASSUME NEW f \in Fields(s) PROVE usage[s][f] = LastValue(s, f)
    <3> DEFINE S == {j \in 1..Len(reports[s]) : f \in DOMAIN reports[s][j]}
    <3>1. PICK i \in 1..Len(reports[s]) :
            LastReport(reports[s], f, i) /\ usage[s][f] = reports[s][i][f]
      BY <2>1 DEF UsageInv
    <3>2. i \in S /\ \A j \in S : j <= i
      BY <3>1 DEF LastReport
    <3>3. S \subseteq Int
      OBVIOUS
    <3>4. Max(S) = i
      <4> HIDE DEF S
      <4>1. \E x \in S : \A y \in S : x >= y
        BY <3>2, <3>3
      <4>2. Max(S) \in S /\ \A y \in S : Max(S) >= y
        BY <4>1 DEF Max
      <4> DEFINE m == Max(S)
      <4>3. m \in Int /\ i \in Int /\ m >= i /\ i >= m
        BY <3>2, <3>3, <4>2
      <4> HIDE DEF m
      <4>4. m = i
        BY <4>3
      <4>5. QED
        BY <4>4 DEF m
    <3>5. QED
      BY <3>1, <3>4 DEF LastValue
  <2>3. usage[s] = [f \in Fields(s) |-> LastValue(s, f)]
    BY <2>1, <2>2 DEF UsageInv
  <2>4. TotalTokens(usage[s]) = Reported(s)
    BY <2>3 DEF TotalTokens, Reported
  <2>5. QED
    BY <2>1, <2>4 DEF ReconcileInv
<1>4. QED
  BY <1>1, <1>2, <1>3, SpecInv, PTL DEF Spec

-----------------------------------------------------------------------------
(* Types and lengths.                                                      *)

(* The channel keeps its capacity, and everything in it was numbered by    *)
(* the provider.                                                           *)
LengthInv(s) ==
  /\ Len(reports[s]) <= MaxChunks
  /\ Len(chan[s]) <= Capacity
  /\ \A i \in 1..Len(chan[s]) : chan[s][i] \in Items
  /\ \A i \in 1..Len(got[s]) : got[s][i] \in Items

(* Usage as the code has it: finitely many counts.                         *)
IsUsage(u) == IsFiniteSet(DOMAIN u) /\ u \in [DOMAIN u -> Nat]
CostInv ==
  /\ DOMAIN usage = Streams /\ \A s \in Streams : IsUsage(usage[s])
  /\ charge \in [Streams -> Nat \cup {Unreported}]

SizeInv == CostInv /\ \A s \in Streams : LengthInv(s)

LEMMA MergeIsUsage ==
  ASSUME NEW u, NEW v, IsUsage(u), IsUsage(v)
  PROVE  IsUsage(Merge(u, v))
<1>1. IsFiniteSet(DOMAIN u \cup DOMAIN v)
  BY FS_Union DEF IsUsage
<1>2. QED
  BY <1>1 DEF IsUsage, Merge

LEMMA TotalIsTyped ==
  ASSUME NEW u, IsUsage(u)
  PROVE  TotalTokens(u) \in Nat \cup {Unreported}
<1>1. SumFunction(u) \in Nat
  BY SumOfNaturals DEF IsUsage
<1>2. QED
  BY <1>1 DEF TotalTokens

(* An item at the end, and one taken from the front.                       *)
LEMMA AppendItem ==
  ASSUME NEW q \in Seq(Nat), NEW item \in Items, NEW n \in Nat, Len(q) < n,
         \A i \in 1..Len(q) : q[i] \in Items
  PROVE  /\ Len(Append(q, item)) <= n
         /\ \A i \in 1..Len(Append(q, item)) : Append(q, item)[i] \in Items
<1>1. /\ Len(Append(q, item)) = Len(q) + 1 /\ Len(q) \in Nat
      /\ \A i \in 1..Len(q) : Append(q, item)[i] = q[i]
      /\ Append(q, item)[Len(q) + 1] = item
  BY AppendProperties, RelayAssumption DEF Items
<1>2. QED
  BY <1>1

(* One action's effect on what LengthInv says of a stream.                 *)
LEMMA LengthStep ==
  ASSUME RelayTyped, NEW s \in Streams, LengthInv(s), StreamNext(s)
  PROVE  LengthInv(s)'
<1>0. /\ chan[s] \in Seq(Nat) /\ got[s] \in Seq(Nat)
      /\ reports[s] \in Seq(Reports)
      /\ Len(chan[s]) \in Nat /\ Len(got[s]) \in Nat /\ Len(reports[s]) \in Nat
      /\ MaxChunks \in Nat /\ Capacity \in Nat /\ 0 \in Items
  BY RelayAssumption DEF RelayTyped, Items
<1>1. ASSUME UNCHANGED <<chan, got, reports>> PROVE LengthInv(s)'
  BY <1>1 DEF LengthInv
<1>2. ASSUME NEW item \in Items, Len(chan[s]) < Capacity,
             chan' = [chan EXCEPT ![s] = Append(@, item)],
             UNCHANGED <<got, reports>>
      PROVE  LengthInv(s)'
  <2>1. chan'[s] = Append(chan[s], item)
    BY <1>2 DEF RelayTyped
  <2>2. /\ Len(chan'[s]) <= Capacity
        /\ \A i \in 1..Len(chan'[s]) : chan'[s][i] \in Items
    BY <1>0, <1>2, <2>1, AppendItem DEF LengthInv
  <2>3. QED
    BY <1>2, <2>2 DEF LengthInv
<1>3. CASE HandlerNext(s)
  BY <1>1, <1>3 DEF HandlerNext, Begin, HandlerEnds, StartRelay, clientVars,
     providerVars, LengthInv
<1>4. CASE Send(s)
  <2>1. Len(reports[s]) \in Items /\ Len(chan[s]) < Capacity
    BY <1>0, <1>4 DEF Send, Room, LengthInv, Items
  <2>2. QED
    BY <1>2, <1>4, <2>1 DEF Send, providerVars
<1>5. CASE SendError(s)
  <2>1. ErrorItem \in Items
    BY <1>0 DEF ErrorItem
  <2>2. QED
    BY <1>1, <1>2, <1>5, <2>1 DEF SendError, Room, providerVars
<1>6. CASE \/ FirstPoll(s) \/ SendFails(s) \/ CancelledWhilePolling(s)
           \/ CancelledWhileSending(s) \/ Reconciled(s)
  BY <1>1, <1>6 DEF FirstPoll, SendFails, CancelledWhilePolling,
     CancelledWhileSending, Reconciled, clientVars, providerVars
<1>7. CASE ChunkArrives(s)
  <2>1. PICK report \in Reports :
          reports' = [reports EXCEPT ![s] = Append(@, report)]
    BY <1>7 DEF ChunkArrives
  <2>2. Len(reports'[s]) = Len(reports[s]) + 1
    BY <1>0, <2>1 DEF RelayTyped
  <2>3. Len(reports'[s]) <= MaxChunks
    BY <1>0, <1>7, <2>2 DEF ChunkArrives
  <2>4. QED
    BY <1>7, <2>3 DEF ChunkArrives, clientVars, LengthInv
<1>8. CASE ProviderEnds(s) \/ ProviderFails(s)
  BY <1>1, <1>8 DEF ProviderEnds, ProviderFails, clientVars
<1>9. CASE Receive(s)
  <2>1. /\ chan'[s] = Tail(chan[s]) /\ got'[s] = Append(got[s], Head(chan[s]))
        /\ reports'[s] = reports[s] /\ chan[s] # <<>>
    BY <1>9 DEF Receive, RelayTyped, providerVars
  <2>2. Head(chan[s]) = chan[s][1] /\ 1 \in 1..Len(chan[s])
    BY <1>0, <2>1
  <2>3. Head(chan[s]) \in Items
    BY <2>2 DEF LengthInv
  <2>4. \A i \in 1..Len(got'[s]) : got'[s][i] \in Items
    <3>1. Len(got[s]) < Len(got[s]) + 1 /\ Len(got[s]) + 1 \in Nat
      BY <1>0
    <3>2. \A i \in 1..Len(got[s]) : got[s][i] \in Items
      BY DEF LengthInv
    <3>3. QED
      BY <1>0, <2>1, <2>3, <3>1, <3>2, AppendItem
  <2>5. /\ Len(chan'[s]) = Len(chan[s]) - 1
        /\ \A i \in 1..Len(chan'[s]) :
             chan'[s][i] = chan[s][i + 1] /\ i + 1 \in 1..Len(chan[s])
    BY <1>0, <2>1, HeadTailProperties
  <2>6. QED
    BY <1>0, <2>1, <2>4, <2>5 DEF LengthInv
<1>10. CASE SeesEnd(s)
  BY <1>1, <1>10 DEF SeesEnd, providerVars
<1>11. CASE Leaves(s)
  <2>1. chan'[s] = <<>> /\ UNCHANGED <<got, reports>>
    BY <1>11 DEF Leaves, RelayTyped, providerVars
  <2>2. QED
    BY <1>0, <2>1 DEF LengthInv
<1>12. QED
  BY <1>3, <1>4, <1>5, <1>6, <1>7, <1>8, <1>9, <1>10, <1>11
     DEF StreamNext, RelayNext, ProviderNext, ClientNext, ClientReads

(* A recorder adds a report to its usage, or charges its total.            *)
LEMMA CostStep ==
  ASSUME SizeInv, NEW s \in Streams, StreamNext(s)
  PROVE  CostInv'
<1> USE DEF clientVars, providerVars, relayVars
<1>1. ASSUME UNCHANGED <<usage, charge>>
      PROVE  CostInv'
  BY <1>1 DEF SizeInv, CostInv
<1>2. CASE ChunkArrives(s)
  <2>1. PICK report \in Reports :
          usage' = [usage EXCEPT ![s] = Merge(report, @)]
    BY <1>2 DEF ChunkArrives
  <2>2. IsUsage(report) /\ IsUsage(usage[s])
    BY RelayAssumption DEF SizeInv, CostInv, IsUsage
  <2>3. IsUsage(Merge(report, usage[s]))
    BY <2>2, MergeIsUsage
  <2>4. QED
    BY <1>2, <2>1, <2>3 DEF ChunkArrives, SizeInv, CostInv
<1>3. ASSUME StopAndReconcile(s)
      PROVE  CostInv'
  <2>1. TotalTokens(usage[s]) \in Nat \cup {Unreported}
    BY TotalIsTyped DEF SizeInv, CostInv
  <2>2. QED
    BY <1>3, <2>1 DEF StopAndReconcile, SizeInv, CostInv
<1>4. CASE ProviderFails(s)
  BY <1>1, <1>3, <1>4 DEF ProviderFails
<1>5. CASE \/ ProviderEnds(s) \/ SendError(s) \/ CancelledWhilePolling(s)
           \/ CancelledWhileSending(s)
  BY <1>3, <1>5 DEF ProviderEnds, SendError, CancelledWhilePolling,
     CancelledWhileSending
<1>6. CASE FirstPoll(s) \/ Send(s) \/ SendFails(s) \/ Reconciled(s)
  BY <1>1, <1>6 DEF FirstPoll, Send, SendFails, Reconciled
<1>7. CASE HandlerNext(s)
  BY <1>1, <1>7 DEF HandlerNext, Begin, HandlerEnds, StartRelay
<1>8. CASE ClientNext(s)
  BY <1>1, <1>8 DEF ClientNext, ClientReads, Receive, SeesEnd, Leaves
<1>9. QED
  BY <1>2, <1>4, <1>5, <1>6, <1>7, <1>8
     DEF StreamNext, RelayNext, ProviderNext

LEMMA NextKeepsSizes ==
  ASSUME RelayTyped, SizeInv, [Next]_vars
  PROVE  SizeInv'
<1>1. ASSUME NEW s \in Streams, StreamNext(s) PROVE SizeInv'
  <2>1. LengthInv(s)'
    BY <1>1, LengthStep DEF SizeInv
  <2>2. ASSUME NEW t \in Streams \ {s} PROVE LengthInv(t)'
    BY <1>1, StreamStepTyped DEF OthersUnchanged, SizeInv, LengthInv
  <2>3. QED
    BY <1>1, <2>1, <2>2, CostStep DEF SizeInv
<1>2. ASSUME UNCHANGED <<usage, charge, chan, got, reports>> PROVE SizeInv'
  BY <1>2 DEF SizeInv, LengthInv, CostInv
<1>3. QED
  BY <1>1, <1>2
     DEF Next, StreamNext, Cancel, RuntimeDropped, vars, relayVars,
         clientVars, providerVars

LEMMA SpecSizes == Spec => [](Inv /\ SizeInv)
<1>1. Init => SizeInv
  <2> SUFFICES ASSUME Init PROVE SizeInv
    OBVIOUS
  <2>1. IsUsage(Nothing)
    BY FS_EmptySet DEF IsUsage, Nothing
  <2>2. QED
    BY <2>1, RelayAssumption DEF Init, SizeInv, LengthInv, CostInv
<1>2. Inv => RelayTyped
  BY DEF Inv, RelayInv
<1>3. QED
  BY <1>1, <1>2, InitInv, NextInv, NextKeepsSizes, PTL DEF Spec

LEMMA BoundedByLength ==
  ASSUME NEW S, NEW q \in Seq(S), NEW T, NEW n \in Nat, Len(q) <= n,
         \A i \in 1..Len(q) : q[i] \in T
  PROVE  q \in BoundedSeq(T, n)
<1>1. Len(q) \in 0..n /\ q \in [1..Len(q) -> T]
  OBVIOUS
<1>2. QED
  BY <1>1 DEF BoundedSeq, SeqOf

(* Every variable has its type: the channel of a stream never exceeds its  *)
(* capacity, a client gets one item per chunk and an error at most, and    *)
(* what is charged is a count or nothing.                                  *)
THEOREM TypeCorrect == Spec => []TypeOK
<1>1. Inv /\ SizeInv => TypeOK
  <2> SUFFICES ASSUME Inv, SizeInv PROVE TypeOK
    OBVIOUS
  <2>0. /\ RelayTyped /\ MaxChunks \in Nat /\ MaxChunks + 1 \in Nat
        /\ Capacity \in Nat
    BY RelayAssumption DEF Inv, RelayInv
  <2>1. ASSUME NEW s \in Streams
        PROVE  /\ chan[s] \in BoundedSeq(Items, Capacity)
               /\ reports[s] \in BoundedSeq(Reports, MaxChunks)
               /\ got[s] \in BoundedSeq(Items, MaxChunks + 1)
    <3>0. LengthInv(s) /\ GotPrefix(s)
      BY DEF SizeInv, Inv, RelayInv, StreamInv, DeliveryInv
    <3>1. /\ chan[s] \in Seq(Nat) /\ got[s] \in Seq(Nat)
          /\ reports[s] \in Seq(Reports)
      BY <2>0 DEF RelayTyped
    <3>2. chan[s] \in BoundedSeq(Items, Capacity)
      BY <2>0, <3>0, <3>1, BoundedByLength DEF LengthInv
    <3>3. reports[s] \in BoundedSeq(Reports, MaxChunks)
      <4>1. \A i \in 1..Len(reports[s]) : reports[s][i] \in Reports
        BY <3>1
      <4>2. QED
        BY <2>0, <3>0, <3>1, <4>1, BoundedByLength DEF LengthInv
    <3>4. Len(got[s]) <= MaxChunks + 1
      <4>1. Len(got[s]) \in Nat /\ Len(reports[s]) \in Nat
        BY <3>1
      <4>2. CASE Len(got[s]) = 0
        BY <2>0, <4>2
      <4>3. CASE Len(got[s]) # 0
        <5>1. Len(got[s]) \in 1..Len(got[s])
          BY <4>1, <4>3
        <5>2. Len(got[s]) <= Len(reports[s]) + 1
          BY <3>0, <4>1, <5>1 DEF GotPrefix, IsChunk, IsError
        <5>3. QED
          BY <2>0, <3>0, <4>1, <5>2 DEF LengthInv
      <4>4. QED
        BY <4>2, <4>3
    <3>5. got[s] \in BoundedSeq(Items, MaxChunks + 1)
      BY <2>0, <3>0, <3>1, <3>4, BoundedByLength DEF LengthInv
    <3>6. QED
      BY <3>2, <3>3, <3>5
  <2>2. SlotsTypeOK
    BY RelayAssumption DEF Inv, SlotsInv, SlotsTypeOK
  <2>3. charge \in [Streams -> Nat \cup {Unreported}]
    BY DEF SizeInv, CostInv
  <2>4. \A s \in Streams :
          task[s] \in Relaying \ {"reconciling"} => reservation[s] = "held"
    BY DEF Inv, RelayInv, StreamInv, SettlementInv
  <2>5. /\ task \in [Streams -> Relaying \cup {"idle", "handling", "done",
                                            "aborted"}]
        /\ reservation \in [Streams -> {"none", "held", "reconciling",
                                        "settled"}]
        /\ client \in [Streams -> {"none", "reading", "left", "failed",
                                   "ended"}]
        /\ provider \in [Streams -> {"open", "ended", "failed"}]
    BY <2>0 DEF RelayTyped, Places
  <2>6. /\ connected \in [Streams -> BOOLEAN]
        /\ cancelled \in BOOLEAN /\ running \in BOOLEAN
    BY <2>0, Zenon DEF RelayTyped
  <2>7. /\ chan \in [Streams -> BoundedSeq(Items, Capacity)]
        /\ got \in [Streams -> BoundedSeq(Items, MaxChunks + 1)]
        /\ reports \in [Streams -> BoundedSeq(Reports, MaxChunks)]
    BY <2>0, <2>1 DEF RelayTyped
  <2>8. QED
    BY <2>2, <2>3, <2>4, <2>5, <2>6, <2>7, Zenon DEF TypeOK
<1>2. QED
  BY <1>1, SpecSizes, PTL

-----------------------------------------------------------------------------
(* Progress: what liveness under fairness rests on, as safety.             *)

(* A bound on the steps a stream still has before it, by what it has left  *)
(* to read from its provider and to hand to its client.                    *)
PlaceRank(place) ==
  IF place = "idle" THEN 7
  ELSE IF place \in {"handling", "sending"} THEN 6
  ELSE IF place = "spawned" THEN 5
  ELSE IF place = "polling" THEN 4
  ELSE IF place = "sendingError" THEN 3
  ELSE IF place = "reconciling" THEN 1
  ELSE 0
ClientRank(c) == IF c \in {"none", "reading"} THEN 1 ELSE 0
StepsLeft(s) ==
  3 * (MaxChunks - Len(reports[s])) + PlaceRank(task[s]) + Len(chan[s])
    + ClientRank(client[s])

StepUsesUp ==
  /\ \A s \in Streams : StepsLeft(s) \in Nat /\ StepsLeft(s)' <= StepsLeft(s)
  /\ \/ \E s \in Streams : StepsLeft(s)' < StepsLeft(s)
     \/ ~cancelled /\ cancelled'
     \/ running /\ ~running'

LEMMA StepsTyped ==
  ASSUME RelayTyped, NEW s \in Streams, LengthInv(s)
  PROVE  StepsLeft(s) \in Nat
<1>1. /\ Len(reports[s]) \in Nat /\ Len(chan[s]) \in Nat
      /\ Len(reports[s]) <= MaxChunks /\ MaxChunks \in Nat
  BY RelayAssumption DEF RelayTyped, LengthInv
<1>2. PlaceRank(task[s]) \in Nat /\ ClientRank(client[s]) \in Nat
  BY DEF PlaceRank, ClientRank
<1>3. QED
  BY <1>1, <1>2 DEF StepsLeft

(* A step of a stream brings that stream nearer to its end.                *)
LEMMA StepDecreases ==
  ASSUME RelayTyped, NEW s \in Streams, SettlementInv(s), StreamNext(s)
  PROVE  StepsLeft(s)' \in Int /\ StepsLeft(s)' < StepsLeft(s)
<1> DEFINE r == Len(reports[s])
           p == PlaceRank(task[s])
           c == Len(chan[s])
           k == ClientRank(client[s])
           r2 == Len(reports'[s])
           p2 == PlaceRank(task'[s])
           c2 == Len(chan'[s])
           k2 == ClientRank(client'[s])
<1>0. /\ chan[s] \in Seq(Nat) /\ reports[s] \in Seq(Reports)
      /\ chan'[s] \in Seq(Nat) /\ reports'[s] \in Seq(Reports)
  BY StreamStepTyped DEF RelayTyped
<1>1. /\ p \in Nat /\ p2 \in Nat /\ k \in Nat /\ k2 \in Nat
      /\ r \in Nat /\ r2 \in Nat /\ c \in Nat /\ c2 \in Nat
      /\ MaxChunks \in Nat
  BY <1>0, RelayAssumption DEF PlaceRank, ClientRank
<1>2. /\ StepsLeft(s) = 3 * (MaxChunks - r) + p + c + k
      /\ StepsLeft(s)' = 3 * (MaxChunks - r2) + p2 + c2 + k2
  BY DEF StepsLeft
<1> SUFFICES 3 * r + p2 + c2 + k2 < 3 * r2 + p + c + k
  <2> HIDE DEF r, p, c, k, r2, p2, c2, k2
  <2>1. /\ 3 * (MaxChunks - r) = 3 * MaxChunks - 3 * r
        /\ 3 * (MaxChunks - r2) = 3 * MaxChunks - 3 * r2
        /\ 3 * MaxChunks \in Int /\ 3 * r \in Int /\ 3 * r2 \in Int
    BY ONLY <1>1
  <2>2. StepsLeft(s)' \in Int
    BY ONLY <1>1, <1>2
  <2>3. ASSUME 3 * r + p2 + c2 + k2 < 3 * r2 + p + c + k
        PROVE  StepsLeft(s)' < StepsLeft(s)
    BY ONLY <1>1, <1>2, <2>1, <2>3
  <2>4. QED
    BY <2>2, <2>3
<1> USE DEF Goto, clientVars, providerVars, relayVars, StopAndReconcile
<1> HIDE DEF r, p, c, k, r2, p2, c2, k2
<1>3. CASE HandlerNext(s)
  <2>1. c2 = c /\ r2 = r
    BY <1>3 DEF HandlerNext, Begin, HandlerEnds, StartRelay, r, r2, c, c2
  <2>2. k2 <= k
    BY <1>3
       DEF HandlerNext, Begin, HandlerEnds, StartRelay, RelayTyped,
           SettlementInv, NotStarted, ClientRank, k, k2
  <2>3. p2 < p
    BY <1>3
       DEF HandlerNext, Begin, HandlerEnds, StartRelay, RelayTyped,
           PlaceRank, p, p2
  <2>4. QED
    BY ONLY <1>1, <2>1, <2>2, <2>3
<1>4. CASE \/ FirstPoll(s) \/ SendFails(s) \/ CancelledWhilePolling(s)
           \/ CancelledWhileSending(s) \/ Reconciled(s)
  <2>1. c2 = c /\ r2 = r /\ k2 = k
    BY <1>4 DEF FirstPoll, SendFails, CancelledWhilePolling,
       CancelledWhileSending, Reconciled, r, r2, c, c2, k, k2
  <2>2. p2 < p
    BY <1>4 DEF FirstPoll, SendFails, CancelledWhilePolling,
       CancelledWhileSending, Reconciled, RelayTyped, PlaceRank, p, p2
  <2>3. QED
    BY ONLY <1>1, <2>1, <2>2
<1>5. CASE ProviderEnds(s) \/ ProviderFails(s)
  <2>1. c2 = c /\ r2 = r /\ k2 = k
    BY <1>5 DEF ProviderEnds, ProviderFails, r, r2, c, c2, k, k2
  <2>2. p2 < p
    BY <1>5 DEF ProviderEnds, ProviderFails, RelayTyped, PlaceRank, p, p2
  <2>3. QED
    BY ONLY <1>1, <2>1, <2>2
<1>6. CASE Send(s) \/ SendError(s)
  <2>1. r2 = r /\ k2 = k
    BY <1>6 DEF Send, SendError, r, r2, k, k2
  <2>2. \/ chan'[s] = chan[s]
        \/ \E item \in Nat : chan'[s] = Append(chan[s], item)
    <3>1. Len(reports[s]) \in Nat /\ ErrorItem \in Nat
      BY <1>0 DEF ErrorItem
    <3>2. \/ chan'[s] = chan[s]
          \/ chan'[s] = Append(chan[s], Len(reports[s]))
          \/ chan'[s] = Append(chan[s], ErrorItem)
      BY <1>6 DEF Send, SendError, RelayTyped
    <3>3. QED
      BY <3>1, <3>2
  <2>3. c2 <= c + 1
    BY <1>0, <2>2 DEF c, c2
  <2>4. p2 + 1 < p
    BY <1>6 DEF Send, SendError, RelayTyped, PlaceRank, p, p2
  <2>5. QED
    BY ONLY <1>1, <2>1, <2>3, <2>4
<1>7. CASE ChunkArrives(s)
  <2>1. PICK report \in Reports :
          reports' = [reports EXCEPT ![s] = Append(@, report)]
    BY <1>7 DEF ChunkArrives
  <2>2. r2 = r + 1
    BY <1>0, <2>1 DEF RelayTyped, r, r2
  <2>3. c2 = c /\ k2 = k
    BY <1>7 DEF ChunkArrives, c, c2, k, k2
  <2>4. p2 <= p + 2
    BY <1>7 DEF ChunkArrives, RelayTyped, PlaceRank, p, p2
  <2>5. QED
    BY ONLY <1>1, <2>2, <2>3, <2>4
<1>8. CASE Receive(s)
  <2>1. r2 = r /\ p2 = p
    BY <1>8 DEF Receive, r, r2, p, p2
  <2>2. chan'[s] = Tail(chan[s]) /\ chan[s] # <<>>
    BY <1>8 DEF Receive, RelayTyped
  <2>3. c2 = c - 1
    BY <1>0, <2>2 DEF c, c2
  <2>4. k2 <= k
    BY <1>8 DEF Receive, RelayTyped, ClientRank, k, k2
  <2>5. QED
    BY ONLY <1>1, <2>1, <2>3, <2>4
<1>9. CASE SeesEnd(s) \/ Leaves(s)
  <2>1. r2 = r /\ p2 = p
    BY <1>9 DEF SeesEnd, Leaves, r, r2, p, p2
  <2>2. chan'[s] \in {chan[s], <<>>}
    BY <1>9 DEF SeesEnd, Leaves, RelayTyped
  <2>3. c2 <= c
    BY <1>0, <2>2 DEF c, c2
  <2>4. k2 < k
    BY <1>9 DEF SeesEnd, Leaves, RelayTyped, ClientRank, k, k2
  <2>5. QED
    BY ONLY <1>1, <2>1, <2>3, <2>4
<1>10. QED
  BY <1>3, <1>4, <1>5, <1>6, <1>7, <1>8, <1>9
     DEF StreamNext, RelayNext, ProviderNext, ClientNext, ClientReads

(* No step of the task gives a stream more to do, and each one uses up     *)
(* something of a stream, or is the cancellation or the end of the         *)
(* process: neither draining for a client that left nor a cancelled select *)
(* can go round without end, and a stream takes 3 * MaxChunks + 8 steps at *)
(* the most.                                                               *)
THEOREM StepsRunOut == Spec => [][StepUsesUp]_vars
<1>1. Inv /\ SizeInv /\ [Next]_vars => [StepUsesUp]_vars
  <2> SUFFICES ASSUME Inv, SizeInv, Next PROVE StepUsesUp
    OBVIOUS
  <2>0. /\ RelayTyped
        /\ \A s \in Streams : SettlementInv(s) /\ StepsLeft(s) \in Nat
    BY StepsTyped DEF Inv, RelayInv, StreamInv, SizeInv
  <2>1. ASSUME NEW s \in Streams, StreamNext(s) PROVE StepUsesUp
    <3>1. StepsLeft(s)' \in Int /\ StepsLeft(s)' < StepsLeft(s)
      BY <2>0, <2>1, StepDecreases
    <3>2. ASSUME NEW t \in Streams \ {s} PROVE StepsLeft(t)' = StepsLeft(t)
      BY <2>0, <2>1, StreamStepTyped DEF OthersUnchanged, StepsLeft
    <3>3. ASSUME NEW t \in Streams PROVE StepsLeft(t)' <= StepsLeft(t)
      <4>1. CASE t = s
        <5>1. StepsLeft(t)' = StepsLeft(s)' /\ StepsLeft(t) = StepsLeft(s)
          BY <4>1
        <5>2. StepsLeft(s) \in Nat
          BY <2>0
        <5>3. QED
          BY ONLY <3>1, <5>1, <5>2
      <4>2. CASE t # s
        BY <2>0, <3>2, <4>2
      <4>3. QED
        BY <4>1, <4>2
    <3>4. QED
      BY <2>0, <3>1, <3>3 DEF StepUsesUp
  <2>2. CASE Cancel
    <3>1. \A s \in Streams : StepsLeft(s)' = StepsLeft(s)
      BY <2>2 DEF Cancel, relayVars, clientVars, providerVars, StepsLeft
    <3>2. QED
      BY <2>0, <2>2, <3>1 DEF Cancel, StepUsesUp
  <2>3. CASE RuntimeDropped
    <3>1. ASSUME NEW s \in Streams PROVE StepsLeft(s)' <= StepsLeft(s)
      <4>1. /\ reports'[s] = reports[s] /\ chan'[s] = chan[s]
            /\ client'[s] = client[s]
            /\ task'[s] \in {task[s], "aborted"}
        BY <2>3 DEF RuntimeDropped, clientVars, providerVars
      <4>2. PlaceRank(task'[s]) <= PlaceRank(task[s])
        BY <4>1 DEF PlaceRank
      <4>3. /\ Len(reports[s]) \in Nat /\ Len(chan[s]) \in Nat
            /\ MaxChunks \in Nat
        BY <2>0, RelayAssumption DEF RelayTyped
      <4>4. PlaceRank(task'[s]) \in Nat /\ PlaceRank(task[s]) \in Nat
            /\ ClientRank(client[s]) \in Nat
        BY DEF PlaceRank, ClientRank
      <4>5. QED
        BY <4>1, <4>2, <4>3, <4>4 DEF StepsLeft
    <3>2. QED
      BY <2>0, <2>3, <3>1 DEF RuntimeDropped, StepUsesUp
  <2>4. QED
    BY <2>1, <2>2, <2>3 DEF Next, StreamNext
<1>2. QED
  BY <1>1, SpecSizes, PTL DEF Spec

(* Who must move for a relay to go on, and for a client to: guards of the  *)
(* next step, none of which waits for the one that waits.                  *)
RelayGoesOn(s) ==
  \/ task[s] = "spawned"
  \/ task[s] = "polling" /\ provider[s] = "open"
  \/ /\ task[s] \in {"sending", "sendingError"}
     /\ Room(s) \/ client[s] # "reading" \/ chan[s] # <<>>
  \/ task[s] = "reconciling" /\ s \in holders
ClientGoesOn(s) ==
  \/ chan[s] # <<>>
  \/ task[s] = "done"
  \/ task[s] \in Relaying /\ RelayGoesOn(s)
NobodyIsStuck ==
  \A s \in Streams : /\ task[s] \in Relaying => RelayGoesOn(s)
                     /\ client[s] = "reading" => ClientGoesOn(s)

(* A relay never waits for something that waits for it: what it polls is   *)
(* open, a full channel has a client to empty it, and its slot is there to *)
(* be given back; a client that reads has an item, an end to see, or a     *)
(* relay that goes on.                                                     *)
THEOREM NoCircularWait == Spec => []NobodyIsStuck
<1>1. Inv => NobodyIsStuck
  <2> SUFFICES ASSUME Inv, NEW s \in Streams
               PROVE  /\ task[s] \in Relaying => RelayGoesOn(s)
                      /\ client[s] = "reading" => ClientGoesOn(s)
    BY DEF NobodyIsStuck
  <2>0. RelayTyped /\ SettlementInv(s) /\ ProviderInv(s) /\ SlotsInv
    BY DEF Inv, RelayInv, StreamInv, DeliveryInv
  <2>1. ASSUME task[s] \in Relaying PROVE RelayGoesOn(s)
    <3>1. task[s] = "reconciling" => s \in holders
      BY <2>0 DEF SlotsInv, Working, Relaying
    <3>2. task[s] = "polling" => provider[s] = "open"
      BY <2>0 DEF ProviderInv
    <3>3. Room(s) \/ client[s] # "reading" \/ chan[s] # <<>>
      <4>1. Capacity \in Nat \ {0}
        BY RelayAssumption
      <4>2. QED
        BY <4>1 DEF Room
    <3>4. QED
      BY <2>1, <3>1, <3>2, <3>3 DEF RelayGoesOn, Relaying
  <2>2. ASSUME client[s] = "reading" PROVE task[s] \in Relaying \cup {"done"}
    BY <2>0, <2>2 DEF RelayTyped, SettlementInv, Places, NotStarted
  <2>3. QED
    BY <2>1, <2>2 DEF ClientGoesOn
<1>2. QED
  BY <1>1, SpecInv, PTL
=============================================================================

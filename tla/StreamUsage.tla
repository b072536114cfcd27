---------------------------- MODULE StreamUsage ----------------------------
(***************************************************************************)
(* A request to the provider mock and the usage the gateway charges for    *)
(* its answer: the mock's events leave one by one (mock_stream.rs), arrive *)
(* in chunks cut anywhere, are taken from the buffer (SseEvents) and       *)
(* observed by the recorders of openai.rs and anthropic.rs, until the      *)
(* stream ends or fails.  A JSON body is read as a whole.                  *)
(***************************************************************************)
EXTENDS SseEvents, ProviderMock

CONSTANTS
  Controls,        \* control headers of a request
  RawStreams,      \* streams of another provider, whatever their bytes
  CountModulus     \* 2^64

ASSUME UsageAssumption ==
  /\ CountModulus \in Nat \ {0}
  /\ 2 * MaxTokenCount + InputTokens + OutputTokens < CountModulus
  /\ \A c \in Controls : {c.prompt, c.cachedPrompt, c.completion,
                           c.cacheCreation, c.cacheRead} \subseteq Nat
  /\ \A bytes \in RawStreams : bytes \in Seq(Range(bytes))

VARIABLES
  route,       \* whose answer it is: openai, anthropic, or other
  control,     \* the control headers
  remaining,   \* events of DelayedByteStream
  elapsed,     \* how long the mock has been answering
  usage,       \* usage of the recorder
  outcome,     \* open, complete, failed or body
  charge       \* actual_tokens passed to reconcile

vars == <<wire, buffer, events, fed, route, control, remaining, elapsed,
          usage, outcome, charge>>

(* A line of an event, and what ends it.                                   *)
SseEvent(event) == <<[event |-> event.type], LF, DataLine(event), LF, LF>>
DataEvent(event) == <<DataLine(event), LF, LF>>

OnTheWire(answer) ==
  [i \in DOMAIN answer.events |->
     IF route = "openai" THEN DataEvent(answer.events[i])
     ELSE SseEvent(answer.events[i])]

-----------------------------------------------------------------------------
(* Usage.                                                                  *)

(* openai_usage_from_json_value: total_tokens, or the sum of the others if *)
(* it is there and does not overflow.                                      *)
OpenAiTotal(reported) ==
  LET parts == {"prompt_tokens", "completion_tokens"}
  IN  IF "total_tokens" \in DOMAIN reported THEN reported["total_tokens"]
      ELSE IF /\ parts \subseteq DOMAIN reported
              /\ reported["prompt_tokens"] + reported["completion_tokens"]
                   < CountModulus
           THEN reported["prompt_tokens"] + reported["completion_tokens"]
           ELSE None

(* total_tokens: the release build adds modulo 2^64.                       *)
AnthropicTotal(reported) ==
  IF DOMAIN reported = {} THEN None
  ELSE SumFunction(reported) % CountModulus

TotalTokens(reported) ==
  IF route = "openai" THEN OpenAiTotal(reported) ELSE AnthropicTotal(reported)

(* The JSON value of an event, when it has one: data lines joined by line  *)
(* feeds are one value only if there is one of them.                       *)
ValueOf(event) == event[CHOOSE i \in EventData(event) : TRUE].data
HasValue(event) ==
  /\ \E i \in EventData(event) : EventData(event) = {i}
  /\ ValueOf(event).type # "[DONE]"

(* Mutant of ObserveOpenAi: an event without usage resets it.              *)
ObserveOpenAiLast(event) ==
  usage' = IF HasValue(event) THEN ValueOf(event).usage ELSE NoUsage

(* usage_from_sse_event: the last event that reports usage counts.         *)
ObserveOpenAi(event) ==
  usage' = IF HasValue(event) /\ OpenAiTotal(ValueOf(event).usage) # None
           THEN ValueOf(event).usage ELSE usage

Merge(report, seen) ==
  [f \in DOMAIN report \cup DOMAIN seen |->
     IF f \in DOMAIN report THEN report[f] ELSE seen[f]]

(* observe_event: two types of event report usage, field by field.         *)
ObserveAnthropic(event) ==
  usage' = IF /\ HasValue(event)
              /\ ValueOf(event).type \in {"message_start", "message_delta"}
           THEN Merge(ValueOf(event).usage, usage) ELSE usage

Observe(event) ==
  IF route = "openai" THEN ObserveOpenAi(event) ELSE ObserveAnthropic(event)

(* completed_response_tokens.                                              *)
CompletedResponseTokens(response) ==
  IF response.status \in 400..499 THEN 0 ELSE TotalTokens(response.usage)

-----------------------------------------------------------------------------
Init ==
  /\ SseInit
  /\ usage = NoUsage /\ elapsed = 0
  /\ \/ /\ route = "other"
        /\ control = None
        /\ \E bytes \in RawStreams : remaining = <<bytes>>
        /\ outcome = "open" /\ charge = None
     \/ /\ route \in Routes
        /\ control \in Controls
        /\ LET answer == Respond(route, control)
           IN  IF "events" \in DOMAIN answer
               THEN /\ remaining = OnTheWire(answer)
                    /\ outcome = "open" /\ charge = None
               ELSE /\ remaining = <<>>
                    /\ outcome = "body"
                    /\ charge = CompletedResponseTokens(answer)

(* DelayedByteStream.poll_next: each event after a delay, the end at once. *)
PollNext ==
  /\ outcome = "open"
  /\ remaining # <<>>
  /\ wire' = wire \o Head(remaining)
  /\ remaining' = Tail(remaining)
  /\ elapsed' = elapsed + (IF control = None THEN 0 ELSE control.delay)
  /\ UNCHANGED <<buffer, events, fed, route, control, usage, outcome, charge>>

ChunkArrives ==
  /\ outcome = "open"
  /\ ObserveChunk
  /\ UNCHANGED <<route, control, remaining, elapsed, usage, outcome, charge>>

EventTaken ==
  /\ outcome = "open"
  /\ TakeNextEvent
  /\ Observe(Last(events'))
  /\ UNCHANGED <<route, control, remaining, elapsed, outcome, charge>>

(* The loop is left at the end of the stream, when it fails or at shutdown;*)
(* bytes after the last separator are dropped.                             *)
RecordObservedUsage ==
  /\ outcome = "open"
  /\ ~HasEvent
  /\ outcome' \in {"failed"} \cup
       (IF remaining = <<>> /\ wire = <<>> THEN {"complete"} ELSE {})
  /\ charge' = TotalTokens(usage)
  /\ UNCHANGED <<wire, buffer, events, fed, route, control, remaining, elapsed,
                 usage>>

Next == PollNext \/ ChunkArrives \/ EventTaken \/ RecordObservedUsage

Spec == Init /\ [][Next]_vars

-----------------------------------------------------------------------------
(* A stream is charged what the JSON body of the same answer would be,     *)
(* cut into chunks as it may be: the usage in events before, among or      *)
(* after others without any is neither lost nor counted twice.  A stream   *)
(* that ends early or reports no total is never charged more than that, or *)
(* leaves the charge to the reservation.                                   *)
Answered == route \in Routes /\ outcome \in {"complete", "failed"}

StreamChargedLikeBody ==
  Answered =>
    LET body == CompletedResponseTokens([status |-> 200,
                                         usage |-> BodyUsage(route, control)])
        finished == outcome = "complete" /\ control.errorAfter = None
    IN  IF finished /\ (route = "openai" => control.includeUsage)
        THEN charge = body
        ELSE charge # None =>
               charge <= body /\ (route = "openai" => control.includeUsage)

(* What the recorder has seen of the answer's text is a part of it from    *)
(* its start, in pieces that are whole; at the end it is the whole text in *)
(* as many chunks as asked for, or as many as come before the error.       *)
OfType(type) == {i \in DOMAIN events : HasValue(events[i]) /\ ValueOf(events[i]).type = type}
TextOf(event) == IF HasValue(event) THEN ValueOf(event).text ELSE <<>>
TextSeen == FlattenSeq([i \in DOMAIN events |-> TextOf(events[i])])

AnswerIsWhole ==
  route \in Routes =>
    /\ IsPrefix(TextSeen, AnswerText)
    /\ outcome = "complete" =>
         IF control.errorAfter = None
         THEN TextSeen = AnswerText /\ Cardinality(OfType("delta")) = control.chunks
         ELSE /\ Cardinality(OfType("delta")) = control.errorAfter
              /\ Len(events) \in OfType("error")

(* The mock accepts no control headers by which it would answer for longer *)
(* than an hour, the events around the content included.                   *)
MockStreamsWithinAnHour == elapsed <= MaxStreamDuration
=============================================================================

----------------------------- MODULE SseEvents -----------------------------
(***************************************************************************)
(* sse.rs and the loops of the stream recorders that use it: chunks of a   *)
(* provider's stream are appended to a buffer, from which complete events  *)
(* are taken at the earliest separator.  Chunk boundaries fall anywhere,   *)
(* inside a separator too.                                                 *)
(*                                                                         *)
(* A symbol of a stream is a record: a byte that separators are made of,   *)
(* or all the bytes of a line, with the payload if it is a data line.      *)
(***************************************************************************)
EXTENDS Integers, SequencesExt

CONSTANT MaxChunk      \* BOUND: symbols of one chunk

ASSUME SseAssumption == MaxChunk \in Nat

VARIABLES
  wire,      \* bytes on their way to the gateway
  buffer,    \* buffered_event
  events,    \* events taken so far
  fed        \* history: all bytes received

sseVars == <<wire, buffer, events, fed>>

CR == [byte |-> 13]
LF == [byte |-> 10]
DataLine(payload) == [data |-> payload]

(* Mutant of EventSeparators: a line feed and a lone carriage return too.  *)
SeparatorsWithLoneReturn ==
  {<<CR, LF, CR, LF>>, <<CR, LF, LF>>, <<LF, CR, LF>>, <<LF, LF>>, <<CR, CR>>,
   <<LF, CR>>}

EventSeparators ==
  {<<CR, LF, CR, LF>>, <<CR, LF, LF>>, <<LF, CR, LF>>, <<LF, LF>>, <<CR, CR>>}

SseInit == wire = <<>> /\ buffer = <<>> /\ events = <<>> /\ fed = <<>>

(* Where separators begin in a sequence of bytes: pairs of the number of   *)
(* bytes before one and its length.                                        *)
SeparatorsIn(bytes) ==
  {found \in (0..Len(bytes)) \X {Len(sep) : sep \in EventSeparators} :
     /\ found[1] + found[2] <= Len(bytes)
     /\ \E sep \in EventSeparators :
          Len(sep) = found[2] /\ \A i \in 1..Len(sep) : bytes[found[1] + i] = sep[i]}

HasEvent == SeparatorsIn(buffer) # {}

(* observe_chunk appends, once the loop has emptied the buffer of events.  *)
ObserveChunk ==
  /\ ~HasEvent
  /\ \E n \in 1..MaxChunk :
       /\ n <= Len(wire)
       /\ fed' = fed \o SubSeq(wire, 1, n)
       /\ buffer' = buffer \o SubSeq(wire, 1, n)
       /\ wire' = SubSeq(wire, n + 1, Len(wire))
  /\ UNCHANGED events

(* take_next_event: the earliest separator ends the event and is removed.  *)
TakeNextEvent ==
  \E found \in SeparatorsIn(buffer) :
    /\ \A other \in SeparatorsIn(buffer) : found[1] <= other[1]
    /\ events' = Append(events, SubSeq(buffer, 1, found[1]))
    /\ buffer' = SubSeq(buffer, found[1] + found[2] + 1, Len(buffer))
    /\ UNCHANGED <<wire, fed>>

(* event_data: where an event has its data lines; other lines (event, id,  *)
(* comments) are left out.                                                 *)
IsDataLine(line) == "data" \in DOMAIN line
EventData(event) == {i \in DOMAIN event : IsDataLine(event[i])}

-----------------------------------------------------------------------------
(* The reference: a reader that gets one byte at a time, and ends an event *)
(* as soon as the bytes since the last one end in a separator, without the *)
(* longest separator they end in.                                          *)
ReadByte(parsed, byte) ==
  LET bytes == Append(parsed.rest, byte)
      starts == {found[1] : found \in {found \in SeparatorsIn(bytes) :
                                        found[1] + found[2] = Len(bytes)}}
  IN  IF starts = {}
      THEN [events |-> parsed.events, rest |-> bytes]
      ELSE [events |-> Append(parsed.events, SubSeq(bytes, 1, Min(starts))),
            rest |-> <<>>]

Parse(parsed, bytes) ==
  LET after[n \in 0..Len(bytes)] ==
        IF n = 0 THEN parsed ELSE ReadByte(after[n - 1], bytes[n])
  IN  after[Len(bytes)]

Unread == [events |-> <<>>, rest |-> <<>>]

Parsed == Parse(Unread, fed)

(* Whatever the chunks, the events are those of the bytes received: none   *)
(* is lost, repeated or cut differently because of where a chunk ended.    *)
EventsIndependentOfChunks ==
  ~HasEvent => events = Parsed.events /\ buffer = Parsed.rest
=============================================================================

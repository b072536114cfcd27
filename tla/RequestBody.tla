---------------------------- MODULE RequestBody ----------------------------
(***************************************************************************)
(* The upload of a request's body, request_body.rs: an async pump reads    *)
(* the body's chunks under a deadline and sends their sections through a   *)
(* bounded channel to a reader on a blocking thread, which spools them     *)
(* (anthropic_request.rs, openai_request.rs).  A failed or late upload     *)
(* must reach the reader as an error and never as the end of the body.     *)
(*                                                                         *)
(* Sections are numbered in the order of the body.                         *)
(***************************************************************************)
EXTENDS Integers, SequencesExt

CONSTANTS
  MaxSections,      \* BOUND: sections of a whole body
  ChunkSections,    \* BOUND: sections of one chunk
  Capacity          \* BODY_CHANNEL_CAPACITY (4 in the code)

VARIABLES
  size,       \* sections of the body the client is sending
  arrived,    \* sections the pump has taken from the body
  pump,       \* where pump_request_body is
  unsent,     \* sections of the current chunk not yet sent
  late,       \* the deadline has passed
  error,      \* terminal_error: "none", "timeout" or "body"
  chan,       \* sections in the channel
  reader,     \* where the reading thread is
  read        \* sections it has read

vars == <<size, arrived, pump, unsent, late, error, chan, reader, read>>

Init ==
  /\ size \in 0..MaxSections
  /\ arrived = 0
  /\ pump = "top"
  /\ unsent = 0
  /\ late = FALSE
  /\ error = "none"
  /\ chan = <<>>
  /\ reader = "starting"
  /\ read = 0

(* The pump sets the terminal error before it returns, which drops the     *)
(* sender.                                                                 *)
Fail(kind) ==
  /\ error' = kind
  /\ pump' = "returning"

Return ==
  /\ pump = "returning"
  /\ pump' = "returned"
  /\ UNCHANGED <<size, arrived, unsent, late, error, chan, reader, read>>

DeadlinePasses ==
  /\ ~late
  /\ late' = TRUE
  /\ UNCHANGED <<size, arrived, pump, unsent, error, chan, reader, read>>

(* The top of the loop checks the deadline.                                *)
TopOfLoop ==
  /\ pump = "top"
  /\ IF late
     THEN Fail("timeout")
     ELSE pump' = "awaiting" /\ UNCHANGED error
  /\ UNCHANGED <<size, arrived, unsent, late, chan, reader, read>>

(* timeout_at(deadline, stream.next()): what the body has ready wins over  *)
(* the deadline.  A chunk is dropped if the deadline passed before it is   *)
(* looked at; an empty chunk has no section.                               *)
ChunkArrives ==
  /\ pump = "awaiting"
  /\ \E n \in 0..ChunkSections :
       /\ arrived + n <= size
       /\ arrived' = arrived + n
       /\ IF late
          THEN Fail("timeout") /\ UNCHANGED unsent
          ELSE /\ pump' = IF n = 0 THEN "top" ELSE "sending"
               /\ unsent' = n
               /\ UNCHANGED error
  /\ UNCHANGED <<size, late, chan, reader, read>>

(* Only a complete body ends.                                              *)
BodyEnds ==
  /\ pump = "awaiting"
  /\ arrived = size
  /\ pump' = "returning"
  /\ UNCHANGED <<size, arrived, unsent, late, error, chan, reader, read>>

BodyFails ==
  /\ pump = "awaiting"
  /\ Fail(IF late THEN "timeout" ELSE "body")
  /\ UNCHANGED <<size, arrived, unsent, late, chan, reader, read>>

(* Mutant of BodyTimesOut: the wait for the next chunk has no timeout.     *)
AwaitForever == FALSE /\ UNCHANGED vars

BodyTimesOut ==
  /\ pump = "awaiting"
  /\ late
  /\ Fail("timeout")
  /\ UNCHANGED <<size, arrived, unsent, late, chan, reader, read>>

Reading == reader \in {"starting", "reading"}

(* The next section, and after the last one of its chunk the next chunk.   *)
SectionDone ==
  /\ unsent' = unsent - 1
  /\ pump' = IF unsent = 1 THEN "top" ELSE "sending"

SendSection ==
  /\ pump = "sending"
  /\ Reading
  /\ Len(chan) < Capacity
  /\ chan' = Append(chan, arrived - unsent + 1)
  /\ SectionDone
  /\ UNCHANGED <<size, arrived, late, error, reader, read>>

(* The reader is gone: nobody is left to tell.                             *)
SendRefused ==
  /\ pump = "sending"
  /\ ~Reading
  /\ pump' = "returning"
  /\ UNCHANGED <<size, arrived, unsent, late, error, chan, reader, read>>

(* Mutants of SendTimesOut: no error is set, or the section is given up    *)
(* and the loop goes on.                                                   *)
SendTimesOutUnseen ==
  /\ pump = "sending"
  /\ late
  /\ Reading /\ Len(chan) = Capacity
  /\ pump' = "returned"
  /\ UNCHANGED <<size, arrived, unsent, late, error, chan, reader, read>>

SendTimesOutSkipping ==
  /\ pump = "sending"
  /\ late
  /\ Reading /\ Len(chan) = Capacity
  /\ SectionDone
  /\ UNCHANGED <<size, arrived, late, error, chan, reader, read>>

(* Only a send that has to wait can time out.                              *)
SendTimesOut ==
  /\ pump = "sending"
  /\ late
  /\ Reading /\ Len(chan) = Capacity
  /\ Fail("timeout")
  /\ UNCHANGED <<size, arrived, unsent, late, chan, reader, read>>

PumpNext ==
  \/ TopOfLoop \/ ChunkArrives \/ BodyEnds \/ BodyFails \/ BodyTimesOut
  \/ SendSection \/ SendRefused \/ SendTimesOut \/ Return

-----------------------------------------------------------------------------
(* The reader: spawn_blocking starts it when a thread is free.  What makes *)
(* it read or give up is in RequestPreparation.                            *)
Start ==
  /\ reader = "starting"
  /\ reader' = "reading"
  /\ UNCHANGED <<size, arrived, pump, unsent, late, error, chan, read>>

ReadSection ==
  /\ reader = "reading"
  /\ chan # <<>>
  /\ read' = Head(chan)
  /\ chan' = Tail(chan)
  /\ UNCHANGED <<size, arrived, pump, unsent, late, error, reader>>

(* The channel is closed and empty: the terminal error if there is one,    *)
(* otherwise the end of the body.                                          *)
ReadEnd ==
  /\ reader = "reading"
  /\ chan = <<>>
  /\ pump = "returned"
  /\ reader' = IF error = "none" THEN "eof" ELSE "error"
  /\ error' = "none"
  /\ UNCHANGED <<size, arrived, pump, unsent, late, chan, read>>

(* The spool limit, a write error or invalid JSON: the reader is dropped.  *)
GiveUp ==
  /\ reader = "reading"
  /\ reader' = "dropped"
  /\ chan' = <<>>
  /\ UNCHANGED <<size, arrived, pump, unsent, late, error, read>>

-----------------------------------------------------------------------------
(* What the reader has read, what is in the channel and what the pump has  *)
(* still to send are the body without gap or repetition, in its order.     *)
NothingLost ==
  Reading => /\ \A i \in 1..Len(chan) : chan[i] = read + i
             /\ pump # "returned" /\ error = "none" =>
                  read + Len(chan) + unsent = arrived
=============================================================================

------------------------- MODULE AnthropicRequest -------------------------
(***************************************************************************)
(* The inspection of an Anthropic request and its token budget,            *)
(* anthropic_request.rs.  The body is spooled as it comes, up to a limit,  *)
(* inspected in the spool, and forwarded unchanged: what the gateway read  *)
(* in it must be what the provider reads.                                  *)
(*                                                                         *)
(* A member is its decoded name, the kind of its value with a number, and  *)
(* the objects of type image in it.                                        *)
(***************************************************************************)
EXTENDS Integers, SequencesExt

CONSTANTS
  Members,        \* members a body may have
  MaxMembers,     \* BOUND: members of a body
  ImageReserve,   \* IMAGE_INPUT_TOKEN_RESERVE
  MaxSpooled,     \* MAX_SPOOLED_REQUEST_BYTES; a member has one byte
  MaxU64          \* the largest u64

VARIABLES
  input,      \* the body
  spooled,    \* bytes in the spool file: members, then white space
  position,   \* members inspected
  fields,     \* max_tokens and stream, as far as they were found
  images,     \* image_inputs
  result,     \* "spooling", "inspecting", "ok" or the error
  budget      \* token_budget

vars == <<input, spooled, position, fields, images, result, budget>>

FieldNames == {"max_tokens", "stream"}

Init ==
  /\ input \in BoundedSeq(Members, MaxMembers)
  /\ spooled = 0
  /\ position = 0
  /\ fields = [name \in {} |-> 0]
  /\ images = 0
  /\ result = "spooling"
  /\ budget = 0

Fail(error) ==
  /\ result' = error
  /\ UNCHANGED <<input, spooled, position, fields, images, budget>>

(* io::copy into a LimitedSpoolWriter, of what the upload had.             *)
Spool(bytes) ==
  /\ result = "spooling"
  /\ bytes <= MaxSpooled
  /\ spooled' = bytes
  /\ result' = "inspecting"
  /\ UNCHANGED <<input, position, fields, images, budget>>

SpoolIsFull(bytes) ==
  result = "spooling" /\ bytes > MaxSpooled /\ Fail("FileTooLarge")

(* The deadline, a broken body or the disk: io::copy, flush or the seek    *)
(* before the inspection.                                                  *)
SpoolFails == result = "spooling" /\ Fail("SpoolFailed")

-----------------------------------------------------------------------------
(* inspect_request.                                                        *)
Inspecting ==
  result = "inspecting" /\ position < Len(input) /\ position < spooled
Current == input[position + 1]
IsField == Current.name \in FieldNames
Found(name) == name \in DOMAIN fields

(* next_number::<u64> and next_bool take one kind each.                    *)
ValueIsFine ==
  IF Current.name = "max_tokens"
  THEN Current.kind = "number" /\ Current.number \in 0..MaxU64
  ELSE Current.kind \in {"true", "false"}

(* Mutant of ReadField: the last one counts.                               *)
ReadLastField ==
  /\ Inspecting
  /\ IsField /\ ValueIsFine
  /\ fields' = [name \in DOMAIN fields \cup {Current.name} |->
                  IF name = Current.name THEN Current ELSE fields[name]]
  /\ position' = position + 1
  /\ UNCHANGED <<input, spooled, images, result, budget>>

ReadField ==
  /\ Inspecting
  /\ IsField /\ ~Found(Current.name) /\ ValueIsFine
  /\ fields' = [name \in DOMAIN fields \cup {Current.name} |->
                  IF name = Current.name THEN Current ELSE fields[name]]
  /\ position' = position + 1
  /\ UNCHANGED <<input, spooled, images, result, budget>>

RejectField ==
  /\ Inspecting
  /\ IsField
  /\ \/ Found(Current.name) /\ Fail("DuplicateField")
     \/ /\ ~Found(Current.name) /\ ~ValueIsFine
        /\ Fail(IF Current.name = "max_tokens" /\ Current.kind = "number"
                THEN "InvalidMaxTokens" ELSE "InvalidJson")

(* count_image_inputs, which reads the whole value.                        *)
CountImages ==
  /\ Inspecting
  /\ ~IsField
  /\ images' = images + Current.images
  /\ position' = position + 1
  /\ UNCHANGED <<input, spooled, fields, result, budget>>

(* What is not JSON, or not all of it.                                     *)
NotJson == result = "inspecting" /\ Fail("InvalidJson")

-----------------------------------------------------------------------------
MaxTokens == IF Found("max_tokens") THEN fields["max_tokens"].number ELSE 0
Streaming == Found("stream") /\ fields["stream"].kind = "true"

AtEnd == result = "inspecting" /\ position = Len(input)

NoMaxTokens == AtEnd /\ MaxTokens = 0 /\ Fail("InvalidMaxTokens")

(* The seek after the inspection.                                          *)
SeekFails == AtEnd /\ MaxTokens > 0 /\ Fail("SpoolFailed")

(* Mutant of Sum: it wraps around.                                         *)
WrappedSum == (spooled + images * ImageReserve + MaxTokens) % (MaxU64 + 1)
Sum == spooled + images * ImageReserve + MaxTokens

(* The budget, with its checked operations.                                *)
Finish ==
  /\ AtEnd
  /\ MaxTokens > 0
  /\ IF Sum > MaxU64
     THEN Fail("TokenBudgetOverflow")
     ELSE /\ result' = "ok"
          /\ budget' = Sum
          /\ UNCHANGED <<input, spooled, position, fields, images>>

Inspect ==
  \/ ReadField \/ RejectField \/ CountImages \/ NotJson
  \/ NoMaxTokens \/ SeekFails \/ Finish

-----------------------------------------------------------------------------
(* The provider gets the body unchanged; when a name occurs twice it may   *)
(* take either member.                                                     *)
Sent(name) == {input[i] : i \in {i \in 1..Len(input) : input[i].name = name}}

(* Gateway and provider read the same request: its streaming and its bound *)
(* on the output, whichever of the members the provider takes.             *)
ProviderReadsTheSame ==
  result = "ok" =>
    /\ Sent("max_tokens") # {}
    /\ \A member \in Sent("max_tokens") :
         member.kind = "number" /\ member.number = MaxTokens
    /\ \A member \in Sent("stream") : (member.kind = "true") = Streaming
    /\ Sent("stream") = {} => ~Streaming

(* The budget is at least a token for each byte of input, the reserve for  *)
(* each image and the whole output: no sum wraps below its parts.          *)
BudgetCoversTheRequest ==
  result = "ok" =>
    LET Pictures == SumFunction([i \in 1..Len(input) |-> input[i].images])
        bound == CHOOSE member \in Sent("max_tokens") : TRUE
    IN  budget >= Len(input) + Pictures * ImageReserve + bound.number
=============================================================================

--------------------------- MODULE OpenAiRequest ---------------------------
(***************************************************************************)
(* The transformation of an OpenAI request and its token budget,           *)
(* openai_request.rs.  The members of the body's object are copied to a    *)
(* spool file as they are read; the four control members are held back,    *)
(* checked at the end of the object and written last, so that the provider *)
(* reports usage and bounds its output as the gateway has budgeted.        *)
(*                                                                         *)
(* A member is its decoded name, the kind of its value with a number, and  *)
(* the number of image_url keys in it.                                     *)
(***************************************************************************)
EXTENDS Integers, FiniteSets, SequencesExt

CONSTANTS
  Members,        \* members a body may have
  MaxMembers,     \* BOUND: members of a body
  DefaultLimit,   \* default_max_completion_tokens, 1 at least
  ImageReserve,   \* IMAGE_INPUT_TOKEN_RESERVE
  MaxSpooled,     \* MAX_SPOOLED_REQUEST_BYTES; a member has one byte
  MaxU64          \* the largest u64

VARIABLES
  input,      \* history: the whole body
  position,   \* members read so far
  captured,   \* control members held back
  out,        \* members written to the spool
  result,     \* "reading", "ok" or the error
  metadata    \* streaming, max_output_tokens and the budget

vars == <<input, position, captured, out, result, metadata>>

ControlNames == {"stream", "stream_options", "max_completion_tokens",
                 "max_tokens"}

Number(n) == [kind |-> "number", number |-> n]
Member(name, value) ==
  [name |-> name, kind |-> value.kind, number |-> value.number, images |-> 0]
IsTrue(member) == member.kind = "true"

NoMetadata == [streaming |-> FALSE, maxOutput |-> 0, budget |-> 0]

Init ==
  /\ input \in BoundedSeq(Members, MaxMembers)
  /\ position = 0
  /\ captured = [name \in {} |-> Number(0)]
  /\ out = <<>>
  /\ result = "reading"
  /\ metadata = NoMetadata

Fail(error) ==
  /\ result = "reading"
  /\ result' = error
  /\ UNCHANGED <<input, position, captured, out, metadata>>

Reading == result = "reading" /\ position < Len(input)
Current == input[position + 1]
IsControl == Current.name \in ControlNames

-----------------------------------------------------------------------------
(* The loop over the members.                                              *)

CopyMember ==
  /\ Reading
  /\ ~IsControl
  /\ out' = Append(out, Current)
  /\ position' = position + 1
  /\ UNCHANGED <<input, captured, result, metadata>>

RejectDuplicate ==
  /\ Reading
  /\ IsControl /\ Current.name \in DOMAIN captured
  /\ Fail("DuplicateControlField")

(* capture_control_value, up to MAX_STREAM_CONTROL_BYTES.                  *)
Capture ==
  /\ Reading
  /\ IsControl /\ Current.name \notin DOMAIN captured
  /\ Current.kind # "huge"
  /\ captured' = [name \in DOMAIN captured \cup {Current.name} |->
                    IF name = Current.name THEN Current ELSE captured[name]]
  /\ position' = position + 1
  /\ UNCHANGED <<input, out, result, metadata>>

RejectHuge ==
  /\ Reading
  /\ IsControl /\ Current.name \notin DOMAIN captured
  /\ Current.kind = "huge"
  /\ Fail("ControlFieldTooLarge")

(* The body is broken or late (InvalidJson), or the spool (OutputFailed).  *)
ReadFails == Fail("InvalidJson")

-----------------------------------------------------------------------------
(* The end of the object.                                                  *)
Captured(name) == name \in DOMAIN captured

Streaming == Captured("stream") /\ IsTrue(captured["stream"])

(* Mutant of ForceUsageOption: an explicit option is kept.                 *)
ForceUsageUnlessGiven ==
  IF Captured("stream_options") /\ captured["stream_options"].kind # "null"
  THEN captured["stream_options"]
  ELSE Member("stream_options", [kind |-> "usage", number |-> 0])

(* force_usage_option: kind "usage" is an object with include_usage true,  *)
(* the number stands for its other members.                                *)
ForceUsageOption ==
  IF ~Captured("stream_options") \/ captured["stream_options"].kind = "null"
  THEN Member("stream_options", [kind |-> "usage", number |-> 0])
  ELSE [captured["stream_options"] EXCEPT !.kind = "usage"]

StreamOptionsAreFine ==
  Streaming /\ Captured("stream_options") =>
    captured["stream_options"].kind \in {"null", "object", "usage"}

(* The member that bounds the output.                                      *)
LimitNames == {"max_completion_tokens", "max_tokens"} \cap DOMAIN captured
LimitMember ==
  captured[IF Captured("max_completion_tokens") THEN "max_completion_tokens"
           ELSE "max_tokens"]

IsPositive(member) == member.kind = "number" /\ member.number \in 1..MaxU64
LimitIsFine == LimitNames # {} => IsPositive(LimitMember)

(* Mutant of MaxOutputTokens: max_tokens comes first.                      *)
MaxTokensFirst ==
  IF LimitNames = {} THEN DefaultLimit
  ELSE captured[IF Captured("max_tokens") THEN "max_tokens"
                ELSE "max_completion_tokens"].number

MaxOutputTokens ==
  IF LimitNames = {} THEN DefaultLimit ELSE LimitMember.number

When(condition, member) == IF condition THEN <<member>> ELSE <<>>

(* Mutant of ControlMembers: only the limit that counts is forwarded.      *)
ControlMembersOneLimit ==
  When(Captured("stream"), captured["stream"])
  \o (IF Streaming THEN <<ForceUsageOption>>
      ELSE When(Captured("stream_options"), captured["stream_options"]))
  \o <<Member("max_completion_tokens", Number(MaxOutputTokens))>>

(* What write_captured_member writes, in its order.                        *)
ControlMembers ==
  When(Captured("stream"), captured["stream"])
  \o (IF Streaming THEN <<ForceUsageOption>>
      ELSE When(Captured("stream_options"), captured["stream_options"]))
  \o When(Captured("max_completion_tokens"), captured["max_completion_tokens"])
  \o When(LimitNames = {},
          Member("max_completion_tokens", Number(MaxOutputTokens)))
  \o When(Captured("max_tokens"), captured["max_tokens"])

(* calculate_token_budget: bytes, images and output.                       *)
Images(members) == SumFunction([i \in 1..Len(members) |-> members[i].images])
Budget(members, maxOutput) ==
  Len(members) + Images(members) * ImageReserve + maxOutput

AtEnd == result = "reading" /\ position = Len(input)

Written == IF AtEnd /\ StreamOptionsAreFine THEN out \o ControlMembers ELSE out

(* LimitedSpoolWriter sees what the buffer in front of it lets through,    *)
(* and all of it by the end.                                               *)
SpoolIsFull == Len(Written) > MaxSpooled /\ Fail("FileTooLarge")

RejectControls ==
  /\ AtEnd
  /\ \/ ~StreamOptionsAreFine /\ Fail("InvalidStreamOptions")
     \/ StreamOptionsAreFine /\ ~LimitIsFine /\ Fail("InvalidTokenLimit")

Finish ==
  /\ AtEnd
  /\ StreamOptionsAreFine /\ LimitIsFine
  /\ Len(Written) <= MaxSpooled
  /\ out' = Written
  /\ LET budget == Budget(Written, MaxOutputTokens)
     IN  IF budget > MaxU64
         THEN result' = "TokenBudgetOverflow" /\ UNCHANGED metadata
         ELSE /\ result' = "ok"
              /\ metadata' = [streaming |-> Streaming,
                              maxOutput |-> MaxOutputTokens, budget |-> budget]
  /\ UNCHANGED <<input, position, captured>>

-----------------------------------------------------------------------------
(* What the provider may make of the body it gets: when a name occurs more *)
(* than once, it may take any of its members.                              *)
Forwarded(name) == {out[i] : i \in {i \in 1..Len(out) : out[i].name = name}}

(* Gateway and provider agree on whether the answer is streamed, and a     *)
(* streamed answer reports its usage: otherwise the relay would charge the *)
(* whole reservation, or take a stream for a body.                         *)
ProviderStreamsWithUsage ==
  result = "ok" =>
    /\ \A member \in Forwarded("stream") : IsTrue(member) = metadata.streaming
    /\ metadata.streaming =>
         /\ Forwarded("stream") # {}
         /\ \E option \in Forwarded("stream_options") :
              Forwarded("stream_options") = {option} /\ option.kind = "usage"

(* The output bound the gateway budgeted is the one the provider reads,    *)
(* the newer name before the older one, and there always is one.           *)
ProviderBoundIsBudgeted ==
  result = "ok" =>
    LET newer == Forwarded("max_completion_tokens")
        older == Forwarded("max_tokens")
        bounds == IF newer # {} THEN newer ELSE older
    IN  /\ bounds # {}
        /\ \A member \in bounds :
             member.kind = "number" /\ member.number = metadata.maxOutput
        /\ metadata.maxOutput > 0
        /\ metadata.budget - metadata.maxOutput = Len(out) + Images(out) * ImageReserve
        /\ metadata.budget <= MaxU64

(* How many of the first n members are not the gateway's to control.       *)
Others(members, n) == Cardinality({i \in 1..n : members[i].name \notin ControlNames})

(* The other members reach the provider as they came and in their order,   *)
(* before any control member, and the client's own control members unless  *)
(* their use was forced.                                                   *)
RestIsUntouched ==
  result = "ok" =>
    /\ \A i \in 1..Len(input) :
         input[i].name \notin ControlNames =>
           Others(input, i) \in 1..Len(out) /\ out[Others(input, i)] = input[i]
    /\ Others(out, Len(out)) = Others(input, Len(input))
    /\ \A i \in 1..Len(input) :
         input[i].name \in ControlNames \ {"stream_options"} =>
           Contains(out, input[i])
    /\ \A i \in 1..Len(input) :
         input[i].name = "stream_options" =>
           \E member \in Forwarded("stream_options") :
             /\ member.number = input[i].number
             /\ metadata.streaming \/ member.kind = input[i].kind
=============================================================================

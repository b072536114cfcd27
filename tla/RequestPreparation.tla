------------------------- MODULE RequestPreparation -------------------------
(***************************************************************************)
(* prepare_openai_request and prepare_anthropic_request: the upload of a   *)
(* body (RequestBody) feeds a worker on a blocking thread, which           *)
(* transforms an OpenAI body while it reads it, and spools an Anthropic    *)
(* body before it inspects it.  A late, broken or refused upload must not  *)
(* become a request to the provider, and must not keep the handler         *)
(* waiting.                                                                *)
(*                                                                         *)
(* A section of the upload is a member of the body, or white space after   *)
(* its object.                                                             *)
(***************************************************************************)
EXTENDS RequestBody

CONSTANTS
  OpenAiMembers, AnthropicMembers,    \* members a body may have
  DefaultLimit, ImageReserve, MaxSpooled, MaxSpooledAnthropic, MaxU64

ASSUME PreparationAssumption ==
  /\ {MaxSections, ChunkSections, ImageReserve, MaxU64} \subseteq Nat
  /\ Capacity \in Nat \ {0}
  /\ DefaultLimit \in 1..MaxU64
  /\ {MaxSpooled, MaxSpooledAnthropic} \subseteq 0..MaxU64
  /\ OpenAiMembers \cup AnthropicMembers \subseteq
       [name: STRING, kind: STRING, number: Nat, images: Nat]
  /\ \A member \in OpenAiMembers \cup AnthropicMembers :
       /\ member.kind \in {"number", "true", "false"} => member.images = 0
       /\ member.kind = "null" => member.number = 0

VARIABLES
  route,      \* the request's handler
  input, position, captured, out, result, metadata,    \* OpenAiRequest
  spooled, images, budget                              \* AnthropicRequest

OpenAi == INSTANCE OpenAiRequest
  WITH Members <- OpenAiMembers, MaxMembers <- MaxSections

Anthropic == INSTANCE AnthropicRequest
  WITH Members <- AnthropicMembers, MaxMembers <- MaxSections,
       MaxSpooled <- MaxSpooledAnthropic, fields <- captured

openAiOnly == <<out, metadata>>
anthropicOnly == <<spooled, images, budget>>
workerVars == <<input, position, captured, out, result, metadata,
                spooled, images, budget>>
allVars == <<vars, route, workerVars>>

Smaller(a, b) == IF a < b THEN a ELSE b

Working == result \in {"reading", "spooling", "inspecting"}

PrepareInit ==
  /\ Init
  /\ \/ /\ route = "openai"
        /\ OpenAi!Init
        /\ spooled = 0 /\ images = 0 /\ budget = 0
     \/ /\ route = "anthropic"
        /\ Anthropic!Init
        /\ out = <<>> /\ metadata = OpenAi!NoMetadata
  /\ size \in Len(input)..Smaller(Len(input) + 1, MaxSections)

UploadStep ==
  (PumpNext \/ DeadlinePasses \/ Start) /\ UNCHANGED <<route, workerVars>>

(* The parser reads when it has used what it has, to the end of the body   *)
(* (consume_trailing_whitespace); io::copy to the end of the body, unless  *)
(* it is too large.                                                        *)
WantsMore ==
  \/ result = "reading" /\ (position = read \/ position = Len(input))
  \/ result = "spooling" /\ read <= MaxSpooledAnthropic

WorkerReads ==
  /\ WantsMore
  /\ ReadSection \/ ReadEnd
  /\ UNCHANGED <<route, workerVars>>

(* transform_json.                                                         *)
OpenAiStep ==
  /\ route = "openai"
  /\ \/ /\ reader = "reading" /\ position < read
        /\ OpenAi!CopyMember \/ OpenAi!RejectDuplicate \/ OpenAi!Capture
           \/ OpenAi!RejectHuge
     \/ reader \in {"reading", "eof", "error"} /\ OpenAi!ReadFails
     \/ reader \in {"reading", "eof"} /\ OpenAi!SpoolIsFull
     \/ reader = "eof" /\ (OpenAi!RejectControls \/ OpenAi!Finish)
  /\ UNCHANGED <<vars, route, anthropicOnly>>

(* io::copy, then inspect_request.                                         *)
AnthropicStep ==
  /\ route = "anthropic"
  /\ \/ reader = "reading" /\ Anthropic!SpoolIsFull(read)
     \/ reader \in {"reading", "eof", "error"} /\ Anthropic!SpoolFails
     \/ reader = "eof" /\ (Anthropic!Spool(read) \/ Anthropic!Inspect)
  /\ UNCHANGED <<vars, route, openAiOnly>>

(* The closure returns early and drops the reader.                         *)
WorkerGivesUp ==
  /\ ~Working
  /\ GiveUp
  /\ UNCHANGED <<route, workerVars>>

WorkerNext == WorkerReads \/ OpenAiStep \/ AnthropicStep \/ WorkerGivesUp

PrepareNext == UploadStep \/ WorkerNext

PrepareSpec == PrepareInit /\ [][PrepareNext]_allVars

(* Time passes and both threads run; the client need not send anything.    *)
PrepareFairness ==
  /\ WF_allVars(DeadlinePasses /\ UNCHANGED <<route, workerVars>>)
  /\ WF_allVars((TopOfLoop \/ BodyTimesOut \/ SendSection
                 \/ SendRefused \/ SendTimesOut \/ Return)
                /\ UNCHANGED <<route, workerVars>>)
  /\ WF_allVars(Start /\ UNCHANGED <<route, workerVars>>)
  /\ WF_allVars(WorkerNext)

PrepareLiveSpec == PrepareSpec /\ PrepareFairness

-----------------------------------------------------------------------------
(* A request is prepared only from the end of a body that was read         *)
(* completely: a late or broken upload is an error, also when every byte   *)
(* that came before is a complete JSON object.                             *)
PreparedMeansComplete ==
  result = "ok" => reader = "eof" /\ read = size

(* The client cannot keep a handler waiting: the worker comes to a result  *)
(* by the deadline, though the body stall, and the pump ends after it.     *)
PreparationEnds == <>(~Working /\ pump = "returned")

(* OpenAI's body asks for a stream exactly when the gateway relays one,    *)
(* and then for its usage.                                                 *)
OpenAiStreamsWithUsage == route = "openai" => OpenAi!ProviderStreamsWithUsage

(* OpenAI's output bound is the one in the budget.                         *)
OpenAiBoundIsBudgeted == route = "openai" => OpenAi!ProviderBoundIsBudgeted

(* The rest of an OpenAI body is forwarded as it came.                     *)
OpenAiRestIsUntouched == route = "openai" => OpenAi!RestIsUntouched

(* Gateway and provider read the same in an Anthropic body.                *)
AnthropicReadsTheSame == route = "anthropic" => Anthropic!ProviderReadsTheSame

(* An Anthropic budget covers the whole request.                           *)
AnthropicBudgetCovers == route = "anthropic" => Anthropic!BudgetCoversTheRequest
=============================================================================

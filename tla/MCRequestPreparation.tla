------------------------ MODULE MCRequestPreparation ------------------------
(***************************************************************************)
(* Small instances for TLC of the preparation of requests, and of the      *)
(* JSON filter in front of OpenAI's parser.  A behaviour is of one of the  *)
(* two: the filter works on bytes, where the preparation has members.      *)
(***************************************************************************)
EXTENDS RequestPreparation, JsonKeyLimit

Plain(kind) == [kind |-> kind, number |-> 0]
Number(n) == [kind |-> "number", number |-> n]
Member(name, value) ==
  [name |-> name, kind |-> value.kind, number |-> value.number, images |-> 0]
WithImages(name, n) ==
  [name |-> name, kind |-> "array", number |-> 0, images |-> n]

(* Each control member with the values that are treated differently.       *)
SomeOpenAiMembers ==
  {Member("stream", Plain("true")), Member("stream", Plain("string")),
   Member("stream_options", Plain("null")), Member("stream_options", Plain("huge")),
   Member("stream_options", [kind |-> "object", number |-> 1]),
   Member("max_completion_tokens", Number(0)),
   Member("max_completion_tokens", Number(2)),
   Member("max_tokens", Number(3)),
   WithImages("messages", 2)}

SomeAnthropicMembers ==
  {Member("max_tokens", Number(0)), Member("max_tokens", Number(4)),
   Member("max_tokens", Number(30)),
   Member("stream", Plain("true")), Member("stream", Plain("string")),
   WithImages("messages", 2)}

(* The filter's behaviours have the preparation of an empty body, done.    *)
NoUpload ==
  /\ size = 0 /\ arrived = 0 /\ pump = "returned" /\ unsent = 0
  /\ late = FALSE /\ error = "none" /\ chan = <<>>
  /\ reader = "dropped" /\ read = 0
  /\ route = "none" /\ input = <<>> /\ position = 0
  /\ captured = [name \in {} |-> 0] /\ out = <<>>
  /\ result = "InvalidJson" /\ metadata = 0
  /\ spooled = 0 /\ images = 0 /\ budget = 0

MCInit == FilterInit /\ (NoUpload \/ PrepareInit)

MCNext ==
  \/ route = "none" /\ FilterNext /\ UNCHANGED allVars
  \/ PrepareNext /\ UNCHANGED filterVars

MCSpec == MCInit /\ [][MCNext]_<<filterVars, allVars>> /\ PrepareFairness
=============================================================================

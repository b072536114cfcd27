---------------------------- MODULE ProviderMock ----------------------------
(***************************************************************************)
(* services/provider-mock: the provider the integration stack talks to.    *)
(* Control headers choose the size of a streamed answer, its delay, an     *)
(* error in its middle or instead of it, and the usage it reports.         *)
(*                                                                         *)
(* A control is a record of the parsed headers; the answer's text is the   *)
(* sequence of its positions, an event the record of what is in it.        *)
(***************************************************************************)
EXTENDS Integers, Sequences

CONSTANTS
  None,            \* a header that is absent
  MaxChunkCount, MaxChunkDelay, MaxStreamDuration,
  MaxTokenCount,   \* largest token count of a header
  TextLength,      \* of MOCK_RESPONSE_TEXT and MOCK_TOOL_ARGUMENTS
  InputTokens, OutputTokens    \* Anthropic's usage

ASSUME MockAssumption ==
  /\ None \notin Int
  /\ {MaxChunkCount, TextLength, OutputTokens} \subseteq Nat \ {0}
  /\ {MaxChunkDelay, MaxStreamDuration, MaxTokenCount, InputTokens}
       \subseteq Nat

Routes == {"openai", "anthropic"}

(* Events of a stream besides its content chunks.                          *)
StreamEventOverhead == [openai |-> 4, anthropic |-> 5]

(* The token counts in the headers of a route.  What of a prompt is cached *)
(* is reported to the client, and of no interest to the gateway.           *)
CountsAccepted(route, control) ==
  IF route = "openai"
  THEN /\ {control.prompt, control.completion} \subseteq 0..MaxTokenCount
       /\ control.cachedPrompt <= control.prompt
  ELSE {control.cacheCreation, control.cacheRead} \subseteq 0..MaxTokenCount

(* from_headers and validate_stream_duration; anything else is a 400.      *)
ControlAccepted(route, control) ==
  /\ CountsAccepted(route, control)
  /\ control.chunks \in 1..MaxChunkCount
  /\ control.errorAfter # None => control.errorAfter \in 0..control.chunks
  /\ control.delay \in 0..MaxChunkDelay
  /\ (control.chunks + StreamEventOverhead[route]) * control.delay
       <= MaxStreamDuration

-----------------------------------------------------------------------------
(* The answer and its pieces.                                              *)
AnswerText == [i \in 1..TextLength |-> i]
Smaller(a, b) == IF a < b THEN a ELSE b

(* split_text: as many pieces as chunks, the first ones one longer.        *)
SplitText(count) ==
  LET base == TextLength \div count
      larger == TextLength % count
      Offset(i) == i * base + Smaller(i, larger)
  IN  [i \in 1..count |-> SubSeq(AnswerText, Offset(i - 1) + 1, Offset(i))]

(* Mutant of SplitToolInput: the size of a piece is rounded down.          *)
SplitToolInputRoundedDown(count) ==
  LET size == TextLength \div count
  IN  [i \in 1..count |-> SubSeq(AnswerText, (i - 1) * size + 1, i * size)]

(* split_tool_input: pieces of one size, then empty ones (resize).         *)
SplitToolInput(count) ==
  LET size == (TextLength + count - 1) \div count
  IN  [i \in 1..count |->
         SubSeq(AnswerText, (i - 1) * size + 1, Smaller(i * size, TextLength))]

Pieces(route, control) ==
  IF route = "anthropic" /\ control.answer = "tool_use"
  THEN SplitToolInput(control.chunks)
  ELSE SplitText(control.chunks)

-----------------------------------------------------------------------------
(* Events.  A member that is absent or null is not in the usage function.  *)
NoUsage == [f \in {} |-> 0]
EventOf(type, text, usage) == [type |-> type, text |-> text, usage |-> usage]
Plain(type) == EventOf(type, <<>>, NoUsage)

OpenAiUsage(control) ==
  [prompt_tokens |-> control.prompt, completion_tokens |-> control.completion,
   total_tokens |-> control.prompt + control.completion]

AnthropicUsage(control, output) ==
  [cache_creation_input_tokens |-> control.cacheCreation,
   cache_read_input_tokens |-> control.cacheRead,
   input_tokens |-> InputTokens, output_tokens |-> output]

(* append_text_events and append_tool_events: an error takes the place of  *)
(* the piece it is due before, or of the completion.                       *)
ContentEvents(route, control, completion) ==
  LET sent == IF control.errorAfter = None THEN control.chunks
              ELSE control.errorAfter
      pieces == Pieces(route, control)
  IN  [i \in 1..sent |-> EventOf("delta", pieces[i], NoUsage)]
        \o IF control.errorAfter = None THEN completion ELSE <<Plain("error")>>

OpenAiEvents(control) ==
  <<Plain("role")>> \o
  ContentEvents("openai", control,
    IF control.includeUsage
    THEN <<Plain("finish"), EventOf("usage", <<>>, OpenAiUsage(control)),
           Plain("[DONE]")>>
    ELSE <<Plain("finish"), Plain("[DONE]")>>)

AnthropicEvents(control) ==
  <<EventOf("message_start", <<>>, AnthropicUsage(control, 1)),
    Plain("content_block_start")>> \o
  ContentEvents("anthropic", control,
    <<Plain("content_block_stop"),
      EventOf("message_delta", <<>>, [output_tokens |-> OutputTokens]),
      Plain("message_stop")>>)

StreamingEvents(route, control) ==
  IF route = "openai" THEN OpenAiEvents(control) ELSE AnthropicEvents(control)

-----------------------------------------------------------------------------
(* Responses: [status, usage] of a JSON body, or [status, events].         *)
ErrorBody(status) == [status |-> status, usage |-> NoUsage]

BodyUsage(route, control) ==
  IF route = "openai" THEN OpenAiUsage(control)
  ELSE AnthropicUsage(control, OutputTokens)

(* chat_completions and messages, for a request that is valid JSON of the  *)
(* right shape: control headers, then the error asked for, then an answer. *)
Respond(route, control) ==
  IF ~ControlAccepted(route, control) THEN ErrorBody(400)
  ELSE IF control.httpError # None THEN ErrorBody(control.httpError)
  ELSE IF control.stream
       THEN [status |-> 200, events |-> StreamingEvents(route, control)]
       ELSE [status |-> 200, usage |-> BodyUsage(route, control)]
=============================================================================

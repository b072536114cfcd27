--------------------------- MODULE MCStreamUsage ---------------------------
(* Small instances of StreamUsage for TLC.                                 *)
EXTENDS StreamUsage

MaxRawBytes == 8   \* BOUND: bytes of a stream that is not the mock's

OtherLine == [event |-> "other"]
AllRawStreams == [1..MaxRawBytes -> {CR, LF, OtherLine}]

(* Token counts tell the four Anthropic fields and OpenAI's two apart; the *)
(* last ones are refused.                                                  *)
Counts ==
  {[prompt |-> 2, cachedPrompt |-> 2, completion |-> 3,
    cacheCreation |-> 0, cacheRead |-> 4],
   [prompt |-> 0, cachedPrompt |-> 0, completion |-> 3,
    cacheCreation |-> 8, cacheRead |-> 0],
   [prompt |-> 2, cachedPrompt |-> 3, completion |-> 3,
    cacheCreation |-> 0, cacheRead |-> 9]}

SomeControls ==
  {[chunks |-> n, errorAfter |-> e, delay |-> d, answer |-> a, stream |-> s,
    includeUsage |-> u, httpError |-> h, prompt |-> k.prompt,
    cachedPrompt |-> k.cachedPrompt, completion |-> k.completion,
    cacheCreation |-> k.cacheCreation, cacheRead |-> k.cacheRead] :
     n \in 0..5, e \in {None, 0, 2, 5}, d \in {0, 2, 3}, a \in {"text", "tool_use"},
     s \in BOOLEAN, u \in BOOLEAN, h \in {None, 429, 500}, k \in Counts}
=============================================================================

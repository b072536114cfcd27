--------------------------- MODULE MCStreamRelay ---------------------------
(***************************************************************************)
(* Small instances of StreamRelay for TLC.                                 *)
(***************************************************************************)
EXTENDS StreamRelay, TLC

(* A chunk without usage, an Anthropic message_start (input, and output so *)
(* far), and a message_delta (output).                                     *)
AnthropicReports ==
  {Nothing, "input" :> 4 @@ "output" :> 1, "output" :> 2}
(* An OpenAI chunk with usage has the total of the whole answer.           *)
OpenAiReports == {Nothing, "total" :> 5}
=============================================================================

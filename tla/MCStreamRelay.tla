--------------------------- MODULE MCStreamRelay ---------------------------
(***************************************************************************)
(* Replies of both upstream dialects, with and without usage, and with the *)
(* ways in which upstreams pack the end of a reply.                        *)
(***************************************************************************)
EXTENDS StreamRelay, TLC

Bare(says) == [says |-> says, stops |-> FALSE, counts |-> {}]
Stop(says, counts) == [says |-> says, stops |-> TRUE, counts |-> counts]
Totals == [says |-> "totals", stops |-> FALSE, counts |-> {"in", "read", "out"}]
Start(counts) == [says |-> "role", stops |-> FALSE, counts |-> counts]
Text == Bare("text")
Terminal == Bare("terminal")

OpenAIReplies == {
  <<Text, Text, Stop("nothing", {}), Totals, Terminal>>,
  <<Bare("role"), Text, Stop("nothing", {"in", "out"}), Terminal>>,
  <<Text, Stop("text", {}), Terminal>>,
  <<Text, Stop("nothing", {}), Terminal>>,
  <<Text, Stop("nothing", {})>>}
AnthropicReplies == {
  <<Start({"in", "read"}), Text, Text, Stop("nothing", {"out"}), Terminal>>,
  <<Start({"in", "write"}), Text, Stop("nothing", {"out"}), Terminal>>,
  <<Start({"in"}), Text>>}

Of(dialects, replies, streamed, pins) ==
  [dialect : dialects, streams : streamed, pinned : pins,
   showsMeta : BOOLEAN, reply : replies]

MCCalls ==
  Of({"openai"}, OpenAIReplies, BOOLEAN, BOOLEAN)
    \cup Of({"toAnthropic"}, OpenAIReplies, BOOLEAN, {FALSE})
    \cup Of({"anthropic", "toOpenAI"}, AnthropicReplies, BOOLEAN, {FALSE})

(* The replies of the run are among those the theorems speak of.           *)
ASSUME MCRepliesEndOnce == RepliesEndOnce

=============================================================================

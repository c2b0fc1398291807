---- MODULE MCTurnRelay ----
EXTENDS TurnRelay
(* Every pair of dialects the handlers convert between. *)
MCPaths ==
  {<<"claude", "completions">>, <<"claude", "responses">>, <<"claude", "gemini">>,
   <<"claude-strings", "completions">>,
   <<"responses", "completions">>, <<"responses", "anthropic">>, <<"responses", "gemini">>,
   <<"codex", "completions">>,
   <<"completions", "anthropic">>, <<"completions", "responses">>, <<"completions", "gemini">>,
   <<"gemini", "completions">>, <<"gemini", "anthropic">>, <<"gemini", "responses">>}
====

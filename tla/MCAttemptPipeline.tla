-------------------------- MODULE MCAttemptPipeline --------------------------
(* Seven requests in the four dialects, and entries of every upstream mode. *)
EXTENDS AttemptPipeline

Text(role, words) == Turn(role, <<[type |-> "text", id |-> "", words |-> words]>>)
Call(ids, tool) == Turn("assistant", [i \in DOMAIN ids |-> [type |-> "tool_use", id |-> ids[i], words |-> <<tool>>]])
Result(id, words) == Turn("user", <<[type |-> "tool_result", id |-> id, words |-> words]>>)
Plainly(words) == Turn("assistant", <<[type |-> "string", id |-> "", words |-> words]>>)
Tools(names) == [i \in DOMAIN names |-> [name |-> names[i], schema |-> "upper"]]
Request(front, model, shape, messages, tools, fields, beta, stream) ==
  [front |-> front, model |-> model, beta |-> beta, large |-> FALSE, stream |-> stream,
   body |-> [shape |-> shape, messages |-> messages, tools |-> Tools(tools),
             fields |-> ("model" :> Str(model)) @@ fields]]

MCSecrets == {"s"}
MCMarks == <<"m">>
MCBlockedTools == {"b"}

Chat == Request("chat-completions", "mc", "chat",
  <<Text("user", <<"u", "s", "f">>), Text("assistant", <<"a">>), Text("user", <<"v">>)>>,
  <<"x", "b", "y">>, ("max_tokens" :> Num(9)) @@ ("tool_choice" :> Str("x")), <<>>, TRUE)
Claude == Request("messages", "ml", "claude",
  <<Text("user", <<"s">>), Call(<<"1", "2">>, "x"), Plainly(<<"a">>), Result("1", <<"s">>),
    Text("user", <<"u">>)>>,
  <<"x">>, <<>>, <<"beta1", "beta2">>, TRUE)
Responses == Request("responses", "mr", "responses", <<Text("user", <<"u", "f">>)>>,
  <<"x">>, ("max_output_tokens" :> Num(9)) @@ ("tool_choice" :> Str("x")), <<>>, FALSE)
Gemini == Request("generateContent", "mg", "gemini",
  <<Text("user", <<"s">>), Call(<<"">>, "x"),
    Turn("user", Result("", <<"s">>).blocks \o Text("user", <<"v">>).blocks), Text("user", <<"u">>)>>,
  <<"x">>, "generationConfig.maxOutputTokens" :> Num(9), <<>>, FALSE)
Shaped == Request("messages", "mc", "chat", <<Text("user", <<"s", "f">>)>>, <<"x">>,
  ("max_tokens" :> Num(9)) @@ ("tool_choice" :> Str("b")), <<>>, FALSE)
MCRequests == {Chat, [Chat EXCEPT !.large = TRUE], Claude, Responses,
               [Responses EXCEPT !.front = "responses-compact"], Gemini, Shaped}

Slot(builtins, ops) == [builtins |-> builtins, ops |-> ops]
Set(hook, builtins, ops) == [slots |-> hook :> Slot(builtins, ops), betaMap |-> "beta1" :> "gamma"]
Rename(from, to) == [op |-> "rename", scope |-> "top", role |-> "", field |-> from, to |-> to,
                     value |-> Num(0), sibling |-> ""]
Entry(model, mode, cap, retry, sets) ==
  [model |-> model, mode |-> mode, cap |-> cap, retry |-> retry, sets |-> sets]

Alias == Set("response_egress", <<"restore_client_model_alias">>, <<>>)
Inject == Set("before_upstream", <<"inject_missing_tool_results", "filter_anthropic_beta">>, <<>>)
RenameLimit == Set("before_upstream", <<>>, <<Rename("max_tokens", "max_completion_tokens")>>)
Assemble == Set("after_upstream", <<"assemble_sse_chunks">>, <<>>)
Lower == Set("request_ingress", <<"lowercase_tool_schema_types">>, <<>>)

A == Entry("pa", "anthropic-messages", 4, 0, <<Inject, Alias>>)
B == Entry("pb", "openai-completions", 6, 1, <<RenameLimit, Alias, Lower>>)
C == Entry("pc", "openai-responses", 5, 1, <<Alias>>)
D == Entry("pd", "gemini-generatecontent", 4, 1, <<>>)
E == Entry("pe", "openai-completions", 0, 0, <<Assemble>>)
Target(route, role, rank, able) == [route |-> route, role |-> role, rank |-> rank, able |-> able]
Plain(route) == Target(route, "", "", FALSE)
Named(entries) == [ladder |-> FALSE, entries |-> entries, triggers |-> {}, decides |-> FALSE]
Direct(route) == Named(<<Plain(route)>>)
Ladder(routes) == [Named([i \in DOMAIN routes |-> Plain(routes[i])]) EXCEPT !.ladder = TRUE]
Decided(routes) == [Named([i \in DOMAIN routes |-> Target(routes[i], "", "", TRUE)]) EXCEPT !.decides = TRUE]
Coordinator(planner, executor, triggers) ==
  [Named(<<Target(planner, "planner", "", FALSE), Target(executor, "executor", "", FALSE)>>)
     EXCEPT !.triggers = triggers]
MCAnyTool == {"any"}
Unplanned(executor) == Named(<<Target(executor, "executor", "", FALSE)>>)

MCAliases ==
  ("mc" :> {Named(<<Target(A, "", "primary", FALSE), Target(B, "", "fallback", FALSE)>>),
            Ladder(<<B, C>>), Ladder(<<D, A>>), Direct(E)})
  @@ ("ml" :> {Decided(<<A, D, B>>), Ladder(<<C, A>>), Direct(A), Coordinator(B, A, {"x"}),
               Coordinator(B, A, {"y"}), Unplanned(A)})
  @@ ("mr" :> {Named(<<Plain(B), Plain(A)>>), Ladder(<<C, D>>), Coordinator(C, A, MCAnyTool)})
  @@ ("mg" :> {Named(<<Plain(D), Plain(A), Plain(C)>>), Ladder(<<B, D>>)})

MCSays == {<<<<"[", "m", "]", "w">>, <<"[", "k", "]">>>>, <<<<"[", "w", "w", "w">>, <<"m">>>>}
MCRefusals == {400, 429}

MCRetryOn == {429, 502}
=============================================================================

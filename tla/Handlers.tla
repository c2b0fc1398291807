------------------------------ MODULE Handlers ------------------------------
(***************************************************************************)
(* What each handler of src/handlers does to a request, as data: the       *)
(* stages a body passes on its way to the upstream, whether the answer     *)
(* meets the after_upstream hook, whether a refusal is thrown or returned, *)
(* and the dialect of what the client gets, "native" when it is what the   *)
(* upstream said.  A handler is chosen by the endpoint (front), the        *)
(* upstream mode of the route and, for /v1/messages, the shape of the      *)
(* body.                                                                   *)
(***************************************************************************)
EXTENDS Transforms
Dialect == INSTANCE Dialects

Fronts == {"chat-completions", "messages", "interactions", "generateContent",
           "responses", "responses-input-tokens", "responses-compact"}
UpstreamModes == {"openai-completions", "anthropic-messages", "openai-responses",
                  "gemini-generatecontent"}

Hook(name, mode) == [op |-> "hook", name |-> name, mode |-> mode]
To(shape) == [op |-> "to", name |-> shape, mode |-> ""]
Edit(name) == [op |-> "edit", name |-> name, mode |-> ""]

Handler(stages, after, refusal, reply) ==
  [stages |-> stages, after |-> after, refusal |-> refusal, reply |-> reply]

-----------------------------------------------------------------------------
(* The turns of a body as messages of module Dialects, and back.  A block  *)
(* is "text", "string" (a turn whose content is no list of blocks),        *)
(* "thinking" or "reasoning", a call ("tool_use", in a chat body           *)
(* "tool_call") or "tool_result"; a chat turn of role "tool" is a result.  *)
(* A word of Dialects is a pair, which tells documents from words.         *)
Tagged(words) == [i \in DOMAIN words |-> <<words[i], "word">>]
Untagged(words) == [i \in DOMAIN words |-> words[i][1]]
OfTypes(turn, types) == SelectSeq(turn.blocks, LAMBDA b : b.type \in types)
Spoken(turn, types) ==
  [i \in DOMAIN OfTypes(turn, types) |-> Tagged(OfTypes(turn, types)[i].words)]
ItemRole == "call" :> "function_call" @@ "output" :> "function_call_output"

AsMessage(shape, turn) ==
  LET isResult == shape = "chat" /\ turn.role = "tool"
      texts == IF isResult THEN <<>> ELSE Spoken(turn, {"text", "string"})
      calls == OfTypes(turn, {"tool_use", "tool_call"})
      results == IF isResult THEN turn.blocks ELSE OfTypes(turn, {"tool_result"})
  IN [role |-> CASE \E r \in DOMAIN ItemRole : ItemRole[r] = turn.role ->
                      CHOOSE r \in DOMAIN ItemRole : ItemRole[r] = turn.role
                 [] shape = "claude" /\ turn.role = "assistant" /\ Of(turn, "string") # <<>> -> "string"
                 [] OTHER -> turn.role,
      text |-> IF shape = "responses" THEN texts ELSE FlattenSeq(texts),
      think |-> FlattenSeq(Spoken(turn, {"thinking", "reasoning"})),
      calls |-> [i \in DOMAIN calls |-> [id |-> calls[i].id, args |-> calls[i].words]],
      results |-> [i \in DOMAIN results |-> [of |-> results[i].id, words |-> results[i].words]]]

AsTurn(shape, m) ==
  LET texts == CASE shape = "responses" -> m.text
                 [] shape # "responses" /\ m.text = <<>> -> <<>>
                 [] OTHER -> <<m.text>>
      Block(type, id, words) == [type |-> type, id |-> id, words |-> words]
  IN Turn(IF m.role \in DOMAIN ItemRole THEN ItemRole[m.role] ELSE m.role,
       (IF m.think = <<>> THEN <<>>
        ELSE <<Block(IF shape = "claude" THEN "thinking" ELSE "reasoning", "", Untagged(m.think))>>)
       \o [i \in DOMAIN texts |-> Block("text", "", Untagged(texts[i]))]
       \o [i \in DOMAIN m.calls |->
             Block(IF shape = "chat" THEN "tool_call" ELSE "tool_use", m.calls[i].id, m.calls[i].args)]
       \o [i \in DOMAIN m.results |->
             Block(IF shape = "chat" THEN "text" ELSE "tool_result", m.results[i].of, m.results[i].words)])

AsChat(shape, msgs) ==
  CASE shape = "claude" -> Dialect!ClaudeToChat(msgs)
    [] shape = "responses" -> Dialect!ResponsesToChat(msgs)
    [] shape = "gemini" -> Dialect!GeminiToChat(msgs)
    [] OTHER -> msgs
FromChat(msgs, shape) ==
  CASE shape = "claude" -> Dialect!ChatToClaude(msgs)
    [] shape = "responses" -> Dialect!ChatToResponses(msgs)
    [] shape = "gemini" -> Dialect!ChatToGemini(msgs)
    [] shape = "input" -> Dialect!ChatToInput(msgs)
    [] OTHER -> msgs

(* The Interactions input is a list of turns like the one it becomes.      *)
ConvertTurns(turns, from, to) ==
  LET given == [i \in DOMAIN turns |-> AsMessage(from, turns[i])]
      there == CASE <<from, to>> = <<"interactions", "gemini">> -> given
                 [] <<from, to>> = <<"claude", "gemini">> -> Dialect!ClaudeToGemini(given)
                 [] OTHER -> FromChat(AsChat(from, given), to)
  IN [i \in DOMAIN there |-> AsTurn(IF to = "input" THEN "responses" ELSE to, there[i])]

-----------------------------------------------------------------------------
(* Conversions.  Only the fields listed here survive one.                  *)
Field(fields, name, as) == IF name \in DOMAIN fields THEN as :> fields[name] ELSE <<>>
NoMore == <<>>

ChatToClaudeFields(f) ==
  "max_tokens" :> IF "max_tokens" \in DOMAIN f THEN f["max_tokens"] ELSE Num(4096)
ChatToResponsesFields(f) == Field(f, "max_tokens", "max_output_tokens")
ChatToGeminiFields(f) == Field(f, "max_tokens", "generationConfig.max_output_tokens")
ClaudeToChatFields(body) ==
  LET f == body.fields IN
  Field(f, "max_tokens", "max_tokens") @@ Field(f, "tool_choice", "tool_choice")
  @@ (IF body.tools # <<>> THEN "tool_choice" :> Str("auto") ELSE NoMore)
ClaudeToGeminiFields(f) == Field(f, "max_tokens", "generation_config.max_output_tokens")
InteractionsToGeminiFields(f) ==
  Field(f, "generation_config.max_output_tokens", "generationConfig.max_output_tokens")
ResponsesToChatFields(f) ==
  Field(f, "max_output_tokens", "max_tokens") @@ Field(f, "max_tokens", "max_tokens")
  @@ Field(f, "tool_choice", "tool_choice")

(* Two conversions have no tools: Claude to Gemini, and the Interactions   *)
(* input to chat.  Two write no model: it is in the URL.                   *)
ConvertBody(body, shape, model) ==
  LET f == body.fields
      fields == CASE body.shape = "chat" /\ shape = "claude" -> ChatToClaudeFields(f)
                  [] body.shape = "chat" /\ shape = "responses" -> ChatToResponsesFields(f)
                  [] body.shape = "chat" /\ shape = "gemini" -> ChatToGeminiFields(f)
                  [] body.shape = "claude" /\ shape = "chat" -> ClaudeToChatFields(body)
                  [] body.shape = "claude" /\ shape = "gemini" -> ClaudeToGeminiFields(f)
                  [] body.shape = "responses" /\ shape = "chat" -> ResponsesToChatFields(f)
                  [] body.shape = "interactions" /\ shape = "gemini" -> InteractionsToGeminiFields(f)
                  [] OTHER -> NoMore
      bare == <<body.shape, shape>> \in {<<"interactions", "chat">>, <<"claude", "gemini">>}
      named == <<body.shape, shape>> \notin {<<"interactions", "gemini">>, <<"claude", "gemini">>}
  IN IF shape = body.shape THEN body
     ELSE [body EXCEPT !.shape = shape,
                       !.messages = ConvertTurns(@, body.shape, shape),
                       !.tools = IF bare THEN <<>> ELSE @,
                       !.fields = IF named THEN Put(fields, "model", Str(model)) ELSE fields]

(* /v1/messages has its own way from chat to Responses: it keeps the       *)
(* forced tool, and the reasoning as items.                                *)
MessagesToResponses(body, model) ==
  LET there == ConvertBody(body, "responses", model)
  IN [there EXCEPT !.fields = @ @@ Field(body.fields, "tool_choice", "tool_choice"),
                   !.messages = ConvertTurns(body.messages, "chat", "input")]

(* Defaults of the native Claude handler. *)
ClaudeDefaults(body, route) ==
  LET limited == IF "max_tokens" \notin DOMAIN body.fields /\ route.cap # 0
                 THEN Put(body.fields, "max_tokens", Num(route.cap)) ELSE body.fields
  IN [body EXCEPT !.fields = IF "thinking" \in DOMAIN limited THEN limited
                             ELSE Put(limited, "thinking", Str("disabled"))]

(* A turn with calls and no thinking gets an empty thinking block.         *)
LeadWithThinking(body) ==
  [body EXCEPT !.messages = [i \in DOMAIN @ |->
     IF HasToolUse(@[i]) /\ Of(@[i], "thinking") = <<>>
     THEN [@[i] EXCEPT !.blocks = <<[type |-> "thinking", id |-> "", words |-> <<>>]>> \o @]
     ELSE @[i]]]

(* What is not a Gemini body is taken for a Claude one. *)
ReadAsClaude(body) == IF body.shape = "chat" THEN [body EXCEPT !.shape = "claude"] ELSE body

EditBody(name, body, route) ==
  CASE name = "claude defaults" -> ClaudeDefaults(body, route)
    [] name = "read as claude" -> ReadAsClaude(body)
    [] name = "leading thinking" -> LeadWithThinking(body)
    [] name = "keep tool choice" -> MessagesToResponses(body, route.model)
    [] name = "count one token" -> [body EXCEPT !.fields = Put(@, "max_tokens", Num(1))]

-----------------------------------------------------------------------------
(* The handlers.                                                           *)
ChatToAnthropic == Handler(<<Hook("before_upstream", "anthropic-messages"), To("claude")>>,
                           TRUE, "return", "chat")
ChatToResponsesUpstream ==
  Handler(<<Hook("before_upstream", "openai-responses"), To("responses"),
            Hook("before_upstream", "openai-responses")>>, TRUE, "return", "native")
ChatToGeminiUpstream ==
  Handler(<<Hook("before_upstream", "gemini-generatecontent"), To("gemini")>>,
          TRUE, "return", "chat")
ChatNative(mode) == Handler(<<Hook("before_upstream", mode)>>, TRUE, "return", "native")

ClaudeHandler ==
  Handler(<<Edit("claude defaults"), Hook("before_upstream", "anthropic-messages")>>,
          TRUE, "throw", "native")

(* A chat-shaped body at /v1/messages is not converted ... *)
OpenAIShapedToResponses ==
  Handler(<<Edit("keep tool choice")>>, TRUE, "throw", "claude")
OpenAIShapedToCompletions(mode) ==
  Handler(<<Hook("before_upstream", mode)>>, TRUE, "throw", "claude")

(* ... a Claude-shaped one is, between the two hooks. *)
ClaudeShapedToResponses ==
  Handler(<<Hook("before_conversion", "openai-responses"), To("chat"), Edit("keep tool choice")>>,
          TRUE, "throw", "claude")
ClaudeShapedToCompletions(mode) ==
  Handler(<<Hook("before_conversion", mode), To("chat"), Hook("before_upstream", mode)>>,
          TRUE, "throw", "claude")

GeminiInteractions ==
  Handler(<<To("gemini"), Hook("before_upstream", "gemini")>>, TRUE, "throw", "claude")
(* At /v1/messages the answer is converted, else it is passed on. *)
GeminiGenerateContent(front) ==
  Handler(<<Hook("before_conversion", "gemini"), Edit("read as claude"), To("gemini"),
            Hook("before_upstream", "gemini")>>, TRUE, "throw", IF front = "messages" THEN "claude" ELSE "native")

GeminiToAnthropic(mode) ==
  Handler(<<Hook("before_conversion", mode), To("chat"), To("claude"), Edit("leading thinking")>>,
          FALSE, "throw", "gemini")
GeminiToResponses(mode) ==
  Handler(<<Hook("before_conversion", mode), To("chat"), To("responses"),
            Hook("before_upstream", "openai-responses")>>, TRUE, "throw", "gemini")
GeminiToCompletions(mode) ==
  Handler(<<Hook("before_conversion", mode), To("chat"), Hook("before_upstream", mode)>>,
          TRUE, "throw", "gemini")

ResponsesAsCompletions(mode) ==
  Handler(<<Hook("before_conversion", mode), To("chat"), Hook("before_upstream", mode)>>,
          TRUE, "throw", "responses")
ResponsesAsAnthropic(mode) ==
  Handler(<<To("chat"), To("claude"), Hook("before_upstream", mode)>>, FALSE, "throw", "responses")
(* This one calls the Gemini handler without the route: no hook runs. *)
ResponsesAsGemini ==
  Handler(<<To("chat"), To("claude"), To("gemini")>>, FALSE, "throw", "responses")
ResponsesNative ==
  Handler(<<Hook("before_upstream", "openai-responses")>>, TRUE, "throw", "native")

(* Counts and compactions name no model. *)
InputTokens(mode) ==
  IF mode = "openai-completions"
  THEN Handler(<<To("chat"), Edit("count one token"), Hook("before_upstream", mode)>>,
               TRUE, "throw", "none")
  ELSE Handler(<<Hook("before_upstream", mode)>>, TRUE, "throw", "none")
Compact(mode) ==
  IF mode = "openai-completions"
  THEN Handler(<<To("chat"), Hook("before_upstream", mode)>>, TRUE, "throw", "none")
  ELSE Handler(<<Hook("before_upstream", mode)>>, TRUE, "throw", "none")

-----------------------------------------------------------------------------
(* Dispatch, inside each handler by mode and then between the handlers.    *)
ChatCompletionsHandler(mode) ==
  CASE mode = "anthropic-messages" -> ChatToAnthropic
    [] mode = "openai-responses" -> ChatToResponsesUpstream
    [] mode = "gemini-generatecontent" -> ChatToGeminiUpstream
    [] OTHER -> ChatNative(mode)

MessagesHandler(mode, shape) ==
  CASE shape = "chat" /\ mode = "openai-responses" -> OpenAIShapedToResponses
    [] shape = "chat" -> OpenAIShapedToCompletions(mode)
    [] mode = "openai-responses" -> ClaudeShapedToResponses
    [] OTHER -> ClaudeShapedToCompletions(mode)

OpenAIHandler(mode) ==
  CASE mode = "anthropic-messages" -> GeminiToAnthropic(mode)
    [] mode = "openai-responses" -> GeminiToResponses(mode)
    [] OTHER -> GeminiToCompletions(mode)

ResponsesHandler(mode) ==
  CASE mode = "openai-completions" -> ResponsesAsCompletions(mode)
    [] mode = "anthropic-messages" -> ResponsesAsAnthropic(mode)
    [] mode = "gemini-generatecontent" -> ResponsesAsGemini
    [] OTHER -> ResponsesNative

(* The mode a handler is told: counting and compacting know two of them.   *)
(* (A route named by a model; the fixed route of models.default takes      *)
(* every mode but Responses for chat at /v1/chat/completions.)             *)
ResolvedMode(front, mode) ==
  IF /\ front \in {"responses-input-tokens", "responses-compact"}
     /\ mode # "openai-responses"
  THEN "openai-completions" ELSE mode

HandlerFor(front, mode, shape) ==
  CASE front = "chat-completions" -> ChatCompletionsHandler(mode)
    [] front = "messages" /\ mode = "anthropic-messages" -> ClaudeHandler
    [] front = "messages" /\ mode = "gemini-generatecontent" -> GeminiGenerateContent(front)
    [] front = "messages" -> MessagesHandler(mode, shape)
    [] front = "interactions" /\ mode = "gemini-generatecontent" -> GeminiInteractions
    [] front = "generateContent" /\ mode = "gemini-generatecontent" -> GeminiGenerateContent(front)
    [] front \in {"interactions", "generateContent"} -> OpenAIHandler(mode)
    [] front = "responses" -> ResponsesHandler(mode)
    [] front = "responses-input-tokens" -> InputTokens(mode)
    [] front = "responses-compact" -> Compact(mode)

(* Where an answer names its model: JSON at the top; a chat stream, and    *)
(* the Gemini stream that is made of one, at the top of every event; a     *)
(* Claude stream within its first event, a Responses stream within the     *)
(* first and the last; a Gemini upstream nowhere.                          *)
UpstreamDialect(mode) ==
  CASE mode = "anthropic-messages" -> "claude"
    [] mode = "openai-responses" -> "responses"
    [] mode = "gemini-generatecontent" -> "none"
    [] OTHER -> "chat"

NameModel(answer, dialect, name) ==
  LET sse == answer.format = "sse"
      top == dialect \in {"chat", "gemini"} \/ (~sse /\ dialect # "none")
      within == CASE sse /\ dialect = "claude" -> {1}
                  [] sse /\ dialect = "responses" -> {1, Len(answer.events)}
                  [] OTHER -> {}
  IN [answer EXCEPT !.events = [i \in DOMAIN @ |->
       [@[i] EXCEPT !.model = IF top THEN name ELSE "",
                    !.inner = IF i \in within THEN name ELSE ""]]]

(* One stage, and a request on its whole way to the upstream.              *)
RunStage(stage, payload, route, clientModel) ==
  CASE stage.op = "hook" -> RunHook(stage.name, payload, route, stage.mode, clientModel)
    [] stage.op = "to" -> [payload EXCEPT !.body = ConvertBody(@, stage.name, route.model)]
    [] stage.op = "edit" -> [payload EXCEPT !.body = EditBody(stage.name, @, route)]

ToUpstream(handler, payload, route, clientModel) ==
  FoldLeft(LAMBDA p, stage : RunStage(stage, p, route, clientModel), payload, handler.stages)
=============================================================================

----------------------------- MODULE Transforms -----------------------------
(***************************************************************************)
(* The transform engine (utils/request-transform.ts) as operators on       *)
(* bodies.  A body is a record                                             *)
(*   shape     "chat", "claude", "responses", "gemini" or "answer"         *)
(*   messages  the turns: [role, blocks, extra]; a block is                *)
(*             [type, id, words]; extra holds the other fields of a turn   *)
(*   tools     [name, schema] in order                                     *)
(*   fields    the other top-level fields, a function from their names     *)
(* Words are sequences of symbols; a path of two segments                  *)
(* (generation_config.max_output_tokens) is one field name.                *)
(***************************************************************************)
EXTENDS Integers, Sequences, SequencesExt, FiniteSets, TLC

Str(s) == [kind |-> "string", n |-> 0, s |-> s]
Num(n) == [kind |-> "number", n |-> n, s |-> ""]

Put(obj, field, value) == (field :> value) @@ obj
Without(obj, field) == [f \in DOMAIN obj \ {field} |-> obj[f]]

-----------------------------------------------------------------------------
(* Ops: [op, scope, role, field, to, value, sibling].                      *)
ApplyOpToObject(op, obj) ==
  LET here == op.field \in DOMAIN obj IN
  CASE op.op = "rename" /\ here -> Without(Put(obj, op.to, obj[op.field]), op.field)
    [] op.op = "set" -> Put(obj, op.field, op.value)
    [] op.op = "default" /\ ~here -> Put(obj, op.field, op.value)
    [] op.op = "remove" -> Without(obj, op.field)
    [] op.op = "map_value" /\ here /\ obj[op.field] = op.value
         /\ (op.sibling = "" \/ op.sibling \in DOMAIN obj) -> Put(obj, op.field, Str(op.to))
    [] OTHER -> obj

HasMessages(body) == body.shape \in {"chat", "claude"}

(* "$response.f" and "f" both name a top-level field. *)
ApplyOpToBody(body, op) ==
  CASE op.scope = "top" -> [body EXCEPT !.fields = ApplyOpToObject(op, @)]
    [] op.scope = "messages" /\ HasMessages(body) ->
         [body EXCEPT !.messages = [i \in DOMAIN @ |->
            IF op.role \in {"", @[i].role}
            THEN [@[i] EXCEPT !.extra = ApplyOpToObject(op, @)] ELSE @[i]]]
    [] OTHER -> body

-----------------------------------------------------------------------------
(* Built-ins on the turns.                                                 *)
Prefix(s, Test(_)) ==
  SubSeq(s, 1, CHOOSE n \in 0..Len(s) : /\ \A i \in 1..n : Test(s[i])
                                        /\ n = Len(s) \/ ~Test(s[n + 1]))
Suffix(s, n) == SubSeq(s, n + 1, Len(s))

Of(msg, type) == SelectSeq(msg.blocks, LAMBDA b : b.type = type)
Ids(blocks) == {blocks[i].id : i \in DOMAIN blocks}

(* In a chat body results and calls are not content blocks: none of these  *)
(* tests sees them.                                                        *)
HasToolUse(msg) == msg.role = "assistant" /\ Of(msg, "tool_use") # <<>>
TextAssistant(msg) == msg.role = "assistant" /\ ~HasToolUse(msg)
IsPureTool(msg) ==
  msg.role = "user" /\ msg.blocks # <<>> /\ Of(msg, "tool_result") = msg.blocks

Turn(role, blocks) == [role |-> role, blocks |-> blocks, extra |-> <<>>]
Placeholder(id) == [type |-> "tool_result", id |-> id, words |-> <<>>]

Placeholders(msg, present) ==
  LET called == Of(msg, "tool_use")
      missing == {i \in DOMAIN called : /\ called[i].id \notin present
                                        /\ \A j \in 1..(i - 1) : called[j].id # called[i].id}
      order == SetToSortSeq(missing, <)
  IN [i \in DOMAIN order |-> Placeholder(called[order[i]].id)]

(* Every turn with calls is followed by one turn of results alone: the     *)
(* results found next to it in one message, the words said between moved   *)
(* behind them, an empty result for an identifier without one.             *)
RECURSIVE InjectMissingToolResults(_)
InjectMissingToolResults(msgs) ==
  IF msgs = <<>> THEN <<>>
  ELSE IF ~HasToolUse(Head(msgs))
  THEN <<Head(msgs)>> \o InjectMissingToolResults(Tail(msgs))
  ELSE LET said == Prefix(Tail(msgs), TextAssistant)
           after == Suffix(Tail(msgs), Len(said))
           pure == Prefix(after, IsPureTool)
           found == FlattenSeq([i \in DOMAIN pure |-> pure[i].blocks])
           results == found \o Placeholders(Head(msgs), Ids(found))
           inPlace == said = <<>> /\ Len(pure) = 1 /\ results = found
       IN <<Head(msgs), IF inPlace THEN pure[1] ELSE Turn("user", results)>>
            \o InjectMissingToolResults(said \o Suffix(after, Len(pure)))

EnsureTrailingUserMessage(msgs) ==
  SubSeq(msgs, 1, Max({0} \cup {i \in DOMAIN msgs : msgs[i].role = "user"}))

(* The name of a chat tool turn, from the last call before it of its id.   *)
RecoverToolMessageName(msgs) ==
  LET Named(i) == {j \in 1..(i - 1) : msgs[j].role = "assistant"
                     /\ \E k \in DOMAIN msgs[j].blocks :
                          msgs[j].blocks[k].type = "tool_call" /\ msgs[j].blocks[k].id = msgs[i].blocks[1].id}
  IN [i \in DOMAIN msgs |->
        IF msgs[i].role = "tool" /\ "name" \notin DOMAIN msgs[i].extra /\ Named(i) # {}
        THEN [msgs[i] EXCEPT !.extra = Put(@, "name", Str(msgs[i].blocks[1].id))]
        ELSE msgs[i]]

(* Program items become calls of the tool "node" and their results, when   *)
(* the request declares that tool.                                         *)
ProjectProgram(body) ==
  IF \A i \in DOMAIN body.tools : body.tools[i].name # "node" THEN body.messages
  ELSE [i \in DOMAIN body.messages |->
          [body.messages[i] EXCEPT !.role =
             CASE @ = "program" -> "function_call"
               [] @ = "program_output" -> "function_call_output"
               [] OTHER -> @]]

(* "adaptive" and TRUE count as enabled, anything else is left alone.      *)
StripFreshThinking(body) ==
  IF /\ "thinking" \in DOMAIN body.fields
     /\ body.fields["thinking"] \in {Str("enabled"), Str("true"), Str("adaptive")}
     /\ \A i \in DOMAIN body.messages :
          body.messages[i].role # "assistant" \/ Of(body.messages[i], "thinking") = <<>>
  THEN [body EXCEPT !.fields = Without(@, "thinking")]
  ELSE body

(* The caller's own injection points win. *)
EnsureToolConfigCacheTtl(fields) ==
  IF "system.cache_control" \notin DOMAIN fields \/ "tool_config.cache" \in DOMAIN fields THEN fields
  ELSE Put(fields, "tool_config.cache", fields["system.cache_control"])

LowercaseSchemaTypes(tools) == [i \in DOMAIN tools |-> [tools[i] EXCEPT !.schema = "lower"]]

-----------------------------------------------------------------------------
(* A payload is [body, headers]; the anthropic-beta header is a sequence.  *)
FilterAnthropicBeta(headers, map) ==
  LET kept == SelectSeq(headers.beta, LAMBDA b : b \in DOMAIN map)
  IN [headers EXCEPT !.beta = [i \in DOMAIN kept |-> map[kept[i]]]]

ApplyBuiltin(payload, name, set, clientModel) ==
  LET body == payload.body IN
  CASE name = "inject_missing_tool_results" /\ HasMessages(body) ->
         [payload EXCEPT !.body.messages = InjectMissingToolResults(@)]
    [] name = "ensure_trailing_user_message" /\ HasMessages(body) ->
         [payload EXCEPT !.body.messages = EnsureTrailingUserMessage(@)]
    [] name = "recover_tool_message_name" /\ HasMessages(body) ->
         [payload EXCEPT !.body.messages = RecoverToolMessageName(@)]
    [] name = "strip_fresh_thinking" /\ HasMessages(body) ->
         [payload EXCEPT !.body = StripFreshThinking(@)]
    [] name = "project_program_to_node_tool" /\ body.shape = "responses" ->
         [payload EXCEPT !.body.messages = ProjectProgram(body)]
    [] name = "lowercase_tool_schema_types" -> [payload EXCEPT !.body.tools = LowercaseSchemaTypes(@)]
    [] name = "ensure_tool_config_cache_ttl" -> [payload EXCEPT !.body.fields = EnsureToolConfigCacheTtl(@)]
    [] name = "filter_anthropic_beta" -> [payload EXCEPT !.headers = FilterAnthropicBeta(@, set.betaMap)]
    [] name = "restore_client_model_alias" /\ clientModel # "" /\ "model" \in DOMAIN body.fields ->
         [payload EXCEPT !.body.fields = Put(@, "model", Str(clientModel))]
    [] OTHER -> payload

(* One set at one hook: its built-ins, then its ops.                       *)
ApplyTransformSet(payload, set, hook, clientModel) ==
  IF hook \notin DOMAIN set.slots THEN payload
  ELSE LET slot == set.slots[hook]
           built == FoldLeft(LAMBDA p, b : ApplyBuiltin(p, b, set, clientModel), payload, slot.builtins)
       IN [built EXCEPT !.body = FoldLeft(ApplyOpToBody, @, slot.ops)]

-----------------------------------------------------------------------------
(* The per-entry cap on output tokens, by upstream mode; a mode outside    *)
(* the table has none.                                                     *)
MaxOutputTokensPaths(mode) ==
  CASE mode = "anthropic-messages" -> {"max_tokens"}
    [] mode = "openai-completions" -> {"max_completion_tokens", "max_tokens"}
    [] mode = "openai-responses" -> {"max_output_tokens"}
    [] mode = "gemini" -> {"generation_config.max_output_tokens", "generationConfig.maxOutputTokens"}
    [] OTHER -> {}

ApplyMaxTokensCap(fields, mode, cap) ==
  [f \in DOMAIN fields |->
     IF f \in MaxOutputTokensPaths(mode) /\ fields[f].kind = "number" /\ fields[f].n > cap
     THEN Num(cap) ELSE fields[f]]

(* A route is [sets, cap, ...]; a cap of 0 stands for none.                *)
RunHook(hook, payload, route, mode, clientModel) ==
  LET folded == FoldLeft(LAMBDA p, set : ApplyTransformSet(p, set, hook, clientModel), payload, route.sets)
  IN IF hook = "before_upstream" /\ route.cap # 0
     THEN [folded EXCEPT !.body.fields = ApplyMaxTokensCap(@, mode, route.cap)]
     ELSE folded

HasHookOps(hook, route) == \E i \in DOMAIN route.sets : hook \in DOMAIN route.sets[i].slots

-----------------------------------------------------------------------------
(* Answers: [status, format, events], an event [model, inner, words,       *)
(* delta, finish]; model is the field of that name at the top of the       *)
(* event, inner the name an event holds deeper (message.model of a Claude  *)
(* stream, response.model of a Responses stream), which no hook reaches.   *)
(* A JSON answer is one event, a text one event without a model.           *)
AsBody(event) ==
  [shape |-> "answer", messages |-> <<>>, tools |-> <<>>,
   fields |-> IF event.model = "" THEN <<>> ELSE "model" :> Str(event.model)]

TransformEvent(hook, event, route, clientModel) ==
  LET after == RunHook(hook, [body |-> AsBody(event), headers |-> [beta |-> <<>>]],
                       route, "", clientModel).body
  IN [event EXCEPT !.model = IF "model" \in DOMAIN after.fields THEN after.fields["model"].s ELSE ""]

(* All chunks of a stream as one completion; a chunk without a delta does  *)
(* not pass its finish reason on.                                          *)
AssembleSseChunks(events) ==
  LET said == SelectSeq(events, LAMBDA e : e.words # <<>>)
      Latest(Has(_), Get(_)) ==
        LET some == SelectSeq(events, Has) IN IF some = <<>> THEN "" ELSE Get(Last(some))
  IN [model |-> Latest(LAMBDA e : e.model # "", LAMBDA e : e.model),
      inner |-> "",
      words |-> FlattenSeq([i \in DOMAIN said |-> said[i].words]),
      finish |-> Latest(LAMBDA e : e.finish # "" /\ e.delta, LAMBDA e : e.finish),
      delta |-> FALSE]

Assembles(route) ==
  \E i \in DOMAIN route.sets :
    /\ "after_upstream" \in DOMAIN route.sets[i].slots
    /\ \E j \in DOMAIN route.sets[i].slots["after_upstream"].builtins :
         route.sets[i].slots["after_upstream"].builtins[j] = "assemble_sse_chunks"

(* The raw answer before the handler looks at it; on a plain JSON body the *)
(* engine does not know the client's model.                                *)
ApplyAfterUpstream(answer, route, clientModel) ==
  CASE ~HasHookOps("after_upstream", route) -> answer
    [] answer.format = "sse" /\ Assembles(route) ->
         [answer EXCEPT !.format = "json",
            !.events = <<TransformEvent("after_upstream", AssembleSseChunks(@), route, clientModel)>>]
    [] answer.format = "json" ->
         [answer EXCEPT !.events = <<TransformEvent("after_upstream", @[1], route, "")>>]
    [] OTHER -> answer

(* The finished answer to the client, when it is JSON; streams are piped.  *)
ApplyWriteoutBody(answer, route, clientModel) ==
  IF answer.format = "json" /\ HasHookOps("response_egress", route)
  THEN [answer EXCEPT !.events = <<TransformEvent("response_egress", @[1], route, clientModel)>>]
  ELSE answer
=============================================================================

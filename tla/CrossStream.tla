---------------------------- MODULE CrossStream ----------------------------
(***************************************************************************)
(* The stream converters between the other pairs of APIs:                  *)
(*   Responses to Claude   (handleResponsesStreamAsClaude, messages.ts),   *)
(*   Anthropic to chat and Gemini to chat     (chat-completions.ts),       *)
(*   chat, Anthropic and Responses to Gemini's generateContent and         *)
(*   interactions      (openai.ts with converters/openai-to-gemini.ts).    *)
(* They share ChatStream's variables and its client.  The upstreams are    *)
(* the APIs themselves: blocks (items) one after another, chunks, and one  *)
(* finish after which no content comes.  Tool k is the k-th of a stream.   *)
(***************************************************************************)
EXTENDS ChatStream, TLC

CONSTANTS
  Routes,      (* <<upstream API, client API>>                                *)
  MaxDeltas,   (* bound: deltas, or chunks, of the upstream                    *)
  MaxBlocks    (* bound: its blocks (items)                                    *)

ASSUME CrossAssumption ==
  /\ MaxBlocks \in Nat /\ MaxDeltas \in 0..MaxLines
  /\ Routes \subseteq
       {<<"responses", "claude">>, <<"anthropic", "chat">>, <<"gemini", "chat">>}
         \cup {"chat", "anthropic", "responses"} \X {"gemini", "interactions"}

VARIABLES
  source,    (* the upstream's API; "chat" to a target of ChatStream is ChatStream *)
  up,        (* the upstream: its open block, blocks so far, thinking buffered     *)
  calls      (* geminiToolCallBuffer: index -> argument pieces                     *)

cvars == <<vars, source, up, calls>>

Silent == [kind |-> "none", at |-> 0, count |-> 0, tool |-> 0, texts |-> 0,
           buffer |-> <<>>, finish |-> "none", spoilt |-> FALSE]
NoCalls == [i \in {} |-> <<>>]
Crossed == <<source, target>> \in Routes
GeminiClient == target \in {"gemini", "interactions"}

CrossInit ==
  /\ up = Silent /\ calls = NoCalls
  /\ \/ source = "chat" /\ Init
     \/ \E r \in Routes : source = r[1] /\ target = r[2] /\ Fresh(Read(NewReader, Start))

Say(events) == reader' = ReadAll(reader, events)
Running == Crossed /\ ended = "no" /\ up.finish = "none"
Fixed == UNCHANGED <<target, source, ended, thinkingBlock, last>>
Silently == UNCHANGED <<reader, text, thought, held, calls, tools, textBlock, next, stop, usage>>
Arrives(c, before) == [k \in 1..Len(c) |-> [mark |-> c[k], id |-> pieces + before + k]]
Delivers(n) ==
  /\ lines < MaxDeltas /\ lines' = lines + 1
  /\ pieces' = pieces + n
Pieces(n) == [k \in 1..n |-> pieces + k]

-----------------------------------------------------------------------------
(* processSSEBuffer: one chat chunk toward a Gemini client.  Text whose    *)
(* last '<' has no '>' is sent and also put in front of the next content;  *)
(* tool calls wait for the finish reason, and the chunk made of them       *)
(* replaces the one the finish came in.                                    *)
HeldGemini(s) ==
  LET open == {k \in 1..Len(s) : s[k].mark # "t"}
      from == CHOOSE k \in open : \A j \in open : j <= k
  IN  IF open # {} /\ s[from].mark = "p" THEN SubSeq(s, from, Len(s)) ELSE <<>>
Clean(s) == Split(s).plain \o Split(s).rest \o Split(s).pending
Flushes(f, buffered) == f # "none" /\ buffered # NoCalls
FinishSaid(f) == IF f = "length" THEN "max_tokens" ELSE "completed"

FromTools(buffered) ==
  [t \in Tools |->
     IF tools[t].block \in DOMAIN buffered /\ tools[t].name
     THEN [tools[t] EXCEPT !.out = buffered[tools[t].block], !.whole = TRUE] ELSE tools[t]]

GeminiChunk(new, reasoning, f) ==
  LET all     == IF new = <<>> THEN <<>> ELSE held \o new
      flush   == Flushes(f, calls)
      texts   == IF flush THEN <<>> ELSE ids(WithoutTags(Clean(all)))
      thinks  == IF flush THEN <<>>
                 ELSE (IF target = "gemini" THEN reasoning ELSE <<>>) \o ids(WithoutTags(Split(all).thoughts))
  IN  /\ text' = text \o texts /\ thought' = thought \o thinks
      /\ held' = IF new = <<>> THEN held ELSE HeldGemini(all)
      /\ calls' = IF flush THEN NoCalls ELSE calls
      /\ tools' = IF flush THEN FromTools(calls) ELSE tools
      /\ Say((IF flush \/ texts # <<>> \/ thinks # <<>> THEN <<Part>> ELSE <<>>)
               \o (IF f # "none" /\ target = "gemini" THEN <<Finish>> ELSE <<>>))
      /\ stop' = IF f = "none" \/ target # "gemini" THEN stop ELSE FinishSaid(f)
      /\ UNCHANGED <<textBlock, next, usage>>

Spoils(new, f) ==
  \/ up.spoilt \/ (\E k \in 1..Len(new) : new[k].mark = "p")
  \/ new # <<>> /\ Flushes(f, calls)

(* handleOpenAIStreamingResponse: content, reasoning and the finish may    *)
(* share a chunk; fragments of calls come by index.                        *)
ChatChunk(c, reasons, f) ==
  LET reasoning == IF reasons THEN <<pieces + 1>> ELSE <<>>
      new       == Arrives(c, Len(reasoning))
  IN  /\ Running /\ source = "chat"
      /\ Delivers(Len(c) + Len(reasoning))
      /\ GeminiChunk(new, reasoning, f)
      /\ up' = [up EXCEPT !.finish = f,
                          !.spoilt = Spoils(new, f) \/ (reasons /\ (Flushes(f, calls) \/ target # "gemini"))]
      /\ sent' = [sent EXCEPT !.texts = @ \cup Range(ids(WithoutTags(new))),
                              !.reasoning = @ \cup Range(reasoning),
                              !.finishes = IF f = "none" THEN @ ELSE @ \cup {f}]
      /\ Fixed

ChatFragment(t, id, name, args) ==
  LET new == IF args THEN <<pieces + 1>> ELSE <<>>
      old == IF t \in DOMAIN calls THEN calls[t] ELSE <<>>
  IN  /\ Running /\ source = "chat"
      /\ Delivers(Len(new))
      /\ calls' = (t :> old \o new) @@ calls
      /\ tools' = [tools EXCEPT ![t].id = @ \/ id, ![t].name = @ \/ name, ![t].block = t,
                                ![t].args = @ \o new]
      /\ UNCHANGED <<reader, text, thought, held, textBlock, next, stop, usage, up, sent>>
      /\ Fixed

-----------------------------------------------------------------------------
(* Upstreams of blocks: anthropic and responses.                           *)

BufferKey(at) == at
ArgumentsIndex(at) == 0     (* chat-completions.ts: whichever call they belong to *)

BlockStart(kind) ==
  LET k    == IF kind = "tool" THEN up.tool + 1 ELSE up.tool
      made == [NoTool EXCEPT !.id = TRUE, !.name = TRUE]
  IN  /\ Running /\ source \in {"anthropic", "responses"}
      /\ up.kind = "none" /\ up.count < MaxBlocks
      /\ kind = "tool" => k \in Tools
      /\ up' = [up EXCEPT !.kind = kind, !.at = up.count, !.count = @ + 1, !.tool = k,
                          !.texts = IF kind = "text" THEN @ + 1 ELSE @]
      /\ CASE kind = "tool" /\ target = "claude" ->
                /\ Say(<<Add(next)>>) /\ next' = next + 1
                /\ tools' = [tools EXCEPT ![k] = [made EXCEPT !.block = next, !.whole = TRUE]]
           [] kind = "tool" /\ target = "chat" ->
                /\ Say(<<Call(up.count)>>) /\ next' = next
                /\ tools' = [tools EXCEPT ![k] = [made EXCEPT !.block = up.count, !.whole = TRUE]]
           [] kind = "tool" /\ source = "anthropic" /\ GeminiClient ->
                /\ tools' = [tools EXCEPT ![k] = made] /\ UNCHANGED <<reader, next>>
           [] OTHER -> UNCHANGED <<reader, next, tools>>
      /\ UNCHANGED <<lines, pieces, text, thought, held, calls, textBlock, stop, usage, sent>>
      /\ Fixed

ClaudeText ==
  LET at == IF textBlock = None THEN next ELSE textBlock
  IN  /\ Say((IF textBlock = None THEN <<Add(at)>> ELSE <<>>) \o <<Delta(at)>>)
      /\ textBlock' = at /\ next' = IF textBlock = None THEN next + 1 ELSE next

TextDelta(c) ==
  LET new == Arrives(c, 0)
  IN  /\ Running /\ up.kind = "text"
      /\ Delivers(Len(c))
      /\ sent' = [sent EXCEPT !.texts = @ \cup Range(ids(WithoutTags(new)))]
      /\ up' = [up EXCEPT !.spoilt = GeminiClient /\ Spoils(new, "none")]
      /\ IF GeminiClient THEN GeminiChunk(new, <<>>, "none")
         ELSE /\ text' = text \o ids(WithoutTags(new))
              /\ IF target = "claude" THEN ClaudeText ELSE Say(<<Part>>) /\ UNCHANGED <<textBlock, next>>
              /\ UNCHANGED <<thought, held, calls, tools, stop, usage>>
      /\ Fixed

ThinkingDelta ==
  /\ Running /\ up.kind = "thinking"
  /\ Delivers(1)
  /\ sent' = [sent EXCEPT !.reasoning = @ \cup {pieces + 1}]
  /\ up' = [up EXCEPT !.buffer = IF source = "anthropic" /\ GeminiClient THEN Append(@, pieces + 1) ELSE @]
  /\ Silently /\ Fixed

ArgumentsDelta ==
  LET of(t) == IF target = "chat" THEN tools[t].block = ArgumentsIndex(up.at) ELSE t = up.tool
      shown == target \in {"claude", "chat"}
  IN  /\ Running /\ up.kind = "tool"
      /\ Delivers(1)
      /\ tools' = [t \in Tools |->
           [tools[t] EXCEPT !.args = IF t = up.tool THEN Append(@, pieces + 1) ELSE @,
                            !.out = IF shown /\ of(t) THEN Append(@, pieces + 1) ELSE @]]
      /\ Say(CASE target = "claude" -> <<Delta(tools[up.tool].block)>>
               [] target = "chat" -> <<Delta(ArgumentsIndex(up.at))>>
               [] OTHER -> <<>>)
      /\ UNCHANGED <<text, thought, held, calls, textBlock, next, stop, usage, up, sent>>
      /\ Fixed

(* output_text.done, output_item.done, content_block_stop. *)
ItemDone ==
  CASE up.kind = "text" /\ textBlock # None -> <<Close(textBlock)>>
    [] up.kind = "tool" -> <<Close(tools[up.tool].block)>>
    [] OTHER -> <<>>
BlockStop ==
  LET tag  == [mark |-> "<", id |-> 0]
      back == [mark |-> ">", id |-> 0]
      key  == BufferKey(up.at)
      old  == IF key \in DOMAIN calls THEN calls[key] ELSE <<>>
      thinks == <<tag>> \o [k \in 1..Len(up.buffer) |-> [mark |-> "t", id |-> up.buffer[k]]] \o <<back>>
  IN  /\ Running /\ up.kind # "none"
      /\ up' = [up EXCEPT !.kind = "none", !.buffer = <<>>]
      /\ CASE target = "claude" ->
                /\ Say(ItemDone)
                /\ UNCHANGED <<text, thought, held, calls, tools, textBlock, next, stop, usage>>
           [] GeminiClient /\ source = "anthropic" /\ up.kind = "tool" ->
                /\ calls' = (key :> old \o tools[up.tool].args) @@ calls
                /\ tools' = [tools EXCEPT ![up.tool].block = key]
                /\ UNCHANGED <<reader, text, thought, held, textBlock, next, stop, usage>>
           [] up.buffer # <<>> -> GeminiChunk(thinks, <<>>, "none")
           [] OTHER -> Silently
      /\ UNCHANGED <<lines, pieces, sent>> /\ Fixed

(* message_delta, or the end of a response.  The converter of Responses    *)
(* events knows response.completed only, not response.incomplete.          *)
ToolsSeen == up.tool > 0
UpstreamFinish(f, u) ==
  /\ Running /\ source \in {"anthropic", "responses"} /\ up.kind = "none"
  /\ f # "length" => (f = "tool_calls" <=> ToolsSeen)
  /\ up' = [up EXCEPT !.finish = f]
  /\ sent' = [sent EXCEPT !.finishes = {f}, !.usage = u]
  /\ CASE source = "anthropic" /\ GeminiClient -> GeminiChunk(<<>>, <<>>, f)
       [] target = "claude" /\ f # "length" ->
            /\ Say(<<End>>) /\ usage' = u
            /\ stop' = IF HasToolCalls THEN "tool_use" ELSE "end_turn"
            /\ UNCHANGED <<text, thought, held, calls, tools, textBlock, next>>
       [] target = "chat" ->
            /\ Say(<<Finish>>) /\ usage' = u
            /\ stop' = CASE f = "tool_calls" -> "tool_use" [] f = "length" -> "max_tokens" [] OTHER -> "end_turn"
            /\ UNCHANGED <<text, thought, held, calls, tools, textBlock, next>>
       [] OTHER -> Silently
  /\ UNCHANGED <<lines, pieces>> /\ Fixed

(* A Gemini chunk toward a chat client: thoughts and calls are dropped.    *)
GeminiParts(texts, thinks, f) ==
  /\ Running /\ source = "gemini"
  /\ Delivers(texts + thinks)
  /\ text' = text \o Pieces(texts)
  /\ sent' = [sent EXCEPT !.texts = @ \cup Range(Pieces(texts)),
                          !.finishes = IF f = "none" THEN @ ELSE {f}]
  /\ up' = [up EXCEPT !.finish = f]
  /\ Say((IF texts > 0 THEN <<Part>> ELSE <<>>) \o (IF f # "none" THEN <<Finish>> ELSE <<>>))
  /\ stop' = IF f = "none" THEN stop ELSE FinishSaid(f)
  /\ UNCHANGED <<thought, held, calls, tools, textBlock, next, usage>> /\ Fixed

(* The upstream closes; before its finish that is a broken stream, which   *)
(* none of the converters reports in the client's format.                  *)
CrossEnds ==
  /\ Crossed /\ ended = "no"
  /\ ended' = IF up.finish = "none" THEN "broken" ELSE "flushed"
  /\ calls' = NoCalls
  /\ UNCHANGED <<target, source, reader, lines, pieces, held, text, thought, textBlock, thinkingBlock,
                 next, tools, last, usage, stop, sent, up>>

Finishes == {"none", "stop", "length", "tool_calls"}

CrossNext ==
  \/ ~Crossed /\ Next /\ UNCHANGED <<source, up, calls>>
  \/ \E c \in Contents \cup {<<>>}, reasons \in BOOLEAN, f \in Finishes :
       (c # <<>> \/ reasons \/ f # "none") /\ ChatChunk(c, reasons, f)
  \/ \E t \in Tools : \E id, name, args \in BOOLEAN : (id \/ name \/ args) /\ ChatFragment(t, id, name, args)
  \/ \E kind \in {"text", "thinking", "tool"} : BlockStart(kind)
  \/ \E c \in Contents : (GeminiClient \/ c = <<"t">>) /\ TextDelta(c)
  \/ ThinkingDelta \/ ArgumentsDelta \/ BlockStop
  \/ \E f \in Finishes \ {"none"}, u \in 0..1 : UpstreamFinish(f, u)
  \/ \E texts, thinks \in 0..1, f \in {"none", "stop", "length"} : GeminiParts(texts, thinks, f)
  \/ CrossEnds
  \/ Crossed /\ ended # "no" /\ UNCHANGED cvars

CrossSpec == CrossInit /\ [][CrossNext]_cvars

-----------------------------------------------------------------------------
StreamsTypeOK ==
  /\ target \in Targets \cup {r[2] : r \in Routes}
  /\ TypeOK
  /\ source \in {"chat"} \cup {r[1] : r \in Routes}
  /\ up.kind \in {"none", "text", "thinking", "tool"} /\ up.count \in 0..MaxBlocks
  /\ up.finish \in Finishes
  /\ DOMAIN calls \subseteq Nat

(* What a converter cannot do right: a second text item after the first    *)
(* was closed (Responses to Claude), arguments of a call that is not the   *)
(* first block (Anthropic to chat).                                        *)
Expressible ==
  CASE target = "claude" -> up.texts <= 1
    [] target = "chat" -> \A t \in Tools : tools[t].block \in {None, 0}
    [] OTHER -> TRUE
HasEnd ==
  /\ target # "interactions"
  /\ source = "responses" => target = "claude" /\ up.finish # "length"

(* Whatever converter it comes from, the client gets a well-formed stream  *)
(* that is complete when the upstream's was, for what the converter can    *)
(* express.                                                                *)
StreamsWellFormed ==
  IF ~Crossed THEN WellFormed
  ELSE /\ Expressible => reader.phase # "broken"
       /\ Expressible /\ HasEnd /\ ended = "flushed" => reader.phase = "ended"

(* Text and thoughts reach the client once and in order; a converter of    *)
(* ChatStream may hold text back until the stream ends, and not after it   *)
(* (TextConserved names what it drops there), and thoughts are buffered    *)
(* only while their block is open.  The arguments of a call come whole and *)
(* under their own call.                                                   *)
KeepsThoughts == GeminiClient /\ source # "responses"
ContentConserved ==
  IF ~Crossed THEN TextConserved /\ ToolInputDelivered
  ELSE /\ ~up.spoilt => 
            /\ Sorted(text) /\ Sorted(thought) /\ Range(thought) \cap Range(text) = {}
            /\ Range(text) \cup Range(thought) \cup Range(up.buffer)
                 = sent.texts \cup (IF KeepsThoughts THEN sent.reasoning ELSE {})
       /\ Expressible => ToolInputDelivered
       /\ GeminiClient /\ source # "responses" /\ ended = "flushed" =>
            \A t \in Tools : tools[t].name => tools[t].whole

(* The end tells the truth about the turn: a truncation, calls to run, and *)
(* the usage the upstream reported.                                        *)
EndIsTrue ==
  /\ StopReasonSound
  /\ ~Crossed => UsageReported
  /\ Crossed /\ HasEnd /\ ended = "flushed" =>
       /\ sent.finishes = {"length"} => stop = "max_tokens"
       /\ target \in {"claude", "chat"} => usage = sent.usage
=============================================================================
